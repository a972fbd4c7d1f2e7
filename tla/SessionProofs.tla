---------------------------- MODULE SessionProofs ----------------------------
(***************************************************************************)
(* The rules of a game, for every number of rounds, codes and seats.       *)
(* The inductive invariant is about a list of rounds, and holds of both    *)
(* lists the module keeps: the session as it runs, and its last snapshot.  *)
(***************************************************************************)
EXTENDS Session, FiniteSetTheorems, TLAPS

-----------------------------------------------------------------------------
\* Round i of a session is encrypted by the player whose turn it is
Turn(rs, i) ==
    /\ rs[i].currentTeam = IF i % 2 = 1 THEN 1 ELSE 2
    /\ rs[i].encryptor = ((i - 1) \div 2) % Size[rs[i].currentTeam]

Shape(rs) ==
    /\ rs \in Seq(Round)
    /\ ValidSnapshot(rs)
    /\ \A i \in DOMAIN rs : Turn(rs, i)

\* Nobody has won while a round is being played, so nobody has more than two
\* tokens of a kind once it is revealed
Bounded(rs) ==
    /\ \A t \in Teams : /\ Recount(rs)[t].interceptions <= 2
                        /\ Recount(rs)[t].errors <= 2
    /\ IsGameOver(Recount(rs)) => rs # <<>> /\ rs[Len(rs)].state = "DONE"

Inv ==
    /\ TypeOK
    /\ Shape(rounds) /\ Shape(saved)
    /\ control \in {"start", "over"} /\ rounds # <<>> => Current.state = "DONE"
    /\ TokensAgree
    /\ Bounded(rounds) /\ Bounded(saved)
    /\ SessionContinues(saved, rounds)

-----------------------------------------------------------------------------
(* Lists of rounds *)

LEMMA SizeType == \A t \in Teams : Size[t] \in 2..4
BY SessionAssumption

LEMMA SetCurrentType ==
    ASSUME NEW rs \in Seq(Round), rs # <<>>, NEW r \in Round,
           NEW ss, ss = [rs EXCEPT ![Len(rs)] = r]
    PROVE  /\ ss \in Seq(Round) /\ Len(ss) = Len(rs) /\ DOMAIN ss = 1..Len(rs)
           /\ DOMAIN rs = 1..Len(rs)
           /\ Len(rs) \in DOMAIN rs /\ ss[Len(rs)] = r
           /\ \A i \in 1..Len(rs) : i # Len(rs) => ss[i] = rs[i]
OBVIOUS

\* The finished rounds of a team are finitely many
LEMMA CountsFinite ==
    ASSUME NEW rs \in Seq(Round), NEW t \in Teams
    PROVE  /\ IsFiniteSet(InterceptedBy(rs, t)) /\ IsFiniteSet(FailedBy(rs, t))
           /\ Cardinality(InterceptedBy(rs, t)) \in Nat
           /\ Cardinality(FailedBy(rs, t)) \in Nat
<1>1. IsFiniteSet(1..Len(rs))
  BY FS_Interval
<1>2. InterceptedBy(rs, t) \subseteq 1..Len(rs) /\ FailedBy(rs, t) \subseteq 1..Len(rs)
  BY DEF InterceptedBy, FailedBy
<1>3. QED
  BY <1>1, <1>2, FS_Subset, FS_CardinalityType

\* Only finished rounds count: two lists with the same finished rounds add up to
\* the same tokens
LEMMA SameDone ==
    ASSUME NEW rs \in Seq(Round), NEW ss \in Seq(Round),
           \A i \in DOMAIN rs : rs[i].state = "DONE" => i \in DOMAIN ss /\ ss[i] = rs[i],
           \A i \in DOMAIN ss : ss[i].state = "DONE" => i \in DOMAIN rs /\ ss[i] = rs[i]
    PROVE  Recount(rs) = Recount(ss)
<1>1. ASSUME NEW t \in Teams
      PROVE  InterceptedBy(rs, t) = InterceptedBy(ss, t) /\ FailedBy(rs, t) = FailedBy(ss, t)
  BY DEF InterceptedBy, FailedBy
<1>2. QED
  BY <1>1 DEF Recount

LEMMA RecountType ==
    ASSUME NEW rs \in Seq(Round)
    PROVE  Recount(rs) \in Tokens
BY CountsFinite DEF Recount, Tokens

LEMMA NoRounds == Recount(<<>>) = NoTokens /\ Shape(<<>>) /\ Bounded(<<>>)
<1>1. \A t \in Teams : InterceptedBy(<<>>, t) = {} /\ FailedBy(<<>>, t) = {}
  BY DEF InterceptedBy, FailedBy
<1>2. Recount(<<>>) = NoTokens
  BY <1>1, FS_EmptySet DEF Recount, NoTokens
<1>3. Shape(<<>>)
  BY SessionAssumption DEF Shape, ValidSnapshot
<1>4. Bounded(<<>>)
  BY <1>2 DEF Bounded, NoTokens, IsGameOver, Wins, Teams, Other
<1> QED
  BY <1>2, <1>3, <1>4

-----------------------------------------------------------------------------
(* Changes of a list of rounds *)

LEMMA ContinuesSelf ==
    ASSUME NEW r \in Round PROVE Continues(r, r)
BY DEF Continues, Rank, Round, States

LEMMA ContinuesOn ==
    ASSUME NEW q \in Round, NEW r \in Round, NEW s \in Round,
           Continues(q, r), Continues(r, s)
    PROVE  Continues(q, s)
BY DEF Continues, Rank, Round, States

\* What a step makes of the current round is that round, later
LEMMA RoundForward ==
    ASSUME NEW q \in Round, NEW state \in States, Rank(q.state) <= Rank(state),
           NEW r, r = [q EXCEPT !.state = state]
    PROVE  /\ r \in Round /\ Continues(q, r) /\ r.state = state /\ r.n = q.n
           /\ r.decrypted = q.decrypted /\ r.intercepted = q.intercepted
<1>1. r \in Round /\ r.state = state /\ r.n = q.n
  BY DEF Round
<1>2. r.decrypted = q.decrypted /\ r.intercepted = q.intercepted
  BY DEF Round
<1>3. Continues(q, r)
  BY DEF Continues, Round
<1> QED
  BY <1>1, <1>2, <1>3

LEMMA CluesWritten ==
    ASSUME NEW q \in Round, q.state = "ENCRYPTING", NEW c \in Clues,
           NEW r, r = [q EXCEPT !.clues = c, !.state = "GUESSING"]
    PROVE  /\ r \in Round /\ Continues(q, r) /\ r.state = "GUESSING"
           /\ r.decrypted = q.decrypted /\ r.intercepted = q.intercepted
<1>1. r \in Round /\ r.state = "GUESSING"
  BY DEF Round, States
<1>2. r.decrypted = q.decrypted /\ r.intercepted = q.intercepted
  BY DEF Round
<1>3. Rank("ENCRYPTING") = 2 /\ Rank("GUESSING") = 3
  BY DEF Rank
<1>4. Continues(q, r)
  BY <1>3 DEF Continues, Round
<1> QED
  BY <1>1, <1>2, <1>4

LEMMA DecryptFilled ==
    ASSUME NEW q \in Round, q.state = "GUESSING", ~q.decrypted,
           NEW g \in Codes \cup {NoCode},
           NEW r, r = [q EXCEPT !.decrypt = g, !.decrypted = TRUE]
    PROVE  /\ r \in Round /\ Continues(q, r) /\ r.state = "GUESSING"
           /\ r.intercepted = q.intercepted /\ r.n = q.n
<1>1. r \in Round /\ r.state = "GUESSING" /\ r.n = q.n
  BY DEF Round
<1>2. r.intercepted = q.intercepted
  BY DEF Round
<1>3. Rank("GUESSING") = 3
  BY DEF Rank
<1>4. Continues(q, r)
  BY <1>3 DEF Continues, Round
<1> QED
  BY <1>1, <1>2, <1>4

LEMMA InterceptFilled ==
    ASSUME NEW q \in Round, q.state = "GUESSING", ~q.intercepted,
           NEW g \in Codes \cup {NoCode},
           NEW r, r = [q EXCEPT !.intercept = g, !.intercepted = TRUE]
    PROVE  r \in Round /\ Continues(q, r) /\ r.state = "GUESSING" /\ r.n = q.n
<1>1. r \in Round /\ r.state = "GUESSING" /\ r.n = q.n
  BY DEF Round
<1>2. Rank("GUESSING") = 3
  BY DEF Rank
<1>3. Continues(q, r)
  BY <1>2 DEF Continues, Round
<1> QED
  BY <1>1, <1>3

\* The guesses nobody gave are filled in, and only those
LEMMA GuessesFilled ==
    ASSUME NEW q \in Round, q.state = "GUESSING", q.intercepted => q.n > 2,
           NEW f, f = FillGuesses(q),
           NEW r, r = [f EXCEPT !.state = "DONE"]
    PROVE  /\ f \in Round /\ r \in Round /\ Continues(q, r)
           /\ r.state = "DONE" /\ r.n = q.n /\ r.decrypted
           /\ r.n > 2 => r.intercepted
           /\ r.intercepted => r.n > 2
<1>1. f \in Round
  BY DEF FillGuesses, Round, NeedsIntercept, HasInterception
<1>2. r \in Round /\ r.state = "DONE" /\ r.n = q.n /\ f.n = q.n
  BY <1>1 DEF FillGuesses, Round, States
<1>3. f.decrypted /\ r.decrypted
  BY <1>1 DEF FillGuesses, Round
<1>4. r.intercepted = f.intercepted
  BY <1>1 DEF Round
<1>5. f.intercepted <=> (q.intercepted \/ NeedsIntercept(q))
  BY DEF FillGuesses, Round
<1>6. (r.n > 2 => r.intercepted) /\ (r.intercepted => r.n > 2)
  BY <1>2, <1>4, <1>5 DEF NeedsIntercept, HasInterception
<1>7. Rank("GUESSING") = 3 /\ Rank("DONE") = 4
  BY DEF Rank
<1>8. /\ r.currentTeam = q.currentTeam /\ r.encryptor = q.encryptor
      /\ r.secret = q.secret /\ r.clues = q.clues
      /\ r.decrypt = q.decrypt /\ r.intercept = q.intercept
  BY DEF FillGuesses, Round
<1>9. q.intercepted => r.intercepted
  BY <1>4, <1>5
<1>10. Continues(q, r)
  BY <1>2, <1>3, <1>7, <1>8, <1>9 DEF Continues
<1> QED
  BY <1>1, <1>2, <1>3, <1>6, <1>10

LEMMA SessionContinuesOn ==
    ASSUME NEW qs \in Seq(Round), NEW rs \in Seq(Round), NEW ss \in Seq(Round),
           SessionContinues(qs, rs), SessionContinues(rs, ss)
    PROVE  SessionContinues(qs, ss)
<1>1. Len(qs) <= Len(ss)
  BY DEF SessionContinues
<1>2. ASSUME NEW i \in DOMAIN qs PROVE Continues(qs[i], ss[i])
  <2>1. i \in DOMAIN rs /\ i \in DOMAIN ss
    BY <1>2 DEF SessionContinues
  <2>2. qs[i] \in Round /\ rs[i] \in Round /\ ss[i] \in Round
    BY <1>2, <2>1
  <2>3. Continues(qs[i], rs[i]) /\ Continues(rs[i], ss[i])
    BY <1>2, <2>1 DEF SessionContinues
  <2> QED
    BY <2>2, <2>3, ContinuesOn
<1> QED
  BY <1>1, <1>2 DEF SessionContinues

LEMMA SessionContinuesSelf ==
    ASSUME NEW rs \in Seq(Round) PROVE SessionContinues(rs, rs)
BY ContinuesSelf DEF SessionContinues

\* The player after seat (k - 3) div 2 of a team of S
LEMMA NextSeat ==
    ASSUME NEW S \in 2..4, NEW k \in Nat, k >= 3
    PROVE  ((((k - 3) \div 2) % S) + 1) % S = ((k - 1) \div 2) % S
<1>1. (k - 1) \div 2 = ((k - 3) \div 2) + 1 /\ (k - 3) \div 2 \in Nat
  OBVIOUS
<1>2. ASSUME NEW j \in Nat PROVE ((j % S) + 1) % S = (j + 1) % S
  <2>1. CASE S = 2
    BY <2>1
  <2>2. CASE S = 3
    BY <2>2
  <2>3. CASE S = 4
    BY <2>3
  <2> QED
    BY <2>1, <2>2, <2>3
<1> QED
  BY <1>1, <1>2

\* createNewRound, of a session whose rounds are all finished
LEMMA AppendRound ==
    ASSUME NEW rs, Shape(rs), Len(rs) < MaxRounds,
           rs # <<>> => rs[Len(rs)].state = "DONE",
           NEW secret \in Codes,
           NEW ss, ss = Append(rs, NewRound(rs, secret))
    PROVE  /\ Shape(ss) /\ ss # <<>> /\ ss[Len(ss)].state = "NEW"
           /\ Len(ss) = Len(rs) + 1
           /\ Recount(ss) = Recount(rs)
           /\ SessionContinues(rs, ss)
<1> DEFINE k == Len(rs) + 1
           r == NewRound(rs, secret)
           t == IF k % 2 = 1 THEN 1 ELSE 2
<1>1. rs \in Seq(Round) /\ k \in Nat \ {0} /\ k <= MaxRounds /\ MaxRounds \in Nat
  BY SessionAssumption DEF Shape
<1>2. \A i \in DOMAIN rs : ValidRound(rs, i) /\ Turn(rs, i)
  BY DEF Shape, ValidSnapshot
<1>3. r.currentTeam = t
  <2>1. CASE rs = <<>>
    BY <2>1 DEF NewRound
  <2>2. CASE rs # <<>>
    <3>1. Len(rs) \in DOMAIN rs /\ rs[Len(rs)].currentTeam = IF Len(rs) % 2 = 1 THEN 1 ELSE 2
      BY <1>1, <1>2, <2>2 DEF Turn
    <3> QED
      BY <1>1, <2>2, <3>1 DEF NewRound, Other
  <2> QED
    BY <2>1, <2>2
<1>4. r.encryptor = ((k - 1) \div 2) % Size[t]
  <2>1. CASE k > 2
    <3>1. k - 2 \in DOMAIN rs /\ (k - 2) % 2 = k % 2
      BY <1>1, <2>1
    <3>2. rs[k - 2].currentTeam = t /\ rs[k - 2].encryptor = ((k - 3) \div 2) % Size[t]
      <4>1. Turn(rs, k - 2) /\ (k - 2) - 1 = k - 3
        BY <1>1, <1>2, <3>1
      <4>2. rs[k - 2].currentTeam = t
        BY <3>1, <4>1 DEF Turn
      <4> QED
        BY <4>1, <4>2 DEF Turn
    <3>3. r.encryptor = (rs[k - 2].encryptor + 1) % Size[t]
      BY <1>1, <1>3, <2>1 DEF NewRound, NextEncryptor
    <3>4. Size[t] \in 2..4
      BY SizeType DEF Teams
    <3>5. k \in Nat /\ k >= 3
      BY <1>1, <2>1
    <3> HIDE DEF k, r, t
    <3>6. ((((k - 3) \div 2) % Size[t]) + 1) % Size[t] = ((k - 1) \div 2) % Size[t]
      BY <3>4, <3>5, NextSeat
    <3> QED
      BY <3>2, <3>3, <3>6
  <2>2. CASE k \in 1..2
    <3>1. r.encryptor = 0 /\ (k - 1) \div 2 = 0
      BY <1>1, <2>2 DEF NewRound, NextEncryptor
    <3>2. 0 % Size[t] = 0
      BY SizeType DEF Teams
    <3> QED
      BY <3>1, <3>2
  <2> QED
    BY <1>1, <2>1, <2>2
<1>5. r.encryptor \in Nat /\ r.encryptor < Size[t]
  <2>1. Size[t] \in 2..4 /\ (k - 1) \div 2 \in Nat
    BY <1>1, SizeType DEF Teams
  <2> QED
    BY <1>4, <2>1
<1>6. r \in Round /\ r.n = k /\ r.state = "NEW" /\ ~r.decrypted /\ ~r.intercepted
      /\ r.secret \in Codes
  BY <1>1, <1>3, <1>5 DEF NewRound, Round, States, Teams
<1>7. /\ ss \in Seq(Round) /\ Len(ss) = k /\ DOMAIN ss = 1..k /\ ss[k] = r
      /\ DOMAIN rs = 1..(k - 1)
      /\ \A i \in 1..(k - 1) : ss[i] = rs[i]
  BY <1>1, <1>6
<1>8. ASSUME NEW i \in 1..k PROVE ValidRound(ss, i) /\ Turn(ss, i)
  <2>1. CASE i = k
    BY <1>3, <1>4, <1>5, <1>6, <1>7, <2>1 DEF ValidRound, Turn
  <2>2. CASE i \in 1..(k - 1)
    <3>1. ValidRound(rs, i) /\ Turn(rs, i) /\ ss[i] = rs[i] /\ rs[i].state = "DONE"
      BY <1>1, <1>2, <1>7, <2>2 DEF ValidRound
    <3> QED
      BY <1>7, <3>1 DEF ValidRound, Turn
  <2> QED
    BY <1>1, <2>1, <2>2
<1>9. Shape(ss)
  BY <1>1, <1>7, <1>8 DEF Shape, ValidSnapshot
<1>10. Recount(ss) = Recount(rs)
  <2>1. ASSUME NEW i \in DOMAIN rs PROVE i \in DOMAIN ss /\ ss[i] = rs[i]
    BY <1>1, <1>7
  <2>2. ASSUME NEW i \in DOMAIN ss, ss[i].state = "DONE" PROVE i \in DOMAIN rs
    BY <1>1, <1>6, <1>7, <2>2
  <2> QED
    BY <1>1, <1>7, <2>1, <2>2, SameDone
<1>11. SessionContinues(rs, ss)
  BY <1>1, <1>7, ContinuesSelf DEF SessionContinues
<1> QED
  BY <1>1, <1>6, <1>7, <1>9, <1>10, <1>11

\* The guesses of a round are those its phase allows, and asks for
GuessesFit(r) ==
    /\ r.intercepted => r.n > 2 /\ r.state \in {"GUESSING", "DONE"}
    /\ r.decrypted => r.state \in {"GUESSING", "DONE"}
    /\ r.state = "DONE" => r.decrypted /\ (r.n > 2 => r.intercepted)

\* The current round, not finished, goes on as r
LEMMA ChangeRound ==
    ASSUME NEW rs, Shape(rs), rs # <<>>, rs[Len(rs)].state # "DONE",
           NEW r \in Round, Continues(rs[Len(rs)], r),
           GuessesFit(r),
           NEW ss, ss = [rs EXCEPT ![Len(rs)] = r]
    PROVE  /\ Shape(ss) /\ ss # <<>> /\ ss[Len(ss)] = r /\ Len(ss) = Len(rs)
           /\ SessionContinues(rs, ss)
<1> DEFINE k == Len(rs)
<1>1. rs \in Seq(Round)
  BY DEF Shape
<1>2. /\ ss \in Seq(Round) /\ Len(ss) = k /\ DOMAIN ss = 1..k /\ ss[k] = r
      /\ DOMAIN rs = 1..k /\ k \in DOMAIN rs /\ \A i \in 1..k : i # k => ss[i] = rs[i]
  BY <1>1, SetCurrentType
<1>3. \A i \in 1..k : ValidRound(rs, i) /\ Turn(rs, i)
  BY <1>2 DEF Shape, ValidSnapshot
<1>4. ASSUME NEW i \in 1..k PROVE ValidRound(ss, i) /\ Turn(ss, i)
  <2>1. CASE i = k
    <3>1. ValidRound(rs, k) /\ Turn(rs, k)
      BY <1>2, <1>3
    <3>2. /\ r.n = rs[k].n /\ r.currentTeam = rs[k].currentTeam
          /\ r.encryptor = rs[k].encryptor /\ r.secret = rs[k].secret
      BY DEF Continues
    <3> QED
      BY <1>2, <2>1, <3>1, <3>2 DEF ValidRound, Turn, GuessesFit
  <2>2. CASE i # k
    BY <1>2, <1>3, <2>2 DEF ValidRound, Turn
  <2> QED
    BY <2>1, <2>2
<1>5. Shape(ss)
  BY <1>2, <1>4 DEF Shape, ValidSnapshot
<1>6. SessionContinues(rs, ss)
  BY <1>1, <1>2, ContinuesSelf DEF SessionContinues
<1>7. Len(rs) # 0
  BY <1>1
<1>8. ss # <<>>
  BY <1>2, <1>7
<1>9. ss[Len(ss)] = r /\ Len(ss) = Len(rs)
  BY <1>2
<1> HIDE DEF k
<1> QED
  BY ONLY <1>5, <1>6, <1>8, <1>9

\* A change of a round that is not its reveal leaves the tokens alone
LEMMA ChangeCount ==
    ASSUME NEW rs \in Seq(Round), rs # <<>>, rs[Len(rs)].state # "DONE",
           NEW r \in Round, r.state # "DONE",
           NEW ss, ss = [rs EXCEPT ![Len(rs)] = r]
    PROVE  Recount(ss) = Recount(rs)
BY SetCurrentType, SameDone

LEMMA SameTokens ==
    ASSUME NEW tk \in Tokens, NEW uk \in Tokens,
           \A t \in Teams : /\ tk[t].interceptions = uk[t].interceptions
                            /\ tk[t].errors = uk[t].errors
    PROVE  tk = uk
<1>1. \A t \in Teams : tk[t] = uk[t]
  BY DEF Tokens
<1> QED
  BY <1>1 DEF Tokens

LEMMA RevealFields ==
    ASSUME NEW tk \in Tokens, NEW r \in Round
    PROVE  /\ RevealTokens(tk, r) \in Tokens
           /\ \A t \in Teams :
                /\ RevealTokens(tk, r)[t].interceptions = tk[t].interceptions +
                      (IF r.currentTeam = Other(t) /\ InterceptScores(r) THEN 1 ELSE 0)
                /\ RevealTokens(tk, r)[t].errors = tk[t].errors +
                      (IF r.currentTeam = t /\ DecryptFails(r) THEN 1 ELSE 0)
<1>1. r.currentTeam = 1 \/ r.currentTeam = 2
  BY DEF Round, Teams
<1>2. CASE r.currentTeam = 1
  BY <1>2 DEF RevealTokens, Tokens, Teams, Other
<1>3. CASE r.currentTeam = 2
  BY <1>3 DEF RevealTokens, Tokens, Teams, Other
<1> QED
  BY <1>1, <1>2, <1>3

\* A revealed round adds its own tokens, once, to those of the rounds before
LEMMA RevealCount ==
    ASSUME NEW rs \in Seq(Round), rs # <<>>, rs[Len(rs)].state # "DONE",
           NEW r \in Round, r.state = "DONE",
           NEW ss, ss = [rs EXCEPT ![Len(rs)] = r]
    PROVE  Recount(ss) = RevealTokens(Recount(rs), r)
<1> DEFINE k == Len(rs)
<1>1. /\ ss \in Seq(Round) /\ Len(ss) = k /\ DOMAIN ss = 1..k /\ ss[k] = r
      /\ DOMAIN rs = 1..k /\ k \in DOMAIN rs /\ \A i \in 1..k : i # k => ss[i] = rs[i]
  BY SetCurrentType
<1>2. \A t \in Teams : k \notin InterceptedBy(rs, t) /\ k \notin FailedBy(rs, t)
  BY DEF InterceptedBy, FailedBy
<1>3. ASSUME NEW t \in Teams
      PROVE  Recount(ss)[t].interceptions =
                Recount(rs)[t].interceptions +
                   (IF r.currentTeam = Other(t) /\ InterceptScores(r) THEN 1 ELSE 0)
  <2>1. InterceptedBy(ss, t) =
          IF r.currentTeam = Other(t) /\ InterceptScores(r)
          THEN InterceptedBy(rs, t) \cup {k} ELSE InterceptedBy(rs, t)
    BY <1>1, <1>2 DEF InterceptedBy
  <2>2. /\ IsFiniteSet(InterceptedBy(rs, t)) /\ Cardinality(InterceptedBy(rs, t)) \in Nat
        /\ k \notin InterceptedBy(rs, t)
    BY <1>2, CountsFinite
  <2>3. Cardinality(InterceptedBy(rs, t) \cup {k}) = Cardinality(InterceptedBy(rs, t)) + 1
    BY <2>2, FS_AddElement
  <2>4. /\ Recount(ss)[t].interceptions = Cardinality(InterceptedBy(ss, t))
        /\ Recount(rs)[t].interceptions = Cardinality(InterceptedBy(rs, t))
    BY DEF Recount
  <2>5. CASE r.currentTeam = Other(t) /\ InterceptScores(r)
    BY <2>1, <2>3, <2>4, <2>5
  <2>6. CASE ~(r.currentTeam = Other(t) /\ InterceptScores(r))
    BY <2>1, <2>2, <2>4, <2>6
  <2> QED
    BY <2>5, <2>6
<1>4. ASSUME NEW t \in Teams
      PROVE  Recount(ss)[t].errors =
                Recount(rs)[t].errors +
                   (IF r.currentTeam = t /\ DecryptFails(r) THEN 1 ELSE 0)
  <2>1. FailedBy(ss, t) =
          IF r.currentTeam = t /\ DecryptFails(r)
          THEN FailedBy(rs, t) \cup {k} ELSE FailedBy(rs, t)
    BY <1>1, <1>2 DEF FailedBy
  <2>2. /\ IsFiniteSet(FailedBy(rs, t)) /\ Cardinality(FailedBy(rs, t)) \in Nat
        /\ k \notin FailedBy(rs, t)
    BY <1>2, CountsFinite
  <2>3. Cardinality(FailedBy(rs, t) \cup {k}) = Cardinality(FailedBy(rs, t)) + 1
    BY <2>2, FS_AddElement
  <2>4. /\ Recount(ss)[t].errors = Cardinality(FailedBy(ss, t))
        /\ Recount(rs)[t].errors = Cardinality(FailedBy(rs, t))
    BY DEF Recount
  <2>5. CASE r.currentTeam = t /\ DecryptFails(r)
    BY <2>1, <2>3, <2>4, <2>5
  <2>6. CASE ~(r.currentTeam = t /\ DecryptFails(r))
    BY <2>1, <2>2, <2>4, <2>6
  <2> QED
    BY <2>5, <2>6
<1>5. Recount(ss) \in Tokens /\ Recount(rs) \in Tokens
  BY <1>1, RecountType
<1>6. RevealTokens(Recount(rs), r) \in Tokens
  BY <1>5, RevealFields
<1>7. ASSUME NEW t \in Teams
      PROVE  /\ Recount(ss)[t].interceptions = RevealTokens(Recount(rs), r)[t].interceptions
             /\ Recount(ss)[t].errors = RevealTokens(Recount(rs), r)[t].errors
  BY <1>3, <1>4, <1>5, RevealFields
<1> QED
  BY <1>5, <1>6, <1>7, SameTokens

-----------------------------------------------------------------------------
(* The invariant *)

\* A round that nobody has won before leaves every count at two or less
LEMMA BoundedReveal ==
    ASSUME NEW rs \in Seq(Round), rs # <<>>, rs[Len(rs)].state # "DONE",
           Bounded(rs),
           NEW r \in Round, r.state = "DONE",
           NEW ss, ss = [rs EXCEPT ![Len(rs)] = r]
    PROVE  Bounded(ss)
<1>1. ~IsGameOver(Recount(rs))
  BY DEF Bounded
<1>2. \A t \in Teams : Recount(rs)[t].interceptions \in 0..1 /\ Recount(rs)[t].errors \in 0..1
  BY <1>1, RecountType DEF IsGameOver, Wins, Tokens, Teams, Other
<1>3. Recount(ss) = RevealTokens(Recount(rs), r)
  BY RevealCount
<1>4. ASSUME NEW t \in Teams
      PROVE  Recount(ss)[t].interceptions <= 2 /\ Recount(ss)[t].errors <= 2
  <2>1. Recount(rs) \in Tokens
    BY RecountType
  <2>2. /\ Recount(ss)[t].interceptions = Recount(rs)[t].interceptions
              + (IF r.currentTeam = Other(t) /\ InterceptScores(r) THEN 1 ELSE 0)
        /\ Recount(ss)[t].errors = Recount(rs)[t].errors
              + (IF r.currentTeam = t /\ DecryptFails(r) THEN 1 ELSE 0)
    BY <1>3, <2>1, RevealFields
  <2>3. Recount(rs)[t].interceptions \in 0..1 /\ Recount(rs)[t].errors \in 0..1
    BY <1>2
  <2> QED
    BY <2>2, <2>3
<1>5. ss # <<>> /\ ss[Len(ss)].state = "DONE"
  <2>1. Len(ss) = Len(rs) /\ ss[Len(rs)] = r /\ Len(rs) \in DOMAIN rs /\ ss \in Seq(Round)
    BY SetCurrentType
  <2>2. Len(ss) # 0
    BY <2>1
  <2> QED
    BY <2>1, <2>2
<1> QED
  BY <1>4, <1>5 DEF Bounded

\* A step of the current round other than its reveal
LEMMA StepInv ==
    ASSUME Inv, control = "forward", Current.state # "DONE",
           NEW r \in Round, Continues(Current, r), r.state # "DONE",
           r.intercepted => r.n > 2 /\ r.state = "GUESSING",
           r.decrypted => r.state = "GUESSING",
           SetCurrent(r),
           tokens' = tokens, control' = control, winner' = winner, saved' = saved
    PROVE  Inv' /\ SessionContinues(saved, saved')
<1>1. /\ rounds \in Seq(Round) /\ rounds # <<>> /\ Shape(rounds) /\ Bounded(rounds)
      /\ saved \in Seq(Round) /\ SessionContinues(saved, rounds)
      /\ tokens = Recount(rounds)
  BY DEF Inv, TypeOK, TokensAgree
<1>2. rounds' = [rounds EXCEPT ![Len(rounds)] = r]
  BY DEF SetCurrent
<1>3. GuessesFit(r)
  BY DEF GuessesFit
<1>4. /\ Shape(rounds') /\ rounds' # <<>> /\ rounds'[Len(rounds')] = r
      /\ Len(rounds') = Len(rounds) /\ SessionContinues(rounds, rounds')
  <2>1. rounds[Len(rounds)].state # "DONE" /\ Continues(rounds[Len(rounds)], r) /\ r \in Round
    BY DEF Current
  <2> QED
    BY ONLY <1>1, <1>2, <1>3, <2>1, ChangeRound
<1>5. Recount(rounds') = Recount(rounds)
  BY <1>1, <1>2, ChangeCount DEF Current
<1>6. SessionContinues(saved, rounds')
  BY <1>1, <1>4, SessionContinuesOn DEF Shape
<1>7. Bounded(rounds')
  BY <1>1, <1>4, <1>5 DEF Bounded, Current
<1>8. TypeOK'
  BY <1>4 DEF Inv, TypeOK, Shape
<1>9. SessionContinues(saved, saved')
  BY <1>1, SessionContinuesSelf
<1> QED
  BY <1>1, <1>4, <1>5, <1>6, <1>7, <1>8, <1>9 DEF Inv, TokensAgree, Current

\* The reveal of the current round
LEMMA RevealInv ==
    ASSUME Inv, control = "forward", Current.state = "GUESSING",
           NEW r \in Round, Continues(Current, r), r.state = "DONE",
           r.decrypted, r.n > 2 => r.intercepted, r.intercepted => r.n > 2,
           SetCurrent(r), tokens' = RevealTokens(tokens, r),
           control' = control, winner' = winner, saved' = saved
    PROVE  Inv' /\ SessionContinues(saved, saved')
<1>1. /\ rounds \in Seq(Round) /\ rounds # <<>> /\ Shape(rounds) /\ Bounded(rounds)
      /\ saved \in Seq(Round) /\ SessionContinues(saved, rounds)
      /\ tokens = Recount(rounds)
  BY DEF Inv, TypeOK, TokensAgree
<1>2. rounds' = [rounds EXCEPT ![Len(rounds)] = r]
  BY DEF SetCurrent
<1>3. GuessesFit(r)
  BY DEF GuessesFit
<1>4. /\ Shape(rounds') /\ rounds' # <<>> /\ rounds'[Len(rounds')] = r
      /\ Len(rounds') = Len(rounds) /\ SessionContinues(rounds, rounds')
  <2>1. rounds[Len(rounds)].state # "DONE" /\ Continues(rounds[Len(rounds)], r)
    BY DEF Current
  <2> QED
    BY ONLY <1>1, <1>2, <1>3, <2>1, r \in Round, ChangeRound
<1>5. Recount(rounds') = tokens'
  BY <1>1, <1>2, RevealCount DEF Current
<1>6. Bounded(rounds')
  BY <1>1, <1>2, BoundedReveal DEF Current
<1>7. SessionContinues(saved, rounds')
  BY <1>1, <1>4, SessionContinuesOn DEF Shape
<1>8. TypeOK'
  BY <1>1, <1>4, <1>5, RecountType DEF Inv, TypeOK, Shape
<1>9. SessionContinues(saved, saved')
  BY <1>1, SessionContinuesSelf
<1> QED
  BY <1>1, <1>4, <1>5, <1>6, <1>7, <1>8, <1>9 DEF Inv, TokensAgree, Current

\* A step that leaves the rounds alone
LEMMA ControlInv ==
    ASSUME Inv, control' \in {"start", "over", "stopped"},
           control' \in {"start", "over"} /\ rounds # <<>> => Current.state = "DONE",
           winner' \in Teams \cup {0},
           rounds' = rounds, tokens' = tokens, saved' = saved
    PROVE  Inv' /\ SessionContinues(saved, saved')
<1>1. TypeOK'
  BY DEF Inv, TypeOK
<1>2. SessionContinues(saved, saved')
  BY SessionContinuesSelf DEF Inv, TypeOK
<1> QED
  BY <1>1, <1>2 DEF Inv, TokensAgree, Current

LEMMA InitInv == SessionInit => Inv
<1> SUFFICES ASSUME SessionInit PROVE Inv
  OBVIOUS
<1>1. Shape(<<>>) /\ Bounded(<<>>) /\ Recount(<<>>) = NoTokens
  BY NoRounds
<1>2. TypeOK
  BY <1>1, RecountType, SessionAssumption DEF SessionInit, TypeOK, Shape, ValidSnapshot
<1>3. SessionContinues(<<>>, <<>>)
  BY DEF SessionContinues
<1> QED
  BY <1>1, <1>2, <1>3 DEF SessionInit, Inv, TokensAgree

LEMMA NextInv == Inv /\ [SessionNext]_sessionVars => Inv' /\ SessionContinues(saved, saved')
<1> SUFFICES ASSUME Inv, [SessionNext]_sessionVars
             PROVE  Inv' /\ SessionContinues(saved, saved')
  OBVIOUS
<1>1. /\ rounds \in Seq(Round) /\ saved \in Seq(Round) /\ Shape(rounds) /\ Shape(saved)
      /\ tokens = Recount(rounds) /\ SessionContinues(saved, rounds)
      /\ Bounded(rounds) /\ Bounded(saved)
      /\ Len(rounds) <= MaxRounds /\ Len(rounds) \in Nat /\ MaxRounds \in Nat
  BY SessionAssumption DEF Inv, TypeOK, TokensAgree
<1>2. ASSUME rounds # <<>>
      PROVE  /\ Current \in Round /\ Len(rounds) \in DOMAIN rounds
             /\ ValidRound(rounds, Len(rounds)) /\ Current.n = Len(rounds)
  <2>1. Len(rounds) \in DOMAIN rounds
    BY <1>1, <1>2
  <2> QED
    BY <1>1, <2>1 DEF Current, Shape, ValidSnapshot, ValidRound
<1>3. control = "forward" => rounds # <<>>
  BY DEF Inv, TypeOK
<1>4. CASE GameOver
  <2>1. winner' \in Teams \cup {0}
    BY <1>4 DEF GameOver, WinnerOf, Leader, IsGameOver, Teams
  <2> QED
    BY <1>4, <2>1, ControlInv DEF GameOver, Inv
<1>5. CASE StartRound
  <2>1. PICK secret \in Codes : rounds' = Append(rounds, NewRound(rounds, secret))
    BY <1>5 DEF StartRound
  <2>2. Len(rounds) < MaxRounds
    <3>1. CASE rounds = <<>>
      BY <3>1, SessionAssumption
    <3>2. CASE rounds # <<>>
      BY <1>1, <1>2, <1>5, <3>2 DEF StartRound, FinalRound
    <3> QED
      BY <3>1, <3>2
  <2>3. rounds # <<>> => rounds[Len(rounds)].state = "DONE"
    BY <1>5 DEF StartRound, Inv, Current
  <2>4. /\ Shape(rounds') /\ rounds' # <<>> /\ Len(rounds') = Len(rounds) + 1
        /\ Recount(rounds') = Recount(rounds) /\ SessionContinues(rounds, rounds')
    BY <1>1, <2>1, <2>2, <2>3, AppendRound
  <2>5. tokens' = tokens /\ winner' = winner /\ saved' = saved /\ control' = "forward"
        /\ ~IsGameOver(tokens)
    BY <1>5 DEF StartRound
  <2>6. SessionContinues(saved, rounds')
    BY <1>1, <2>4, SessionContinuesOn DEF Shape
  <2>7. Bounded(rounds')
    BY <1>1, <2>4, <2>5 DEF Bounded
  <2>8. TypeOK'
    BY <1>1, <2>2, <2>4, <2>5 DEF Inv, TypeOK, Shape
  <2>9. SessionContinues(saved, saved')
    BY <1>1, <2>5, SessionContinuesSelf
  <2> QED
    BY <1>1, <2>4, <2>5, <2>6, <2>7, <2>8, <2>9 DEF Inv, TokensAgree
<1>6. CASE EnterInit
  <2> DEFINE r == [Current EXCEPT !.state = "INIT"]
  <2>1. control = "forward" /\ Current \in Round /\ Current.state = "NEW"
    BY <1>2, <1>3, <1>6 DEF EnterInit, In
  <2>2. "INIT" \in States /\ Rank(Current.state) <= Rank("INIT")
    BY <2>1 DEF States, Rank
  <2>3. ~Current.intercepted /\ ~Current.decrypted
    BY <1>2, <1>3, <2>1 DEF ValidRound, Current
  <2>4. SetCurrent(r) /\ UNCHANGED <<tokens, control, winner, saved>>
    BY <1>6 DEF EnterInit
  <2> HIDE DEF r
  <2>5. /\ r \in Round /\ Continues(Current, r) /\ r.state = "INIT"
        /\ r.decrypted = Current.decrypted /\ r.intercepted = Current.intercepted
    BY <2>1, <2>2, RoundForward DEF r
  <2> QED
    BY <2>1, <2>3, <2>4, <2>5, StepInv
<1>7. CASE InitDone
  <2> DEFINE r == [Current EXCEPT !.state = "ENCRYPTING"]
  <2>1. control = "forward" /\ Current \in Round /\ Current.state = "INIT"
    BY <1>2, <1>3, <1>7 DEF InitDone, In
  <2>2. "ENCRYPTING" \in States /\ Rank(Current.state) <= Rank("ENCRYPTING")
    BY <2>1 DEF States, Rank
  <2>3. ~Current.intercepted /\ ~Current.decrypted
    BY <1>2, <1>3, <2>1 DEF ValidRound, Current
  <2>4. SetCurrent(r) /\ UNCHANGED <<tokens, control, winner, saved>>
    BY <1>7 DEF InitDone
  <2> HIDE DEF r
  <2>5. /\ r \in Round /\ Continues(Current, r) /\ r.state = "ENCRYPTING"
        /\ r.decrypted = Current.decrypted /\ r.intercepted = Current.intercepted
    BY <2>1, <2>2, RoundForward DEF r
  <2> QED
    BY <2>1, <2>3, <2>4, <2>5, StepInv
<1>8. ASSUME NEW c \in Clues, EncryptDone(c)
      PROVE  Inv' /\ SessionContinues(saved, saved')
  <2> DEFINE r == [Current EXCEPT !.clues = c, !.state = "GUESSING"]
  <2>1. control = "forward" /\ Current \in Round /\ Current.state = "ENCRYPTING"
    BY <1>2, <1>3, <1>8 DEF EncryptDone, In
  <2>2. ~Current.intercepted /\ ~Current.decrypted
    BY <1>2, <1>3, <2>1 DEF ValidRound, Current
  <2>3. SetCurrent(r) /\ UNCHANGED <<tokens, control, winner, saved>>
    BY <1>8 DEF EncryptDone
  <2> HIDE DEF r
  <2>4. /\ r \in Round /\ Continues(Current, r) /\ r.state = "GUESSING"
        /\ r.decrypted = Current.decrypted /\ r.intercepted = Current.intercepted
    BY <2>1, CluesWritten DEF r
  <2> QED
    BY <2>1, <2>2, <2>3, <2>4, StepInv
<1>9. ASSUME NEW g \in Codes \cup {NoCode}, GiveDecrypt(g)
      PROVE  Inv' /\ SessionContinues(saved, saved')
  <2> DEFINE r == [Current EXCEPT !.decrypt = g, !.decrypted = TRUE]
  <2>1. /\ control = "forward" /\ Current \in Round /\ Current.state = "GUESSING"
        /\ ~Current.decrypted
    BY <1>2, <1>3, <1>9 DEF GiveDecrypt, In, NeedsDecrypt
  <2>2. Current.intercepted => Current.n > 2
    BY <1>2, <1>3, <2>1 DEF ValidRound, Current
  <2>3. SetCurrent(r) /\ UNCHANGED <<tokens, control, winner, saved>>
    BY <1>9 DEF GiveDecrypt
  <2> HIDE DEF r
  <2>4. /\ r \in Round /\ Continues(Current, r) /\ r.state = "GUESSING"
        /\ r.intercepted = Current.intercepted /\ r.n = Current.n
    BY <2>1, DecryptFilled DEF r
  <2> QED
    BY <2>1, <2>2, <2>3, <2>4, StepInv
<1>10. ASSUME NEW g \in Codes \cup {NoCode}, GiveIntercept(g)
      PROVE  Inv' /\ SessionContinues(saved, saved')
  <2> DEFINE r == [Current EXCEPT !.intercept = g, !.intercepted = TRUE]
  <2>1. /\ control = "forward" /\ Current \in Round /\ Current.state = "GUESSING"
        /\ ~Current.intercepted /\ Current.n > 2
    BY <1>2, <1>3, <1>10 DEF GiveIntercept, In, NeedsIntercept, HasInterception
  <2>2. SetCurrent(r) /\ UNCHANGED <<tokens, control, winner, saved>>
    BY <1>10 DEF GiveIntercept
  <2> HIDE DEF r
  <2>3. r \in Round /\ Continues(Current, r) /\ r.state = "GUESSING" /\ r.n = Current.n
    BY <2>1, InterceptFilled DEF r
  <2> QED
    BY <2>1, <2>2, <2>3, StepInv
<1>11. CASE GuessDone
  <2> DEFINE f == FillGuesses(Current)
             r == [f EXCEPT !.state = "DONE"]
  <2>1. control = "forward" /\ Current \in Round /\ Current.state = "GUESSING" /\ rounds # <<>>
    BY <1>2, <1>3, <1>11 DEF GuessDone, In
  <2>2. Current.intercepted => Current.n > 2
    BY <1>2, <2>1 DEF ValidRound, Current
  <2>3. /\ f \in Round /\ r \in Round /\ Continues(Current, r)
        /\ r.state = "DONE" /\ r.n = Current.n /\ r.decrypted
        /\ r.n > 2 => r.intercepted
        /\ r.intercepted => r.n > 2
    BY <2>1, <2>2, GuessesFilled
  <2>4. /\ rounds' = [rounds EXCEPT ![Len(rounds)] = r] /\ tokens' = RevealTokens(tokens, f)
        /\ control' = control /\ winner' = winner /\ saved' = saved
    BY <1>11 DEF GuessDone, SetCurrent
  <2>5. /\ InterceptScores(f) = InterceptScores(r) /\ DecryptFails(f) = DecryptFails(r)
        /\ f.currentTeam = r.currentTeam
    BY <2>3 DEF InterceptScores, DecryptFails, Round
  <2> HIDE DEF r, f
  <2>6. tokens' = RevealTokens(tokens, r)
    BY <2>4, <2>5 DEF RevealTokens
  <2>7. SetCurrent(r)
    BY <2>4 DEF SetCurrent
  <2> QED
    BY <2>1, <2>3, <2>4, <2>6, <2>7, RevealInv
<1>12. CASE RoundDone
  BY <1>12, ControlInv DEF RoundDone, In, Inv, TypeOK
<1>13. CASE Cancel
  BY <1>13, ControlInv DEF Cancel, Inv, TypeOK
<1>14. CASE Save
  <2>1. saved' = rounds /\ UNCHANGED <<rounds, tokens, control, winner>>
    BY <1>14 DEF Save
  <2>2. SessionContinues(rounds, rounds)
    BY <1>1, SessionContinuesSelf
  <2> QED
    BY <1>1, <2>1, <2>2 DEF Inv, TypeOK, TokensAgree, Current
<1>15. CASE Restart
  <2>1. /\ rounds' = saved /\ tokens' = Recount(saved) /\ saved' = saved /\ winner' = 0
        /\ control' = IF saved = <<>> THEN "start" ELSE "forward"
    BY <1>15 DEF Restart
  <2>2. SessionContinues(saved, saved)
    BY <1>1, SessionContinuesSelf
  <2>3. TypeOK'
    BY <1>1, <2>1, RecountType DEF TypeOK, Shape, ValidSnapshot
  <2> QED
    BY <1>1, <2>1, <2>2, <2>3 DEF Inv, TokensAgree, Current
<1>16. CASE UNCHANGED sessionVars
  <2>1. SessionContinues(saved, saved)
    BY <1>1, SessionContinuesSelf
  <2> QED
    BY <1>16, <2>1 DEF sessionVars, Inv, TypeOK, TokensAgree, Current
<1> QED
  BY <1>4, <1>5, <1>6, <1>7, <1>8, <1>9, <1>10, <1>11, <1>12, <1>13, <1>14, <1>15, <1>16
     DEF SessionNext

-----------------------------------------------------------------------------
(* The theorems *)

LEMMA SpecInv == SessionSpec => []Inv
<1>1. SessionInit => Inv
  BY InitInv
<1>2. Inv /\ [SessionNext]_sessionVars => Inv'
  BY NextInv
<1> QED
  BY <1>1, <1>2, PTL DEF SessionSpec

\* Whatever the code book, the sizes of the teams and the number of rounds, the
\* session keeps its shape: forwarding, saving and restoring never leave it with
\* a round beyond the last, or in a phase without a current round.
THEOREM SessionTypeOK == SessionSpec => []TypeOK
<1>1. Inv => TypeOK
  BY DEF Inv
<1> QED
  BY <1>1, SpecInv, PTL

\* The running tokens are always those Restore would count again from the
\* finished rounds; no team takes a third token of a kind, and no round follows
\* the one that decided the game.
THEOREM SessionTokensRight == SessionSpec => []TokensRight
<1>1. Inv => TokensAgree
  BY DEF Inv
<1>2. Inv => TokensBounded
  BY DEF Inv, Bounded, TokensAgree, TokensBounded, Current
<1>3. Inv => TokensRight
  BY <1>1, <1>2 DEF TokensRight
<1> QED
  BY <1>3, SpecInv, PTL

\* RoundSnapshot.validate accepts every snapshot a game takes of itself, at
\* whatever moment it takes it.
THEOREM SessionSnapshotsAccepted == SessionSpec => []SnapshotsAccepted
<1>1. Inv => SnapshotsAccepted
  BY DEF Inv, Shape, SnapshotsAccepted
<1> QED
  BY <1>1, SpecInv, PTL

\* The members of a team encrypt in turn for as many rounds as there are, for
\* teams of any size: what createNewRound reads two rounds back is enough.
THEOREM SessionTurnsRotate == SessionSpec => []TurnsRotate
<1>1. Inv => TurnsRotate
  BY DEF Inv, Shape, Turn, TurnsRotate
<1> QED
  BY <1>1, SpecInv, PTL

\* A saved code, saved clues and a saved guess are never taken back by a later
\* save, whatever was played, lost and played again in between.
THEOREM SessionSavedStands == SessionSpec => SavedStands
<1>1. Inv /\ [SessionNext]_sessionVars => [SessionContinues(saved, saved')]_sessionVars
  BY NextInv
<1> QED
  BY <1>1, SpecInv, PTL DEF SessionSpec, SavedStands

=============================================================================
