---------------------------- MODULE TableProofs ----------------------------
(***************************************************************************)
(* Module Table for codes of any length an answer outranks, any number of  *)
(* edits and of messages on the way: what the page keeps and is told of a  *)
(* guess is what the server accepted, for whoever may know it.             *)
(***************************************************************************)
EXTENDS Table, FiniteSetTheorems, TLAPS

States == {"none", "idle", "editing", "thinking", "ready", "submitted"}
Progresses == [state : States, step : 0 .. Gates, digits : Drafts \cup {Hidden}, advice : BOOLEAN]
Verdicts == [decrypt : BOOLEAN, intercept : BOOLEAN]
Rows == [decrypt : Drafts, intercept : Drafts]

Heard == [type : {"player_progress"}, seat : Seats, action : Guessing, progress : Progresses]
Closing == [type : {"action_submitted"}, seat : {""}, action : Guessing, progress : {NoProgress}]
Ending == [type : {"round_result", "game_over"}, seat : {""}, action : {"decrypt"}, progress : Verdicts]
Mails == Heard \cup Closing \cup Ending

Sights == [stage : Stages, submitted : [Guessing -> BOOLEAN],
           mates : [Seats -> Progresses], latest : [Guessing -> Progresses],
           result : Seq(Verdicts), row : Seq(Rows)]
Answers == [Guessing -> [state : {"open", "answered", "closed"}, draft : Drafts, by : Seats \cup {""}, told : BOOLEAN]]

ServerShapes ==
    /\ me \in Viewers /\ turn \in {2, 3} /\ stage \in Stages
    /\ answers \in [Guessing -> [state : {"open", "answered", "closed"}, draft : Drafts, by : Seats \cup {""},
                                  told : BOOLEAN]]
    /\ known \in [Seats -> Progresses]
    /\ edits \in Nat
    /\ mail \in Seq(Mails) /\ Len(mail) <= MaxWire
Shapes == ServerShapes /\ sight \in Sights

\* What may be told of a seat
Kept(x, p) == TeamOf(me) # TeamOf(x) /\ RoleOf(me) # "encryptor" => p.digits \in {<<>>, Hidden}
Won(x, p) == p.state = "submitted" =>
    /\ ~p.advice /\ ActionOf(x) # "" /\ answers[ActionOf(x)].by = x
    /\ p.digits \in {answers[ActionOf(x)].draft, Hidden}
Fits(x, p) == Kept(x, p) /\ Won(x, p)

Recorded ==
    /\ \A x \in Seats : Fits(x, known[x]) /\ (ActionOf(x) # "" => known[x].state # "none")
    /\ \A a \in Guessing : /\ answers[a].by # "" <=> answers[a].state = "answered"
                           /\ answers[a].by # "" => ActionOf(answers[a].by) = a
                           /\ answers[a].by # "" => known[answers[a].by].state = "submitted"
                           /\ answers[a].told => answers[a].state # "open"

TellsTruth(m) ==
    CASE m.type = "player_progress" ->
            m.action = ActionOf(m.seat) /\ m.progress.state # "none" /\ Fits(m.seat, m.progress)
      [] m.type = "action_submitted" -> answers[m.action].state # "open"
      [] OTHER -> stage # "guess" /\ m.progress = Result
Delivered == \A i \in 1 .. Len(mail) : TellsTruth(mail[i])

Aired(a, p) == p.state = "submitted" =>
    ~p.advice /\ answers[a].by # "" /\ p.digits \in {answers[a].draft, Hidden}

Seen ==
    /\ \A x \in Seats : Fits(x, sight.mates[x])
    /\ sight.stage = "guess" => \A x \in Seats : ActionOf(x) # "" => sight.mates[x].state # "none"
    /\ \A a \in Guessing : Aired(a, sight.latest[a]) /\ (sight.submitted[a] => answers[a].state # "open")
    /\ sight.stage = "guess" => sight.result = <<>> /\ sight.row = <<>>
    /\ sight.stage # "guess" =>
          stage # "guess" /\ sight.row = <<Row>> /\ sight.result \in {<<>>, <<Result>>}

Pending(a, i) == mail[i].type = "player_progress" /\ mail[i].action = a
ReachesOf(a) == answers[a].state # "open" /\ answers[a].told /\ sight.stage = "guess" =>
    \/ sight.submitted[a]
    \/ \E i \in 1 .. Len(mail) : mail[i].type = "action_submitted" /\ mail[i].action = a
LastWordOf(a) == answers[a].by # "" /\ sight.stage = "guess" =>
    \/ sight.latest[a].state = "submitted" /\ \A i \in 1 .. Len(mail) : ~Pending(a, i)
    \/ \E i \in 1 .. Len(mail) :
          /\ Pending(a, i) /\ mail[i].progress.state = "submitted"
          /\ \A j \in i + 1 .. Len(mail) : ~Pending(a, j)
Reaches == \A a \in Guessing : ReachesOf(a)
LastWord == \A a \in Guessing : LastWordOf(a)

TableInv == Shapes /\ Recorded /\ Delivered /\ Seen /\ Reaches /\ LastWord

-----------------------------------------------------------------------------
\* The seats, the drafts and the letters

LEMMA DraftsAreShort == \A d \in Drafts : d \in Seq({1, 2}) /\ Len(d) \in 0 .. Gates
  BY TableAssumption DEF Drafts

LEMMA NoDraftYet == <<>> \in Drafts
  <1>1. <<>> \in [1 .. 0 -> {1, 2}] /\ 0 \in 0 .. Gates
    BY TableAssumption
  <1> QED
    BY <1>1 DEF Drafts

LEMMA NothingToShow == NoProgress \in Progresses
  BY NoDraftYet, TableAssumption DEF NoProgress, Progresses, States

LEMMA ActionsOfSeats ==
    ASSUME NEW x \in Seats
    PROVE  /\ ActionOf(x) \in Guessing \cup {""}
           /\ ActionOf(x) = "intercept" => turn > 2
           /\ ActionOf(x) # "" => TeamOf(x) = ActingTeam(ActionOf(x)) /\ x # "A1"
           /\ x \in AISeats => ActionOf(x) = "decrypt"
  <1>1. TeamOf(x) = (IF x \in {"B1", "B2"} THEN "B" ELSE "A")
    BY DEF Seats, TeamOf
  <1>2. RoleOf(x) = (IF x = "A1" THEN "encryptor" ELSE IF x \in {"B1", "B2"} THEN "opponent" ELSE "teammate")
    BY <1>1 DEF Seats, RoleOf
  <1>3. ActionOf(x) = (IF RoleOf(x) = "teammate" THEN "decrypt"
                       ELSE IF RoleOf(x) = "opponent" /\ turn > 2 THEN "intercept" ELSE "")
    BY DEF ActionOf, SeatActionAt
  <1> QED
    BY <1>1, <1>2, <1>3 DEF Seats, Guessing, ActingTeam, AISeats

\* What a view keeps of a progress is the progress, or all but its digits
LEMMA ShownIsKept ==
    ASSUME me \in Viewers, NEW x \in Seats, ActionOf(x) # "", NEW p \in Progresses
    PROVE  LET q == Shown(p, me, ActionOf(x)) IN
           /\ q \in Progresses /\ q.state = p.state /\ q.advice = p.advice
           /\ q.digits \in {p.digits, Hidden}
           /\ Kept(x, q)
  <1>1. ActingTeam(ActionOf(x)) = TeamOf(x)
    BY ActionsOfSeats
  <1> QED
    BY <1>1 DEF Shown, ProgressReaders, Kept, Progresses

LEMMA OneMore ==
    ASSUME NEW M, NEW s \in Seq(M), NEW m \in M
    PROVE  /\ s \o <<m>> \in Seq(M) /\ Len(s \o <<m>>) = Len(s) + 1
           /\ \A i \in 1 .. Len(s) : (s \o <<m>>)[i] = s[i]
           /\ (s \o <<m>>)[Len(s) + 1] = m
  OBVIOUS

LEMMA OneLess ==
    ASSUME NEW M, NEW s \in Seq(M), s # <<>>
    PROVE  /\ Head(s) \in M /\ Head(s) = s[1] /\ Len(s) \in Nat \ {0}
           /\ Tail(s) \in Seq(M) /\ Len(Tail(s)) = Len(s) - 1
           /\ \A i \in 1 .. Len(s) - 1 : Tail(s)[i] = s[i + 1]
  OBVIOUS

LEMMA LettersAreCounted ==
    /\ \A s \in Seq(Mails) : Len(s) \in Nat
    /\ Shapes => mail \in Seq(Mails)
  <1>1. \A s \in Seq(Mails) : Len(s) \in Nat
    OBVIOUS
  <1>2. Shapes => mail \in Seq(Mails)
    BY DEF Shapes, ServerShapes
  <1> QED
    BY <1>1, <1>2

-----------------------------------------------------------------------------
\* What stands: the seats, a closed action, a round that is over

Standing ==
    /\ me' = me /\ turn' = turn
    /\ \A a \in Guessing : answers[a].state # "open" =>
          /\ answers'[a].state = answers[a].state /\ answers'[a].draft = answers[a].draft
          /\ answers'[a].by = answers[a].by
    /\ stage # "guess" => stage' # "guess" /\ answers' = answers

LEMMA NextStands == Shapes /\ [TableNext]_tableVars => Standing
  <1> SUFFICES ASSUME Shapes, [TableNext]_tableVars PROVE Standing
    OBVIOUS
  <1>1. ASSUME NEW x \in Seats, NEW d \in Drafts, NEW s, Edit(x, d, s) PROVE Standing
    BY <1>1 DEF Edit, Shapes, ServerShapes, Standing
  <1>2. ASSUME NEW x \in Seats, NEW d \in Drafts, NEW s, Advise(x, d, s) PROVE Standing
    BY <1>2 DEF Advise, Shapes, ServerShapes, Standing
  <1>3. ASSUME NEW x \in Seats, NEW d \in Drafts, Submit(x, d) PROVE Standing
    BY <1>3 DEF Submit, Shapes, ServerShapes, Standing
  <1>4. ASSUME NEW a \in Guessing, ClockCloses(a) PROVE Standing
    BY <1>4 DEF ClockCloses, Shapes, ServerShapes, Standing
  <1>8. ASSUME NEW a \in Guessing, RecordGuess(a) PROVE Standing
    BY <1>8 DEF RecordGuess, Shapes, ServerShapes, Standing, Answers
  <1>5. CASE Reveal \/ GameOver
    BY <1>5 DEF Reveal, GameOver, Shapes, ServerShapes, Standing
  <1>6. CASE Hear \/ Resync
    BY <1>6 DEF Hear, Resync, Shapes, ServerShapes, Standing
  <1>7. CASE UNCHANGED tableVars
    BY <1>7 DEF tableVars, Standing
  <1> QED
    BY <1>1, <1>2, <1>3, <1>4, <1>5, <1>6, <1>7, <1>8 DEF TableNext

LEMMA SeatsStand ==
    ASSUME Standing
    PROVE  /\ \A x : ActionOf(x)' = ActionOf(x)
           /\ stage # "guess" => Row' = Row /\ Result' = Result
  BY DEF Standing, ActionOf, Row, Result

\* What was true of a seat's progress, and of a message, stays true
LEMMA FitsStand ==
    ASSUME Shapes, Recorded, Standing
    PROVE  \A x \in Seats : \A p : Fits(x, p) => Fits(x, p)'
  <1> SUFFICES ASSUME NEW x \in Seats, NEW p, Fits(x, p) PROVE Fits(x, p)'
    OBVIOUS
  <1>1. me' = me /\ ActionOf(x)' = ActionOf(x)
    BY SeatsStand DEF Standing
  <1>2. Kept(x, p)'
    BY <1>1 DEF Fits, Kept
  <1>3. ASSUME p.state = "submitted"
        PROVE  /\ ActionOf(x) # "" /\ answers'[ActionOf(x)].by = answers[ActionOf(x)].by
               /\ answers'[ActionOf(x)].draft = answers[ActionOf(x)].draft
    <2>1. ActionOf(x) \in Guessing /\ answers[ActionOf(x)].by = x
      BY <1>3, ActionsOfSeats DEF Fits, Won
    <2>2. answers[ActionOf(x)].state = "answered"
      BY <2>1 DEF Recorded, Seats
    <2> QED
      BY <2>1, <2>2, ActionsOfSeats DEF Standing, Guessing
  <1> QED
    BY <1>1, <1>2, <1>3 DEF Fits, Won

LEMMA AiredStands ==
    ASSUME Shapes, Recorded, Standing
    PROVE  \A a \in Guessing : \A p : Aired(a, p) => Aired(a, p)'
  BY DEF Aired, Recorded, Standing

LEMMA TruthStands ==
    ASSUME Shapes, Recorded, Standing
    PROVE  \A m \in Mails : TellsTruth(m) => TellsTruth(m)'
  <1> SUFFICES ASSUME NEW m \in Mails, TellsTruth(m) PROVE TellsTruth(m)'
    OBVIOUS
  <1>1. CASE m \in Heard
    <2>1. m.type = "player_progress" /\ m.seat \in Seats /\ Fits(m.seat, m.progress)
      BY <1>1 DEF Heard, TellsTruth
    <2>2. Fits(m.seat, m.progress)' /\ ActionOf(m.seat)' = ActionOf(m.seat)
      BY <2>1, FitsStand, SeatsStand
    <2> QED
      BY <2>1, <2>2 DEF TellsTruth
  <1>2. CASE m \in Closing
    BY <1>2 DEF Closing, TellsTruth, Standing
  <1>3. CASE m \in Ending
    BY <1>3, SeatsStand DEF Ending, TellsTruth, Standing
  <1> QED
    BY <1>1, <1>2, <1>3 DEF Mails

-----------------------------------------------------------------------------
\* What the server records, and what a snapshot of it shows

\* An answer outranks every draft; without one the choice is a seat's own progress
LEMMA RankOfAnswer ==
    ASSUME NEW p \in Progresses
    PROVE  /\ StageRank(p) \in 0 .. 100
           /\ StageRank(p) >= 100 <=> p.state = "submitted" /\ ~p.advice
  BY TableAssumption DEF Progresses, StageRank

LEMMA AggregateIsASeats ==
    ASSUME ServerShapes, Recorded, NEW a \in Guessing
    PROVE  LET p == AggregateProgress(known, a) IN
           /\ p \in Progresses
           /\ Aired(a, p)
           /\ answers[a].by # "" => p.state = "submitted"
  <1> DEFINE seats == {x \in Seats : known[x].state # "none" /\ ActionOf(x) = a}
             Leads(x) == \A y \in seats : StageRank(known[x]) >= StageRank(known[y])
  <1>1. CASE seats = {}
    <2>1. AggregateProgress(known, a) = NoProgress
      BY <1>1 DEF AggregateProgress
    <2>2. answers[a].by = ""
      <3>1. ASSUME answers[a].by # "" PROVE answers[a].by \in seats
        BY <3>1 DEF ServerShapes, Recorded
      <3> QED
        BY <1>1, <3>1
    <2>3. Aired(a, NoProgress)
      BY DEF Aired, NoProgress
    <2> QED
      BY <2>1, <2>2, <2>3, NothingToShow
  <1>2. CASE seats # {}
    <2>1. \A x \in Seats : known[x] \in Progresses
      BY DEF ServerShapes
    <2>2. \A x \in seats : StageRank(known[x]) \in 0 .. 100
      BY <2>1, RankOfAnswer
    <2>3. \E x \in seats : Leads(x)
      <3>1. \/ seats \subseteq {"A2", "A3"}
            \/ seats \subseteq {"B1", "B2"}
        BY DEF Seats, ActionOf, SeatActionAt, RoleOf, TeamOf, Guessing
      <3>2. PICK y, z : y \in seats /\ seats \subseteq {y, z}
        BY <1>2, <3>1
      <3>3. CASE z \in seats /\ StageRank(known[z]) >= StageRank(known[y])
        BY <2>2, <3>2, <3>3
      <3>4. CASE z \notin seats
        BY <2>2, <3>2, <3>4
      <3>5. CASE z \in seats /\ ~(StageRank(known[z]) >= StageRank(known[y]))
        BY <2>2, <3>2, <3>5
      <3> QED
        BY <3>3, <3>4, <3>5
    <2>4. PICK c \in seats : Leads(c) /\ AggregateProgress(known, a) = known[c]
      BY <1>2, <2>3 DEF AggregateProgress
    <2>5. Fits(c, known[c]) /\ ActionOf(c) = a /\ c \in Seats /\ c # ""
      BY <2>4 DEF Recorded, Seats
    <2>6. Aired(a, known[c])
      BY <2>5 DEF Fits, Won, Aired
    <2>7. ASSUME answers[a].by # "" PROVE known[c].state = "submitted"
      <3> DEFINE w == answers[a].by
      <3>1. w \in Seats /\ known[w].state = "submitted" /\ ActionOf(w) = a
        BY <2>7 DEF ServerShapes, Recorded
      <3>2. ~known[w].advice
        BY <3>1 DEF Recorded, Fits, Won
      <3>3. StageRank(known[w]) >= 100
        BY <3>1, <3>2, <2>1, RankOfAnswer
      <3>4. StageRank(known[c]) >= StageRank(known[w])
        BY <2>4, <3>1
      <3>5. StageRank(known[c]) >= 100
        BY <2>2, <2>4, <3>1, <3>3, <3>4
      <3> QED
        BY <2>1, <2>5, <3>5, RankOfAnswer
    <2> QED
      BY <2>1, <2>4, <2>5, <2>6, <2>7
  <1> QED
    BY <1>1, <1>2

LEMMA RowShapes ==
    ASSUME ServerShapes PROVE Row \in Rows /\ Result \in Verdicts
  BY DEF ServerShapes, Answers, Row, Result, Rows, Verdicts, Guessing, Right

\* With a snapshot and nothing on its way the page knows what the server knows
LEMMA SnapshotIsTrue ==
    Shapes /\ Recorded /\ sight = Snapshot /\ mail = <<>> => Seen /\ Reaches /\ LastWord
  <1> SUFFICES ASSUME Shapes, Recorded, sight = Snapshot, mail = <<>> PROVE Seen /\ Reaches /\ LastWord
    OBVIOUS
  <1>1. \A x \in Seats : Fits(x, NoProgress)
    BY DEF Fits, Kept, Won, NoProgress
  <1>2. \A a \in Guessing : Aired(a, NoProgress)
    BY DEF Aired, NoProgress
  <1>3. \A a \in Guessing : Aired(a, AggregateProgress(known, a))
                            /\ (answers[a].by # "" => AggregateProgress(known, a).state = "submitted")
    BY AggregateIsASeats DEF Shapes
  <1>4. CASE stage = "guess"
    <2>1. /\ sight.stage = "guess" /\ sight.mates = known /\ sight.result = <<>> /\ sight.row = <<>>
          /\ \A a \in Guessing : /\ sight.submitted[a] = (answers[a].state # "open")
                                 /\ sight.latest[a] = AggregateProgress(known, a)
      BY <1>4 DEF Snapshot
    <2>2. \A x \in Seats : Fits(x, known[x]) /\ (ActionOf(x) # "" => known[x].state # "none")
      BY DEF Recorded
    <2>3. Seen
      BY <1>3, <1>4, <2>1, <2>2 DEF Seen
    <2>4. Reaches
      BY <2>1 DEF Reaches, ReachesOf
    <2>5. LastWord
      <3>1. Len(mail) = 0
        OBVIOUS
      <3>2. \A i \in 1 .. Len(mail) : FALSE
        BY ONLY <3>1
      <3> QED
        BY <1>3, <2>1, <3>2 DEF LastWord, LastWordOf
    <2> QED
      BY <2>3, <2>4, <2>5
  <1>5. CASE stage # "guess"
    <2>1. /\ sight.stage = stage /\ sight.mates = NobodysProgress /\ sight.result = <<Result>>
          /\ sight.row = <<Row>> /\ sight.submitted = NoneSubmitted /\ sight.latest = NoLatest
      BY <1>5 DEF Snapshot
    <2>2. Seen
      BY <1>1, <1>2, <1>5, <2>1 DEF Seen, NobodysProgress, NoneSubmitted, NoLatest
    <2>3. Reaches /\ LastWord
      BY <1>5, <2>1 DEF Reaches, ReachesOf, LastWord, LastWordOf
    <2> QED
      BY <2>2, <2>3
  <1> QED
    BY <1>4, <1>5

LEMMA SnapshotShapes == ServerShapes /\ Recorded => Snapshot \in Sights
  <1> SUFFICES ASSUME ServerShapes, Recorded PROVE Snapshot \in Sights
    OBVIOUS
  <1>1. ASSUME NEW a \in Guessing PROVE AggregateProgress(known, a) \in Progresses
    BY <1>1, AggregateIsASeats
  <1>2. <<>> \in Seq(Verdicts) /\ <<Result>> \in Seq(Verdicts) /\ <<>> \in Seq(Rows) /\ <<Row>> \in Seq(Rows)
    BY RowShapes
  <1>3. /\ NobodysProgress \in [Seats -> Progresses] /\ NoLatest \in [Guessing -> Progresses]
        /\ NoneSubmitted \in [Guessing -> BOOLEAN]
    BY NothingToShow DEF NobodysProgress, NoLatest, NoneSubmitted
  <1>4. CASE stage = "guess"
    BY <1>1, <1>2, <1>4 DEF ServerShapes, Snapshot, Sights
  <1>5. CASE stage # "guess"
    BY <1>2, <1>3, <1>5 DEF ServerShapes, Snapshot, Sights
  <1> QED
    BY <1>4, <1>5

-----------------------------------------------------------------------------
\* What is sent is the truth, after everything else that is on its way

Grown ==
    /\ mail' \in Seq(Mails) /\ Len(mail) <= Len(mail')
    /\ \A i \in 1 .. Len(mail) : mail'[i] = mail[i]

LEMMA SentOne ==
    ASSUME Shapes, Recorded, Delivered, Standing, NEW m \in Mails, TellsTruth(m)', mail' = mail \o <<m>>
    PROVE  /\ Grown /\ Len(mail') = Len(mail) + 1 /\ mail'[Len(mail) + 1] = m
           /\ Delivered'
  <1>1. mail \in Seq(Mails) /\ Len(mail) \in Nat
    BY LettersAreCounted
  <1>2. Grown /\ Len(mail') = Len(mail) + 1 /\ mail'[Len(mail) + 1] = m
    BY <1>1, OneMore DEF Grown
  <1>3. ASSUME NEW i \in 1 .. Len(mail'), NEW k, k = mail'[i] PROVE TellsTruth(k)'
    <2>1. CASE i <= Len(mail)
      <3>1. k \in Mails /\ k = mail[i] /\ i \in 1 .. Len(mail)
        BY <1>1, <1>2, <1>3, <2>1 DEF Grown
      <3>2. TellsTruth(k)
        BY <3>1 DEF Delivered
      <3> QED
        BY <3>1, <3>2, TruthStands
    <2>2. CASE i = Len(mail) + 1
      BY <1>2, <1>3, <2>2
    <2> QED
      BY <1>1, <1>2, <2>1, <2>2
  <1> QED
    BY <1>2, <1>3 DEF Delivered

\* What a page that heard nothing new knows is still true
LEMMA SeenStands ==
    ASSUME Shapes, Recorded, Seen, Standing, sight' = sight
    PROVE  Seen'
  <1>1. \A x \in Seats : Fits(x, sight.mates[x])'
    <2> SUFFICES ASSUME NEW x \in Seats, NEW p, p = sight.mates[x] PROVE Fits(x, p)'
      OBVIOUS
    <2> QED
      BY FitsStand DEF Seen
  <1>2. \A a \in Guessing : Aired(a, sight.latest[a])'
    <2> SUFFICES ASSUME NEW a \in Guessing, NEW p, p = sight.latest[a] PROVE Aired(a, p)'
      OBVIOUS
    <2> QED
      BY AiredStands DEF Seen
  <1>3. \A x : ActionOf(x)' = ActionOf(x)
    BY SeatsStand
  <1>4. sight.stage # "guess" => stage' # "guess" /\ Row' = Row /\ Result' = Result
    BY SeatsStand DEF Seen, Standing
  <1>5. \A a \in Guessing : sight.submitted[a] => answers'[a].state # "open"
    BY DEF Seen, Standing
  <1> QED
    BY <1>1, <1>2, <1>3, <1>4, <1>5 DEF Seen

LEMMA WordStands ==
    ASSUME Shapes, Grown, sight' = sight, NEW a \in Guessing, LastWordOf(a),
           answers'[a].by = answers[a].by,
           \A i \in Len(mail) + 1 .. Len(mail') : ~(mail'[i].type = "player_progress" /\ mail'[i].action = a)
    PROVE  LastWordOf(a)'
  <1>1. Len(mail) \in Nat /\ Len(mail') \in Nat
    BY LettersAreCounted DEF Grown
  <1>2. CASE answers[a].by = "" \/ sight.stage # "guess"
    BY <1>2 DEF LastWordOf
  <1>3. CASE sight.latest[a].state = "submitted" /\ \A i \in 1 .. Len(mail) : ~Pending(a, i)
    <2>1. \A i \in 1 .. Len(mail') : ~(mail'[i].type = "player_progress" /\ mail'[i].action = a)
      <3> SUFFICES ASSUME NEW i \in 1 .. Len(mail')
                   PROVE  ~(mail'[i].type = "player_progress" /\ mail'[i].action = a)
        OBVIOUS
      <3>1. CASE i <= Len(mail)
        BY <1>1, <1>3, <3>1 DEF Pending, Grown
      <3>2. CASE i > Len(mail)
        BY <1>1, <3>2
      <3> QED
        BY <1>1, <3>1, <3>2
    <2> QED
      BY <1>3, <2>1 DEF LastWordOf, Pending
  <1>4. ASSUME NEW i \in 1 .. Len(mail), Pending(a, i), mail[i].progress.state = "submitted",
               \A j \in i + 1 .. Len(mail) : ~Pending(a, j)
        PROVE  LastWordOf(a)'
    <2>1. i \in 1 .. Len(mail') /\ mail'[i] = mail[i]
      BY <1>1 DEF Grown
    <2>2. \A j \in i + 1 .. Len(mail') : ~(mail'[j].type = "player_progress" /\ mail'[j].action = a)
      BY <1>1, <1>4 DEF Pending, Grown
    <2> QED
      BY <1>4, <2>1, <2>2 DEF LastWordOf, Pending
  <1> QED
    BY <1>2, <1>3, <1>4 DEF LastWordOf

LEMMA ReachStands ==
    ASSUME Shapes, Grown, sight' = sight, NEW a \in Guessing, ReachesOf(a),
           answers[a].state # "open", answers[a].told
    PROVE  ReachesOf(a)'
  <1>1. Len(mail) \in Nat /\ Len(mail') \in Nat
    BY LettersAreCounted DEF Grown
  <1>2. CASE sight.submitted[a] \/ sight.stage # "guess"
    BY <1>2 DEF ReachesOf
  <1>3. ASSUME NEW i \in 1 .. Len(mail), mail[i].type = "action_submitted" /\ mail[i].action = a
        PROVE  ReachesOf(a)'
    <2>1. i \in 1 .. Len(mail') /\ mail'[i] = mail[i]
      BY <1>1 DEF Grown
    <2> QED
      BY <1>3, <2>1 DEF ReachesOf
  <1> QED
    BY <1>2, <1>3 DEF ReachesOf

-----------------------------------------------------------------------------
\* Every step of the server

\* A seat's progress is recorded and told: each view has it as it may see it
LEMMA ProgressRecorded ==
    ASSUME Shapes, Recorded, Standing, NEW x \in Seats, ActionOf(x) # "",
           NEW p \in Progresses, p.state # "none", Won(x, p)', Relay(x, ActionOf(x), p),
           NEW m, m = Relayed(x, ActionOf(x), p)
    PROVE  /\ known' \in [Seats -> Progresses]
           /\ \A y \in Seats : y # x => known'[y] = known[y]
           /\ known'[x].state = p.state
           /\ \A y \in Seats : Fits(y, known[y])' /\ (ActionOf(y) # "" => known'[y].state # "none")
           /\ m \in Mails /\ TellsTruth(m)'
           /\ m.type = "player_progress" /\ m.action = ActionOf(x) /\ m.progress.state = p.state
  <1> SUFFICES ASSUME NEW q, q = Shown(p, me, ActionOf(x))
               PROVE  /\ known' \in [Seats -> Progresses]
                      /\ \A y \in Seats : y # x => known'[y] = known[y]
                      /\ known'[x].state = p.state
                      /\ \A y \in Seats : Fits(y, known[y])' /\ (ActionOf(y) # "" => known'[y].state # "none")
                      /\ m \in Mails /\ TellsTruth(m)'
                      /\ m.type = "player_progress" /\ m.action = ActionOf(x) /\ m.progress.state = p.state
    OBVIOUS
  <1>1. /\ q \in Progresses /\ q.state = p.state /\ q.advice = p.advice
        /\ q.digits \in {p.digits, Hidden} /\ Kept(x, q)
    BY ShownIsKept DEF Shapes, ServerShapes
  <1>2. Fits(x, q)'
    <2>1. Kept(x, q)'
      BY <1>1 DEF Kept, Standing
    <2>2. Won(x, q)'
      BY <1>1 DEF Won
    <2> QED
      BY <2>1, <2>2 DEF Fits
  <1>3. known' = [known EXCEPT ![x] = q] /\ known \in [Seats -> Progresses]
    BY DEF Relay, Shapes, ServerShapes
  <1>4. known' \in [Seats -> Progresses] /\ known'[x] = q /\ \A y \in Seats : y # x => known'[y] = known[y]
    BY <1>1, <1>3
  <1>5. ASSUME NEW y \in Seats PROVE Fits(y, known[y])'
    <2> SUFFICES ASSUME NEW r, r = known'[y] PROVE Fits(y, r)'
      OBVIOUS
    <2>1. CASE y = x
      BY <1>2, <1>4, <2>1
    <2>2. CASE y # x
      BY <1>4, <2>2, FitsStand DEF Recorded
    <2> QED
      BY <2>1, <2>2
  <1>6. ASSUME NEW y \in Seats, ActionOf(y) # "" PROVE known'[y].state # "none"
    <2>1. CASE y = x
      BY <1>1, <1>4, <2>1
    <2>2. CASE y # x
      BY <1>4, <1>6, <2>2 DEF Recorded
    <2> QED
      BY <2>1, <2>2
  <1>7. m = [type |-> "player_progress", seat |-> x, action |-> ActionOf(x), progress |-> q]
    BY DEF Relayed, Message
  <1>8. /\ m.type = "player_progress" /\ m.seat = x /\ m.action = ActionOf(x) /\ m.progress = q
        /\ ActionOf(x) \in Guessing
    <2>1. m.type = "player_progress" /\ m.seat = x /\ m.action = ActionOf(x) /\ m.progress = q
      BY ONLY <1>7
    <2>2. ActionOf(x) \in Guessing
      BY ActionsOfSeats
    <2> QED
      BY <2>1, <2>2
  <1>9. m \in Heard
    BY <1>1, <1>7, <1>8 DEF Heard
  <1>10. TellsTruth(m)'
    <2>1. ActionOf(x)' = ActionOf(x)
      BY SeatsStand
    <2>2. q.state # "none"
      BY <1>1
    <2> HIDE <1>7
    <2> QED
      BY <1>2, <1>8, <2>1, <2>2 DEF TellsTruth
  <1>11. known'[x].state = p.state /\ m.progress.state = p.state
    BY <1>1, <1>4, <1>8
  <1> QED
    BY <1>4, <1>5, <1>6, <1>8, <1>9, <1>10, <1>11 DEF Mails

LEMMA ShapesStand ==
    ASSUME Shapes, Standing, answers' \in Answers, known' \in [Seats -> Progresses], edits' \in Nat,
           Grown, Len(mail') <= MaxWire, stage' \in Stages, sight' = sight
    PROVE  Shapes'
  BY DEF Shapes, ServerShapes, Standing, Answers, Grown

\* A draft or a suggestion
LEMMA DraftTold ==
    ASSUME TableInv, Standing, NEW x \in Seats, ActionOf(x) # "", answers[ActionOf(x)].state = "open",
           NEW p \in Progresses, p.state \notin {"none", "submitted"}, Relay(x, ActionOf(x), p),
           mail' = mail \o <<Relayed(x, ActionOf(x), p)>>, Room(1),
           answers' \in Answers,
           \A a \in Guessing : /\ answers'[a].state = answers[a].state /\ answers'[a].by = answers[a].by
                               /\ answers'[a].told = answers[a].told,
           edits' \in Nat, stage' = stage, sight' = sight
    PROVE  TableInv'
  <1> SUFFICES ASSUME NEW m, m = Relayed(x, ActionOf(x), p) PROVE TableInv'
    OBVIOUS
  <1>0. Shapes /\ Recorded /\ Delivered /\ Seen /\ Reaches /\ LastWord
    BY DEF TableInv
  <1>1. Won(x, p)'
    BY DEF Won
  <1>2. /\ known' \in [Seats -> Progresses]
        /\ \A y \in Seats : y # x => known'[y] = known[y]
        /\ \A y \in Seats : Fits(y, known[y])' /\ (ActionOf(y) # "" => known'[y].state # "none")
        /\ m \in Mails /\ TellsTruth(m)'
        /\ m.action = ActionOf(x)
    <2>1. /\ Standing /\ x \in Seats /\ ActionOf(x) # "" /\ p \in Progresses /\ p.state # "none"
          /\ Relay(x, ActionOf(x), p) /\ m = Relayed(x, ActionOf(x), p)
      OBVIOUS
    <2> QED
      BY ONLY <1>0, <1>1, <2>1, ProgressRecorded
  <1>3. Grown /\ Len(mail') = Len(mail) + 1 /\ mail'[Len(mail) + 1] = m /\ Delivered'
    BY <1>0, <1>2, SentOne
  <1>4. Len(mail) \in Nat
    BY <1>0, LettersAreCounted
  <1>5. \A y : ActionOf(y)' = ActionOf(y)
    BY SeatsStand
  <1>6. Shapes'
    <2>1. stage \in Stages
      BY <1>0 DEF Shapes, ServerShapes
    <2> QED
      BY <1>0, <1>2, <1>3, <1>4, <2>1, ShapesStand DEF Room
  <1>7. Recorded'
    <2>1. ASSUME NEW a \in Guessing
          PROVE  /\ answers'[a].by # "" <=> answers'[a].state = "answered"
                 /\ answers'[a].by # "" =>
                       ActionOf(answers'[a].by) = a /\ known'[answers'[a].by].state = "submitted"
                 /\ answers'[a].told => answers'[a].state # "open"
      <3>1. (answers[a].by # "" <=> answers[a].state = "answered") /\ (answers[a].told => answers[a].state # "open")
        BY <1>0 DEF Recorded
      <3>2. ASSUME answers[a].by # ""
            PROVE  /\ ActionOf(answers[a].by) = a /\ known[answers[a].by].state = "submitted"
                   /\ answers[a].by \in Seats /\ answers[a].by # x
        BY <1>0, <3>1, <3>2 DEF Recorded, Shapes, ServerShapes
      <3> QED
        BY <3>1, <3>2, <1>2
    <2> QED
      BY <1>2, <1>5, <2>1 DEF Recorded
  <1>8. Seen'
    BY <1>0, SeenStands
  <1>9. ASSUME NEW a \in Guessing PROVE ReachesOf(a)'
    <2>1. CASE answers[a].state = "open" \/ ~answers[a].told
      BY <2>1 DEF ReachesOf
    <2>2. CASE answers[a].state # "open" /\ answers[a].told
      BY <1>0, <1>3, <2>2, ReachStands DEF Reaches
    <2> QED
      BY <2>1, <2>2
  <1>10. ASSUME NEW a \in Guessing PROVE LastWordOf(a)'
    <2>1. CASE answers[a].by = ""
      BY <2>1 DEF LastWordOf
    <2>2. CASE answers[a].by # ""
      <3>1. a # ActionOf(x)
        BY <1>0, <2>2 DEF Recorded
      <3>2. \A i \in Len(mail) + 1 .. Len(mail') : i = Len(mail) + 1
        BY ONLY <1>3, <1>4
      <3>3. \A i \in Len(mail) + 1 .. Len(mail') : ~(mail'[i].type = "player_progress" /\ mail'[i].action = a)
        BY <1>2, <1>3, <3>1, <3>2
      <3> QED
        BY <1>0, <1>3, <3>3, WordStands DEF LastWord
    <2> QED
      BY <2>1, <2>2
  <1> QED
    BY <1>3, <1>6, <1>7, <1>8, <1>9, <1>10 DEF TableInv, Reaches, LastWord

LEMMA EditNext ==
    ASSUME TableInv, Standing, NEW x \in Seats, NEW d \in Drafts, NEW s \in {"editing", "submitted"}, Edit(x, d, s)
    PROVE  TableInv'
  <1> DEFINE a == ActionOf(x)
             p == [state |-> RelayState(s), step |-> Len(d), digits |-> d, advice |-> FALSE]
  <1>1. /\ a # "" /\ stage = "guess" /\ answers[a].state = "open" /\ Room(1)
        /\ answers' = [answers EXCEPT ![a].draft = d]
        /\ Relay(x, a, p) /\ mail' = mail \o <<Relayed(x, a, p)>>
        /\ stage' = stage /\ sight' = sight
    BY DEF Edit, Told
  <1>0. edits \in Nat /\ edits' = edits + 1
    BY DEF Edit, TableInv, Shapes, ServerShapes
  <1>2. p \in Progresses /\ p.state = "editing"
    BY DraftsAreShort DEF Progresses, States, RelayState
  <1>3. a \in Guessing
    BY <1>1, ActionsOfSeats
  <1>4. answers \in Answers
    BY DEF TableInv, Shapes, ServerShapes, Answers
  <1>5. answers' \in Answers
        /\ \A b \in Guessing : /\ answers'[b].state = answers[b].state /\ answers'[b].by = answers[b].by
                               /\ answers'[b].told = answers[b].told
    BY <1>1, <1>3, <1>4 DEF Answers
  <1> HIDE DEF p
  <1>6. p.state \notin {"none", "submitted"} /\ edits' \in Nat
    <2>1. edits' \in Nat
      BY ONLY <1>0
    <2> QED
      BY <1>2, <2>1
  <1> QED
    BY <1>1, <1>2, <1>5, <1>6, DraftTold

LEMMA AdviseNext ==
    ASSUME TableInv, Standing, NEW x \in Seats, NEW d \in Drafts, NEW s \in {"thinking", "ready"}, Advise(x, d, s)
    PROVE  TableInv'
  <1> DEFINE a == ActionOf(x)
             p == [state |-> s, step |-> Len(d), digits |-> d, advice |-> ~CanSubmit(x)]
  <1>1. /\ a # "" /\ stage = "guess" /\ answers[a].state = "open" /\ Room(1)
        /\ answers' = answers
        /\ Relay(x, a, p) /\ mail' = mail \o <<Relayed(x, a, p)>>
        /\ stage' = stage /\ sight' = sight
    BY DEF Advise, Told
  <1>0. edits \in Nat /\ edits' = edits + 1
    BY DEF Advise, TableInv, Shapes, ServerShapes
  <1>2. p \in Progresses /\ p.state \in {"thinking", "ready"}
    BY DraftsAreShort DEF Progresses, States, CanSubmit
  <1>3. answers \in Answers
    BY DEF TableInv, Shapes, ServerShapes, Answers
  <1> HIDE DEF p
  <1>4. p.state \notin {"none", "submitted"} /\ edits' \in Nat
    <2>1. edits' \in Nat
      BY ONLY <1>0
    <2> QED
      BY <1>2, <2>1
  <1>5. answers' \in Answers
        /\ \A b \in Guessing : /\ answers'[b].state = answers[b].state /\ answers'[b].by = answers[b].by
                               /\ answers'[b].told = answers[b].told
    BY <1>1, <1>3
  <1> QED
    BY <1>1, <1>2, <1>4, <1>5, DraftTold

LEMMA SubmitNext ==
    ASSUME TableInv, Standing, NEW x \in Seats, NEW d \in Drafts, Submit(x, d)
    PROVE  TableInv'
  <1> DEFINE a == ActionOf(x)
  <1> SUFFICES ASSUME NEW p, p = [state |-> "submitted", step |-> Gates, digits |-> d, advice |-> FALSE],
                      NEW m, m = Relayed(x, a, p)
               PROVE  TableInv'
    OBVIOUS
  <1>0. Shapes /\ Recorded /\ Delivered /\ Seen /\ Reaches /\ LastWord
    BY DEF TableInv
  <1>1. /\ a # "" /\ stage = "guess" /\ answers[a].state = "open" /\ Room(1)
        /\ answers' = [answers EXCEPT ![a] = [state |-> "answered", draft |-> d, by |-> x, told |-> FALSE]]
        /\ Relay(x, a, p) /\ mail' = mail \o <<m>>
        /\ stage' = stage /\ sight' = sight /\ edits' = edits
    BY DEF Submit, Told, Message
  <1>2. a \in Guessing
    BY <1>1, ActionsOfSeats
  <1>3. answers \in Answers
    BY <1>0 DEF Shapes, ServerShapes, Answers
  <1>4. /\ answers' \in Answers
        /\ answers'[a] = [state |-> "answered", draft |-> d, by |-> x, told |-> FALSE]
        /\ \A b \in Guessing : b # a => answers'[b] = answers[b]
    BY <1>1, <1>2, <1>3 DEF Answers
  <1>5. p \in Progresses /\ p.state = "submitted"
    BY TableAssumption DEF Progresses, States
  <1>6. \A y : ActionOf(y)' = ActionOf(y)
    BY SeatsStand
  <1>7. Won(x, p)'
    <2>1. ~p.advice /\ p.digits = d
      OBVIOUS
    <2>2. answers'[a].by = x /\ answers'[a].draft = d
      BY ONLY <1>4
    <2>3. ActionOf(x)' = a
      BY <1>6
    <2> QED
      BY <1>1, <2>1, <2>2, <2>3 DEF Won
  <1>10. /\ known' \in [Seats -> Progresses]
         /\ \A y \in Seats : y # x => known'[y] = known[y]
         /\ known'[x].state = "submitted"
         /\ \A y \in Seats : Fits(y, known[y])' /\ (ActionOf(y) # "" => known'[y].state # "none")
         /\ m \in Mails /\ TellsTruth(m)'
         /\ m.type = "player_progress" /\ m.action = a /\ m.progress.state = "submitted"
    <2>1. /\ Standing /\ x \in Seats /\ ActionOf(x) # "" /\ p.state # "none"
          /\ Relay(x, ActionOf(x), p) /\ m = Relayed(x, ActionOf(x), p)
      BY <1>1
    <2>3. p \in Progresses
      BY <1>5
    <2> HIDE DEF a
    <2>2. /\ known' \in [Seats -> Progresses]
          /\ \A y \in Seats : y # x => known'[y] = known[y]
          /\ known'[x].state = p.state
          /\ \A y \in Seats : Fits(y, known[y])' /\ (ActionOf(y) # "" => known'[y].state # "none")
          /\ m \in Mails /\ TellsTruth(m)'
          /\ m.type = "player_progress" /\ m.action = ActionOf(x) /\ m.progress.state = p.state
      BY ONLY <1>0, <1>7, <2>1, <2>3, ProgressRecorded
    <2>4. p.state = "submitted"
      BY <1>5
    <2>5. ActionOf(x) = a
      BY DEF a
    <2> QED
      BY ONLY <2>2, <2>4, <2>5
  <1>11. Grown /\ Len(mail') = Len(mail) + 1 /\ mail'[Len(mail) + 1] = m /\ Delivered'
    <2>1. mail' = mail \o <<m>> /\ m \in Mails /\ TellsTruth(m)'
      BY <1>1, <1>10
    <2> HIDE DEF a
    <2> QED
      BY <1>0, <2>1, SentOne
  <1>12. Len(mail) \in Nat
    BY <1>0, LettersAreCounted
  <1>13. \A i \in Len(mail) + 1 .. Len(mail') : i = Len(mail) + 1
    BY ONLY <1>11, <1>12
  <1>14. Shapes'
    <2>1. stage \in Stages /\ edits' \in Nat
      BY <1>0, <1>1 DEF Shapes, ServerShapes
    <2> QED
      BY <1>0, <1>1, <1>4, <1>10, <1>11, <1>12, <2>1, ShapesStand DEF Room
  <1>15. Recorded'
    <2>1. ASSUME NEW b \in Guessing
          PROVE  /\ answers'[b].by # "" <=> answers'[b].state = "answered"
                 /\ answers'[b].by # "" =>
                       ActionOf(answers'[b].by) = b /\ known'[answers'[b].by].state = "submitted"
                 /\ answers'[b].told => answers'[b].state # "open"
      <3>1. CASE b = a
        <4>1. answers'[b].by = x /\ answers'[b].state = "answered" /\ x # ""
          <5>1. answers'[a].by = x /\ answers'[a].state = "answered"
            BY ONLY <1>4
          <5>2. x # ""
            BY DEF Seats
          <5> QED
            BY <3>1, <5>1, <5>2
        <4> QED
          BY <1>10, <3>1, <4>1
      <3>2. CASE b # a
        <4>1. answers'[b] = answers[b]
          BY <1>4, <3>2
        <4>2. (answers[b].by # "" <=> answers[b].state = "answered") /\ (answers[b].told => answers[b].state # "open")
          BY <1>0 DEF Recorded
        <4>3. ASSUME answers[b].by # ""
              PROVE  /\ ActionOf(answers[b].by) = b /\ known[answers[b].by].state = "submitted"
                     /\ answers[b].by \in Seats /\ answers[b].by # x
          BY <1>0, <3>2, <4>3 DEF Recorded, Shapes, ServerShapes
        <4> QED
          BY <1>10, <4>1, <4>2, <4>3
      <3> QED
        BY <3>1, <3>2
    <2> QED
      BY <1>6, <1>10, <2>1 DEF Recorded
  <1>16. Seen'
    BY <1>0, <1>1, SeenStands
  <1>17. ASSUME NEW b \in Guessing PROVE ReachesOf(b)'
    <2>1. CASE b = a
      <3>1. ~answers'[a].told
        BY ONLY <1>4
      <3> QED
        BY <2>1, <3>1 DEF ReachesOf
    <2>2. CASE b # a /\ (answers[b].state = "open" \/ ~answers[b].told)
      BY <1>4, <2>2 DEF ReachesOf
    <2>3. CASE answers[b].state # "open" /\ answers[b].told
      BY <1>0, <1>1, <1>11, <2>3, ReachStands DEF Reaches
    <2> QED
      BY <2>1, <2>2, <2>3
  <1>18. ASSUME NEW b \in Guessing PROVE LastWordOf(b)'
    <2>1. CASE b = a
      <3>1. Len(mail) + 1 \in 1 .. Len(mail')
        BY ONLY <1>11, <1>12
      <3>2. \A j \in Len(mail) + 1 + 1 .. Len(mail') : FALSE
        BY ONLY <1>11, <1>12
      <3> QED
        BY <1>10, <1>11, <2>1, <3>1, <3>2 DEF LastWordOf, Pending
    <2>2. CASE b # a
      <3>1. \A i \in Len(mail) + 1 .. Len(mail') : ~(mail'[i].type = "player_progress" /\ mail'[i].action = b)
        BY <1>10, <1>11, <1>13, <2>2
      <3> QED
        BY <1>0, <1>1, <1>4, <1>11, <2>2, <3>1, WordStands DEF LastWord
    <2> QED
      BY <2>1, <2>2
  <1> QED
    BY <1>11, <1>14, <1>15, <1>16, <1>17, <1>18 DEF TableInv, Reaches, LastWord

\* A step of the game goroutine, which tells of no progress
LEMMA WordKept ==
    ASSUME TableInv, Standing, Grown, Delivered', Len(mail') <= MaxWire, answers' \in Answers,
           \A i \in Len(mail) + 1 .. Len(mail') : mail'[i].type # "player_progress",
           \A a \in Guessing :
              /\ answers'[a].by = answers[a].by
              /\ answers'[a].state = "answered" <=> answers[a].state = "answered"
              /\ answers'[a].told => answers'[a].state # "open"
              /\ answers'[a].told => \/ answers[a].told
                                     \/ \E i \in Len(mail) + 1 .. Len(mail') :
                                           mail'[i].type = "action_submitted" /\ mail'[i].action = a,
           known' = known, edits' = edits, stage' \in Stages, sight' = sight
    PROVE  TableInv'
  <1>0. Shapes /\ Recorded /\ Delivered /\ Seen /\ Reaches /\ LastWord
    BY DEF TableInv
  <1>1. Len(mail) \in Nat /\ Len(mail') \in Nat
    BY <1>0, LettersAreCounted DEF Grown
  <1>4. \A y : ActionOf(y)' = ActionOf(y)
    BY SeatsStand
  <1>5. Shapes'
    <2>1. known' \in [Seats -> Progresses] /\ edits' \in Nat
      BY <1>0 DEF Shapes, ServerShapes
    <2> QED
      BY <1>0, <2>1, ShapesStand
  <1>6. Recorded'
    <2>1. \A x \in Seats : Fits(x, known[x])'
      <3> SUFFICES ASSUME NEW x \in Seats, NEW p, p = known[x] PROVE Fits(x, p)'
        OBVIOUS
      <3> QED
        BY <1>0, FitsStand DEF Recorded
    <2>2. \A x \in Seats : ActionOf(x)' # "" => known'[x].state # "none"
      <3>1. known' = known
        OBVIOUS
      <3> QED
        BY ONLY <1>0, <1>4, <3>1 DEF Recorded
    <2>3. \A a \in Guessing : /\ answers'[a].by # "" <=> answers'[a].state = "answered"
                              /\ answers'[a].by # "" => ActionOf(answers'[a].by) = a
                              /\ answers'[a].by # "" => known'[answers'[a].by].state = "submitted"
                              /\ answers'[a].told => answers'[a].state # "open"
      <3>1. /\ known' = known
            /\ \A a \in Guessing : /\ answers'[a].by = answers[a].by
                                   /\ answers'[a].state = "answered" <=> answers[a].state = "answered"
                                   /\ answers'[a].told => answers'[a].state # "open"
        OBVIOUS
      <3> QED
        BY ONLY <1>0, <3>1 DEF Recorded
    <2> QED
      BY ONLY <1>4, <2>1, <2>2, <2>3 DEF Recorded
  <1>7. Seen'
    <2>1. Standing /\ sight' = sight
      OBVIOUS
    <2> QED
      BY ONLY <1>0, <2>1, SeenStands
  <1>8. ASSUME NEW a \in Guessing PROVE ReachesOf(a)'
    <2>1. CASE ~answers'[a].told
      BY <2>1 DEF ReachesOf
    <2>2. CASE answers[a].told
      BY <1>0, <2>2, ReachStands DEF Reaches, Recorded
    <2>3. ASSUME NEW i \in Len(mail) + 1 .. Len(mail'), mail'[i].type = "action_submitted" /\ mail'[i].action = a
          PROVE  ReachesOf(a)'
      <3>1. i \in 1 .. Len(mail')
        BY ONLY <1>1, i \in Len(mail) + 1 .. Len(mail')
      <3> QED
        BY <2>3, <3>1 DEF ReachesOf
    <2> QED
      BY <2>1, <2>2, <2>3
  <1>9. ASSUME NEW a \in Guessing PROVE LastWordOf(a)'
    BY <1>0, WordStands DEF LastWord
  <1> QED
    BY <1>5, <1>6, <1>7, <1>8, <1>9 DEF TableInv, Reaches, LastWord

\* A message that is no progress: an answer is recorded, a round or a game is over
LEMMA WordTold ==
    ASSUME TableInv, Standing, NEW m \in Mails, m.type # "player_progress", TellsTruth(m)',
           mail' = mail \o <<m>>, Room(1), answers' \in Answers,
           \A a \in Guessing : /\ answers'[a].by = answers[a].by
                               /\ answers'[a].state = answers[a].state
                               /\ answers'[a].told => answers'[a].state # "open"
                               /\ answers'[a].told => \/ answers[a].told
                                                      \/ m.type = "action_submitted" /\ m.action = a,
           known' = known, edits' = edits, stage' \in Stages, sight' = sight
    PROVE  TableInv'
  <1>0. Shapes /\ Recorded /\ Delivered
    BY DEF TableInv
  <1>1. Grown /\ Len(mail') = Len(mail) + 1 /\ mail'[Len(mail) + 1] = m /\ Delivered'
    BY <1>0, SentOne
  <1>2. Len(mail) \in Nat
    BY <1>0, LettersAreCounted
  <1>3. \A i \in Len(mail) + 1 .. Len(mail') : i = Len(mail) + 1
    BY ONLY <1>1, <1>2
  <1>4. Len(mail) + 1 \in Len(mail) + 1 .. Len(mail') /\ Len(mail') <= MaxWire
    <2>1. Len(mail) + 1 <= MaxWire
      BY DEF Room
    <2> QED
      BY ONLY <1>1, <1>2, <2>1
  <1>5. \A i \in Len(mail) + 1 .. Len(mail') : mail'[i].type # "player_progress"
    BY <1>1, <1>3
  <1>6. ASSUME NEW a \in Guessing
        PROVE  answers'[a].told => \/ answers[a].told
                                   \/ \E i \in Len(mail) + 1 .. Len(mail') :
                                         mail'[i].type = "action_submitted" /\ mail'[i].action = a
    BY <1>1, <1>4
  <1> QED
    BY <1>1, <1>4, <1>5, <1>6, WordKept

\* The clock closes an action, and has told nobody yet
LEMMA ClockNext ==
    ASSUME TableInv, Standing, NEW a \in Guessing, ClockCloses(a)
    PROVE  TableInv'
  <1> DEFINE t == IF Full(answers[a].draft) THEN answers[a].draft ELSE <<>>
  <1>0. Shapes /\ Recorded /\ Delivered
    BY DEF TableInv
  <1>1. /\ answers[a].state = "open"
        /\ answers' = [answers EXCEPT ![a].state = "closed", ![a].draft = t]
        /\ mail' = mail /\ known' = known /\ edits' = edits /\ stage' = stage /\ sight' = sight
    BY DEF ClockCloses
  <1>2. answers \in Answers /\ stage \in Stages /\ Len(mail) <= MaxWire
    BY <1>0 DEF Shapes, ServerShapes, Answers
  <1>3. t \in Drafts
    BY <1>2, NoDraftYet DEF Answers
  <1> HIDE DEF t
  <1>4. /\ answers' \in Answers
        /\ answers'[a].state = "closed"
        /\ \A b \in Guessing : /\ answers'[b].by = answers[b].by /\ answers'[b].told = answers[b].told
                               /\ b # a => answers'[b] = answers[b]
    BY <1>1, <1>2, <1>3 DEF Answers
  <1>5. mail \in Seq(Mails) /\ Len(mail) \in Nat
    BY <1>0, LettersAreCounted
  <1>6. Grown
    BY <1>1, <1>5 DEF Grown
  <1>7. Delivered'
    <2> SUFFICES ASSUME NEW i \in 1 .. Len(mail'), NEW k, k = mail'[i] PROVE TellsTruth(k)'
      BY DEF Delivered
    <2>1. k \in Mails /\ TellsTruth(k)
      BY <1>0, <1>1, <1>5 DEF Delivered
    <2> QED
      BY <1>0, <2>1, TruthStands
  <1>8. \A i \in Len(mail) + 1 .. Len(mail') : FALSE
    BY ONLY <1>1, <1>5
  <1>9. \A b \in Guessing : /\ answers'[b].by = answers[b].by
                            /\ answers'[b].state = "answered" <=> answers[b].state = "answered"
                            /\ answers'[b].told => answers'[b].state # "open"
                            /\ answers'[b].told => answers[b].told
    BY <1>0, <1>1, <1>4 DEF Recorded
  <1> QED
    BY <1>1, <1>2, <1>4, <1>6, <1>7, <1>8, <1>9, WordKept

LEMMA RecordNext ==
    ASSUME TableInv, Standing, NEW a \in Guessing, RecordGuess(a)
    PROVE  TableInv'
  <1> DEFINE m == [type |-> "action_submitted", seat |-> "", action |-> a, progress |-> NoProgress]
  <1>1. /\ answers[a].state # "open" /\ Room(1)
        /\ answers' = [answers EXCEPT ![a].told = TRUE]
        /\ mail' = mail \o <<m>>
        /\ known' = known /\ edits' = edits /\ stage' = stage /\ sight' = sight
    BY DEF RecordGuess, Told, Message
  <1>2. answers \in Answers /\ stage \in Stages /\ Recorded
    BY DEF TableInv, Shapes, ServerShapes, Answers
  <1>3. /\ answers' \in Answers
        /\ \A b \in Guessing : /\ answers'[b].by = answers[b].by /\ answers'[b].state = answers[b].state
                               /\ b # a => answers'[b] = answers[b]
    BY <1>1, <1>2 DEF Answers
  <1>4. m \in Mails /\ m.type = "action_submitted" /\ m.action = a
    BY DEF Mails, Closing
  <1>5. TellsTruth(m)'
    BY <1>1, <1>3 DEF TellsTruth
  <1>6. \A b \in Guessing :
           /\ answers'[b].by = answers[b].by /\ answers'[b].state = answers[b].state
           /\ answers'[b].told => answers'[b].state # "open"
           /\ answers'[b].told => answers[b].told \/ (m.type = "action_submitted" /\ m.action = b)
    <2> SUFFICES ASSUME NEW b \in Guessing
                 PROVE  /\ answers'[b].by = answers[b].by /\ answers'[b].state = answers[b].state
                        /\ answers'[b].told => answers'[b].state # "open"
                        /\ answers'[b].told => answers[b].told \/ (m.type = "action_submitted" /\ m.action = b)
      OBVIOUS
    <2>1. answers[b].told => answers[b].state # "open"
      BY <1>2 DEF Recorded
    <2> HIDE DEF m
    <2>4. answers[a].state # "open"
      BY <1>1
    <2>2. CASE b = a
      BY <1>3, <1>4, <2>2, <2>4
    <2>3. CASE b # a
      BY <1>3, <2>1, <2>3
    <2> QED
      BY <2>2, <2>3
  <1> HIDE DEF m
  <1> QED
    BY <1>1, <1>2, <1>3, <1>4, <1>5, <1>6, WordTold

\* The round is revealed, and perhaps the game is over
LEMMA EndNext ==
    ASSUME TableInv, Standing, Reveal \/ GameOver
    PROVE  TableInv'
  <1> SUFFICES ASSUME NEW r, r = Result PROVE TableInv'
    OBVIOUS
  <1>1. PICK k \in {"round_result", "game_over"} :
          /\ Room(1) /\ stage' = k /\ answers' = answers
          /\ mail' = mail \o <<[type |-> k, seat |-> "", action |-> "decrypt", progress |-> r]>>
          /\ known' = known /\ edits' = edits /\ sight' = sight
    BY DEF Reveal, GameOver, Told, Message
  <1> DEFINE m == [type |-> k, seat |-> "", action |-> "decrypt", progress |-> r]
  <1>2. answers \in Answers /\ r \in Verdicts /\ Recorded
    BY RowShapes DEF TableInv, Shapes, ServerShapes, Answers
  <1>3. m \in Mails /\ m.type = k
    BY <1>2 DEF Mails, Ending
  <1>4. TellsTruth(m)'
    <2>1. Result' = r
      BY <1>1 DEF Result, Row
    <2> QED
      BY <1>1, <2>1 DEF TellsTruth
  <1>5. mail' = mail \o <<m>> /\ stage' \in Stages
    BY <1>1 DEF Stages
  <1> HIDE DEF m
  <1>6. \A a \in Guessing : /\ answers'[a].by = answers[a].by /\ answers'[a].state = answers[a].state
                            /\ answers'[a].told => answers'[a].state # "open" /\ answers[a].told
    BY <1>1, <1>2 DEF Recorded
  <1> QED
    BY <1>1, <1>2, <1>3, <1>4, <1>5, <1>6, WordTold

-----------------------------------------------------------------------------
\* What the page hears, or fetches

\* The page takes the first message: what stays on its way is what was
LEMMA Read ==
    ASSUME TableInv, Hear, NEW m, m = Head(mail)
    PROVE  /\ Len(mail) \in Nat \ {0} /\ m = mail[1] /\ m \in Mails /\ TellsTruth(m)
           /\ mail' \in Seq(Mails) /\ Len(mail') = Len(mail) - 1
           /\ \A i \in 1 .. Len(mail') : i + 1 \in 1 .. Len(mail) /\ mail'[i] = mail[i + 1]
           /\ Delivered'
  <1>0. Shapes /\ Recorded /\ Delivered /\ mail \in Seq(Mails)
    BY LettersAreCounted DEF TableInv
  <1>1. mail # <<>> /\ mail' = Tail(mail)
    BY DEF Hear
  <1>2. /\ m \in Mails /\ m = mail[1] /\ Len(mail) \in Nat \ {0}
        /\ mail' \in Seq(Mails) /\ Len(mail') = Len(mail) - 1
        /\ \A i \in 1 .. Len(mail) - 1 : mail'[i] = mail[i + 1]
    BY <1>0, <1>1, OneLess
  <1>3. \A i \in 1 .. Len(mail') : i + 1 \in 1 .. Len(mail) /\ mail'[i] = mail[i + 1]
    BY <1>2
  <1>4. TellsTruth(m)
    <2>1. 1 \in 1 .. Len(mail)
      BY <1>2
    <2> QED
      BY <1>0, <1>2, <2>1 DEF Delivered
  <1>5. Standing
    BY DEF Hear, Standing
  <1>6. ASSUME NEW i \in 1 .. Len(mail'), NEW k, k = mail'[i] PROVE TellsTruth(k)'
    <2>1. i + 1 \in 1 .. Len(mail) /\ k = mail[i + 1]
      BY <1>3, <1>6
    <2>2. k \in Mails /\ TellsTruth(k)
      BY <1>0, <2>1 DEF Delivered
    <2> QED
      BY <1>0, <1>5, <2>2, TruthStands
  <1> QED
    BY <1>2, <1>3, <1>4, <1>6 DEF Delivered

\* The word on an action goes on if what was heard is not the message that tells it
LEMMA WordGoesOn ==
    ASSUME TableInv, Hear, NEW m, m = Head(mail), NEW a \in Guessing, LastWordOf(a),
           ~(m.type = "player_progress" /\ m.action = a),
           sight'.stage = sight.stage, sight'.latest[a] = sight.latest[a]
    PROVE  LastWordOf(a)'
  <1>1. /\ Len(mail) \in Nat \ {0} /\ m = mail[1] /\ Len(mail') = Len(mail) - 1
        /\ \A i \in 1 .. Len(mail') : i + 1 \in 1 .. Len(mail) /\ mail'[i] = mail[i + 1]
    BY Read
  <1>2. answers' = answers
    BY DEF Hear
  <1>3. CASE answers[a].by = "" \/ sight.stage # "guess"
    BY <1>2, <1>3 DEF LastWordOf
  <1>4. CASE sight.latest[a].state = "submitted" /\ \A i \in 1 .. Len(mail) : ~Pending(a, i)
    <2>1. \A i \in 1 .. Len(mail') : ~(mail'[i].type = "player_progress" /\ mail'[i].action = a)
      BY <1>1, <1>4 DEF Pending
    <2> QED
      BY <1>4, <2>1 DEF LastWordOf, Pending
  <1>5. ASSUME NEW i \in 1 .. Len(mail), Pending(a, i), mail[i].progress.state = "submitted",
               \A j \in i + 1 .. Len(mail) : ~Pending(a, j)
        PROVE  LastWordOf(a)'
    <2>1. i # 1
      BY <1>1, <1>5 DEF Pending
    <2>2. i - 1 \in 1 .. Len(mail') /\ (i - 1) + 1 = i
      BY ONLY <1>1, <2>1, i \in 1 .. Len(mail)
    <2>3. mail'[i - 1] = mail[i]
      BY <1>1, <2>2
    <2>4. \A j \in (i - 1) + 1 .. Len(mail') : j + 1 \in i + 1 .. Len(mail) /\ j \in 1 .. Len(mail')
      BY ONLY <1>1, <2>1, i \in 1 .. Len(mail)
    <2>5. \A j \in (i - 1) + 1 .. Len(mail') : ~(mail'[j].type = "player_progress" /\ mail'[j].action = a)
      BY <1>1, <1>5, <2>4 DEF Pending
    <2> QED
      BY <1>5, <2>2, <2>3, <2>5 DEF LastWordOf, Pending
  <1> QED
    BY <1>3, <1>4, <1>5 DEF LastWordOf

LEMMA ReachGoesOn ==
    ASSUME TableInv, Hear, NEW m, m = Head(mail), NEW a \in Guessing, ReachesOf(a),
           sight'.stage = sight.stage, sight.submitted[a] => sight'.submitted[a],
           m.type = "action_submitted" /\ m.action = a /\ sight.stage = "guess" => sight'.submitted[a]
    PROVE  ReachesOf(a)'
  <1>1. /\ Len(mail) \in Nat \ {0} /\ m = mail[1] /\ Len(mail') = Len(mail) - 1
        /\ \A i \in 1 .. Len(mail') : i + 1 \in 1 .. Len(mail) /\ mail'[i] = mail[i + 1]
    BY Read
  <1>2. answers' = answers
    BY DEF Hear
  <1>3. CASE answers[a].state = "open" \/ ~answers[a].told \/ sight.stage # "guess" \/ sight'.submitted[a]
    BY <1>2, <1>3 DEF ReachesOf
  <1>4. ASSUME NEW i \in 1 .. Len(mail), mail[i].type = "action_submitted" /\ mail[i].action = a
        PROVE  ReachesOf(a)'
    <2>1. CASE i = 1
      BY <1>1, <1>3, <1>4, <2>1
    <2>2. CASE i # 1
      <3>1. i - 1 \in 1 .. Len(mail') /\ (i - 1) + 1 = i
        BY ONLY <1>1, <2>2, i \in 1 .. Len(mail)
      <3> QED
        BY <1>1, <1>4, <3>1 DEF ReachesOf
    <2> QED
      BY <2>1, <2>2
  <1> QED
    BY <1>3, <1>4 DEF ReachesOf

\* What is left to show of a step in which the page hears a message
LEMMA HeardIsKept ==
    ASSUME TableInv, Hear, sight' \in Sights, Seen', Reaches', LastWord'
    PROVE  TableInv'
  <1>1. Delivered' /\ mail' \in Seq(Mails) /\ Len(mail') = Len(mail) - 1 /\ Len(mail) \in Nat
    <2> SUFFICES ASSUME NEW m, m = Head(mail)
                 PROVE  Delivered' /\ mail' \in Seq(Mails) /\ Len(mail') = Len(mail) - 1 /\ Len(mail) \in Nat
      OBVIOUS
    <2> QED
      BY Read
  <1>2. UNCHANGED <<me, turn, stage, answers, known, edits>>
    BY DEF Hear
  <1>3. Shapes'
    <2>1. Len(mail) <= MaxWire /\ MaxWire \in Nat
      BY TableAssumption DEF TableInv, Shapes, ServerShapes
    <2>2. Len(mail') <= MaxWire
      BY ONLY <1>1, <2>1
    <2> QED
      BY <1>1, <1>2, <2>2 DEF TableInv, Shapes, ServerShapes, Sights
  <1>4. Recorded'
    <2>1. Recorded /\ Shapes
      BY DEF TableInv
    <2>2. Standing
      BY <1>2 DEF Standing
    <2>3. \A x \in Seats : Fits(x, known[x])'
      <3> SUFFICES ASSUME NEW x \in Seats, NEW p, p = known[x] PROVE Fits(x, p)'
        BY <1>2
      <3> QED
        BY <2>1, <2>2, FitsStand DEF Recorded
    <2>4. \A y : ActionOf(y)' = ActionOf(y)
      BY <2>2, SeatsStand
    <2> QED
      BY <1>2, <2>1, <2>3, <2>4 DEF Recorded
  <1> QED
    BY <1>1, <1>3, <1>4 DEF TableInv

LEMMA HearNext ==
    ASSUME TableInv, Hear
    PROVE  TableInv'
  <1> SUFFICES ASSUME NEW m, m = Head(mail) PROVE TableInv'
    OBVIOUS
  <1>0. Shapes /\ Recorded /\ Seen /\ Reaches /\ LastWord /\ sight \in Sights
    BY DEF TableInv, Shapes, ServerShapes, Sights
  <1>1. m \in Mails /\ TellsTruth(m) /\ m = mail[1] /\ Len(mail) \in Nat \ {0}
    BY Read
  <1>2. UNCHANGED <<me, turn, stage, answers, known, edits>>
    BY DEF Hear
  <1>3. Standing
    BY <1>2 DEF Standing
  <1>4. \A y : ActionOf(y)' = ActionOf(y)
    BY <1>3, SeatsStand
  <1>5. Row' = Row /\ Result' = Result
    BY <1>2 DEF Row, Result
  <1>6. CASE sight' = sight /\ m.type = "player_progress" /\ ~(CurrentProgress(sight, m) /\ m.progress.state = "submitted")
    <2>1. Seen'
      BY <1>0, <1>3, <1>6, SeenStands
    <2>2. \A a \in Guessing : ReachesOf(a)'
      BY <1>0, <1>6, ReachGoesOn DEF Reaches
    <2>3. ASSUME NEW a \in Guessing PROVE LastWordOf(a)'
      <3>1. CASE ~(m.type = "player_progress" /\ m.action = a)
        BY <1>0, <1>6, <3>1, WordGoesOn DEF LastWord
      <3>2. CASE m.action = a /\ (answers[a].by = "" \/ sight.stage # "guess")
        BY <1>2, <1>6, <3>2 DEF LastWordOf
      <3>3. CASE m.action = a /\ answers[a].by # "" /\ sight.stage = "guess"
        <4>1. 1 \in 1 .. Len(mail) /\ Pending(a, 1)
          <5>1. 1 \in 1 .. Len(mail)
            BY ONLY <1>1
          <5>2. Pending(a, 1)
            BY <1>1, <1>6, <3>3 DEF Pending
          <5> QED
            BY <5>1, <5>2
        <4>2. m \in Heard /\ m.action = ActionOf(m.seat)
          BY <1>1, <1>6 DEF Mails, Heard, Closing, Ending, TellsTruth
        <4>3. CurrentProgress(sight, m)
          BY <3>3, <4>2, ActionsOfSeats DEF CurrentProgress, Heard
        <4>4. PICK i \in 1 .. Len(mail) :
                 /\ Pending(a, i) /\ mail[i].progress.state = "submitted"
                 /\ \A j \in i + 1 .. Len(mail) : ~Pending(a, j)
          BY <1>0, <3>3, <4>1 DEF LastWord, LastWordOf
        <4>5. i # 1
          BY <1>1, <1>6, <4>3, <4>4
        <4>6. /\ Len(mail') = Len(mail) - 1
              /\ \A k \in 1 .. Len(mail') : k + 1 \in 1 .. Len(mail) /\ mail'[k] = mail[k + 1]
          BY Read
        <4>7. i - 1 \in 1 .. Len(mail') /\ (i - 1) + 1 = i
          BY ONLY <1>1, <4>5, <4>6, i \in 1 .. Len(mail)
        <4>8. \A j \in (i - 1) + 1 .. Len(mail') : j + 1 \in i + 1 .. Len(mail) /\ j \in 1 .. Len(mail')
          BY ONLY <1>1, <4>5, <4>6, i \in 1 .. Len(mail)
        <4>9. \A j \in (i - 1) + 1 .. Len(mail') : ~(mail'[j].type = "player_progress" /\ mail'[j].action = a)
          BY <4>4, <4>6, <4>8 DEF Pending
        <4>10. mail'[i - 1] = mail[i]
          BY <4>6, <4>7
        <4> QED
          BY <4>4, <4>7, <4>9, <4>10 DEF LastWordOf, Pending
      <3> QED
        BY <1>6, <3>1, <3>2, <3>3
    <2> QED
      BY <1>0, <1>6, <2>1, <2>2, <2>3, HeardIsKept DEF Reaches, LastWord
  <1>7. CASE /\ m.type = "player_progress" /\ CurrentProgress(sight, m)
             /\ sight' = [sight EXCEPT !.mates[m.seat] = m.progress, !.latest[m.action] = m.progress]
    <2> DEFINE x == m.seat
               b == m.action
               p == m.progress
    <2>1. x \in Seats /\ b \in Guessing /\ p \in Progresses
          /\ b = ActionOf(x) /\ p.state # "none" /\ Fits(x, p)
      BY <1>1, <1>7 DEF Mails, Heard, Closing, Ending, TellsTruth
    <2>2. sight.stage = "guess"
      BY <1>7 DEF CurrentProgress
    <2>3. sight' = [sight EXCEPT !.mates[x] = p, !.latest[b] = p]
      BY <1>7
    <2> HIDE DEF x, b, p
    <2>4. sight' \in Sights
      BY <1>0, <2>1, <2>3 DEF Sights
    <2>5. /\ sight'.stage = sight.stage /\ sight'.submitted = sight.submitted
          /\ sight'.result = sight.result /\ sight'.row = sight.row
          /\ sight'.mates[x] = p /\ \A y \in Seats : y # x => sight'.mates[y] = sight.mates[y]
          /\ sight'.latest[b] = p /\ \A a \in Guessing : a # b => sight'.latest[a] = sight.latest[a]
      BY <1>0, <2>1, <2>3 DEF Sights
    <2>6. Seen'
      <3>1. ASSUME NEW y \in Seats
            PROVE  Fits(y, sight.mates[y])' /\ (ActionOf(y) # "" => sight'.mates[y].state # "none")
        <4> SUFFICES ASSUME NEW q, q = sight'.mates[y]
                     PROVE  Fits(y, q)' /\ (ActionOf(y) # "" => q.state # "none")
          OBVIOUS
        <4>1. Fits(y, q) /\ (ActionOf(y) # "" => q.state # "none")
          BY <1>0, <2>1, <2>2, <2>5 DEF Seen
        <4> QED
          BY <1>0, <1>3, <4>1, FitsStand
      <3>2. ASSUME NEW a \in Guessing
            PROVE  Aired(a, sight.latest[a])' /\ (sight'.submitted[a] => answers'[a].state # "open")
        <4> SUFFICES ASSUME NEW q, q = sight'.latest[a]
                     PROVE  Aired(a, q)' /\ (sight'.submitted[a] => answers'[a].state # "open")
          OBVIOUS
        <4>1. Aired(b, p)
          BY <2>1 DEF Fits, Won, Aired, Seats
        <4>2. Aired(a, q)
          BY <1>0, <2>5, <4>1 DEF Seen
        <4> QED
          BY <1>0, <1>2, <1>3, <2>5, <4>2, AiredStands DEF Seen
      <3>3. sight'.result = <<>> /\ sight'.row = <<>> /\ sight'.stage = "guess"
        BY <1>0, <2>2, <2>5 DEF Seen
      <3> QED
        BY <1>4, <3>1, <3>2, <3>3 DEF Seen
    <2>7. ASSUME NEW a \in Guessing PROVE ReachesOf(a)'
      BY <1>0, <1>7, <2>5, ReachGoesOn DEF Reaches
    <2>8. ASSUME NEW a \in Guessing PROVE LastWordOf(a)'
      <3>1. CASE a # b
        <4>1. ~(m.type = "player_progress" /\ m.action = a)
          BY <3>1 DEF b
        <4> QED
          BY <1>0, <2>5, <3>1, <4>1, WordGoesOn DEF LastWord
      <3>2. CASE a = b /\ answers[a].by = ""
        BY <1>2, <3>2 DEF LastWordOf
      <3>3. CASE a = b /\ answers[a].by # ""
        <4>1. 1 \in 1 .. Len(mail) /\ Pending(a, 1)
          <5>1. 1 \in 1 .. Len(mail)
            BY ONLY <1>1
          <5>2. Pending(a, 1)
            BY <1>1, <1>7, <3>3 DEF Pending, b
          <5> QED
            BY <5>1, <5>2
        <4>2. PICK i \in 1 .. Len(mail) :
                 /\ Pending(a, i) /\ mail[i].progress.state = "submitted"
                 /\ \A j \in i + 1 .. Len(mail) : ~Pending(a, j)
          BY <1>0, <2>2, <3>3, <4>1 DEF LastWord, LastWordOf
        <4>3. /\ Len(mail') = Len(mail) - 1
              /\ \A k \in 1 .. Len(mail') : k + 1 \in 1 .. Len(mail) /\ mail'[k] = mail[k + 1]
          BY Read
        <4>4. CASE i = 1
          <5>1. p.state = "submitted"
            BY <1>1, <4>2, <4>4 DEF p
          <5>2. \A k \in 1 .. Len(mail') : k + 1 \in i + 1 .. Len(mail)
            BY ONLY <1>1, <4>3, <4>4
          <5>3. \A k \in 1 .. Len(mail') : ~(mail'[k].type = "player_progress" /\ mail'[k].action = a)
            BY <4>2, <4>3, <5>2 DEF Pending
          <5> QED
            BY <2>5, <3>3, <5>1, <5>3 DEF LastWordOf, Pending
        <4>5. CASE i # 1
          <5>1. i - 1 \in 1 .. Len(mail') /\ (i - 1) + 1 = i
            BY ONLY <1>1, <4>3, <4>5, i \in 1 .. Len(mail)
          <5>2. \A j \in (i - 1) + 1 .. Len(mail') : j + 1 \in i + 1 .. Len(mail) /\ j \in 1 .. Len(mail')
            BY ONLY <1>1, <4>3, <4>5, i \in 1 .. Len(mail)
          <5>3. \A j \in (i - 1) + 1 .. Len(mail') : ~(mail'[j].type = "player_progress" /\ mail'[j].action = a)
            BY <4>2, <4>3, <5>2 DEF Pending
          <5>4. mail'[i - 1] = mail[i]
            BY <4>3, <5>1
          <5> QED
            BY <4>2, <5>1, <5>3, <5>4 DEF LastWordOf, Pending
        <4> QED
          BY <4>4, <4>5
      <3> QED
        BY <3>1, <3>2, <3>3
    <2> QED
      BY <2>4, <2>6, <2>7, <2>8, HeardIsKept DEF Reaches, LastWord
  <1>12. CASE m.type = "action_submitted" /\ sight.stage # "guess"
    <2>1. sight' = sight
      BY <1>12 DEF Hear, OnActionSubmittedHere
    <2>2. Seen'
      BY <1>0, <1>3, <2>1, SeenStands
    <2>3. ASSUME NEW a \in Guessing PROVE ReachesOf(a)' /\ LastWordOf(a)'
      BY <1>12, <2>1 DEF ReachesOf, LastWordOf
    <2> QED
      BY <1>0, <2>1, <2>2, <2>3, HeardIsKept DEF Reaches, LastWord
  <1>8. CASE m.type = "action_submitted" /\ sight.stage = "guess"
    <2> DEFINE b == m.action
    <2>1. b \in Guessing /\ answers[b].state # "open"
      BY <1>1, <1>8 DEF Mails, Heard, Closing, Ending, TellsTruth
    <2>2. sight' = [sight EXCEPT !.submitted[b] = TRUE]
      BY <1>8 DEF Hear, OnActionSubmittedHere
    <2> HIDE DEF b
    <2>3. sight' \in Sights
      BY <1>0, <2>1, <2>2 DEF Sights
    <2>4. /\ sight'.stage = sight.stage /\ sight'.mates = sight.mates /\ sight'.latest = sight.latest
          /\ sight'.result = sight.result /\ sight'.row = sight.row
          /\ sight'.submitted[b] /\ \A a \in Guessing : a # b => sight'.submitted[a] = sight.submitted[a]
      BY <1>0, <2>1, <2>2 DEF Sights
    <2>5. Seen'
      <3>1. ASSUME NEW y \in Seats PROVE Fits(y, sight.mates[y])'
        <4> SUFFICES ASSUME NEW q, q = sight'.mates[y] PROVE Fits(y, q)'
          OBVIOUS
        <4> QED
          BY <1>0, <1>3, <2>4, FitsStand DEF Seen
      <3>2. ASSUME NEW a \in Guessing PROVE Aired(a, sight.latest[a])'
        <4> SUFFICES ASSUME NEW q, q = sight'.latest[a] PROVE Aired(a, q)'
          OBVIOUS
        <4> QED
          BY <1>0, <1>3, <2>4, AiredStands DEF Seen
      <3>3. \A a \in Guessing : sight'.submitted[a] => answers'[a].state # "open"
        BY <1>0, <1>2, <2>1, <2>4 DEF Seen
      <3>4. sight'.stage = "guess" => \A y \in Seats : ActionOf(y) # "" => sight'.mates[y].state # "none"
        BY <1>0, <2>4 DEF Seen
      <3>5. /\ sight'.stage = "guess" => sight'.result = <<>> /\ sight'.row = <<>>
            /\ sight'.stage # "guess" =>
                  stage' # "guess" /\ sight'.row = <<Row'>> /\ sight'.result \in {<<>>, <<Result'>>}
        BY <1>0, <1>2, <1>5, <2>4 DEF Seen
      <3> QED
        BY <1>4, <3>1, <3>2, <3>3, <3>4, <3>5 DEF Seen
    <2>6. ASSUME NEW a \in Guessing PROVE ReachesOf(a)'
      <3>1. sight.submitted[a] => sight'.submitted[a]
        BY <2>4
      <3>2. m.type = "action_submitted" /\ m.action = a => sight'.submitted[a]
        BY <2>4 DEF b
      <3> QED
        BY <1>0, <2>4, <3>1, <3>2, ReachGoesOn DEF Reaches
    <2>7. ASSUME NEW a \in Guessing PROVE LastWordOf(a)'
      BY <1>0, <1>8, <2>4, WordGoesOn DEF LastWord
    <2> QED
      BY <2>3, <2>5, <2>6, <2>7, HeardIsKept DEF Reaches, LastWord
  <1>9. CASE m.type \in {"round_result", "game_over"}
    <2>1. stage # "guess" /\ m.progress = Result /\ m.progress \in Verdicts
      BY <1>1, <1>9 DEF Mails, Heard, Closing, Ending, TellsTruth
    <2>2. <<m.progress>> \in Seq(Verdicts) /\ <<Row>> \in Seq(Rows)
      BY <1>0, <2>1, RowShapes DEF Shapes
    <2>3. /\ NobodysProgress \in [Seats -> Progresses] /\ NoLatest \in [Guessing -> Progresses]
          /\ NoneSubmitted \in [Guessing -> BOOLEAN]
      BY NothingToShow DEF NobodysProgress, NoLatest, NoneSubmitted
    <2>4. /\ sight' \in Sights /\ sight'.stage # "guess" /\ sight'.row = <<Row>>
          /\ sight'.mates = NobodysProgress /\ sight'.latest = NoLatest
          /\ sight'.submitted \in {sight.submitted, NoneSubmitted}
          /\ sight'.result \in {sight.result, <<Result>>}
      <3>1. CASE m.type = "round_result"
        <4>1. sight' = [sight EXCEPT !.stage = "round_result", !.result = <<m.progress>>, !.row = <<Row>>,
                                     !.submitted = NoneSubmitted, !.mates = NobodysProgress, !.latest = NoLatest]
          BY <3>1 DEF Hear, OnRoundResultHere
        <4> QED
          BY <1>0, <2>1, <2>2, <2>3, <4>1 DEF Sights, Stages
      <3>2. CASE m.type = "game_over"
        <4>1. sight' = [sight EXCEPT !.stage = "game_over", !.row = <<Row>>,
                                     !.mates = NobodysProgress, !.latest = NoLatest]
          BY <3>2 DEF Hear, OnGameOverHere
        <4> QED
          BY <1>0, <2>2, <2>3, <4>1 DEF Sights, Stages
      <3> QED
        BY <1>9, <3>1, <3>2
    <2>5. Seen'
      <3>1. \A x \in Seats : Fits(x, NoProgress)'
        BY DEF Fits, Kept, Won, NoProgress
      <3>2. \A a \in Guessing : Aired(a, NoProgress)'
        BY DEF Aired, NoProgress
      <3>3. \A x \in Seats : Fits(x, sight.mates[x])'
        BY <2>4, <3>1 DEF NobodysProgress
      <3>4. \A a \in Guessing : Aired(a, sight.latest[a])'
        BY <2>4, <3>2 DEF NoLatest
      <3>5. \A a \in Guessing : sight'.submitted[a] => answers'[a].state # "open"
        BY <1>0, <1>2, <2>4 DEF Seen, NoneSubmitted
      <3>6. sight.result \in {<<>>, <<Result>>}
        BY <1>0 DEF Seen
      <3> QED
        BY <1>2, <1>5, <2>1, <2>4, <3>3, <3>4, <3>5, <3>6 DEF Seen
    <2>6. ASSUME NEW a \in Guessing PROVE ReachesOf(a)' /\ LastWordOf(a)'
      BY <2>4 DEF ReachesOf, LastWordOf
    <2> QED
      BY <2>4, <2>5, <2>6, HeardIsKept DEF Reaches, LastWord
  <1>10. m.type \in {"player_progress", "action_submitted", "round_result", "game_over"}
    BY <1>1 DEF Mails, Heard, Closing, Ending
  <1>11. CASE m.type = "player_progress"
    <2>1. sight' = OnProgress(sight, m)
      BY <1>11 DEF Hear
    <2> QED
      BY <1>6, <1>7, <1>11, <2>1 DEF OnProgress
  <1> QED
    BY <1>8, <1>9, <1>10, <1>11, <1>12

LEMMA ResyncNext ==
    ASSUME TableInv, Resync
    PROVE  TableInv'
  <1>0. Shapes /\ Recorded
    BY DEF TableInv
  <1>1. mail' = <<>> /\ sight' = Snapshot /\ UNCHANGED <<me, turn, stage, answers, known, edits>>
    BY DEF Resync
  <1>2. Snapshot \in Sights
    BY <1>0, SnapshotShapes DEF Shapes
  <1>3. Shapes'
    <2>1. <<>> \in Seq(Mails) /\ Len(<<>>) <= MaxWire
      BY TableAssumption
    <2> QED
      BY <1>0, <1>1, <1>2, <2>1 DEF Shapes, ServerShapes, Sights
  <1>4. Standing
    BY <1>1 DEF Standing
  <1>5. Recorded'
    <2>1. \A x \in Seats : Fits(x, known[x])'
      <3> SUFFICES ASSUME NEW x \in Seats, NEW p, p = known[x] PROVE Fits(x, p)'
        BY <1>1
      <3> QED
        BY <1>0, <1>4, FitsStand DEF Recorded
    <2>2. \A y : ActionOf(y)' = ActionOf(y)
      BY <1>4, SeatsStand
    <2> QED
      BY <1>0, <1>1, <2>1, <2>2 DEF Recorded
  <1>6. Delivered'
    <2>1. Len(mail') = 0
      BY <1>1
    <2>2. \A i \in 1 .. Len(mail') : FALSE
      BY ONLY <2>1
    <2> QED
      BY <2>2 DEF Delivered
  <1>7. Snapshot' = Snapshot
    BY <1>1 DEF Snapshot, AggregateProgress, StageRank, ActionOf, Row, Result
  <1>8. (Shapes /\ Recorded /\ sight = Snapshot /\ mail = <<>> => Seen /\ Reaches /\ LastWord)'
    BY SnapshotIsTrue, PTL
  <1> QED
    BY <1>1, <1>3, <1>5, <1>6, <1>7, <1>8 DEF TableInv

LEMMA TableInitInv == TableInit => TableInv
  <1> SUFFICES ASSUME TableInit PROVE TableInv
    OBVIOUS
  <1> DEFINE first(x) == [NoProgress EXCEPT !.state = IF x \in AISeats THEN "thinking" ELSE "idle",
                                            !.advice = ~CanSubmit(x)]
  <1>1. /\ me \in Viewers /\ turn \in {2, 3} /\ stage = "guess"
        /\ answers = [a \in Guessing |-> [state |-> "open", draft |-> <<>>, by |-> "", told |-> FALSE]]
        /\ edits = 0 /\ mail = <<>> /\ sight = Snapshot
    BY DEF TableInit, Viewers, Seats
  <1>2. known = [x \in Seats |-> IF ActionOf(x) = "" THEN NoProgress ELSE Shown(first(x), me, ActionOf(x))]
    BY DEF TableInit
  <1>3. ASSUME NEW x \in Seats
        PROVE  first(x) \in Progresses /\ first(x).state \in {"thinking", "idle"}
    BY NothingToShow DEF Progresses, NoProgress, States, CanSubmit
  <1> HIDE DEF first
  <1>4. ASSUME NEW x \in Seats
        PROVE  /\ known[x] \in Progresses /\ Fits(x, known[x])
               /\ ActionOf(x) # "" => known[x].state # "none"
    <2>1. CASE ActionOf(x) = ""
      <3>1. known[x] = NoProgress
        BY <1>2, <2>1
      <3>2. Fits(x, NoProgress)
        BY DEF Fits, Kept, Won, NoProgress
      <3> QED
        BY <2>1, <3>1, <3>2, NothingToShow
    <2>2. CASE ActionOf(x) # ""
      <3>1. PICK q : q = Shown(first(x), me, ActionOf(x))
        OBVIOUS
      <3>2. q \in Progresses /\ q.state = first(x).state /\ Kept(x, q)
        BY <1>1, <1>3, <2>2, <3>1, ShownIsKept
      <3>3. Fits(x, q)
        BY <1>3, <3>2 DEF Fits, Won
      <3> QED
        BY <1>2, <1>3, <2>2, <3>1, <3>2, <3>3
    <2> QED
      BY <2>1, <2>2
  <1>5. known \in [Seats -> Progresses]
    BY <1>2, <1>4
  <1>6. Recorded
    BY <1>1, <1>4 DEF Recorded
  <1>7. /\ stage \in Stages /\ edits \in Nat
        /\ answers \in Answers
        /\ mail \in Seq(Mails) /\ Len(mail) <= MaxWire
    <2>1. <<>> \in Seq(Mails) /\ Len(<<>>) <= MaxWire
      BY TableAssumption
    <2> QED
      BY <1>1, <2>1, NoDraftYet DEF Answers, Stages
  <1>8. ServerShapes
    BY <1>1, <1>5, <1>7 DEF ServerShapes, Answers
  <1>9. Shapes
    BY <1>1, <1>6, <1>8, SnapshotShapes DEF Shapes
  <1>10. Delivered
    <2>1. Len(mail) = 0
      BY <1>1
    <2>2. \A i \in 1 .. Len(mail) : FALSE
      BY ONLY <2>1
    <2> QED
      BY <2>2 DEF Delivered
  <1> QED
    BY <1>1, <1>6, <1>9, <1>10, SnapshotIsTrue DEF TableInv

LEMMA TableNextInv == TableInv /\ [TableNext]_tableVars => TableInv'
  <1> SUFFICES ASSUME TableInv, [TableNext]_tableVars PROVE TableInv'
    OBVIOUS
  <1>1. Standing
    BY NextStands DEF TableInv
  <1>2. ASSUME NEW x \in Seats, NEW d \in Drafts, NEW s \in {"editing", "submitted"}, Edit(x, d, s) PROVE TableInv'
    BY <1>1, <1>2, EditNext
  <1>3. ASSUME NEW x \in Seats, NEW d \in Drafts, NEW s \in {"thinking", "ready"}, Advise(x, d, s) PROVE TableInv'
    BY <1>1, <1>3, AdviseNext
  <1>4. ASSUME NEW x \in Seats, NEW d \in Drafts, Submit(x, d) PROVE TableInv'
    BY <1>1, <1>4, SubmitNext
  <1>5. ASSUME NEW a \in Guessing, ClockCloses(a) PROVE TableInv'
    BY <1>1, <1>5, ClockNext
  <1>10. ASSUME NEW a \in Guessing, RecordGuess(a) PROVE TableInv'
    BY <1>1, <1>10, RecordNext
  <1>6. CASE Reveal \/ GameOver
    BY <1>1, <1>6, EndNext
  <1>7. CASE Hear
    BY <1>7, HearNext
  <1>8. CASE Resync
    BY <1>8, ResyncNext
  <1>9. CASE UNCHANGED tableVars
    <2>1. UNCHANGED <<me, turn, stage, answers, known, edits, mail, sight>>
      BY <1>9 DEF tableVars
    <2>2. Shapes'
      BY <2>1 DEF TableInv, Shapes, ServerShapes
    <2>3. Recorded'
      BY <2>1 DEF TableInv, Recorded, Fits, Kept, Won, ActionOf
    <2>4. Delivered'
      <3> SUFFICES ASSUME NEW i \in 1 .. Len(mail'), NEW k, k = mail'[i] PROVE TellsTruth(k)'
        BY DEF Delivered
      <3>1. k = mail[i] /\ i \in 1 .. Len(mail) /\ mail \in Seq(Mails)
        BY <2>1 DEF TableInv, Shapes, ServerShapes
      <3>2. TellsTruth(k) /\ k \in Mails
        BY <3>1 DEF TableInv, Delivered
      <3> QED
        BY <1>1, <3>2, TruthStands DEF TableInv
    <2>5. Seen'
      <3>1. Shapes /\ Recorded /\ Seen
        BY DEF TableInv
      <3> QED
        BY <1>1, <2>1, <3>1, SeenStands
    <2>6. Reaches' /\ LastWord'
      <3>1. \A a \in Guessing : ReachesOf(a)' <=> ReachesOf(a)
        BY <2>1 DEF ReachesOf
      <3>2. \A a \in Guessing : LastWordOf(a)' <=> LastWordOf(a)
        BY <2>1 DEF LastWordOf, Pending
      <3> QED
        BY <3>1, <3>2 DEF TableInv, Reaches, LastWord
    <2> QED
      BY <2>2, <2>3, <2>4, <2>5, <2>6 DEF TableInv
  <1> QED
    BY <1>2, <1>3, <1>4, <1>5, <1>6, <1>7, <1>8, <1>9, <1>10 DEF TableNext

-----------------------------------------------------------------------------
\* What the page draws from it

\* The page lights the seats that have an action in the phase it shows
LEMMA LitSeats ==
    ASSUME TableInv
    PROVE  RosterActing = IF sight.stage = "guess" THEN {x \in Seats : ActionOf(x) # ""} ELSE {}
  <1>1. \A x \in Seats : sight.stage = "guess" /\ ActionOf(x) # "" => sight.mates[x].state # "none"
    BY DEF TableInv, Seen
  <1>2. turn \in {2, 3} /\ me \in Viewers
    BY DEF TableInv, Shapes, ServerShapes
  <1>3. Sender = "A"
    BY DEF Sender, TeamOf
  <1>4. sight.stage = "guess" => ActingTeams = IF turn > 2 THEN {"A", "B"} ELSE {"A"}
    BY <1>3 DEF ActingTeams, RoundCast
  <1>5. ASSUME NEW x \in Seats, sight.stage = "guess"
        PROVE  (x # "A1" /\ TeamOf(x) \in ActingTeams) <=> ActionOf(x) # ""
    BY <1>2, <1>4, <1>5 DEF Seats, TeamOf, ActionOf, SeatActionAt, RoleOf
  <1>6. ASSUME NEW x \in Seats, sight.stage = "guess" PROVE Lit(x) <=> ActionOf(x) # ""
    BY <1>1, <1>5, <1>6 DEF Lit
  <1>7. ASSUME NEW x \in Seats, sight.stage # "guess" PROVE ~Lit(x)
    BY <1>7 DEF Lit
  <1> QED
    BY <1>6, <1>7 DEF RosterActing

LEMMA TrueTypes == TableInv => TableTypeOK
  <1> SUFFICES ASSUME TableInv PROVE TableTypeOK
    OBVIOUS
  <1>1. \A a \in Guessing : answers[a].state \in {"open", "answered", "closed"} /\ answers[a].draft \in Drafts
    BY DEF TableInv, Shapes, ServerShapes
  <1>2. \A a \in Guessing : answers[a].by # "" <=> answers[a].state = "answered"
    BY DEF TableInv, Recorded
  <1>3. \A x \in Seats : known[x].digits \in Drafts \cup {Hidden} /\ sight.mates[x].digits \in Drafts \cup {Hidden}
    BY DEF TableInv, Shapes, ServerShapes, Sights, Progresses
  <1>4. /\ me \in Viewers /\ turn \in {2, 3} /\ stage \in Stages
        /\ Len(mail) <= MaxWire /\ sight.stage \in Stages
    BY DEF TableInv, Shapes, ServerShapes, Sights
  <1> QED
    BY <1>1, <1>2, <1>3, <1>4 DEF TableTypeOK

LEMMA TruePrivacy == TableInv => GuessesStayPrivate
  <1> SUFFICES ASSUME TableInv, NEW x \in Seats, TeamOf(me) # TeamOf(x), RoleOf(me) # "encryptor"
               PROVE  \A d \in {sight.mates[x].digits, known[x].digits}
                               \cup {m.progress.digits : m \in {n \in ToSet(mail) :
                                        n.type = "player_progress" /\ n.seat = x}} :
                          d \in {<<>>, Hidden}
    BY DEF GuessesStayPrivate
  <1>1. \A p : Fits(x, p) => p.digits \in {<<>>, Hidden}
    BY DEF Fits, Kept
  <1>2. sight.mates[x].digits \in {<<>>, Hidden} /\ known[x].digits \in {<<>>, Hidden}
    BY <1>1 DEF TableInv, Seen, Recorded
  <1>3. ASSUME NEW m \in ToSet(mail), m.type = "player_progress", m.seat = x
        PROVE  m.progress.digits \in {<<>>, Hidden}
    <2>1. mail \in Seq(Mails) /\ Len(mail) \in Nat
      BY LettersAreCounted DEF TableInv
    <2>2. PICK i \in 1 .. Len(mail) : m = mail[i]
      BY <2>1 DEF ToSet
    <2>3. TellsTruth(m)
      BY <2>2 DEF TableInv, Delivered
    <2> QED
      BY <1>1, <1>3, <2>3 DEF TellsTruth
  <1> QED
    BY <1>2, <1>3

LEMMA TrueWinner == TableInv => OneWinner
  <1> SUFFICES ASSUME TableInv, NEW x \in Seats, RosterStatus(x) = "submitted"
               PROVE  answers[ActionOf(x)].by = x
    BY DEF OneWinner
  <1>1. sight.mates[x].state = "submitted"
    BY DEF RosterStatus
  <1> QED
    BY <1>1 DEF TableInv, Seen, Fits, Won

LEMMA TrueAir == TableInv => AirIsAccepted
  <1> SUFFICES ASSUME TableInv, NEW a \in Guessing
               PROVE  /\ Transmission(a).submitted => answers[a].state # "open"
                      /\ sight.stage = "guess" /\ mail = <<>> /\ answers[a].by # ""
                            /\ Transmission(a).digits # Hidden => Transmission(a).digits = answers[a].draft
    BY DEF AirIsAccepted
  <1>1. Aired(a, sight.latest[a]) /\ (sight.submitted[a] => answers[a].state # "open")
    BY DEF TableInv, Seen
  <1>2. answers[a].by # "" => answers[a].state = "answered"
    BY DEF TableInv, Recorded
  <1>3. Transmission(a).submitted => answers[a].state # "open"
    BY <1>1, <1>2 DEF Transmission, Aired
  <1>4. ASSUME sight.stage = "guess", mail = <<>>, answers[a].by # "", Transmission(a).digits # Hidden
        PROVE  Transmission(a).digits = answers[a].draft
    <2>1. Len(mail) = 0
      BY <1>4
    <2>2. \A i \in 1 .. Len(mail) : FALSE
      BY ONLY <2>1
    <2>3. sight.latest[a].state = "submitted"
      BY <1>4, <2>2 DEF TableInv, LastWord, LastWordOf
    <2> QED
      BY <1>1, <1>4, <2>3 DEF Aired, Transmission
  <1> QED
    BY <1>3, <1>4

LEMMA TrueAwaited == TableInv => AwaitedIsActing
  <1> SUFFICES ASSUME TableInv, Awaited # "", mail = <<>>,
                      \A a \in OpenAction : answers[a].state # "open" => answers[a].told
               PROVE  /\ \E x \in RosterActing : TeamOf(x) = Awaited
                      /\ \A x \in RosterActing : TeamOf(x) = Awaited =>
                            RosterStatus(x) \notin {"submitted", "team submitted"}
    BY DEF AwaitedIsActing
  <1> DEFINE done == {a \in Guessing : sight.submitted[a]}
  <1>1. sight.stage = "guess" /\ turn > 2 /\ Cardinality(done) = 1
        /\ Awaited = (IF done = {"decrypt"} THEN "B" ELSE "A")
    <2>1. turn \in {2, 3}
      BY DEF TableInv, Shapes, ServerShapes
    <2>2. ~(sight.stage # "guess" \/ turn <= 2 \/ Cardinality(done) # 1)
      BY DEF Awaited
    <2>3. Awaited = (IF done = {"decrypt"} THEN "B" ELSE "A")
      BY <2>2 DEF Awaited
    <2>4. turn > 2
      BY ONLY <2>1, <2>2
    <2> QED
      BY <2>2, <2>3, <2>4
  <1>2. PICK c : done = {c}
    <2>1. IsFiniteSet(done)
      <3>1. IsFiniteSet({"decrypt"})
        BY FS_Singleton
      <3>2. IsFiniteSet({"decrypt"} \cup {"intercept"})
        BY <3>1, FS_AddElement
      <3>3. done \subseteq {"decrypt"} \cup {"intercept"}
        BY DEF Guessing
      <3> QED
        BY <3>2, <3>3, FS_Subset
    <2> QED
      BY <1>1, <2>1, FS_Singleton
  <1>3. RosterActing = {x \in Seats : ActionOf(x) # ""} /\ turn \in {2, 3}
    BY <1>1, LitSeats DEF TableInv, Shapes, ServerShapes
  <1>4. Len(mail) = 0
    OBVIOUS
  <1>5. \A i \in 1 .. Len(mail) : FALSE
    BY ONLY <1>4
  <1>6. \A a \in Guessing : answers[a].state # "open" => sight.submitted[a]
    BY <1>1, <1>5 DEF TableInv, Reaches, ReachesOf, OpenAction
  <1>7. PICK a \in Guessing : ~sight.submitted[a] /\ Awaited = ActingTeam(a)
    BY <1>1, <1>2 DEF Guessing, ActingTeam
  <1>8. \E x \in Seats : ActionOf(x) = a /\ TeamOf(x) = Awaited
    BY <1>1, <1>7 DEF Guessing, ActingTeam, Seats, ActionOf, SeatActionAt, RoleOf, TeamOf
  <1>9. ASSUME NEW x \in RosterActing, TeamOf(x) = Awaited
        PROVE  RosterStatus(x) \notin {"submitted", "team submitted"}
    <2>1. x \in Seats /\ ActionOf(x) = a
      BY <1>1, <1>3, <1>7, <1>9, ActionsOfSeats DEF Guessing, ActingTeam
    <2>2. RosterAction(TeamOf(x)) = a
      BY <1>7, <1>9 DEF RosterAction, Guessing, ActingTeam, Sender, TeamOf
    <2>3. sight.mates[x].state # "submitted"
      BY <1>6, <1>7, <2>1 DEF TableInv, Seen, Fits, Won, Recorded, Seats
    <2>4. sight.mates[x] \in Progresses
      BY <2>1 DEF TableInv, Shapes, Sights
    <2> QED
      BY <1>7, <2>2, <2>3, <2>4 DEF RosterStatus, Progresses, States
  <1> QED
    BY <1>3, <1>7, <1>8, <1>9 DEF Guessing

LEMMA TrueSeats == TableInv => SeatsAgree
  <1> SUFFICES ASSUME TableInv PROVE SeatsAgree
    OBVIOUS
  <1>1. turn \in {2, 3} /\ me \in Viewers
    BY DEF TableInv, Shapes, ServerShapes
  <1>2. RosterActing = IF sight.stage = "guess" THEN {x \in Seats : ActionOf(x) # ""} ELSE {}
    BY LitSeats
  <1> DEFINE mates == {y \in Seats : /\ MyAction # "" /\ TeamOf(y) = TeamOf(me) /\ y # me
                                     /\ ~(MyAction = "decrypt" /\ RoleOf(y) = "encryptor")
                                     /\ y \in AISeats => sight.mates[y].state # "none"}
  <1>3. TeammateChoices = {Choice(x) : x \in mates}
    BY DEF TeammateChoices
  <1>4. \A x : Choice(x).seat = x
    BY DEF Choice
  <1>5. {c.seat : c \in TeammateChoices} = mates
    <2> HIDE DEF mates
    <2> QED
      BY <1>3, <1>4
  <1>6. MyAction # "" => sight.stage = "guess" /\ RoleOf(me) \in {"teammate", "opponent"}
                         /\ (RoleOf(me) = "opponent" => turn > 2)
                         /\ (MyAction = IF RoleOf(me) = "teammate" THEN "decrypt" ELSE "intercept")
    BY DEF MyAction, SeatActionAt
  <1>7. ASSUME MyAction # "", NEW y \in Seats, TeamOf(y) = TeamOf(me)
        PROVE  /\ ActionOf(y) # "" <=> ~(MyAction = "decrypt" /\ RoleOf(y) = "encryptor")
               /\ ActionOf(y) # "" => ActionOf(y) = MyAction
    BY <1>1, <1>6, <1>7 DEF Seats, Viewers, TeamOf, RoleOf, ActionOf, SeatActionAt
  <1>8. \A y \in Seats : sight.stage = "guess" /\ ActionOf(y) # "" => sight.mates[y].state # "none"
    BY DEF TableInv, Seen
  <1>9. mates = IF MyAction = "" THEN {} ELSE {x \in RosterActing : TeamOf(x) = TeamOf(me)} \ {me}
    <2>1. CASE MyAction = ""
      BY <2>1
    <2>2. CASE MyAction # ""
      <3>1. \A y \in Seats : y \in mates <=> ActionOf(y) # "" /\ TeamOf(y) = TeamOf(me) /\ y # me
        BY <1>6, <1>7, <1>8, <2>2
      <3>2. \A y : y \in RosterActing <=> y \in Seats /\ ActionOf(y) # ""
        BY <1>2, <1>6, <2>2
      <3> QED
        BY <2>2, <3>1, <3>2
    <2> QED
      BY <2>1, <2>2
  <1>10. ASSUME NEW c \in TeammateChoices, c.submitted PROVE answers[MyAction].by = c.seat
    <2>1. PICK x \in mates : c = Choice(x)
      BY <1>3
    <2>2. x \in Seats /\ MyAction # "" /\ TeamOf(x) = TeamOf(me) /\ c.seat = x
      BY <1>4, <2>1
    <2>3. sight.mates[x].state = "submitted"
      BY <1>10, <2>1 DEF Choice
    <2>4. ActionOf(x) # "" /\ answers[ActionOf(x)].by = x
      BY <2>2, <2>3 DEF TableInv, Seen, Fits, Won
    <2> QED
      BY <1>7, <2>2, <2>4
  <1> HIDE DEF mates
  <1> QED
    BY <1>2, <1>5, <1>9, <1>10 DEF SeatsAgree

\* The first of what scored, of two lines at most
LEMMA FirstTone ==
    ASSUME NEW s, NEW t, NEW a \in BOOLEAN, NEW b \in BOOLEAN
    PROVE  LET r == (IF a THEN <<s>> ELSE <<>>) \o (IF b THEN <<t>> ELSE <<>>)
           IN  (IF r = <<>> THEN "neutral" ELSE r[1]) = IF a THEN s ELSE IF b THEN t ELSE "neutral"
  <1>1. (<<s>> \o <<t>>)[1] = s /\ <<s>> \o <<t>> # <<>>
    OBVIOUS
  <1>2. (<<s>> \o <<>>)[1] = s /\ <<s>> \o <<>> # <<>>
    OBVIOUS
  <1>3. (<<>> \o <<t>>)[1] = t /\ <<>> \o <<t>> # <<>>
    OBVIOUS
  <1>4. <<>> \o <<>> = <<>>
    OBVIOUS
  <1> QED
    BY <1>1, <1>2, <1>3, <1>4

LEMMA TrueVerdict == TableInv => VerdictSurvives
  <1> SUFFICES ASSUME TableInv, sight.stage # "guess"
               PROVE  /\ Verdict("decrypt") = IF Result.decrypt THEN "yes" ELSE "no"
                      /\ turn > 2 => Verdict("intercept") = IF Result.intercept THEN "yes" ELSE "no"
                      /\ RoleOf(me) = "opponent" => ResultTone # "bad"
                      /\ TeamOf(me) = "A" => ResultTone # "good"
    BY DEF VerdictSurvives
  <1>1. sight.row = <<Row>> /\ sight.result \in {<<>>, <<Result>>}
    BY DEF TableInv, Seen
  <1>2. turn \in {2, 3} /\ me \in Viewers
    BY DEF TableInv, Shapes, ServerShapes
  <1>3. Result.decrypt = Right(Row.decrypt) /\ Result.intercept = Right(Row.intercept)
    BY DEF Result
  <1>4. <<Row>> # <<>> /\ <<Row>>[1] = Row /\ <<Result>> # <<>> /\ <<Result>>[1] = Result
    OBVIOUS
  <1>5. ASSUME NEW a \in {"decrypt", "intercept"}, a = "intercept" => turn > 2
        PROVE  Verdict(a) = IF Right(Row[a]) THEN "yes" ELSE "no"
    <2>1. ~(a = "intercept" /\ turn <= 2)
      BY <1>2, <1>5
    <2>2. Result[a] = Right(Row[a])
      BY <1>5 DEF Result, Row
    <2>3. CASE sight.result = <<>> \/ sight.stage = "game_over"
      BY <1>1, <1>4, <2>1, <2>3 DEF Verdict
    <2>4. CASE sight.result = <<Result>> /\ sight.stage # "game_over"
      BY <1>1, <1>4, <2>1, <2>2, <2>4 DEF Verdict
    <2> QED
      BY <1>1, <2>3, <2>4
  <1>6. ResultTone = IF Verdict("intercept") = "yes" THEN Tone("B", FALSE)
                     ELSE IF Verdict("decrypt") = "no" THEN Tone("A", TRUE) ELSE "neutral"
    <2>1. PICK a \in BOOLEAN, b \in BOOLEAN : a = (Verdict("intercept") = "yes") /\ b = (Verdict("decrypt") = "no")
      OBVIOUS
    <2>2. PICK s, t : s = Tone("B", FALSE) /\ t = Tone("A", TRUE)
      OBVIOUS
    <2>3. ResultSummary = (IF a THEN <<s>> ELSE <<>>) \o (IF b THEN <<t>> ELSE <<>>)
      BY <2>1, <2>2 DEF ResultSummary
    <2>4. ResultTone = IF a THEN s ELSE IF b THEN t ELSE "neutral"
      BY <2>3, FirstTone DEF ResultTone
    <2> QED
      BY <2>1, <2>2, <2>4
  <1>7. RoleOf(me) = "opponent" => TeamOf(me) = "B"
    BY <1>2 DEF Viewers, Seats, RoleOf, TeamOf
  <1>8. /\ TeamOf(me) = "B" => Tone("B", FALSE) = "good" /\ Tone("A", TRUE) = "good"
        /\ TeamOf(me) = "A" => Tone("B", FALSE) = "bad" /\ Tone("A", TRUE) = "bad"
    BY DEF Tone
  <1> QED
    BY <1>3, <1>5, <1>6, <1>7, <1>8 DEF Row

\* The table tells each seat the truth and no seat more than it may know, for
\* codes of any length up to 32: the guesses stay private, one answer is accepted,
\* the seats lit are those the server waits for, and the verdict survives (Table)
THEOREM TableTellsTruth == TableSpec => []TableIsTrue
  <1>1. TableInit => TableInv
    BY TableInitInv
  <1>2. TableInv /\ [TableNext]_tableVars => TableInv'
    BY TableNextInv
  <1>3. TableInv => TableIsTrue
    BY TrueTypes, TruePrivacy, TrueWinner, TrueAir, TrueAwaited, TrueSeats, TrueVerdict DEF TableIsTrue
  <1> QED
    BY <1>1, <1>2, <1>3, PTL DEF TableSpec
=============================================================================
