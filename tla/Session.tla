------------------------------- MODULE Session -------------------------------
(***************************************************************************)
(* The rules of one game: server/internal/core.  A Session is a list of    *)
(* rounds, the last of which is the current one, and each team's tokens    *)
(* (interceptions and decoding errors).  One goroutine forwards it through *)
(* the phases of each round; the handlers core calls at every phase belong *)
(* to its caller (module Bridge), so what they return is chosen here.      *)
(*                                                                         *)
(* The session is copied (Snapshot) whenever its caller saves it, and the  *)
(* process may stop at any moment: Restore rebuilds the session from the   *)
(* last copy and Resume re-enters the phase that copy was taken in.        *)
(***************************************************************************)
EXTENDS Integers, Sequences, FiniteSets

CONSTANTS
    Codes,      \* SECRET_CODES: the codes a round can draw, and a guess can name
    NoCode,     \* [3]int{}: the guess that was never given
    Clues,      \* what an encryptor can write, abstracted
    NoClues,    \* the clues of a round that has none yet
    Size,       \* players of each team, in seat order
    MaxRounds   \* maxRounds, MAX_ROUND

Teams == {1, 2}
Other(t) == 3 - t

ASSUME SessionAssumption ==
    /\ Codes # {} /\ NoCode \notin Codes
    /\ Clues # {} /\ NoClues \notin Clues
    /\ Size \in [Teams -> 2..4]
    /\ MaxRounds \in Nat \ {0}

\* TeamState, in the order a round goes through
States == {"NEW", "INIT", "ENCRYPTING", "GUESSING", "DONE"}

Round == [n            : Nat \ {0},            \* roundN
          currentTeam  : Teams,
          state        : States,
          encryptor    : Nat,                  \* encryptPlayerIndex
          secret       : Codes,
          clues        : Clues \cup {NoClues}, \* encryptedMessage
          decrypt      : Codes \cup {NoCode},
          decrypted    : BOOLEAN,
          intercept    : Codes \cup {NoCode},
          intercepted  : BOOLEAN]

VARIABLES
    rounds,     \* Session.rounds; currentRound is its last element
    tokens,     \* per team: InterceptedCounts and DecryptWrongCounts
    control,    \* the game goroutine: "start" in StartRound, "forward" in a
                \* phase of the current round, "over", or "stopped" by ctx
    winner,     \* the team gamerOverHandler was called with; 0 is nil
    saved       \* the last snapshot's rounds

sessionVars == <<rounds, tokens, control, winner, saved>>

-----------------------------------------------------------------------------
Current == rounds[Len(rounds)]

\* Broken variant: interceptions one round early
HasInterceptionEarly(r) == r.n >= 2

HasInterception(r) == r.n > 2
NeedsIntercept(r)  == HasInterception(r) /\ ~r.intercepted

\* Broken variant: asks for a decoding that was already given
NeedsDecryptAlways(r) == TRUE

NeedsDecrypt(r)    == ~r.decrypted
InterceptScores(r) == r.intercepted /\ r.intercept = r.secret
DecryptFails(r)    == r.decrypt # r.secret

\* A code of three digits is turned over: what it adds to a team's tokens
RevealTokens(tk, r) ==
    LET t == r.currentTeam IN
    [tk EXCEPT
        ![Other(t)].interceptions = IF InterceptScores(r) THEN @ + 1 ELSE @,
        ![t].errors               = IF DecryptFails(r) THEN @ + 1 ELSE @]

Score(tk, t) == tk[t].interceptions - tk[t].errors

\* Broken variant: a tie goes to the first team
LeaderOfTie(tk) == IF Score(tk, 1) >= Score(tk, 2) THEN 1 ELSE 2

Leader(tk) ==
    IF Score(tk, 1) > Score(tk, 2) THEN 1
    ELSE IF Score(tk, 2) > Score(tk, 1) THEN 2 ELSE 0

\* Broken variant: off by one
WinsLate(tk, t) == tk[t].interceptions > 2 \/ tk[Other(t)].errors > 2

Wins(tk, t) == tk[t].interceptions >= 2 \/ tk[Other(t)].errors >= 2

\* Broken variant: off by one
FinalRoundLate == rounds # <<>> /\ Current.n > MaxRounds

\* isFinalRound, of a current round that may not exist yet
FinalRound == rounds # <<>> /\ Current.n = MaxRounds

IsGameOver(tk) == \E t \in Teams : Wins(tk, t)

WinnerOf(tk) ==
    IF \A t \in Teams : Wins(tk, t)
    THEN Leader(tk)
    ELSE CHOOSE t \in Teams : Wins(tk, t)

\* Broken variant: reads the encryptor of the last round, the other team's
NextEncryptorAfterLast(rs, t) ==
    IF Len(rs) + 1 > 2 THEN (rs[Len(rs)].encryptor + 1) % Size[t] ELSE 0

\* Which player of the team encrypts: the one after its last encryptor
NextEncryptor(rs, t) ==
    IF Len(rs) + 1 > 2 THEN (rs[Len(rs) - 1].encryptor + 1) % Size[t] ELSE 0

NewRound(rs, secret) ==
    LET t == IF rs = <<>> THEN 1 ELSE Other(rs[Len(rs)].currentTeam) IN
    [n |-> Len(rs) + 1, currentTeam |-> t, state |-> "NEW",
     encryptor |-> NextEncryptor(rs, t), secret |-> secret, clues |-> NoClues,
     decrypt |-> NoCode, decrypted |-> FALSE,
     intercept |-> NoCode, intercepted |-> FALSE]

NoTokens == [t \in Teams |-> [interceptions |-> 0, errors |-> 0]]

FailedByUnfinished(rs, t) ==
    {i \in DOMAIN rs : rs[i].currentTeam = t /\ DecryptFails(rs[i])}

\* The finished rounds of rs that count for, and against, a team
InterceptedBy(rs, t) ==
    {i \in DOMAIN rs : /\ rs[i].state = "DONE" /\ rs[i].currentTeam = Other(t)
                       /\ InterceptScores(rs[i])}
FailedBy(rs, t) ==
    {i \in DOMAIN rs : /\ rs[i].state = "DONE" /\ rs[i].currentTeam = t
                       /\ DecryptFails(rs[i])}

\* The tokens Restore arrives at by revealing, one after another, the rounds
\* that were saved as DONE
Recount(rs) ==
    [t \in Teams |-> [interceptions |-> Cardinality(InterceptedBy(rs, t)),
                      errors        |-> Cardinality(FailedBy(rs, t))]]

\* RoundSnapshot.validate, for the round at index i of a snapshot
ValidRound(rs, i) ==
    LET r == rs[i] IN
    /\ r.n = i
    /\ i < Len(rs) => r.state = "DONE"
    /\ r.encryptor < Size[IF i % 2 = 1 THEN 1 ELSE 2]
    /\ r.secret \in Codes
    /\ r.intercepted => r.n > 2 /\ r.state \in {"GUESSING", "DONE"}
    /\ r.decrypted => r.state \in {"GUESSING", "DONE"}
    /\ r.state = "DONE" => r.decrypted /\ (r.n > 2 => r.intercepted)

\* The snapshots Restore accepts
ValidSnapshot(rs) ==
    /\ Len(rs) <= MaxRounds
    /\ \A i \in DOMAIN rs : ValidRound(rs, i)

-----------------------------------------------------------------------------
\* NewWithTeams: the session as it is dealt, saved before its first round
SessionInit ==
    /\ rounds = <<>>
    /\ tokens = NoTokens
    /\ control = "start"
    /\ winner = 0
    /\ saved = <<>>

\* StartRound when a team has won, or after the final round
GameOver ==
    /\ control = "start"
    /\ \/ IsGameOver(tokens) /\ winner' = WinnerOf(tokens)
       \/ /\ ~IsGameOver(tokens)
          /\ FinalRound
          /\ winner' = Leader(tokens)
    /\ control' = "over"
    /\ UNCHANGED <<rounds, tokens, saved>>

\* StartRound otherwise: createNewRound, then AutoForward's first Next
StartRound ==
    /\ control = "start"
    /\ ~IsGameOver(tokens)
    /\ ~FinalRound
    /\ \E secret \in Codes : rounds' = Append(rounds, NewRound(rounds, secret))
    /\ control' = "forward"
    /\ UNCHANGED <<tokens, winner, saved>>

\* The current round goes on as r
SetCurrent(r) == rounds' = [rounds EXCEPT ![Len(rounds)] = r]

In(state) == control = "forward" /\ Current.state = state

EnterInit ==
    /\ In("NEW")
    /\ SetCurrent([Current EXCEPT !.state = "INIT"])
    /\ UNCHANGED <<tokens, control, winner, saved>>

\* initHandler returned false
InitDone ==
    /\ In("INIT")
    /\ SetCurrent([Current EXCEPT !.state = "ENCRYPTING"])
    /\ UNCHANGED <<tokens, control, winner, saved>>

\* encryptHandler returned the round's clues
EncryptDone(c) ==
    /\ In("ENCRYPTING")
    /\ SetCurrent([Current EXCEPT !.clues = c, !.state = "GUESSING"])
    /\ UNCHANGED <<tokens, control, winner, saved>>

\* SetDecryptedSecret and SetInterceptSecret, called by guessHandler
GiveDecrypt(g) ==
    /\ In("GUESSING") /\ NeedsDecrypt(Current)
    /\ SetCurrent([Current EXCEPT !.decrypt = g, !.decrypted = TRUE])
    /\ UNCHANGED <<tokens, control, winner, saved>>

GiveIntercept(g) ==
    /\ In("GUESSING") /\ NeedsIntercept(Current)
    /\ SetCurrent([Current EXCEPT !.intercept = g, !.intercepted = TRUE])
    /\ UNCHANGED <<tokens, control, winner, saved>>

\* A guess the handler never gave counts as an empty one
FillGuesses(r) ==
    [r EXCEPT !.intercepted = @ \/ NeedsIntercept(r), !.decrypted = TRUE]

\* guessHandler returned, or both guesses were already there: the reveal
GuessDone ==
    /\ In("GUESSING")
    /\ LET r == FillGuesses(Current) IN
       /\ SetCurrent([r EXCEPT !.state = "DONE"])
       /\ tokens' = RevealTokens(tokens, r)
    /\ UNCHANGED <<control, winner, saved>>

\* doneHandler returned false: back to AutoForward's loop
RoundDone ==
    /\ In("DONE")
    /\ control' = "start"
    /\ UNCHANGED <<rounds, tokens, winner, saved>>

\* A handler returned true: the session is no longer forwarded
Cancel ==
    /\ control = "forward"
    /\ Current.state # "NEW"
    /\ control' = "stopped"
    /\ UNCHANGED <<rounds, tokens, winner, saved>>

\* Snapshot, called from a handler and stored by its caller
Save ==
    /\ saved' = rounds
    /\ UNCHANGED <<rounds, tokens, control, winner>>

\* The process stops, at any moment; a new one calls Restore, which refuses a
\* snapshot the game could not have produced, and Resume
Restart ==
    /\ ValidSnapshot(saved)
    /\ rounds' = saved
    /\ tokens' = Recount(saved)
    /\ control' = IF saved = <<>> THEN "start" ELSE "forward"
    /\ winner' = 0
    /\ UNCHANGED saved

SessionNext ==
    \/ GameOver \/ StartRound \/ EnterInit \/ InitDone
    \/ \E c \in Clues : EncryptDone(c)
    \/ \E g \in Codes \cup {NoCode} : GiveDecrypt(g) \/ GiveIntercept(g)
    \/ GuessDone \/ RoundDone \/ Cancel \/ Save \/ Restart

SessionSpec == SessionInit /\ [][SessionNext]_sessionVars

-----------------------------------------------------------------------------
Tokens == [Teams -> [interceptions : Nat, errors : Nat]]

TypeOK ==
    /\ rounds \in Seq(Round)
    /\ Len(rounds) <= MaxRounds
    /\ tokens \in Tokens
    /\ control \in {"start", "forward", "over", "stopped"}
    /\ control = "forward" => rounds # <<>>
    /\ winner \in Teams \cup {0}
    /\ saved \in Seq(Round)

\* The tokens counted as the game went along (reveal, once per round) are those
\* a restart counts from the finished rounds (Restore): no round is scored twice
\* or not at all, however often the process stops around a reveal.
TokensAgree == tokens = Recount(rounds)

\* Restore never refuses a snapshot the game itself took, whatever moment of a
\* round it was taken at: RoundSnapshot.validate admits every reachable session.
SnapshotsAccepted == ValidSnapshot(saved)

\* The game stops in time: no team collects a third interception or a third
\* error, so the uint8 counters never wrap, and only a game that nobody has won
\* takes another round (IsGameOver is asked before every round, across restarts).
TokensBounded ==
    /\ \A t \in Teams : tokens[t].interceptions <= 2 /\ tokens[t].errors <= 2
    /\ IsGameOver(tokens) => Current.state = "DONE"

\* The players of a team encrypt in turn: round i is encrypted by seat
\* (i - 1) div 2 of its team, round after round and across restarts
\* (createNewRound reads the encryptor two rounds back).
TurnsRotate ==
    \A i \in DOMAIN rounds :
        /\ rounds[i].currentTeam = IF i % 2 = 1 THEN 1 ELSE 2
        /\ rounds[i].encryptor = ((i - 1) \div 2) % Size[rounds[i].currentTeam]

Rank(state) == CASE state = "NEW" -> 0 [] state = "INIT" -> 1
                 [] state = "ENCRYPTING" -> 2 [] state = "GUESSING" -> 3
                 [] state = "DONE" -> 4

\* The round s is the round r, later: nothing r had settled is different in s
Continues(r, s) ==
    /\ <<s.n, s.currentTeam, s.encryptor, s.secret>>
         = <<r.n, r.currentTeam, r.encryptor, r.secret>>
    /\ Rank(r.state) <= Rank(s.state)
    /\ Rank(r.state) > 2 => s.clues = r.clues
    /\ r.decrypted => s.decrypted /\ s.decrypt = r.decrypt
    /\ r.intercepted => s.intercepted /\ s.intercept = r.intercept

SessionContinues(rs, ss) ==
    Len(rs) <= Len(ss) /\ \A i \in DOMAIN rs : Continues(rs[i], ss[i])

\* What is saved stands: a later snapshot never redraws a saved code, changes
\* the clues or a guess it holds, or takes a round back, even when the process
\* stopped in between and the rest of the round was played again (protocol.md:
\* a guess already given is not asked for again after a restart).
SavedStands == [][SessionContinues(saved, saved')]_sessionVars

\* What the score is made of: each of the tokens once, and no more than it takes
\* (reveal, Restore, IsGameOver).
TokensRight == TokensAgree /\ TokensBounded
=============================================================================
