------------------------------- MODULE Table -------------------------------
(***************************************************************************)
(* One guessing phase as the seats at the table see it: the server relays  *)
(* what every seat is working on (game/state.go), one page keeps it, live  *)
(* or from a snapshot (store/gameStore.ts), and draws from it who acts,    *)
(* what each seat has chosen and how the round ended (console/model.ts).   *)
(* A chosen digit is only right or wrong in its place.                     *)
(***************************************************************************)
EXTENDS Integers, Sequences, FiniteSets, SequencesExt

CONSTANTS
    Gates,      \* digits of a code: 3 in the game
    MaxEdits,   \* messages the seats send while they guess: a bound
    MaxWire     \* messages on their way to the page: a bound

\* Up to 32 digits, an answer outranks every draft (StageRank)
ASSUME TableAssumption == Gates \in 1 .. 32 /\ MaxEdits \in Nat /\ MaxWire \in Nat \ {0}

VARIABLES
    me,         \* the seat whose page this is
    turn,       \* the round
    stage,      \* the phase: "guess", "round_result", then perhaps "game_over"
    answers,    \* of each action: open, answered, or closed by the clock, the answer, and
                \* whether the game goroutine has recorded it and told the table
    known,      \* the progress of each seat, as the server has recorded it in this seat's view
    edits,      \* messages the seats have sent
    mail,       \* the messages on their way to the page
    sight       \* the page: its part of the store

tableVars == <<me, turn, stage, answers, known, edits, mail, sight>>

\* Two teams: the first seat of A encrypts, A3 is an AI seat among people, and
\* someone watches
Seats == {"A1", "A2", "A3", "B1", "B2"}
Viewers == Seats \cup {"W"}
AISeats == {"A3"}
TeamOf(seat) == IF seat \in {"B1", "B2"} THEN "B" ELSE IF seat = "W" THEN "" ELSE "A"
RoleOf(seat) == CASE seat = "W" -> "observer" [] seat = "A1" -> "encryptor"
                  [] seat \in {"A2", "A3"} -> "teammate" [] OTHER -> "opponent"

Guessing == {"decrypt", "intercept"}
\* The store and the console both apply the server's rule
SeatActionAt(phase, role, round) ==
    CASE phase = "guess" /\ role = "teammate" -> "decrypt"
      [] phase = "guess" /\ role = "opponent" /\ round > 2 -> "intercept"
      [] OTHER -> ""
ActionOf(seat) == SeatActionAt("guess", RoleOf(seat), turn)
ActingTeam(action) == IF action = "decrypt" THEN "A" ELSE "B"
OpenAction == {a \in Guessing : a = "intercept" => turn > 2}

\* Digits of a draft, filled in order: 0 for none yet, 1 right, 2 wrong
Drafts == UNION {[1 .. n -> {1, 2}] : n \in 0 .. Gates}
Full(d) == Len(d) = Gates
Right(d) == Full(d) /\ \A i \in 1 .. Gates : d[i] = 1
Hidden == <<0>>  \* the digits were withheld
NoProgress == [state |-> "none", step |-> 0, digits |-> <<>>, advice |-> FALSE]

-----------------------------------------------------------------------------
\* The server (state.go)

\* The digits of a guess reach its team, and the encryptor who can check them
ProgressReaders(action) ==
    {v \in Viewers : TeamOf(v) = ActingTeam(action) \/ RoleOf(v) = "encryptor"}

Shown(p, v, action) == IF v \in ProgressReaders(action) THEN p ELSE [p EXCEPT !.digits = Hidden]

Told(messages) == mail' = mail \o messages
Message(kind, seat, action, p) == [type |-> kind, seat |-> seat, action |-> action, progress |-> p]

\* relayProgressLocked: every view records it, every page hears of it
Relay(seat, action, p) ==
    known' = [known EXCEPT ![seat] = Shown(p, me, action)]
Relayed(seat, action, p) == Message("player_progress", seat, action, Shown(p, me, action))

\* A client announces its dispatch before the answer arrives; only an accepted
\* answer is a submission
RelayState(state) == IF state = "submitted" THEN "editing" ELSE state

CanSubmit(seat) == seat \notin AISeats
Room(n) == Len(mail) + n <= MaxWire

Edit(seat, draft, state) ==
    LET action == ActionOf(seat)
        p == [state |-> RelayState(state), step |-> Len(draft), digits |-> draft, advice |-> FALSE]
    IN  /\ action # "" /\ stage = "guess" /\ answers[action].state = "open"
        /\ seat \notin AISeats /\ edits < MaxEdits /\ Room(1)
        /\ state = "submitted" => Full(draft)
        /\ edits' = edits + 1
        /\ answers' = [answers EXCEPT ![action].draft = draft]
        /\ Relay(seat, action, p)
        /\ Told(<<Relayed(seat, action, p)>>)
        /\ UNCHANGED <<me, turn, stage, sight>>

\* An AI seat of a team with people in it only suggests
Advise(seat, draft, state) ==
    LET action == ActionOf(seat)
        p == [state |-> state, step |-> Len(draft), digits |-> draft, advice |-> ~CanSubmit(seat)]
    IN  /\ action # "" /\ stage = "guess" /\ answers[action].state = "open"
        /\ seat \in AISeats /\ edits < MaxEdits /\ Room(1)
        /\ state = "ready" => Full(draft)
        /\ edits' = edits + 1
        /\ Relay(seat, action, p)
        /\ Told(<<Relayed(seat, action, p)>>)
        /\ UNCHANGED <<me, turn, stage, answers, sight>>

\* SubmitGuess: the answer is accepted, relayed and put in its channel
Submit(seat, draft) ==
    LET action == ActionOf(seat)
        p == [state |-> "submitted", step |-> Gates, digits |-> draft, advice |-> FALSE]
    IN  /\ action # "" /\ stage = "guess" /\ answers[action].state = "open"
        /\ CanSubmit(seat) /\ Full(draft) /\ Room(1)
        /\ answers' = [answers EXCEPT ![action] = [state |-> "answered", draft |-> draft, by |-> seat, told |-> FALSE]]
        /\ Relay(seat, action, p)
        /\ Told(<<Relayed(seat, action, p)>>)
        /\ UNCHANGED <<me, turn, stage, edits, sight>>

\* Time runs out: the seats' last draft is the answer, if it is complete
ClockCloses(action) ==
    /\ stage = "guess" /\ action \in OpenAction /\ answers[action].state = "open"
    /\ answers' = [answers EXCEPT ![action].state = "closed",
                                  ![action].draft = IF Full(@) THEN @ ELSE <<>>]
    /\ UNCHANGED <<me, turn, stage, known, edits, mail, sight>>

\* recordGuess: the game goroutine hands the answer to the round, and tells the table
RecordGuess(action) ==
    /\ stage = "guess" /\ answers[action].state # "open" /\ ~answers[action].told /\ Room(1)
    /\ answers' = [answers EXCEPT ![action].told = TRUE]
    /\ Told(<<Message("action_submitted", "", action, NoProgress)>>)
    /\ UNCHANGED <<me, turn, stage, known, edits, sight>>

\* The public row of the round, and the result that is told but once
Row == [decrypt |-> answers["decrypt"].draft, intercept |-> answers["intercept"].draft]
Result == [decrypt |-> Right(Row.decrypt), intercept |-> Right(Row.intercept)]

Reveal ==
    /\ stage = "guess" /\ Room(1)
    /\ \A a \in OpenAction : answers[a].told
    /\ stage' = "round_result"
    /\ Told(<<Message("round_result", "", "decrypt", Result)>>)
    /\ UNCHANGED <<me, turn, answers, known, edits, sight>>

\* broadcastGameOver: the round decided the game
GameOver ==
    /\ stage = "round_result" /\ Room(1)
    /\ stage' = "game_over"
    /\ Told(<<Message("game_over", "", "decrypt", Result)>>)
    /\ UNCHANGED <<me, turn, answers, known, edits, sight>>

-----------------------------------------------------------------------------
\* The page keeps it (gameStore.ts)

\* Broken variant: only the number of digits counts
RankBySteps(p) == p.step

\* A seat's answer wins, then the most advanced draft
StageRank(p) == IF p.state = "submitted" /\ ~p.advice THEN 100
           ELSE p.step * 3 + (IF p.state = "thinking" THEN 2 ELSE IF p.state = "idle" THEN 0 ELSE 1)

AggregateProgress(progress, action) ==
    LET seats == {x \in Seats : progress[x].state # "none" /\ ActionOf(x) = action} IN
    IF seats = {} THEN NoProgress
    ELSE progress[CHOOSE x \in seats : \A y \in seats : StageRank(progress[x]) >= StageRank(progress[y])]

CurrentProgress(s, m) == s.stage = "guess" /\ (m.action = "intercept" => turn > 2)

OnProgress(s, m) ==
    IF ~CurrentProgress(s, m) \/ (s.submitted[m.action] /\ m.progress.state # "submitted") THEN s
    ELSE [s EXCEPT !.mates[m.seat] = m.progress, !.latest[m.action] = m.progress]

OnActionSubmittedHere(s, m) == IF s.stage = "guess" THEN [s EXCEPT !.submitted[m.action] = TRUE] ELSE s

NobodysProgress == [x \in Seats |-> NoProgress]
NoLatest == [a \in Guessing |-> NoProgress]
NoneSubmitted == [a \in Guessing |-> FALSE]
OnRoundResultHere(s, m) ==
    [s EXCEPT !.stage = "round_result", !.result = <<m.progress>>, !.row = <<Row>>,
              !.submitted = NoneSubmitted, !.mates = NobodysProgress, !.latest = NoLatest]
OnGameOverHere(s) ==
    [s EXCEPT !.stage = "game_over", !.row = <<Row>>, !.mates = NobodysProgress, !.latest = NoLatest]

\* A snapshot: the recorded progress of this phase, or the result and the public row
Snapshot ==
    IF stage = "guess"
    THEN [stage |-> stage, submitted |-> [a \in Guessing |-> answers[a].state # "open"],
          mates |-> known, latest |-> [a \in Guessing |-> AggregateProgress(known, a)],
          result |-> <<>>, row |-> <<>>]
    ELSE [stage |-> stage, submitted |-> NoneSubmitted, mates |-> NobodysProgress, latest |-> NoLatest,
          result |-> <<Result>>, row |-> <<Row>>]

Hear ==
    /\ mail # <<>> /\ mail' = Tail(mail)
    /\ sight' = LET m == Head(mail) IN
                CASE m.type = "player_progress" -> OnProgress(sight, m)
                  [] m.type = "action_submitted" -> OnActionSubmittedHere(sight, m)
                  [] m.type = "round_result" -> OnRoundResultHere(sight, m)
                  [] OTHER -> OnGameOverHere(sight)
    /\ UNCHANGED <<me, turn, stage, answers, known, edits>>

\* The connection was lost, and with it the messages on their way
Resync == mail' = <<>> /\ sight' = Snapshot /\ UNCHANGED <<me, turn, stage, answers, known, edits>>

TableInit ==
    /\ me \in {"A1", "A2", "B1", "W"} /\ turn \in {2, 3} /\ stage = "guess"
    /\ answers = [a \in Guessing |-> [state |-> "open", draft |-> <<>>, by |-> "", told |-> FALSE]]
    /\ known = [x \in Seats |->
                  IF ActionOf(x) = "" THEN NoProgress
                  ELSE Shown([NoProgress EXCEPT !.state = IF x \in AISeats THEN "thinking" ELSE "idle",
                                                !.advice = ~CanSubmit(x)], me, ActionOf(x))]
    /\ edits = 0 /\ mail = <<>> /\ sight = Snapshot

TableNext ==
    \/ \E x \in Seats, d \in Drafts : \/ \E state \in {"editing", "submitted"} : Edit(x, d, state)
                                      \/ \E state \in {"thinking", "ready"} : Advise(x, d, state)
                                      \/ Submit(x, d)
    \/ \E a \in Guessing : ClockCloses(a) \/ RecordGuess(a)
    \/ Reveal \/ GameOver \/ Hear \/ Resync

TableSpec == TableInit /\ [][TableNext]_tableVars

-----------------------------------------------------------------------------
\* What the page draws (model.ts)

MyAction == SeatActionAt(sight.stage, RoleOf(me), turn)

\* roundCast, from the seat of the encryptor, which every page knows
Sender == IF me = "W" \/ RoleOf(me) # "opponent" THEN TeamOf("A1") ELSE "A"
RoundCast == [sending |-> Sender, decoders |-> {x \in Seats : TeamOf(x) = Sender /\ x # "A1"},
              interceptors |-> {x \in Seats : TeamOf(x) # Sender}, intercepted |-> turn > 2]

ActingTeams == IF sight.stage # "guess" THEN {}
               ELSE IF RoundCast.intercepted THEN {"A", "B"} ELSE {Sender}
RosterAction(team) == IF team = Sender THEN "decrypt" ELSE "intercept"

\* rosterTeams: the seats lit as acting, and what is written on them
Lit(x) ==
    /\ sight.stage = "guess" /\ x # "A1" /\ TeamOf(x) \in ActingTeams
    /\ x \in AISeats => sight.mates[x].state # "none"
RosterActing == {x \in Seats : Lit(x)}

RosterStatus(x) ==
    LET p == sight.mates[x] IN
    IF ~Lit(x) THEN "listening"
    ELSE IF p.state = "submitted" /\ ~p.advice THEN "submitted"
    ELSE IF sight.submitted[RosterAction(TeamOf(x))] THEN "team submitted"
    ELSE p.state

\* A teammate's choice as it is drawn
Choice(x) ==
    LET p == sight.mates[x] IN
    [seat |-> x, digits |-> p.digits, suggestion |-> p.advice,
     submitted |-> p.state = "submitted" /\ ~p.advice,
     canSubmit |-> ~sight.submitted[MyAction] /\ ~p.advice]

\* The teammates' own choices: never the encryptor's, nor the other team's
TeammateChoices ==
    {Choice(x) : x \in {y \in Seats : /\ MyAction # "" /\ TeamOf(y) = TeamOf(me) /\ y # me
                                      /\ ~(MyAction = "decrypt" /\ RoleOf(y) = "encryptor")
                                      /\ y \in AISeats => sight.mates[y].state # "none"}}

\* An action's slots on the air: how many are done, and the digits where they may be seen
Transmission(action) ==
    LET p == sight.latest[action]
        submitted == (p.state = "submitted" /\ ~p.advice) \/ sight.submitted[action]
        visible == RoleOf(me) = "encryptor" \/ TeamOf(me) = ActingTeam(action)
    IN  [submitted |-> submitted, digits |-> IF visible THEN p.digits ELSE Hidden,
         count |-> IF submitted THEN Gates ELSE IF p.digits = Hidden THEN p.step ELSE Len(p.digits)]

\* The team the code still waits for, once the other has answered
Awaited ==
    LET done == {a \in Guessing : sight.submitted[a]} IN
    IF sight.stage # "guess" \/ turn <= 2 \/ Cardinality(done) # 1 THEN ""
    ELSE IF done = {"decrypt"} THEN "B" ELSE "A"

\* The verdicts, from the result that was heard or, once the game is over, from the
\* public row
Verdict(action) ==
    IF action = "intercept" /\ turn <= 2 THEN "none"
    ELSE IF sight.stage # "game_over" /\ sight.result # <<>> THEN IF sight.result[1][action] THEN "yes" ELSE "no"
    ELSE IF sight.row # <<>> THEN IF Right(sight.row[1][action]) THEN "yes" ELSE "no" ELSE "unknown"

\* What scored, as good or bad news for this seat
Tone(team, error) == IF TeamOf(me) = "" THEN "neutral" ELSE IF (TeamOf(me) = team) # error THEN "good" ELSE "bad"
ResultSummary ==
    (IF Verdict("intercept") = "yes" THEN <<Tone("B", FALSE)>> ELSE <<>>)
    \o (IF Verdict("decrypt") = "no" THEN <<Tone("A", TRUE)>> ELSE <<>>)
ResultTone == IF ResultSummary = <<>> THEN "neutral" ELSE ResultSummary[1]

-----------------------------------------------------------------------------
Stages == {"guess", "round_result", "game_over"}

TableTypeOK ==
    /\ me \in Viewers /\ turn \in {2, 3} /\ stage \in Stages /\ sight.stage \in Stages
    /\ \A a \in Guessing : answers[a].state \in {"open", "answered", "closed"} /\ answers[a].draft \in Drafts
                          /\ (answers[a].by # "" <=> answers[a].state = "answered")
    /\ \A x \in Seats : known[x].digits \in Drafts \cup {Hidden}
    /\ Len(mail) <= MaxWire
    /\ \A x \in Seats : sight.mates[x].digits \in Drafts \cup {Hidden}

\* "Nobody else learns a guess before the code is revealed": no digit of the
\* other team's guess is on a page or on its way there, live or restored, and
\* a seat that only watches sees none at all
GuessesStayPrivate ==
    \A x \in Seats :
        TeamOf(me) # TeamOf(x) /\ RoleOf(me) # "encryptor" =>
            \A d \in {sight.mates[x].digits, known[x].digits}
                     \cup {m.progress.digits : m \in {n \in ToSet(mail) : n.type = "player_progress" /\ n.seat = x}} :
                d \in {<<>>, Hidden}

\* A seat reads as submitted only if its own answer was the one accepted: not
\* a teammate who sent at the same moment, and never a suggestion
OneWinner ==
    \A x \in Seats : RosterStatus(x) = "submitted" => answers[ActionOf(x)].by = x

\* What is on the air as submitted was accepted by the server, and once the page has
\* heard everything it is not left showing a draft that was beaten
AirIsAccepted ==
    \A a \in Guessing :
        /\ Transmission(a).submitted => answers[a].state # "open"
        /\ sight.stage = "guess" /\ mail = <<>> /\ answers[a].by # "" /\ Transmission(a).digits # Hidden
              => Transmission(a).digits = answers[a].draft

\* The line that says for whom the code waits agrees with the seats that are
\* still lit without an answer, once what was accepted is told and heard
AwaitedIsActing ==
    Awaited # "" /\ mail = <<>> /\ (\A a \in OpenAction : answers[a].state # "open" => answers[a].told) =>
                    /\ \E x \in RosterActing : TeamOf(x) = Awaited
                    /\ \A x \in RosterActing : TeamOf(x) = Awaited =>
                          RosterStatus(x) \notin {"submitted", "team submitted"}

\* Every page lights the seats the server waits for, and offers a seat the
\* choices of those who answer with it
SeatsAgree ==
    /\ sight.stage = "guess" => RosterActing = {x \in Seats : ActionOf(x) # ""}
    /\ {c.seat : c \in TeammateChoices} =
           IF MyAction = "" THEN {} ELSE {x \in RosterActing : TeamOf(x) = TeamOf(me)} \ {me}
    /\ \A c \in TeammateChoices : c.submitted => answers[MyAction].by = c.seat

\* A page that was away when the round ended, and one whose game is over, which
\* has only the public row to go by, show the verdicts and the tone of one that
\* heard the result
VerdictSurvives ==
    sight.stage # "guess" =>
        /\ Verdict("decrypt") = IF Result.decrypt THEN "yes" ELSE "no"
        /\ turn > 2 => Verdict("intercept") = IF Result.intercept THEN "yes" ELSE "no"
        /\ RoleOf(me) = "opponent" => ResultTone # "bad"
        /\ TeamOf(me) = "A" => ResultTone # "good"

\* The table tells each seat the truth, and no seat more than it may know:
\* private guesses, one accepted answer, whom the code waits for, the verdict.
TableIsTrue ==
    /\ TableTypeOK /\ GuessesStayPrivate /\ OneWinner /\ AirIsAccepted
    /\ AwaitedIsActing /\ SeatsAgree /\ VerdictSurvives
=============================================================================
