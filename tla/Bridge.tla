------------------------------- MODULE Bridge -------------------------------
(***************************************************************************)
(* A running game: server/internal/game.  The Bridge lets three parties    *)
(* meet: the game goroutine, which forwards the Session (module Session)   *)
(* and waits in its handlers; the socket handlers, which submit answers    *)
(* and drafts under b.mu; and the AI workers, which answer for all-AI      *)
(* teams.  Answers travel over three channels of capacity one.  The        *)
(* Session's copies become snapshots together with what the bridge showed, *)
(* and the process may be killed at any step and started again.            *)
(*                                                                         *)
(* Every action is one critical section of b.mu, one channel operation or  *)
(* one step of core that the goroutine takes alone.  A submission is two   *)
(* steps, the check of the clock and the rest, with b.mu held in between   *)
(* (sub # Idle): the goroutine's selects do not take the lock.             *)
(***************************************************************************)
EXTENDS Session

CONSTANTS
    AI,         \* the seats AI players sit on
    Dashes,     \* the clues sent for an encryptor who wrote nothing: "—"
    CanCrash,   \* whether the process may be killed
    CanStop     \* whether the room may close under a running game

Seats == {<<t, i>> : t \in Teams, i \in 0..3}
SeatsOf(t) == {<<t, i>> : i \in 0..(Size[t] - 1)}
GuessNames == {"decrypt", "intercept"}
Names == GuessNames \cup {"encrypt"}
Idle == [name |-> "none"]
Nothing == "nothing"

ASSUME BridgeAssumption ==
    /\ AI \subseteq Seats
    /\ Dashes \in Clues
    /\ CanCrash \in BOOLEAN /\ CanStop \in BOOLEAN

VARIABLES
    phase,      \* b.phase, what the seats are shown
    round,      \* b.round
    acts,       \* the names in b.actions
    accepted,   \* the actions that take no more answers
    late,       \* the actions whose deadline and grace have passed
    draft,      \* action.clues and action.guess: the latest human draft
    ch,         \* CluesCh, DecryptCh and InterceptCh
    sub,        \* the submission that holds b.mu, checked and not yet accepted
    thinking,   \* the actions an AI worker is at work on
    answers,    \* what AI workers have answered: guessHandler's own channel
    at,         \* where the game goroutine is
    pick,       \* its local: the answer it has taken and not yet handed over
    todo,       \* its local: the expired actions still to be settled
    timeouts,   \* roundTimeouts: the actions of this round that ran out of time
    cancelled,  \* Stop was called
    kept,       \* the bridge's part of the last snapshot
    told        \* history: what the players of the round were told was accepted

inputVars == <<acts, accepted, late, draft>>
localVars == <<pick, todo>>
aiVars == <<thinking, answers>>
shownVars == <<phase, round, timeouts>>
bridgeVars == <<shownVars, inputVars, ch, sub, aiVars, at, localVars,
                cancelled, kept, told>>
vars == <<sessionVars, bridgeVars>>

-----------------------------------------------------------------------------
Encryptor(r) == <<r.currentTeam, r.encryptor>>

\* seatAction, turned around: the seats that take an action in round r
Actors(r, name) ==
    CASE name = "encrypt"   -> {Encryptor(r)}
      [] name = "decrypt"   -> SeatsOf(r.currentTeam) \ {Encryptor(r)}
      [] name = "intercept" -> SeatsOf(Other(r.currentTeam))

\* action.ai: isAI of the encryptor, areDecryptorsAllAI, isTeamAllAI
AIAction(r, name) == Actors(r, name) \subseteq AI

Needed(r, name) ==
    CASE name = "encrypt"   -> r.state = "ENCRYPTING"
      [] name = "decrypt"   -> NeedsDecrypt(r)
      [] name = "intercept" -> NeedsIntercept(r)

PhaseActions(p, r) ==
    CASE p = "encrypting" -> {"encrypt"}
      [] p = "guess" -> {"decrypt"} \cup (IF HasInterception(r) THEN {"intercept"} ELSE {})
      [] OTHER -> {}

NoDraft == [name \in Names |-> IF name = "encrypt" THEN NoClues ELSE NoCode]
Empty == [name \in Names |-> <<>>]
NothingTold == [name \in Names |-> Nothing]

\* What a human can send for an action: three nonempty clues, a valid guess
Answers(name) == IF name = "encrypt" THEN Clues \ {Dashes} ELSE Codes

MutexFree == sub = Idle

\* Broken variant: the session is saved where a round begins, the views always
SaveViewsOnly ==
    /\ saved' = IF Len(saved) = Len(rounds) THEN saved ELSE rounds
    /\ UNCHANGED <<rounds, tokens, control, winner>>
    /\ kept' = [phase |-> phase', round |-> round', timeouts |-> timeouts',
                winner |-> winner]

\* saveLocked: the session and what the seats are shown, in one snapshot
SaveLocked ==
    /\ Save
    /\ kept' = [phase |-> phase', round |-> round', timeouts |-> timeouts',
                winner |-> winner]

\* Broken variant: a submission that lost its race stays in the channel
Undrained == ch

\* setPhase empties the three channels
Drained == Empty

\* Broken variant: the timeouts of earlier rounds stay
RoundTimeoutsKept == timeouts

\* setPhase forgets the timeouts of another round
RoundTimeouts == IF round = Current.n THEN timeouts ELSE <<>>

\* setPhase: new actions, nothing left over from the phase before
SetPhase(p) ==
    /\ MutexFree
    /\ phase' = p
    /\ round' = Current.n
    /\ acts' = PhaseActions(p, Current)
    /\ accepted' = {name \in acts' : ~Needed(Current, name)}
    /\ late' = {}
    /\ draft' = NoDraft
    /\ ch' = Drained
    /\ timeouts' = RoundTimeouts

-----------------------------------------------------------------------------
Init ==
    /\ SessionInit
    /\ phase = "" /\ round = 0 /\ timeouts = <<>>
    /\ acts = {} /\ accepted = {} /\ late = {} /\ draft = NoDraft
    /\ ch = Empty
    /\ sub = Idle
    /\ thinking = {} /\ answers = <<>>
    /\ at = "session"
    /\ pick = Idle /\ todo = <<>>
    /\ cancelled = FALSE
    /\ kept = [phase |-> "", round |-> 0, timeouts |-> <<>>, winner |-> 0]
    /\ told = NothingTold

-----------------------------------------------------------------------------
(* Socket handlers *)

\* Broken variant: an action takes a second submission
MaySubmitAgain(s, name) ==
    /\ name \in acts \ late
    /\ s \in Actors(Current, name) \ AI

\* validateLocked, and canSubmitLocked for a human seat
MaySubmit(s, name) ==
    /\ name \in acts \ accepted
    /\ s \in Actors(Current, name) \ AI
    /\ name \notin late

\* SubmitClues, SubmitGuess: b.mu taken, the message found valid and in time
CheckSubmission(s, name, v) ==
    /\ MutexFree
    /\ MaySubmit(s, name)
    /\ sub' = [name |-> name, n |-> round, v |-> v]
    /\ UNCHANGED <<sessionVars, shownVars, inputVars, ch, aiVars, at, localVars,
                   cancelled, kept, told>>

\* ... and the rest: the seats shown, the answer sent, b.mu released.  The
\* channel send waits for room, with b.mu held.
AcceptSubmission ==
    /\ ~MutexFree
    /\ ch[sub.name] = <<>>
    /\ accepted' = accepted \cup {sub.name}
    /\ ch' = [ch EXCEPT ![sub.name] = <<[n |-> sub.n, v |-> sub.v]>>]
    /\ told' = [told EXCEPT ![sub.name] = sub.v]
    /\ sub' = Idle
    /\ UNCHANGED <<sessionVars, shownVars, acts, late, draft, aiVars, at,
                   localVars, cancelled, kept>>

\* RelayProgress of a human seat: recordDraftLocked.  A draft may be incomplete,
\* or be taken back: it then counts as none.
RelayProgress(s, name, v) ==
    /\ MutexFree
    /\ MaySubmit(s, name)
    /\ draft' = [draft EXCEPT ![name] = v]
    /\ UNCHANGED <<sessionVars, shownVars, acts, accepted, late, ch, sub, aiVars,
                   at, localVars, cancelled, kept, told>>

\* The clock passes an action's deadline and grace
Expire(name) ==
    /\ name \in acts \ late
    /\ late' = late \cup {name}
    /\ UNCHANGED <<sessionVars, shownVars, acts, accepted, draft, ch, sub, aiVars,
                   at, localVars, cancelled, kept, told>>

\* Stop: the room expired, nobody came back to it
Stop ==
    /\ CanStop /\ ~cancelled
    /\ MutexFree
    /\ cancelled' = TRUE
    /\ UNCHANGED <<sessionVars, shownVars, inputVars, ch, sub, aiVars, at,
                   localVars, kept, told>>

-----------------------------------------------------------------------------
(* The game goroutine.  Between handlers it is in core: at = "session".     *)

\* One of core's own steps
Core ==
    /\ at = "session"
    /\ StartRound \/ EnterInit
    /\ told' = IF control = "start" THEN NothingTold ELSE told
    /\ UNCHANGED <<shownVars, inputVars, ch, sub, aiVars, at, localVars,
                   cancelled, kept>>

\* initHandler: the first round starts at once, the others after BetweenRounds
FirstInit ==
    /\ at = "session" /\ In("INIT") /\ Current.n = 1
    /\ InitDone
    /\ UNCHANGED bridgeVars

NextInit ==
    /\ at = "session" /\ In("INIT") /\ Current.n > 1
    /\ at' = "between"
    /\ UNCHANGED <<sessionVars, shownVars, inputVars, ch, sub, aiVars, localVars,
                   cancelled, kept, told>>

AnnounceRound ==
    /\ at = "between"
    /\ SetPhase("new_round")
    /\ InitDone
    /\ at' = "session"
    /\ UNCHANGED <<sub, aiVars, localVars, cancelled, kept, told>>

\* encryptHandler up to its select: broadcastPhaseChange("encrypting")
BeginEncrypt ==
    /\ at = "session" /\ In("ENCRYPTING")
    /\ SetPhase("encrypting")
    /\ SaveLocked
    /\ at' = IF AIAction(Current, "encrypt") THEN "aiEncrypt" ELSE "encrypt"
    /\ UNCHANGED <<sub, aiVars, localVars, cancelled, told>>

\* case clues = <-b.CluesCh
TakeClues ==
    /\ at = "encrypt" /\ ch["encrypt"] # <<>>
    /\ pick' = [name |-> "encrypt", n |-> ch["encrypt"][1].n, v |-> ch["encrypt"][1].v]
    /\ ch' = [ch EXCEPT !["encrypt"] = <<>>]
    /\ at' = "clues"
    /\ UNCHANGED <<sessionVars, shownVars, inputVars, sub, aiVars, todo,
                   cancelled, kept, told>>

\* case <-time.After(b.remaining("encrypt")): no lock is taken
CluesTimer ==
    /\ at = "encrypt" /\ "encrypt" \in late
    /\ at' = "closing"
    /\ UNCHANGED <<sessionVars, shownVars, inputVars, ch, sub, aiVars, localVars,
                   cancelled, kept, told>>

\* closeInput
CloseInput ==
    /\ at = "closing" /\ MutexFree
    /\ accepted' = acts
    /\ at' = "closed"
    /\ UNCHANGED <<sessionVars, shownVars, acts, late, draft, ch, sub, aiVars,
                   localVars, cancelled, kept, told>>

\* draftCluesOnTimeout and timedOut
DraftClues ==
    /\ at = "closed" /\ MutexFree
    /\ pick' = [name |-> "encrypt", n |-> round,
                v |-> IF draft["encrypt"] = NoClues THEN Dashes ELSE draft["encrypt"]]
    /\ timeouts' = Append(timeouts, "encrypt")
    /\ at' = "clues"
    /\ UNCHANGED <<sessionVars, phase, round, inputVars, ch, sub, aiVars, todo,
                   cancelled, kept, told>>

\* clues_submitted, the deferred closeInput, and the clues go to the round
ReturnClues ==
    /\ at = "clues" /\ MutexFree
    /\ EncryptDone(pick.v)
    /\ accepted' = acts
    /\ pick' = Idle
    /\ at' = "session"
    /\ UNCHANGED <<shownVars, acts, late, draft, ch, sub, aiVars, todo,
                   cancelled, kept, told>>

\* handleAIEncrypt: the model's clues, or the fallback's, by the deadline
AIClues ==
    /\ at = "aiEncrypt" /\ MutexFree /\ ~cancelled
    /\ \E c \in Clues \ {Dashes} : EncryptDone(c)
    /\ accepted' = acts
    /\ at' = "session"
    /\ UNCHANGED <<shownVars, acts, late, draft, ch, sub, aiVars, localVars,
                   cancelled, kept, told>>

\* guessHandler up to its loop: broadcastPhaseChange("guess"), and one AI worker
\* for each guess that only AI players can give
BeginGuess ==
    /\ at = "session" /\ In("GUESSING")
    /\ NeedsDecrypt(Current) \/ NeedsIntercept(Current)
    /\ SetPhase("guess")
    /\ SaveLocked
    /\ thinking' = {name \in acts' \ accepted' : AIAction(Current, name)}
    /\ answers' = <<>>
    /\ at' = "guess"
    /\ UNCHANGED <<sub, localVars, cancelled, told>>

\* aiGuess: the model's guess, or the fallback's, sent to guessHandler; a worker
\* whose action was closed meanwhile may find its context done instead
AIGuess(name, g) ==
    /\ name \in thinking
    /\ thinking' = thinking \ {name}
    /\ \/ answers' = Append(answers, [name |-> name, n |-> round, v |-> g])
       \/ (name \in accepted \/ cancelled) /\ UNCHANGED answers
    /\ UNCHANGED <<sessionVars, shownVars, inputVars, ch, sub, at, localVars,
                   cancelled, kept, told>>

Guessing == at = "guess" /\ (NeedsDecrypt(Current) \/ NeedsIntercept(Current))

\* case guess := <-b.DecryptCh, case guess := <-b.InterceptCh
TakeGuess(name) ==
    /\ Guessing /\ ch[name] # <<>>
    /\ pick' = [name |-> name, n |-> ch[name][1].n, v |-> ch[name][1].v]
    /\ ch' = [ch EXCEPT ![name] = <<>>]
    /\ at' = "give"
    /\ UNCHANGED <<sessionVars, shownVars, inputVars, sub, aiVars, todo,
                   cancelled, kept, told>>

\* case answer := <-answers: acceptAIGuess, which drops the answer to an action
\* that is closed by now
TakeAnswer ==
    /\ Guessing /\ answers # <<>> /\ MutexFree
    /\ answers' = Tail(answers)
    /\ LET a == Head(answers) IN
       IF a.name \in acts \ accepted /\ a.n = round
       THEN /\ accepted' = accepted \cup {a.name}
            /\ told' = [told EXCEPT ![a.name] = a.v]
            /\ pick' = a
            /\ at' = "give"
       ELSE UNCHANGED <<accepted, told, pick, at>>
    /\ UNCHANGED <<sessionVars, shownVars, acts, late, draft, ch, sub, thinking,
                   todo, cancelled, kept>>

\* Broken variant: an action that was answered expires as well
ExpiredAnyway == acts \cap late

\* What the timer of nextExpiry waits for, and expired closes
Expired == (acts \ accepted) \cap late

\* case <-expiry: the timer of the first open action; no lock is taken
GuessTimer ==
    /\ Guessing
    /\ Expired # {}
    /\ at' = "expired"
    /\ UNCHANGED <<sessionVars, shownVars, inputVars, ch, sub, aiVars, localVars,
                   cancelled, kept, told>>

\* Broken variant: of two actions that ran out, one is settled
InOrderFirst(names) == IF "decrypt" \in names THEN <<"decrypt">> ELSE <<"intercept">>

\* sort.Strings
InOrder(names) ==
    (IF "decrypt" \in names THEN <<"decrypt">> ELSE <<>>)
        \o (IF "intercept" \in names THEN <<"intercept">> ELSE <<>>)

\* expired: the open actions that ran out are closed under the lock
Sweep ==
    /\ at = "expired" /\ MutexFree
    /\ LET names == Expired IN
       /\ accepted' = accepted \cup names
       /\ todo' = InOrder(names)
       /\ at' = IF names = {} THEN "guess" ELSE "settle"
    /\ UNCHANGED <<sessionVars, shownVars, acts, late, draft, ch, sub, aiVars,
                   pick, cancelled, kept, told>>

\* draftGuessOnTimeout and timedOut, for the next expired action
SettleExpired ==
    /\ at = "settle" /\ MutexFree
    /\ LET name == Head(todo) IN
       /\ pick' = [name |-> name, n |-> round, v |-> draft[name]]
       /\ timeouts' = Append(timeouts, name)
    /\ todo' = Tail(todo)
    /\ at' = "give"
    /\ UNCHANGED <<sessionVars, phase, round, inputVars, ch, sub, aiVars,
                   cancelled, kept, told>>

\* recordGuess: a guess the round still needs is set, any other is dropped
GiveGuess ==
    /\ at = "give"
    /\ IF Needed(Current, pick.name)
       THEN /\ \/ pick.name = "decrypt" /\ GiveDecrypt(pick.v)
               \/ pick.name = "intercept" /\ GiveIntercept(pick.v)
            /\ at' = "record"
            /\ UNCHANGED pick
       ELSE /\ at' = IF todo = <<>> THEN "guess" ELSE "settle"
            /\ pick' = Idle
            /\ UNCHANGED sessionVars
    /\ UNCHANGED <<shownVars, inputVars, ch, sub, aiVars, todo, cancelled, kept,
                   told>>

\* ... then the lock: the action closed, the seats refreshed, the game saved
RecordGuess ==
    /\ at = "record" /\ MutexFree
    /\ accepted' = accepted \cup ({pick.name} \cap acts)
    /\ pick' = Idle
    /\ at' = IF todo = <<>> THEN "guess" ELSE "settle"
    /\ UNCHANGED <<shownVars, acts, late, draft, ch, sub, aiVars, todo,
                   cancelled, told>>
    /\ SaveLocked

\* guessHandler returned, with its deferred closeInput and its workers cancelled,
\* or was not called since a restored round had both guesses: core reveals
Reveal ==
    /\ at \in {"guess", "session"} /\ In("GUESSING")
    /\ ~NeedsDecrypt(Current) /\ ~NeedsIntercept(Current)
    /\ at = "guess" => MutexFree
    /\ GuessDone
    /\ accepted' = IF at = "guess" THEN acts ELSE accepted
    /\ thinking' = {} /\ answers' = <<>>
    /\ at' = "session"
    /\ UNCHANGED <<shownVars, acts, late, draft, ch, sub, localVars, cancelled,
                   kept, told>>

\* doneHandler: finishRound shows the code, the guesses and the score
FinishRound ==
    /\ at = "session" /\ In("DONE") /\ MutexFree
    /\ phase' = "round_result"
    /\ acts' = {} /\ accepted' = {} /\ late' = {} /\ draft' = NoDraft
    /\ UNCHANGED <<round, timeouts>>
    /\ SaveLocked
    /\ at' = "result"
    /\ UNCHANGED <<ch, sub, aiVars, localVars, cancelled, told>>

\* ... and returns false
LeaveRound ==
    /\ at = "result" /\ ~cancelled
    /\ RoundDone
    /\ at' = "session"
    /\ UNCHANGED <<shownVars, inputVars, ch, sub, aiVars, localVars, cancelled,
                   kept, told>>

\* StartRound found the game over and calls gameOverHandler
DecideGame ==
    /\ at = "session"
    /\ GameOver
    /\ at' = "over"
    /\ UNCHANGED <<shownVars, inputVars, ch, sub, aiVars, localVars, cancelled,
                   kept, told>>

\* broadcastGameOver, after which the goroutine ends
ShowGameOver ==
    /\ at = "over" /\ MutexFree
    /\ phase' = "game_over"
    /\ acts' = {} /\ accepted' = {} /\ late' = {} /\ draft' = NoDraft
    /\ UNCHANGED <<round, timeouts>>
    /\ SaveLocked
    /\ at' = "ended"
    /\ UNCHANGED <<ch, sub, aiVars, localVars, cancelled, told>>

\* Broken variant: the wait for an AI's clues ignores ctx
NoticesStopButAI == at \in {"between", "encrypt", "result"} \/ Guessing

\* Where a handler looks at ctx
NoticesStop == at \in {"between", "encrypt", "aiEncrypt", "result"} \/ Guessing

\* A handler that finds ctx done returns true; its deferred closeInput runs
Cancelled ==
    /\ cancelled
    /\ NoticesStop
    /\ MutexFree
    /\ Cancel
    /\ accepted' = IF at \in {"encrypt", "aiEncrypt", "guess"} THEN acts ELSE accepted
    /\ at' = "ended"
    /\ UNCHANGED <<shownVars, acts, late, draft, ch, sub, aiVars, localVars,
                   cancelled, kept, told>>

-----------------------------------------------------------------------------
(* The process is killed and started again: Restore *)
Crash ==
    /\ CanCrash /\ ~cancelled
    /\ Restart
    /\ phase' = kept.phase /\ round' = kept.round /\ timeouts' = kept.timeouts
    /\ acts' = {} /\ accepted' = {} /\ late' = {} /\ draft' = NoDraft
    /\ ch' = Empty
    /\ sub' = Idle
    /\ thinking' = {} /\ answers' = <<>>
    /\ at' = "paused"
    /\ pick' = Idle /\ todo' = <<>>
    /\ UNCHANGED <<cancelled, kept, told>>

\* Start, when the first human is back: the snapshot is stored once more, as it
\* is, and the goroutine resumes; a finished game has nothing left to run
Start ==
    /\ at = "paused"
    /\ at' = IF phase = "game_over" THEN "ended" ELSE "session"
    /\ UNCHANGED <<sessionVars, shownVars, inputVars, ch, sub, aiVars, localVars,
                   cancelled, kept, told>>

-----------------------------------------------------------------------------
Submissions ==
    \E name \in Names, s \in Seats, v \in Clues \cup Codes \cup {NoClues, NoCode} :
        \/ v \in Answers(name) /\ CheckSubmission(s, name, v)
        \/ v \in Answers(name) \cup {NoDraft[name]} /\ RelayProgress(s, name, v)

Worker == \E name \in GuessNames, g \in Codes : AIGuess(name, g)

Goroutine ==
    \/ Core \/ FirstInit \/ NextInit \/ AnnounceRound
    \/ BeginEncrypt \/ TakeClues \/ CluesTimer \/ CloseInput \/ DraftClues
    \/ ReturnClues \/ AIClues
    \/ BeginGuess \/ (\E name \in GuessNames : TakeGuess(name)) \/ TakeAnswer
    \/ GuessTimer \/ Sweep \/ SettleExpired \/ GiveGuess \/ RecordGuess \/ Reveal
    \/ FinishRound \/ LeaveRound \/ DecideGame \/ ShowGameOver \/ Cancelled

Next ==
    \/ Submissions \/ AcceptSubmission
    \/ \E name \in Names : Expire(name)
    \/ Worker \/ Goroutine
    \/ Stop \/ Crash \/ Start

Spec == Init /\ [][Next]_vars

-----------------------------------------------------------------------------
\* Fairness: the goroutine is never starved and a socket handler that took b.mu
\* goes on; the clock reaches every deadline; a model call ends, if only by its
\* own deadline (aiStepWithStatus)
Fairness ==
    /\ WF_vars(Goroutine) /\ WF_vars(AcceptSubmission) /\ WF_vars(Worker)
    /\ \A name \in Names : WF_vars(Expire(name))
    /\ WF_vars(Start)

FairSpec == Spec /\ Fairness

-----------------------------------------------------------------------------
Pick == [name : Names, n : Nat, v : Codes \cup Clues \cup {NoCode}]
Places == {"session", "between", "encrypt", "aiEncrypt", "closing", "closed",
           "clues", "guess", "give", "record", "expired", "settle", "result",
           "over", "ended", "paused"}
Phases == {"", "new_round", "encrypting", "guess", "round_result", "game_over"}

BridgeTypeOK ==
    /\ TypeOK
    /\ phase \in Phases /\ round \in 0..MaxRounds
    /\ timeouts \in Seq(Names) /\ Len(timeouts) <= 3
    /\ accepted \subseteq acts /\ late \subseteq acts /\ acts \subseteq Names
    /\ draft["encrypt"] \in Clues \cup {NoClues}
    /\ \A name \in GuessNames : draft[name] \in Codes \cup {NoCode}
    /\ \A name \in Names : Len(ch[name]) <= 1
    /\ sub \in Pick \cup {Idle} /\ pick \in Pick \cup {Idle}
    /\ thinking \subseteq GuessNames /\ Len(answers) <= 2
    /\ at \in Places
    /\ todo \in Seq(GuessNames) /\ Len(todo) <= 2
    /\ cancelled \in BOOLEAN

\* A submission that holds b.mu finds room in its channel: the send under the
\* lock, which every seat and the goroutine itself need, never waits
\* (SubmitClues and SubmitGuess, state.go).
SendNeverBlocks == ~MutexFree => ch[sub.name] = <<>>

Given(name) ==
    CASE name = "encrypt"   -> Current.state \in {"GUESSING", "DONE"}
      [] name = "decrypt"   -> Current.decrypted
      [] name = "intercept" -> Current.intercepted

\* An action that takes no more answers while the round still waits for one has
\* its answer on the way, in the channel or in the goroutine's hands: no step of
\* a submission, an AI answer and a deadline in any order closes an action that
\* nobody will then settle, which would hang the phase (nextExpiry skips it).
ClosedIsSettled ==
    at \in {"encrypt", "guess", "expired", "settle", "give", "record"} =>
        \A name \in accepted :
            \/ Given(name)
            \/ ch[name] # <<>>
            \/ pick # Idle /\ pick.name = name
            \/ \E i \in DOMAIN todo : todo[i] = name

\* Whatever the goroutine takes was sent for the round and the phase it is in:
\* an answer that lost the race against its deadline never leaks into a later
\* phase (setPhase empties the channels, acceptAIGuess checks the action).
TakenInItsRound ==
    /\ pick # Idle => pick.n = Current.n
    /\ at = "encrypt" => \A i \in DOMAIN ch["encrypt"] : ch["encrypt"][i].n = Current.n
    /\ at = "guess" => \A name \in GuessNames : \A i \in DOMAIN ch[name] :
                          ch[name][i].n = Current.n

SavedCurrent == saved[Len(saved)]

\* A timeout that is saved is settled: the snapshot that tells the seats an
\* action of the round ran out also holds the answer it was given, so a restart
\* never lets the action run out twice (timedOut, recordGuess, setPhase).
SavedTimeoutsSettled ==
    /\ \A i, j \in DOMAIN kept.timeouts : kept.timeouts[i] = kept.timeouts[j] => i = j
    /\ kept.phase \in {"encrypting", "guess", "round_result"} =>
        \A i \in DOMAIN kept.timeouts :
            CASE kept.timeouts[i] = "encrypt"   -> SavedCurrent.state \in {"GUESSING", "DONE"}
              [] kept.timeouts[i] = "decrypt"   -> SavedCurrent.decrypted
              [] kept.timeouts[i] = "intercept" -> SavedCurrent.intercepted

\* The guess a team was told is in is the guess that is scored, and a team whose
\* guess is in is never reported as out of time (each action accepts one
\* submission: architecture.md; state.go SubmitGuess, expired, recordGuess).
GuessesStand ==
    \A name \in GuessNames : rounds # <<>> /\ told[name] # Nothing =>
        /\ name = "decrypt" /\ Current.decrypted => Current.decrypt = told[name]
        /\ name = "intercept" /\ Current.intercepted => Current.intercept = told[name]
        /\ \A i \in DOMAIN timeouts : timeouts[i] # name

\* The clues an encryptor was told are in are the clues the table gets: the
\* server answers for an encryptor only if nothing was submitted in time
\* (gameplay.md, on time; state.go SubmitClues, bridge.go encryptHandler).
CluesStand ==
    rounds # <<>> /\ told["encrypt"] # Nothing /\ Current.state \in {"GUESSING", "DONE"} =>
        Current.clues = told["encrypt"]

\* Every game ends, whoever stays silent: deadlines settle what players leave
\* open, and no interleaving of answers, drafts and timers stops the goroutine.
GameEnds == <>(at = "ended")

\* A game whose room is closed stops: the goroutine does not outlive its Bridge
StopEnds == cancelled ~> at = "ended"

\* Nothing keeps the goroutine of a game for ever, neither silence nor the end of
\* its room (run, Stop).
GameComesToAnEnd == GameEnds /\ StopEnds
-----------------------------------------------------------------------------
\* The game as its players will remember it: the finished rounds and the winner
\* of the last snapshot
Finished(rs) == {i \in DOMAIN rs : rs[i].state = "DONE"}
Line(r) == [decoded |-> ~DecryptFails(r), intercepted |-> InterceptScores(r)]
Published == [i \in Finished(saved) |-> Line(saved[i])]

M == INSTANCE Match WITH
        log <- Published,
        verdict <- IF kept.phase = "game_over" THEN kept.winner ELSE 3

\* A game that is killed and restored any number of times, raced by timers and
\* by late answers, is still one undisturbed match: every step of the running
\* game adds a line to the published log, decides it by the rules, or does not
\* show (finishRound, broadcastGameOver, core.Restore, Session.Resume).
ImplementsMatch == M!Spec
=============================================================================
