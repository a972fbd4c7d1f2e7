---------------------------- MODULE BridgeProofs ----------------------------
(***************************************************************************)
(* Module Bridge for any teams, seats, clues, codes and number of rounds:  *)
(* a submission that holds b.mu always finds room in its channel, so that  *)
(* the lock is never kept by a send that waits; what the goroutine takes   *)
(* was sent for its round; and the game, whatever races, deadlines and     *)
(* restarts it goes through, plays a session of module Session and, as far *)
(* as it is saved, a game of module Match; so does a game that begins with *)
(* a restart after two rounds (MCBridge).                                  *)
(***************************************************************************)
EXTENDS MCBridge, SessionProofs

\* Why: what lies in a channel has closed its action, and a submission that
\* holds the lock was let in by an action that is still open.
ChannelsKnown == DOMAIN ch = Names /\ acts \subseteq Names
FullIsClosed == \A name \in acts : ch[name] # <<>> => name \in accepted
HolderIsOpen == ~MutexFree => sub.name \in acts \ accepted

RoomInChannels == ChannelsKnown /\ FullIsClosed /\ HolderIsOpen

LEMMA RoomInit == Init => RoomInChannels
  BY DEF Init, RoomInChannels, ChannelsKnown, FullIsClosed, HolderIsOpen,
         MutexFree, Empty

\* A new phase starts with empty channels, and nobody holds the lock.
LEMMA SetPhaseRoom ==
    ASSUME RoomInChannels, NEW p, SetPhase(p), UNCHANGED sub
    PROVE  RoomInChannels'
  <1>1. PhaseActions(p, Current) \subseteq Names
    BY DEF PhaseActions, Names, GuessNames
  <1> QED
    BY <1>1 DEF SetPhase, Drained, Empty, MutexFree, RoomInChannels,
                ChannelsKnown, FullIsClosed, HolderIsOpen

\* While nobody holds the lock, closing actions or dropping all of them keeps it.
LEMMA ClosingRoom ==
    ASSUME RoomInChannels, MutexFree, UNCHANGED <<ch, sub>>,
           acts' = {} \/ (acts' = acts /\ accepted \subseteq accepted')
    PROVE  RoomInChannels'
  BY DEF RoomInChannels, ChannelsKnown, FullIsClosed, HolderIsOpen, MutexFree

\* Receiving from a channel keeps it, whoever holds the lock.
LEMMA ReceivingRoom ==
    ASSUME RoomInChannels, NEW name \in Names,
           ch' = [ch EXCEPT ![name] = <<>>], UNCHANGED <<acts, accepted, sub>>
    PROVE  RoomInChannels'
  BY DEF RoomInChannels, ChannelsKnown, FullIsClosed, HolderIsOpen, MutexFree

LEMMA UntouchedRoom ==
    ASSUME RoomInChannels, UNCHANGED <<ch, acts, accepted, sub>>
    PROVE  RoomInChannels'
  BY DEF RoomInChannels, ChannelsKnown, FullIsClosed, HolderIsOpen, MutexFree

\* The steps of the socket handlers and of the clock.
LEMMA SubmissionsRoom ==
    RoomInChannels
        /\ (Submissions \/ AcceptSubmission \/ \E name \in Names : Expire(name))
        => RoomInChannels'
  <1> SUFFICES ASSUME RoomInChannels,
                      Submissions \/ AcceptSubmission \/ \E name \in Names : Expire(name)
               PROVE  RoomInChannels'
    OBVIOUS
  <1>1. ASSUME NEW s, NEW name \in Names, NEW v, CheckSubmission(s, name, v)
        PROVE  RoomInChannels'
    <2>1. sub'.name \in acts \ accepted /\ UNCHANGED <<ch, acts, accepted>>
      BY <1>1 DEF CheckSubmission, MaySubmit, inputVars
    <2> QED
      BY <2>1 DEF RoomInChannels, ChannelsKnown, FullIsClosed, HolderIsOpen, MutexFree
  <1>2. ASSUME NEW s, NEW name \in Names, NEW v, RelayProgress(s, name, v)
        PROVE  RoomInChannels'
    BY <1>2, UntouchedRoom DEF RelayProgress
  <1>3. CASE AcceptSubmission
    BY <1>3 DEF AcceptSubmission, RoomInChannels, ChannelsKnown, FullIsClosed,
                HolderIsOpen, MutexFree
  <1>4. ASSUME NEW name \in Names, Expire(name) PROVE RoomInChannels'
    BY <1>4, UntouchedRoom DEF Expire
  <1> QED
    BY <1>1, <1>2, <1>3, <1>4 DEF Submissions

\* The steps of the game goroutine.
LEMMA GoroutineRoom == RoomInChannels /\ Goroutine => RoomInChannels'
  <1> SUFFICES ASSUME RoomInChannels, Goroutine PROVE RoomInChannels'
    OBVIOUS
  <1>1. CASE \/ Core \/ FirstInit \/ NextInit \/ CluesTimer \/ DraftClues
             \/ GuessTimer \/ SettleExpired \/ GiveGuess \/ LeaveRound \/ DecideGame
    BY <1>1, UntouchedRoom
    DEF Core, FirstInit, NextInit, CluesTimer, DraftClues, GuessTimer,
        SettleExpired, GiveGuess, LeaveRound, DecideGame, inputVars, bridgeVars
  <1>2. CASE AnnounceRound \/ BeginEncrypt \/ BeginGuess
    BY <1>2, SetPhaseRoom DEF AnnounceRound, BeginEncrypt, BeginGuess
  <1>3. CASE TakeClues
    BY <1>3, ReceivingRoom DEF TakeClues, inputVars, Names
  <1>4. ASSUME NEW name \in GuessNames, TakeGuess(name) PROVE RoomInChannels'
    BY <1>4, ReceivingRoom DEF TakeGuess, inputVars, Names
  <1>5. CASE FinishRound \/ ShowGameOver
    BY <1>5, ClosingRoom DEF FinishRound, ShowGameOver
  <1>6. CASE TakeAnswer \/ Sweep \/ RecordGuess
    BY <1>6, ClosingRoom DEF TakeAnswer, Sweep, RecordGuess
  <1>7. CASE CloseInput \/ ReturnClues \/ AIClues
    <2>1. MutexFree /\ accepted' = acts /\ UNCHANGED <<ch, acts, sub>>
      BY <1>7 DEF CloseInput, ReturnClues, AIClues
    <2> QED
      BY <2>1 DEF RoomInChannels, ChannelsKnown, FullIsClosed, HolderIsOpen, MutexFree
  <1>8. CASE Reveal \/ Cancelled
    <2>1. accepted' \in {accepted, acts} /\ UNCHANGED <<ch, acts, sub>>
      BY <1>8 DEF Reveal, Cancelled
    <2>2. MutexFree \/ accepted' = accepted
      BY <1>8 DEF Reveal, Cancelled
    <2> QED
      BY <2>1, <2>2 DEF RoomInChannels, ChannelsKnown, FullIsClosed, HolderIsOpen,
                        MutexFree
  <1> QED
    BY <1>1, <1>2, <1>3, <1>4, <1>5, <1>6, <1>7, <1>8 DEF Goroutine

LEMMA RoomNext == RoomInChannels /\ [Next]_vars => RoomInChannels'
  <1> SUFFICES ASSUME RoomInChannels, [Next]_vars PROVE RoomInChannels'
    OBVIOUS
  <1>1. CASE Worker \/ Stop \/ Start
    BY <1>1, UntouchedRoom DEF Worker, AIGuess, Stop, Start, inputVars
  <1>2. CASE Crash
    BY <1>2 DEF Crash, Empty, MutexFree, RoomInChannels, ChannelsKnown,
                FullIsClosed, HolderIsOpen
  <1>3. CASE UNCHANGED vars
    BY <1>3, UntouchedRoom DEF vars, bridgeVars, inputVars
  <1> QED
    BY <1>1, <1>2, <1>3, SubmissionsRoom, GoroutineRoom DEF Next

\* A submission that holds b.mu finds room in its channel (SubmitClues and
\* SubmitGuess, state.go), whatever the goroutine, the timers, the AI workers, a
\* stop or a restart do in between: the send under the lock never waits.
THEOREM BridgeSendNeverBlocks == Spec => []SendNeverBlocks
  <1>1. RoomInChannels => SendNeverBlocks
    BY DEF RoomInChannels, FullIsClosed, HolderIsOpen, SendNeverBlocks
  <1> QED
    BY <1>1, RoomInit, RoomNext, PTL DEF Spec

-----------------------------------------------------------------------------
(* What is sent, held and drafted *)

Value(name) == IF name = "encrypt" THEN Clues ELSE Codes \cup {NoCode}
Answer == [name : GuessNames, n : Nat, v : Codes]

\* The places of the goroutine in the middle of a phase that takes answers
InPhase == {"encrypt", "aiEncrypt", "closing", "closed", "clues", "guess", "give",
            "record", "expired", "settle"}

Counted == round \in Nat /\ kept.round \in Nat
AnswersTyped == answers \in Seq(Answer)
DraftsTyped ==
    /\ draft["encrypt"] \in Clues \cup {NoClues}
    /\ \A name \in GuessNames : draft[name] \in Codes \cup {NoCode}
    /\ DOMAIN draft = Names

\* Everything in a channel, or about to be sent, is an answer of the round shown
SentInRound ==
    /\ \A name \in Names :
          /\ ch[name] # <<>> => 1 \in DOMAIN ch[name]
          /\ \A i \in DOMAIN ch[name] :
                ch[name][i].n = round /\ ch[name][i].v \in Value(name)
    /\ ~MutexFree => sub.n = round /\ sub.v \in Value(sub.name)

\* What the goroutine holds, it holds in a phase of the round shown
HeldInRound ==
    /\ pick # Idle => at \in {"clues", "give", "record"} /\ pick.n = round
    /\ at = "clues" => pick.v \in Clues
    /\ at = "give" /\ pick.name \in GuessNames => pick.v \in Codes \cup {NoCode}

\* The round shown is the session's while its answers are taken
ShownIsPlayed == at \in InPhase => round = Current.n

BridgeInv ==
    /\ Inv /\ RoomInChannels
    /\ Counted /\ AnswersTyped /\ DraftsTyped
    /\ SentInRound /\ HeldInRound /\ ShownIsPlayed

LEMMA BridgeInit == Init => BridgeInv
  <1> SUFFICES ASSUME Init PROVE BridgeInv
    OBVIOUS
  <1>1. Inv /\ RoomInChannels
    BY InitInv, RoomInit DEF Init
  <1>2. Counted
    BY DEF Init, Counted
  <1>5. AnswersTyped
    <2>1. answers = <<>>
      BY DEF Init
    <2>2. <<>> \in Seq(Answer)
      OBVIOUS
    <2> QED
      BY <2>1, <2>2 DEF AnswersTyped
  <1>3. DraftsTyped
    BY DEF Init, DraftsTyped, NoDraft, Names, GuessNames
  <1>4. SentInRound
    <2>1. \A name \in Names : ch[name] = <<>>
      BY DEF Init, Empty
    <2>2. sub = Idle
      BY DEF Init
    <2> QED
      BY <2>1, <2>2 DEF SentInRound, MutexFree
  <1>6. HeldInRound /\ ShownIsPlayed
    BY DEF Init, HeldInRound, ShownIsPlayed, InPhase
  <1> QED
    BY <1>1, <1>2, <1>3, <1>4, <1>5, <1>6 DEF BridgeInv

-----------------------------------------------------------------------------
(* A step of the game is a step of the session, or none *)

LEMMA StepOfSession == BridgeInv /\ [Next]_vars => [SessionNext]_sessionVars
  <1> SUFFICES ASSUME BridgeInv, [Next]_vars PROVE [SessionNext]_sessionVars
    OBVIOUS
  <1>1. CASE \/ Submissions \/ AcceptSubmission \/ (\E name \in Names : Expire(name))
             \/ Worker \/ Stop \/ Start \/ UNCHANGED vars
    BY <1>1 DEF Submissions, CheckSubmission, RelayProgress, AcceptSubmission, Expire,
                Worker, AIGuess, Stop, Start, vars
  <1>2. CASE \/ NextInit \/ TakeClues \/ CluesTimer \/ CloseInput \/ DraftClues
             \/ (\E name \in GuessNames : TakeGuess(name)) \/ TakeAnswer \/ GuessTimer
             \/ Sweep \/ SettleExpired
    BY <1>2 DEF NextInit, TakeClues, CluesTimer, CloseInput, DraftClues, TakeGuess,
                TakeAnswer, GuessTimer, Sweep, SettleExpired
  <1>3. CASE \/ Core \/ FirstInit \/ AnnounceRound \/ Reveal \/ LeaveRound
             \/ DecideGame \/ Cancelled \/ Crash
    BY <1>3 DEF Core, FirstInit, AnnounceRound, Reveal, LeaveRound, DecideGame,
                Cancelled, Crash, SessionNext
  <1>4. CASE BeginEncrypt \/ BeginGuess \/ FinishRound \/ ShowGameOver \/ RecordGuess
    BY <1>4 DEF BeginEncrypt, BeginGuess, FinishRound, ShowGameOver, RecordGuess,
                SaveLocked, SessionNext
  <1>5. CASE ReturnClues
    <2>1. pick.v \in Clues
      BY <1>5 DEF ReturnClues, BridgeInv, HeldInRound
    <2> QED
      BY <1>5, <2>1 DEF ReturnClues, SessionNext
  <1>6. CASE AIClues
    BY <1>6 DEF AIClues, SessionNext
  <1>7. CASE GiveGuess
    <2>1. at = "give" /\ (pick.name \in GuessNames => pick.v \in Codes \cup {NoCode})
      BY <1>7 DEF GiveGuess, BridgeInv, HeldInRound
    <2> QED
      BY <1>7, <2>1 DEF GiveGuess, SessionNext, GuessNames
  <1> QED
    BY <1>1, <1>2, <1>3, <1>4, <1>5, <1>6, <1>7 DEF Next, Goroutine

LEMMA CurrentTyped == ASSUME TypeOK, rounds # <<>> PROVE Current \in Round /\ Current.n \in Nat
  <1>1. Len(rounds) \in 1..Len(rounds)
    BY DEF TypeOK
  <1>2. Current \in Round
    BY <1>1 DEF TypeOK, Current
  <1> QED
    BY <1>2 DEF Round

\* The counters of rounds
LEMMA CountedNext == BridgeInv /\ [Next]_vars => Counted'
  <1> SUFFICES ASSUME BridgeInv, [Next]_vars PROVE Counted'
    OBVIOUS
  <1>a. Counted
    BY DEF BridgeInv
  <1>b. ASSUME rounds # <<>> PROVE Current.n \in Nat
    BY <1>b, CurrentTyped DEF BridgeInv, Inv
  <1>1. CASE AnnounceRound \/ BeginEncrypt \/ BeginGuess
    <2>1. rounds # <<>> /\ round' = Current.n
      BY <1>1 DEF AnnounceRound, BeginEncrypt, BeginGuess, SetPhase, InitDone, In,
                  BridgeInv, Inv, TypeOK
    <2>2. kept' = kept \/ kept'.round = round'
      BY <1>1 DEF AnnounceRound, BeginEncrypt, BeginGuess, SaveLocked
    <2> QED
      BY <1>a, <1>b, <2>1, <2>2 DEF Counted
  <1>2. CASE FinishRound \/ ShowGameOver \/ RecordGuess
    <2>1. round' = round /\ kept'.round = round'
      BY <1>2 DEF FinishRound, ShowGameOver, RecordGuess, SaveLocked, shownVars
    <2> QED
      BY <1>a, <2>1 DEF Counted
  <1>3. CASE Crash
    BY <1>3, <1>a DEF Crash, Counted
  <1>4. CASE \/ Submissions \/ AcceptSubmission \/ (\E name \in Names : Expire(name))
             \/ Worker \/ Stop \/ Start \/ UNCHANGED vars
    <2>1. UNCHANGED <<round, kept>>
      BY <1>4 DEF Submissions, CheckSubmission, RelayProgress, AcceptSubmission, Expire,
                  Worker, AIGuess, Stop, Start, vars, bridgeVars, shownVars
    <2> QED
      BY <1>a, <2>1 DEF Counted
  <1>5. CASE \/ Core \/ FirstInit \/ NextInit \/ TakeClues \/ CluesTimer \/ CloseInput
             \/ DraftClues \/ ReturnClues \/ AIClues
             \/ (\E name \in GuessNames : TakeGuess(name)) \/ TakeAnswer \/ GuessTimer
             \/ Sweep \/ SettleExpired \/ GiveGuess \/ Reveal \/ LeaveRound
             \/ DecideGame \/ Cancelled
    <2>1. UNCHANGED <<round, kept>>
      BY <1>5 DEF Core, FirstInit, NextInit, TakeClues, CluesTimer, CloseInput,
                  DraftClues, ReturnClues, AIClues, TakeGuess, TakeAnswer, GuessTimer,
                  Sweep, SettleExpired, GiveGuess, Reveal, LeaveRound, DecideGame,
                  Cancelled, bridgeVars, shownVars
    <2> QED
      BY <1>a, <2>1 DEF Counted
  <1> QED
    BY <1>1, <1>2, <1>3, <1>4, <1>5 DEF Next, Goroutine

\* Drafts are answers, or nothing yet
LEMMA DraftsNext == BridgeInv /\ [Next]_vars => DraftsTyped'
  <1> SUFFICES ASSUME BridgeInv, [Next]_vars PROVE DraftsTyped'
    OBVIOUS
  <1>a. DraftsTyped
    BY DEF BridgeInv
  <1>b. ASSUME draft' = NoDraft PROVE DraftsTyped'
    BY <1>b DEF DraftsTyped, NoDraft, Names, GuessNames
  <1>c. ASSUME draft' = draft PROVE DraftsTyped'
    BY <1>a, <1>c DEF DraftsTyped
  <1>1. ASSUME NEW name \in Names, NEW s, NEW v \in Answers(name) \cup {NoDraft[name]},
               RelayProgress(s, name, v)
        PROVE  DraftsTyped'
    <2>1. draft' = [draft EXCEPT ![name] = v]
      BY <1>1 DEF RelayProgress
    <2>2. /\ name = "encrypt" => v \in Clues \cup {NoClues}
          /\ name # "encrypt" => v \in Codes \cup {NoCode}
      BY <1>1 DEF Answers, NoDraft, Names
    <2> QED
      BY <1>a, <2>1, <2>2 DEF DraftsTyped, Names, GuessNames
  <1>2. CASE \/ AnnounceRound \/ BeginEncrypt \/ BeginGuess \/ FinishRound
             \/ ShowGameOver \/ Crash
    BY <1>2, <1>b DEF AnnounceRound, BeginEncrypt, BeginGuess, SetPhase, FinishRound,
                      ShowGameOver, Crash
  <1>3. CASE \/ (\E s, v : \E name \in Names : CheckSubmission(s, name, v))
             \/ AcceptSubmission \/ (\E name \in Names : Expire(name))
             \/ Worker \/ Stop \/ Start \/ UNCHANGED vars
    BY <1>3, <1>c DEF CheckSubmission, AcceptSubmission, Expire, Worker, AIGuess, Stop,
                      Start, vars, bridgeVars, inputVars
  <1>4. CASE \/ Core \/ FirstInit \/ NextInit \/ TakeClues \/ CluesTimer \/ CloseInput
             \/ DraftClues \/ ReturnClues \/ AIClues
             \/ (\E name \in GuessNames : TakeGuess(name)) \/ TakeAnswer \/ GuessTimer
             \/ Sweep \/ SettleExpired \/ GiveGuess \/ RecordGuess \/ Reveal
             \/ LeaveRound \/ DecideGame \/ Cancelled
    BY <1>4, <1>c DEF Core, FirstInit, NextInit, TakeClues, CluesTimer, CloseInput,
                  DraftClues, ReturnClues, AIClues, TakeGuess, TakeAnswer, GuessTimer,
                  Sweep, SettleExpired, GiveGuess, RecordGuess, Reveal, LeaveRound,
                  DecideGame, Cancelled, bridgeVars, inputVars
  <1> QED
    BY <1>1, <1>2, <1>3, <1>4 DEF Next, Goroutine, Submissions

\* What AI workers answer
LEMMA AnswersNext == BridgeInv /\ [Next]_vars => AnswersTyped'
  <1> SUFFICES ASSUME BridgeInv, [Next]_vars PROVE AnswersTyped'
    OBVIOUS
  <1>a. answers \in Seq(Answer) /\ round \in Nat
    BY DEF BridgeInv, AnswersTyped, Counted
  <1>b. ASSUME answers' = <<>> PROVE AnswersTyped'
    BY <1>b DEF AnswersTyped
  <1>c. ASSUME answers' = answers PROVE AnswersTyped'
    BY <1>a, <1>c DEF AnswersTyped
  <1>1. ASSUME NEW name \in GuessNames, NEW g \in Codes, AIGuess(name, g)
        PROVE  AnswersTyped'
    <2>1. [name |-> name, n |-> round, v |-> g] \in Answer
      BY <1>a DEF Answer
    <2>2. answers' = answers \/ answers' = Append(answers, [name |-> name, n |-> round, v |-> g])
      BY <1>1 DEF AIGuess
    <2>3. Append(answers, [name |-> name, n |-> round, v |-> g]) \in Seq(Answer)
      BY <1>a, <2>1
    <2> QED
      BY <1>c, <2>2, <2>3 DEF AnswersTyped
  <1>2. CASE TakeAnswer
    <2>1. answers # <<>> /\ answers' = Tail(answers)
      BY <1>2 DEF TakeAnswer
    <2>2. Tail(answers) \in Seq(Answer)
      BY <1>a, <2>1
    <2> QED
      BY <2>1, <2>2 DEF AnswersTyped
  <1>3. CASE BeginGuess \/ Reveal \/ Crash
    BY <1>3, <1>b DEF BeginGuess, Reveal, Crash
  <1>4. CASE \/ Submissions \/ AcceptSubmission \/ (\E name \in Names : Expire(name))
             \/ Stop \/ Start \/ UNCHANGED vars
    BY <1>4, <1>c DEF Submissions, CheckSubmission, RelayProgress, AcceptSubmission,
                  Expire, Stop, Start, vars, bridgeVars, aiVars
  <1>5. CASE \/ Core \/ FirstInit \/ NextInit \/ AnnounceRound \/ BeginEncrypt
             \/ TakeClues \/ CluesTimer \/ CloseInput \/ DraftClues \/ ReturnClues
             \/ AIClues \/ (\E name \in GuessNames : TakeGuess(name)) \/ GuessTimer
             \/ Sweep \/ SettleExpired \/ GiveGuess \/ RecordGuess \/ FinishRound
             \/ LeaveRound \/ DecideGame \/ ShowGameOver \/ Cancelled
    BY <1>5, <1>c DEF Core, FirstInit, NextInit, AnnounceRound, BeginEncrypt, TakeClues,
                  CluesTimer, CloseInput, DraftClues, ReturnClues, AIClues, TakeGuess,
                  GuessTimer, Sweep, SettleExpired, GiveGuess, RecordGuess, FinishRound,
                  LeaveRound, DecideGame, ShowGameOver, Cancelled, bridgeVars, aiVars
  <1> QED
    BY <1>1, <1>2, <1>3, <1>4, <1>5 DEF Next, Goroutine, Worker

\* A channel is filled under the lock with an answer of the round, and emptied
\* before the round shown changes.
LEMMA SentNext == BridgeInv /\ [Next]_vars => SentInRound'
  <1> SUFFICES ASSUME BridgeInv, [Next]_vars PROVE SentInRound'
    OBVIOUS
  <1>a. SentInRound /\ ChannelsKnown /\ HolderIsOpen
    BY DEF BridgeInv, RoomInChannels
  <1>b. ASSUME ch' = Empty, sub' = Idle PROVE SentInRound'
    <2>1. \A name \in Names : ch'[name] = <<>>
      BY <1>b DEF Empty
    <2> QED
      BY <1>b, <2>1 DEF SentInRound, MutexFree
  <1>c. ASSUME UNCHANGED <<ch, sub, round>> PROVE SentInRound'
    BY <1>a, <1>c DEF SentInRound, MutexFree
  <1>d. ASSUME NEW name \in Names, ch' = [ch EXCEPT ![name] = <<>>],
               UNCHANGED <<sub, round>>
        PROVE  SentInRound'
    <2>1. \A x \in Names : ch'[x] = ch[x] \/ ch'[x] = <<>>
      BY <1>a, <1>d DEF ChannelsKnown
    <2> QED
      BY <1>a, <1>d, <2>1 DEF SentInRound, MutexFree
  <1>1. ASSUME NEW name \in Names, NEW s, NEW v \in Answers(name), CheckSubmission(s, name, v)
        PROVE  SentInRound'
    <2>1. sub'.n = round /\ sub'.v = v /\ sub'.name = name /\ UNCHANGED <<ch, round>>
      BY <1>1 DEF CheckSubmission, shownVars
    <2>2. v \in Value(name)
      BY DEF Answers, Value
    <2> QED
      BY <1>a, <2>1, <2>2 DEF SentInRound, MutexFree
  <1>2. CASE AcceptSubmission
    <2> DEFINE e == [n |-> sub.n, v |-> sub.v]
    <2>1. /\ sub.name \in Names /\ ch' = [ch EXCEPT ![sub.name] = <<e>>]
          /\ e.n = round /\ e.v \in Value(sub.name) /\ sub' = Idle /\ round' = round
      BY <1>2, <1>a DEF AcceptSubmission, SentInRound, HolderIsOpen, ChannelsKnown, shownVars
    <2> HIDE DEF e
    <2>2. 1 \in DOMAIN <<e>> /\ \A i \in DOMAIN <<e>> : <<e>>[i] = e
      OBVIOUS
    <2>3. ch'[sub.name] = <<e>> /\ \A x \in Names \ {sub.name} : ch'[x] = ch[x]
      BY <2>1, <1>a DEF ChannelsKnown
    <2> QED
      BY <1>a, <2>1, <2>2, <2>3 DEF SentInRound, MutexFree
  <1>3. CASE AnnounceRound \/ BeginEncrypt \/ BeginGuess \/ Crash
    BY <1>3, <1>b DEF AnnounceRound, BeginEncrypt, BeginGuess, SetPhase, Drained,
                      MutexFree, Crash
  <1>4. CASE TakeClues
    BY <1>4, <1>d DEF TakeClues, shownVars, Names
  <1>5. ASSUME NEW name \in GuessNames, TakeGuess(name) PROVE SentInRound'
    BY <1>5, <1>d DEF TakeGuess, shownVars, Names
  <1>6. CASE \/ (\E s, v : \E name \in Names : RelayProgress(s, name, v))
             \/ (\E name \in Names : Expire(name)) \/ Worker \/ Stop \/ Start
             \/ UNCHANGED vars
    BY <1>6, <1>c DEF RelayProgress, Expire, Worker, AIGuess, Stop, Start, vars,
                      bridgeVars, shownVars
  <1>7. CASE \/ Core \/ FirstInit \/ NextInit \/ CluesTimer \/ CloseInput \/ DraftClues
             \/ ReturnClues \/ AIClues \/ TakeAnswer \/ GuessTimer \/ Sweep
             \/ SettleExpired \/ GiveGuess \/ RecordGuess \/ Reveal \/ FinishRound
             \/ LeaveRound \/ DecideGame \/ ShowGameOver \/ Cancelled
    BY <1>7, <1>c DEF Core, FirstInit, NextInit, CluesTimer, CloseInput, DraftClues,
                  ReturnClues, AIClues, TakeAnswer, GuessTimer, Sweep, SettleExpired,
                  GiveGuess, RecordGuess, Reveal, FinishRound, LeaveRound, DecideGame,
                  ShowGameOver, Cancelled, bridgeVars, shownVars
  <1> QED
    BY <1>1, <1>2, <1>3, <1>4, <1>5, <1>6, <1>7 DEF Next, Goroutine, Submissions

\* What the goroutine takes into its hands is of the round, and it puts it down
\* before it leaves the phase.
LEMMA HeldNext == BridgeInv /\ [Next]_vars => HeldInRound'
  <1> SUFFICES ASSUME BridgeInv, [Next]_vars PROVE HeldInRound'
    OBVIOUS
  <1>a. HeldInRound /\ SentInRound /\ DraftsTyped
    BY DEF BridgeInv
  <1>b. ASSUME pick' = Idle, at' \notin {"clues", "give"} PROVE HeldInRound'
    BY <1>b DEF HeldInRound
  <1>c. ASSUME UNCHANGED <<pick, at, round>> PROVE HeldInRound'
    BY <1>a, <1>c DEF HeldInRound
  <1>d. ASSUME at \notin {"clues", "give", "record"}, pick' = pick,
               at' \notin {"clues", "give"}
        PROVE  HeldInRound'
    BY <1>a, <1>d DEF HeldInRound
  <1>e. ASSUME NEW v, pick'.n = round, pick'.v = v, UNCHANGED round,
               \/ at' = "clues" /\ v \in Clues
               \/ at' = "give" /\ (pick'.name \in GuessNames => v \in Codes \cup {NoCode})
        PROVE  HeldInRound'
    BY <1>e DEF HeldInRound
  <1>1. CASE TakeClues
    <2>1. 1 \in DOMAIN ch["encrypt"] /\ "encrypt" \in Names
      BY <1>1, <1>a DEF TakeClues, SentInRound, Names
    <2> QED
      BY <1>1, <1>a, <1>e, <2>1 DEF TakeClues, SentInRound, Value, shownVars
  <1>2. CASE DraftClues
    <2>1. (IF draft["encrypt"] = NoClues THEN Dashes ELSE draft["encrypt"]) \in Clues
      BY <1>a, BridgeAssumption DEF DraftsTyped
    <2> QED
      BY <1>2, <1>e, <2>1 DEF DraftClues
  <1>3. ASSUME NEW name \in GuessNames, TakeGuess(name) PROVE HeldInRound'
    <2>1. 1 \in DOMAIN ch[name] /\ name \in Names /\ name # "encrypt"
      BY <1>3, <1>a DEF TakeGuess, SentInRound, Names, GuessNames
    <2> QED
      BY <1>3, <1>a, <1>e, <2>1 DEF TakeGuess, SentInRound, Value, shownVars
  <1>4. CASE TakeAnswer
    <2>1. Head(answers) \in Answer
      BY <1>4 DEF TakeAnswer, BridgeInv, AnswersTyped
    <2>2. \/ pick' = Head(answers) /\ pick'.n = round /\ at' = "give"
          \/ UNCHANGED <<pick, at>>
      BY <1>4 DEF TakeAnswer
    <2>3. round' = round
      BY <1>4 DEF TakeAnswer, shownVars
    <2> QED
      BY <1>c, <1>e, <2>1, <2>2, <2>3 DEF Answer
  <1>5. CASE SettleExpired
    <2> DEFINE name == Head(todo)
    <2>1. pick' = [name |-> name, n |-> round, v |-> draft[name]] /\ at' = "give"
          /\ round' = round
      BY <1>5 DEF SettleExpired
    <2>2. name \in GuessNames => draft[name] \in Codes \cup {NoCode}
      BY <1>a DEF DraftsTyped
    <2> QED
      BY <1>e, <2>1, <2>2
  <1>6. CASE GiveGuess
    <2>1. at = "give" /\ round' = round /\ at' \in {"record", "guess", "settle"}
      BY <1>6 DEF GiveGuess, shownVars
    <2>2. pick' = Idle \/ (pick' = pick /\ at' = "record")
      BY <1>6 DEF GiveGuess
    <2> QED
      BY <1>a, <1>b, <2>1, <2>2 DEF HeldInRound
  <1>7. CASE ReturnClues \/ RecordGuess \/ Crash
    BY <1>7, <1>b DEF ReturnClues, RecordGuess, Crash
  <1>8. CASE \/ Submissions \/ AcceptSubmission \/ (\E name \in Names : Expire(name))
             \/ Worker \/ Stop \/ UNCHANGED vars \/ Core \/ FirstInit
    BY <1>8, <1>c DEF Submissions, CheckSubmission, RelayProgress, AcceptSubmission,
                  Expire, Worker, AIGuess, Stop, vars, bridgeVars, localVars, shownVars,
                  Core, FirstInit
  <1>9. CASE \/ Start \/ NextInit \/ AnnounceRound \/ BeginEncrypt \/ CluesTimer
             \/ CloseInput \/ AIClues \/ BeginGuess \/ GuessTimer \/ Sweep \/ Reveal
             \/ FinishRound \/ LeaveRound \/ DecideGame \/ ShowGameOver \/ Cancelled
    BY <1>9, <1>d DEF Start, NextInit, AnnounceRound, BeginEncrypt, CluesTimer,
                  CloseInput, AIClues, BeginGuess, GuessTimer, Guessing, Sweep, Reveal,
                  FinishRound, LeaveRound, DecideGame, ShowGameOver, Cancelled,
                  NoticesStop, localVars
  <1> QED
    BY <1>1, <1>2, <1>3, <1>4, <1>5, <1>6, <1>7, <1>8, <1>9 DEF Next, Goroutine

\* While its answers are taken, the session stays in the round shown: only a guess
\* changes the round then, and not its number.
LEMMA ShownNext == BridgeInv /\ [Next]_vars => ShownIsPlayed'
  <1> SUFFICES ASSUME BridgeInv, [Next]_vars PROVE ShownIsPlayed'
    OBVIOUS
  <1>a. ShownIsPlayed
    BY DEF BridgeInv
  <1>b. ASSUME at' \notin InPhase PROVE ShownIsPlayed'
    BY <1>b DEF ShownIsPlayed
  <1>c. ASSUME at' = at \/ at \in InPhase, UNCHANGED <<round, rounds>> PROVE ShownIsPlayed'
    BY <1>a, <1>c DEF ShownIsPlayed, Current
  <1>1. CASE BeginEncrypt \/ BeginGuess
    <2>1. round' = Current.n /\ UNCHANGED rounds
      BY <1>1 DEF BeginEncrypt, BeginGuess, SetPhase, SaveLocked, Save
    <2> QED
      BY <2>1 DEF ShownIsPlayed, Current
  <1>2. CASE GiveGuess
    <2>1. at \in InPhase /\ UNCHANGED round
      BY <1>2 DEF GiveGuess, InPhase, shownVars
    <2>2. CASE UNCHANGED sessionVars
      BY <1>c, <2>1, <2>2 DEF sessionVars
    <2>3. CASE pick.name \in GuessNames /\ (GiveDecrypt(pick.v) \/ GiveIntercept(pick.v))
      <3>1. PICK r : r.n = Current.n /\ r \in Round /\ SetCurrent(r) /\ rounds # <<>>
        <4>1. rounds # <<>> /\ TypeOK
          BY <2>3 DEF GiveDecrypt, GiveIntercept, In, BridgeInv, Inv, TypeOK
        <4>2. Current \in Round
          BY <4>1, CurrentTyped
        <4>3. pick.v \in Codes \cup {NoCode}
          BY <1>2, <2>3 DEF GiveGuess, BridgeInv, HeldInRound
        <4>4. CASE GiveDecrypt(pick.v)
          BY <4>1, <4>2, <4>3, <4>4, DecryptFilled DEF GiveDecrypt, In, NeedsDecrypt
        <4>5. CASE GiveIntercept(pick.v)
          BY <4>1, <4>2, <4>3, <4>5, InterceptFilled DEF GiveIntercept, In, NeedsIntercept
        <4> QED
          BY <2>3, <4>4, <4>5
      <3>2. Current'.n = Current.n
        BY <3>1, SetCurrentType DEF SetCurrent, Current, BridgeInv, Inv, TypeOK
      <3> QED
        BY <1>a, <2>1, <3>2 DEF ShownIsPlayed
    <2> QED
      BY <1>2, <2>2, <2>3 DEF GiveGuess, GuessNames
  <1>3. CASE \/ Start \/ FirstInit \/ NextInit \/ AnnounceRound \/ ReturnClues \/ AIClues
             \/ Reveal \/ FinishRound \/ LeaveRound \/ DecideGame \/ ShowGameOver
             \/ Cancelled \/ Core \/ Crash
    BY <1>3, <1>b DEF Start, FirstInit, NextInit, AnnounceRound, ReturnClues, AIClues,
                      Reveal, FinishRound, LeaveRound, DecideGame, ShowGameOver,
                      Cancelled, Core, Crash, InPhase, bridgeVars
  <1>4. CASE \/ Submissions \/ AcceptSubmission \/ (\E name \in Names : Expire(name))
             \/ Worker \/ Stop \/ UNCHANGED vars
    BY <1>4, <1>c DEF Submissions, CheckSubmission, RelayProgress, AcceptSubmission,
                      Expire, Worker, AIGuess, Stop, vars, bridgeVars, shownVars,
                      sessionVars
  <1>5. CASE TakeClues \/ CluesTimer \/ CloseInput \/ DraftClues
             \/ (\E name \in GuessNames : TakeGuess(name)) \/ TakeAnswer \/ GuessTimer
             \/ Sweep \/ SettleExpired \/ RecordGuess
    <2>1. UNCHANGED <<round, rounds>>
      BY <1>5 DEF TakeClues, CluesTimer, CloseInput, DraftClues, TakeGuess, TakeAnswer,
                  GuessTimer, Sweep, SettleExpired, RecordGuess, SaveLocked, Save,
                  sessionVars, shownVars
    <2>2. at \in InPhase
      BY <1>5 DEF TakeClues, CluesTimer, CloseInput, DraftClues, TakeGuess, TakeAnswer,
                  GuessTimer, Guessing, Sweep, SettleExpired, RecordGuess, InPhase
    <2> QED
      BY <1>c, <2>1, <2>2
  <1> QED
    BY <1>1, <1>2, <1>3, <1>4, <1>5 DEF Next, Goroutine

LEMMA BridgeNext == BridgeInv /\ [Next]_vars => BridgeInv'
  <1>1. BridgeInv /\ [Next]_vars => Inv'
    BY StepOfSession, NextInv DEF BridgeInv
  <1> QED
    BY <1>1, RoomNext, CountedNext, DraftsNext, AnswersNext, SentNext, HeldNext, ShownNext
    DEF BridgeInv

-----------------------------------------------------------------------------
\* Whatever the goroutine takes was sent for the round and the phase it is in:
\* no answer that lost the race against its deadline leaks into a later round
\* (setPhase empties the channels, acceptAIGuess checks the action).
THEOREM BridgeTakenInItsRound == Spec => []TakenInItsRound
  <1>1. BridgeInv => TakenInItsRound
    BY DEF BridgeInv, SentInRound, HeldInRound, ShownIsPlayed, TakenInItsRound, InPhase,
           Names, GuessNames
  <1> QED
    BY <1>1, BridgeInit, BridgeNext, PTL DEF Spec

\* A running game plays a session: each step of the bridge, of its handlers, its
\* clocks, its AI workers and of a restart makes one step of the rules or none.
THEOREM BridgePlaysASession == Spec => SessionSpec
  <1>1. Init => SessionInit
    BY DEF Init
  <1> QED
    BY <1>1, BridgeInit, BridgeNext, StepOfSession, PTL DEF Spec, SessionSpec

\* Hence what is saved of a running game stands: a later snapshot takes back no
\* round, clue or guess of an earlier one, whoever raced or crashed in between.
THEOREM BridgeSavedStands == Spec => SavedStands
  BY BridgePlaysASession, SessionSavedStands, PTL

-----------------------------------------------------------------------------
(* An action that takes no more answers is settled *)

GuessAt == {"guess", "expired", "settle", "give", "record"}

\* What is open belongs to the phase the goroutine is in
OpenInPhase ==
    /\ accepted \subseteq acts
    /\ at = "encrypt" => acts = {"encrypt"}
    /\ at \in GuessAt => control = "forward" /\ Current.state = "GUESSING"
                         /\ acts = PhaseActions("guess", Current)

\* The expired actions of a sweep are settled one by one, and then none is left
TodoKept ==
    /\ todo \in Seq(GuessNames)
    /\ todo # <<>> => at \in {"settle", "give", "record"}
    /\ at = "settle" => todo # <<>>

\* The guess in the goroutine's hands
GuessHeld ==
    /\ at \in {"give", "record"} => pick # Idle /\ pick.name \in GuessNames
    /\ at = "record" => Given(pick.name)

SettledInv == BridgeInv /\ OpenInPhase /\ TodoKept /\ GuessHeld /\ ClosedIsSettled

LEMMA InOrderAll ==
    ASSUME NEW names \in SUBSET GuessNames
    PROVE  /\ InOrder(names) \in Seq(GuessNames)
           /\ InOrder(names) = <<>> <=> names = {}
           /\ \A name \in names : \E i \in DOMAIN InOrder(names) : InOrder(names)[i] = name
  <1>1. CASE names = {}
    BY <1>1 DEF InOrder
  <1>2. CASE names = {"decrypt"}
    BY <1>2 DEF InOrder, GuessNames
  <1>3. CASE names = {"intercept"}
    BY <1>3 DEF InOrder, GuessNames
  <1>4. CASE names = {"decrypt", "intercept"}
    BY <1>4 DEF InOrder, GuessNames
  <1> QED
    BY <1>1, <1>2, <1>3, <1>4 DEF GuessNames

LEMMA SettledInit == Init => SettledInv
  <1> SUFFICES ASSUME Init PROVE SettledInv
    OBVIOUS
  <1>1. todo = <<>> /\ at = "session" /\ acts = {} /\ accepted = {}
    BY DEF Init
  <1>2. <<>> \in Seq(GuessNames)
    OBVIOUS
  <1> QED
    BY <1>1, <1>2, BridgeInit DEF SettledInv, OpenInPhase, GuessAt, TodoKept, GuessHeld,
                                  ClosedIsSettled

LEMMA TodoNext == SettledInv /\ [Next]_vars => TodoKept'
  <1> SUFFICES ASSUME SettledInv, [Next]_vars PROVE TodoKept'
    OBVIOUS
  <1>a. TodoKept
    BY DEF SettledInv
  <1>b. ASSUME UNCHANGED <<todo, at>> PROVE TodoKept'
    BY <1>a, <1>b DEF TodoKept
  <1>c. ASSUME UNCHANGED todo, at' # "settle", at' \in {"give", "record"} \/ todo = <<>>
        PROVE  TodoKept'
    BY <1>a, <1>c DEF TodoKept
  <1>d. ASSUME UNCHANGED todo, at' = IF todo = <<>> THEN "guess" ELSE "settle"
        PROVE  TodoKept'
    BY <1>a, <1>d DEF TodoKept
  <1>1. CASE Sweep
    <2>1. Expired \subseteq GuessNames
      BY <1>1 DEF Sweep, SettledInv, OpenInPhase, GuessAt, Expired, PhaseActions, GuessNames
    <2> QED
      BY <1>1, <2>1, InOrderAll DEF Sweep, TodoKept
  <1>2. CASE SettleExpired
    <2>1. todo # <<>> /\ todo' = Tail(todo) /\ at' = "give"
      BY <1>2, <1>a DEF SettleExpired, TodoKept
    <2>2. Tail(todo) \in Seq(GuessNames)
      BY <2>1, <1>a DEF TodoKept
    <2> QED
      BY <2>1, <2>2 DEF TodoKept
  <1>3. CASE GiveGuess
    <2>1. UNCHANGED todo /\ (at' = "record" \/ at' = IF todo = <<>> THEN "guess" ELSE "settle")
      BY <1>3 DEF GiveGuess
    <2> QED
      BY <2>1, <1>c, <1>d
  <1>4. CASE RecordGuess
    BY <1>4, <1>d DEF RecordGuess
  <1>5. CASE Crash
    <2>1. todo' = <<>> /\ at' = "paused"
      BY <1>5 DEF Crash
    <2>2. <<>> \in Seq(GuessNames)
      OBVIOUS
    <2> QED
      BY <2>1, <2>2 DEF TodoKept
  <1>6. CASE \/ Submissions \/ AcceptSubmission \/ (\E name \in Names : Expire(name))
             \/ Worker \/ Stop \/ UNCHANGED vars \/ Core \/ FirstInit
    BY <1>6, <1>b DEF Submissions, CheckSubmission, RelayProgress, AcceptSubmission,
                      Expire, Worker, AIGuess, Stop, vars, bridgeVars, localVars, Core,
                      FirstInit
  <1>7. CASE \/ Start \/ NextInit \/ AnnounceRound \/ BeginEncrypt \/ TakeClues
             \/ CluesTimer \/ CloseInput \/ DraftClues \/ ReturnClues \/ AIClues
             \/ BeginGuess \/ (\E name \in GuessNames : TakeGuess(name)) \/ TakeAnswer
             \/ GuessTimer \/ Reveal \/ FinishRound \/ LeaveRound \/ DecideGame
             \/ ShowGameOver \/ Cancelled
    <2>1. UNCHANGED todo /\ at \notin {"settle", "give", "record"}
      BY <1>7 DEF Start, NextInit, AnnounceRound, BeginEncrypt, TakeClues, CluesTimer,
                  CloseInput, DraftClues, ReturnClues, AIClues, BeginGuess, TakeGuess,
                  TakeAnswer, Guessing, GuessTimer, Reveal, FinishRound, LeaveRound,
                  DecideGame, ShowGameOver, Cancelled, NoticesStop, localVars
    <2>2. at' # "settle"
      BY <1>7 DEF Start, NextInit, AnnounceRound, BeginEncrypt, TakeClues, CluesTimer,
                  CloseInput, DraftClues, ReturnClues, AIClues, BeginGuess, TakeGuess,
                  TakeAnswer, Guessing, GuessTimer, Reveal, FinishRound, LeaveRound,
                  DecideGame, ShowGameOver, Cancelled
    <2> QED
      BY <1>a, <1>c, <2>1, <2>2 DEF TodoKept
  <1> QED
    BY <1>1, <1>2, <1>3, <1>4, <1>5, <1>6, <1>7 DEF Next, Goroutine

\* A guess leaves the round in its phase, and the other guess as it is
LEMMA GuessKept ==
    ASSUME SettledInv, NEW v \in Codes \cup {NoCode}, GiveDecrypt(v) \/ GiveIntercept(v)
    PROVE  /\ control' = "forward" /\ Current'.state = "GUESSING" /\ Current'.n = Current.n
           /\ Current.decrypted => Current'.decrypted
           /\ Current.intercepted => Current'.intercepted
           /\ GiveDecrypt(v) => Current'.decrypted
           /\ GiveIntercept(v) => Current'.intercepted
  <1>1. TypeOK /\ rounds # <<>> /\ control = "forward" /\ control' = control
        /\ Current.state = "GUESSING"
    BY DEF SettledInv, BridgeInv, Inv, TypeOK, GiveDecrypt, GiveIntercept, In
  <1>2. Current \in Round
    BY <1>1, CurrentTyped
  <1>3. ASSUME NEW r \in Round, SetCurrent(r) PROVE Current' = r
    BY <1>1, <1>3, SetCurrentType DEF SetCurrent, Current, TypeOK
  <1>4. CASE GiveDecrypt(v)
    <2> DEFINE r == [Current EXCEPT !.decrypt = v, !.decrypted = TRUE]
    <2>1. ~Current.decrypted /\ SetCurrent(r)
      BY <1>4 DEF GiveDecrypt, NeedsDecrypt
    <2>2. r \in Round /\ Continues(Current, r) /\ r.state = "GUESSING" /\ r.n = Current.n
      BY <1>1, <1>2, <2>1, DecryptFilled
    <2>3. r.decrypted
      BY <1>2 DEF Round
    <2>4. Current' = r
      BY <1>3, <2>1, <2>2
    <2>5. ~GiveIntercept(v) \/ Current'.intercepted
      <3>1. SUFFICES ASSUME GiveIntercept(v) PROVE Current'.intercepted
        OBVIOUS
      <3> DEFINE q == [Current EXCEPT !.intercept = v, !.intercepted = TRUE]
      <3>2. SetCurrent(q) /\ ~Current.intercepted
        BY <3>1 DEF GiveIntercept, NeedsIntercept
      <3>3. q \in Round
        BY <1>1, <1>2, <3>2, InterceptFilled
      <3>4. Current' = q
        BY <1>3, <3>2, <3>3
      <3> QED
        BY <1>2, <3>4 DEF Round
    <2> HIDE DEF r
    <2> QED
      BY <1>1, <2>2, <2>3, <2>4, <2>5 DEF Continues
  <1>5. CASE ~GiveDecrypt(v) /\ GiveIntercept(v)
    <2> DEFINE r == [Current EXCEPT !.intercept = v, !.intercepted = TRUE]
    <2>1. ~Current.intercepted /\ SetCurrent(r)
      BY <1>5 DEF GiveIntercept, NeedsIntercept
    <2>2. r \in Round /\ Continues(Current, r) /\ r.state = "GUESSING" /\ r.n = Current.n
      BY <1>1, <1>2, <2>1, InterceptFilled
    <2>3. r.intercepted
      BY <1>2 DEF Round
    <2>4. Current' = r
      BY <1>3, <2>1, <2>2
    <2> HIDE DEF r
    <2> QED
      BY <1>1, <1>5, <2>2, <2>3, <2>4 DEF Continues
  <1> QED
    BY <1>4, <1>5

LEMMA GivenGuess ==
    ASSUME SettledInv, GiveGuess, Needed(Current, pick.name)
    PROVE  /\ pick.v \in Codes \cup {NoCode}
           /\ GiveDecrypt(pick.v) \/ GiveIntercept(pick.v)
           /\ pick.name = "decrypt" => GiveDecrypt(pick.v)
           /\ pick.name = "intercept" => GiveIntercept(pick.v)
  BY DEF GiveGuess, SettledInv, GuessHeld, BridgeInv, HeldInRound, GuessNames

LEMMA OpenNext == SettledInv /\ [Next]_vars => OpenInPhase'
  <1> SUFFICES ASSUME SettledInv, [Next]_vars PROVE OpenInPhase'
    OBVIOUS
  <1>a. OpenInPhase
    BY DEF SettledInv
  <1>b. ASSUME UNCHANGED <<rounds, control, acts>>, accepted' \subseteq acts,
               \/ at' = at
               \/ at \in GuessAt /\ at' # "encrypt"
               \/ at' \notin GuessAt \cup {"encrypt"}
        PROVE  OpenInPhase'
    BY <1>a, <1>b DEF OpenInPhase, Current, PhaseActions, HasInterception
  <1>c. ASSUME accepted' \subseteq acts', at' \notin GuessAt \cup {"encrypt"}
        PROVE  OpenInPhase'
    BY <1>c DEF OpenInPhase
  <1>1. CASE BeginEncrypt
    <2>1. acts' = {"encrypt"} /\ accepted' \subseteq acts' /\ at' \in {"encrypt", "aiEncrypt"}
      BY <1>1 DEF BeginEncrypt, SetPhase, PhaseActions
    <2> QED
      BY <2>1 DEF OpenInPhase, GuessAt
  <1>2. CASE BeginGuess
    <2>1. /\ acts' = PhaseActions("guess", Current) /\ accepted' \subseteq acts'
          /\ at' = "guess" /\ control = "forward" /\ Current.state = "GUESSING"
          /\ UNCHANGED <<rounds, control>>
      BY <1>2 DEF BeginGuess, SetPhase, SaveLocked, Save, In
    <2> QED
      BY <2>1 DEF OpenInPhase, GuessAt, Current, PhaseActions, HasInterception
  <1>3. CASE GiveGuess
    <2>1. at = "give" /\ at' \in GuessAt /\ UNCHANGED <<acts, accepted>>
      BY <1>3 DEF GiveGuess, GuessAt, inputVars
    <2>2. CASE UNCHANGED sessionVars
      BY <1>a, <1>b, <2>1, <2>2 DEF sessionVars, GuessAt, OpenInPhase
    <2>3. CASE Needed(Current, pick.name)
      <3>1. /\ control' = "forward" /\ Current'.state = "GUESSING"
            /\ Current'.n = Current.n
        BY <1>3, <2>3, GivenGuess, GuessKept
      <3> QED
        BY <1>a, <2>1, <3>1 DEF OpenInPhase, GuessAt, PhaseActions, HasInterception
    <2> QED
      BY <1>3, <2>2, <2>3 DEF GiveGuess
  <1>4. CASE Submissions \/ (\E name \in Names : Expire(name)) \/ Worker \/ Stop
             \/ UNCHANGED vars
    BY <1>4, <1>a, <1>b DEF Submissions, CheckSubmission, RelayProgress, Expire, Worker,
                  AIGuess, Stop, vars, bridgeVars, inputVars, sessionVars, OpenInPhase
  <1>5. CASE AcceptSubmission
    <2>1. sub.name \in acts
      BY <1>5 DEF AcceptSubmission, SettledInv, BridgeInv, RoomInChannels, HolderIsOpen
    <2> QED
      BY <1>5, <1>a, <1>b, <2>1 DEF AcceptSubmission, sessionVars, OpenInPhase
  <1>6. CASE \/ GuessTimer \/ Sweep \/ SettleExpired \/ RecordGuess \/ TakeAnswer
             \/ (\E name \in GuessNames : TakeGuess(name))
    <2>1. UNCHANGED <<rounds, control, acts>>
      BY <1>6 DEF GuessTimer, Sweep, SettleExpired, RecordGuess, SaveLocked, Save,
                  TakeAnswer, TakeGuess, sessionVars, inputVars
    <2>2. accepted' \subseteq acts
      BY <1>6, <1>a DEF GuessTimer, Sweep, Expired, SettleExpired, RecordGuess, TakeAnswer,
                  TakeGuess, inputVars, OpenInPhase
    <2>3. at \in GuessAt /\ at' # "encrypt"
      BY <1>6 DEF GuessTimer, Sweep, SettleExpired, RecordGuess, TakeAnswer, TakeGuess,
                  Guessing, GuessAt
    <2> QED
      BY <1>b, <2>1, <2>2, <2>3
  <1>7. CASE \/ Start \/ NextInit \/ TakeClues \/ CluesTimer \/ CloseInput \/ DraftClues
             \/ ReturnClues \/ AIClues \/ Reveal \/ LeaveRound \/ DecideGame \/ Cancelled
    <2>1. accepted' \subseteq acts'
      BY <1>7, <1>a DEF Start, NextInit, TakeClues, CluesTimer, CloseInput, DraftClues,
                  ReturnClues, AIClues, Reveal, LeaveRound, DecideGame, Cancelled,
                  inputVars, OpenInPhase
    <2>2. at' \notin GuessAt \cup {"encrypt"}
      BY <1>7 DEF Start, NextInit, TakeClues, CluesTimer, CloseInput, DraftClues,
                  ReturnClues, AIClues, Reveal, LeaveRound, DecideGame, Cancelled, GuessAt
    <2> QED
      BY <1>c, <2>1, <2>2
  <1>8. CASE Core \/ FirstInit \/ AnnounceRound \/ FinishRound \/ ShowGameOver \/ Crash
    <2>1. accepted' \subseteq acts' /\ at' \notin GuessAt \cup {"encrypt"}
      BY <1>8, <1>a DEF Core, FirstInit, AnnounceRound, SetPhase, FinishRound,
                        ShowGameOver, Crash, bridgeVars, inputVars, OpenInPhase, GuessAt
    <2> QED
      BY <1>c, <2>1
  <1> QED
    BY <1>1, <1>2, <1>3, <1>4, <1>5, <1>6, <1>7, <1>8 DEF Next, Goroutine

LEMMA GivenStays == ASSUME UNCHANGED rounds, NEW name PROVE Given(name)' = Given(name)
  BY DEF Given, Current

LEMMA AnswerTaken ==
    ASSUME SettledInv, TakeAnswer
    PROVE  Head(answers) \in Answer /\ Head(answers).name \in GuessNames
  <1>1. Head(answers) \in Answer
    BY DEF TakeAnswer, SettledInv, BridgeInv, AnswersTyped
  <1> QED
    BY <1>1 DEF Answer

LEMMA HeldGuessNext == SettledInv /\ [Next]_vars => GuessHeld'
  <1> SUFFICES ASSUME SettledInv, [Next]_vars PROVE GuessHeld'
    OBVIOUS
  <1>a. GuessHeld
    BY DEF SettledInv
  <1>b. ASSUME at' \notin {"give", "record"} PROVE GuessHeld'
    BY <1>b DEF GuessHeld
  <1>c. ASSUME UNCHANGED <<at, pick, rounds>> PROVE GuessHeld'
    BY <1>a, <1>c, GivenStays DEF GuessHeld
  <1>d. ASSUME at' = "give", pick'.name \in GuessNames PROVE GuessHeld'
    BY <1>d DEF GuessHeld, GuessNames, Idle
  <1>1. ASSUME NEW name \in GuessNames, TakeGuess(name) PROVE GuessHeld'
    BY <1>1, <1>d DEF TakeGuess
  <1>2. CASE TakeAnswer
    <2>1. Head(answers).name \in GuessNames
      BY <1>2, AnswerTaken
    <2>2. (at' = "give" /\ pick' = Head(answers)) \/ UNCHANGED <<at, pick, rounds>>
      BY <1>2 DEF TakeAnswer, sessionVars
    <2> QED
      BY <1>c, <1>d, <2>1, <2>2
  <1>3. CASE SettleExpired
    <2>1. Head(todo) \in GuessNames
      BY <1>3 DEF SettleExpired, SettledInv, TodoKept
    <2> QED
      BY <1>3, <1>d, <2>1 DEF SettleExpired
  <1>4. CASE GiveGuess
    <2>1. CASE Needed(Current, pick.name)
      <3>1. pick' = pick /\ at' = "record" /\ pick.name \in GuessNames /\ pick # Idle
        BY <1>4, <1>a, <2>1 DEF GiveGuess, GuessHeld
      <3>2. Given(pick.name)'
        BY <1>4, <2>1, <3>1, GivenGuess, GuessKept DEF Given, GuessNames
      <3> QED
        BY <3>1, <3>2 DEF GuessHeld
    <2>2. CASE ~Needed(Current, pick.name)
      BY <1>4, <1>b, <2>2 DEF GiveGuess
    <2> QED
      BY <2>1, <2>2
  <1>5. CASE \/ Submissions \/ AcceptSubmission \/ (\E name \in Names : Expire(name))
             \/ Worker \/ Stop \/ UNCHANGED vars
    BY <1>5, <1>c DEF Submissions, CheckSubmission, RelayProgress, AcceptSubmission,
                      Expire, Worker, AIGuess, Stop, vars, bridgeVars, localVars, sessionVars
  <1>6. CASE \/ Core \/ FirstInit \/ Start \/ NextInit \/ AnnounceRound \/ BeginEncrypt
             \/ TakeClues \/ CluesTimer \/ CloseInput \/ DraftClues \/ ReturnClues
             \/ AIClues \/ BeginGuess \/ GuessTimer \/ Sweep \/ RecordGuess \/ Reveal
             \/ FinishRound \/ LeaveRound \/ DecideGame \/ ShowGameOver \/ Cancelled
             \/ Crash
    BY <1>6, <1>b DEF Core, FirstInit, bridgeVars, Start, NextInit, AnnounceRound,
                      BeginEncrypt, TakeClues, CluesTimer, CloseInput, DraftClues,
                      ReturnClues, AIClues, BeginGuess, GuessTimer, Sweep, RecordGuess,
                      Reveal, FinishRound, LeaveRound, DecideGame, ShowGameOver, Cancelled,
                      Crash
  <1> QED
    BY <1>1, <1>2, <1>3, <1>4, <1>5, <1>6 DEF Next, Goroutine

\* Where an action that takes no more answers has its answer
Settled(name) ==
    \/ Given(name)
    \/ ch[name] # <<>>
    \/ pick # Idle /\ pick.name = name
    \/ \E i \in DOMAIN todo : todo[i] = name

LEMMA ClosedNext == SettledInv /\ [Next]_vars => ClosedIsSettled'
  <1> SUFFICES ASSUME SettledInv, [Next]_vars,
                      at' \in {"encrypt", "guess", "expired", "settle", "give", "record"},
                      NEW name \in accepted'
               PROVE  Settled(name)'
    BY DEF ClosedIsSettled, Settled
  <1> DEFINE Taking == {"encrypt", "guess", "expired", "settle", "give", "record"}
  <1>a. at \in Taking /\ name \in accepted => Settled(name)
    BY DEF SettledInv, ClosedIsSettled, Settled
  <1>b. DOMAIN ch = Names /\ acts \subseteq Names /\ accepted \subseteq acts
    BY DEF SettledInv, BridgeInv, RoomInChannels, ChannelsKnown, OpenInPhase
  <1>c. (pick # Idle => at \in {"clues", "give", "record"})
        /\ (todo # <<>> => at \in {"settle", "give", "record"})
    BY DEF SettledInv, BridgeInv, HeldInRound, TodoKept
  <1>d. ASSUME UNCHANGED <<ch, pick, todo, rounds, accepted>>, at \in Taking
        PROVE  Settled(name)'
    BY <1>a, <1>d, GivenStays DEF Settled
  <1>1. CASE BeginEncrypt
    <2>1. accepted' = {}
      BY <1>1 DEF BeginEncrypt, SetPhase, PhaseActions, Needed, In
    <2> QED
      BY <2>1
  <1>2. CASE BeginGuess
    <2>1. name \in PhaseActions("guess", Current) /\ ~Needed(Current, name) /\ UNCHANGED rounds
      BY <1>2 DEF BeginGuess, SetPhase, SaveLocked, Save
    <2>2. Given(name)
      BY <2>1 DEF PhaseActions, Needed, NeedsDecrypt, NeedsIntercept, Given
    <2> QED
      BY <2>1, <2>2, GivenStays DEF Settled
  <1>3. CASE AcceptSubmission
    <2>1. /\ UNCHANGED <<pick, todo, rounds, at>> /\ accepted' = accepted \cup {sub.name}
          /\ sub.name \in Names
          /\ ch' = [ch EXCEPT ![sub.name] = <<[n |-> sub.n, v |-> sub.v]>>]
      BY <1>3, <1>b DEF AcceptSubmission, localVars, sessionVars, SettledInv, BridgeInv,
                        RoomInChannels, HolderIsOpen
    <2>2. ch'[sub.name] # <<>> /\ \A x \in Names \ {sub.name} : ch'[x] = ch[x]
      BY <1>b, <2>1
    <2>3. CASE name = sub.name
      BY <2>2, <2>3 DEF Settled
    <2>4. CASE name # sub.name
      <3>1. name \in accepted /\ name \in Names /\ at \in Taking
        BY <1>b, <2>1, <2>4
      <3> QED
        BY <1>a, <2>1, <2>2, <2>4, <3>1, GivenStays DEF Settled
    <2> QED
      BY <2>3, <2>4
  <1>4. ASSUME NEW x \in GuessNames, TakeGuess(x) PROVE Settled(name)'
    <2>1. /\ at = "guess" /\ UNCHANGED <<todo, rounds, accepted>> /\ pick'.name = x
          /\ ch' = [ch EXCEPT ![x] = <<>>]
      BY <1>4 DEF TakeGuess, Guessing, inputVars, sessionVars, localVars
    <2>2. CASE name = x
      BY <2>1, <2>2 DEF Settled, GuessNames, Idle
    <2>3. CASE name # x
      <3>1. ch'[name] = ch[name] /\ name \in accepted /\ pick = Idle /\ at \in Taking
        BY <1>b, <1>c, <2>1, <2>3
      <3> QED
        BY <1>a, <2>1, <3>1, GivenStays DEF Settled
    <2> QED
      BY <2>2, <2>3
  <1>5. CASE TakeAnswer
    <2>1. at = "guess" /\ UNCHANGED <<ch, todo, rounds>> /\ pick = Idle
      BY <1>5, <1>c DEF TakeAnswer, Guessing, sessionVars
    <2>2. CASE UNCHANGED <<accepted, pick>>
      BY <1>d, <2>1, <2>2
    <2>3. CASE /\ accepted' = accepted \cup {Head(answers).name} /\ pick' = Head(answers)
               /\ Head(answers).name \in GuessNames
      <3>1. CASE name = Head(answers).name
        BY <2>3, <3>1 DEF Settled, GuessNames, Idle
      <3>2. CASE name # Head(answers).name
        BY <1>a, <2>1, <2>3, <3>2, GivenStays DEF Settled
      <3> QED
        BY <3>1, <3>2
    <2>4. Head(answers).name \in GuessNames
      BY <1>5, AnswerTaken
    <2> QED
      BY <1>5, <2>2, <2>3, <2>4 DEF TakeAnswer
  <1>6. CASE Sweep
    <2>1. /\ at = "expired" /\ UNCHANGED <<ch, pick, rounds>> /\ todo' = InOrder(Expired)
          /\ accepted' = accepted \cup Expired /\ todo = <<>>
      BY <1>6, <1>c DEF Sweep, sessionVars
    <2>2. CASE name \in Expired
      <3>1. Expired \subseteq GuessNames
        BY <2>1 DEF SettledInv, OpenInPhase, GuessAt, Expired, PhaseActions, GuessNames
      <3> QED
        BY <2>1, <2>2, <3>1, InOrderAll DEF Settled
    <2>3. CASE name \notin Expired
      <3>1. name \in accepted /\ at \in Taking /\ DOMAIN todo = {}
        BY <2>1, <2>3
      <3> QED
        BY <1>a, <2>1, <3>1, GivenStays DEF Settled
    <2> QED
      BY <2>2, <2>3
  <1>7. CASE SettleExpired
    <2>1. /\ at = "settle" /\ UNCHANGED <<ch, rounds, accepted>> /\ todo' = Tail(todo)
          /\ pick'.name = Head(todo) /\ todo # <<>> /\ todo \in Seq(GuessNames)
          /\ pick = Idle
      BY <1>7, <1>c DEF SettleExpired, inputVars, sessionVars, SettledInv, TodoKept
    <2>2. ASSUME NEW i \in DOMAIN todo, todo[i] = name PROVE Settled(name)'
      <3>1. CASE i = 1
        BY <2>1, <2>2, <3>1 DEF Settled, GuessNames, Idle
      <3>2. CASE i # 1
        <4>1. i - 1 \in DOMAIN Tail(todo) /\ Tail(todo)[i - 1] = todo[i]
          BY <2>1, <2>2, <3>2
        <4> QED
          BY <2>1, <2>2, <4>1 DEF Settled
      <3> QED
        BY <3>1, <3>2
    <2>3. CASE Given(name) \/ ch[name] # <<>>
      BY <2>1, <2>3, GivenStays DEF Settled
    <2>4. name \in accepted /\ at \in Taking
      BY <2>1
    <2> QED
      BY <1>a, <2>1, <2>2, <2>3, <2>4 DEF Settled
  <1>8. CASE GiveGuess
    <2>1. /\ at = "give" /\ UNCHANGED <<ch, todo, accepted>> /\ name \in accepted
          /\ at \in Taking
      BY <1>8 DEF GiveGuess, inputVars
    <2>2. acts = PhaseActions("guess", Current) /\ name \in acts
      BY <1>b, <2>1 DEF SettledInv, OpenInPhase, GuessAt
    <2>3. CASE Needed(Current, pick.name)
      <3>1. pick' = pick
        BY <1>8, <2>3 DEF GiveGuess
      <3>2. Given(name) => Given(name)'
        BY <1>8, <2>2, <2>3, GivenGuess, GuessKept DEF Given, PhaseActions
      <3> QED
        BY <1>a, <2>1, <3>1, <3>2 DEF Settled
    <2>4. CASE ~Needed(Current, pick.name)
      <3>1. pick.name = name => Given(name)
        BY <2>2, <2>4 DEF PhaseActions, Needed, NeedsDecrypt, NeedsIntercept, Given
      <3>2. UNCHANGED rounds
        BY <1>8, <2>4 DEF GiveGuess, sessionVars
      <3> QED
        BY <1>a, <2>1, <3>1, <3>2, GivenStays DEF Settled
    <2> QED
      BY <2>3, <2>4
  <1>9. CASE RecordGuess
    <2>1. /\ at = "record" /\ UNCHANGED <<ch, todo, rounds>> /\ Given(pick.name)
          /\ accepted' = accepted \cup ({pick.name} \cap acts) /\ at \in Taking
      BY <1>9 DEF RecordGuess, SaveLocked, Save, SettledInv, GuessHeld
    <2>2. CASE name = pick.name
      BY <2>1, <2>2, GivenStays DEF Settled
    <2>3. CASE name # pick.name
      BY <1>a, <2>1, <2>3, GivenStays DEF Settled
    <2> QED
      BY <2>2, <2>3
  <1>10. CASE \/ Submissions \/ (\E x \in Names : Expire(x)) \/ Worker \/ Stop
              \/ UNCHANGED vars \/ GuessTimer
    <2>1. UNCHANGED <<ch, pick, todo, rounds, accepted>>
      BY <1>10 DEF Submissions, CheckSubmission, RelayProgress, Expire, Worker, AIGuess,
                  Stop, vars, bridgeVars, localVars, sessionVars, inputVars, GuessTimer
    <2>2. at \in Taking
      BY <1>10 DEF Submissions, CheckSubmission, RelayProgress, Expire, Worker, AIGuess,
                  Stop, vars, bridgeVars, GuessTimer, Guessing
    <2> QED
      BY <1>d, <2>1, <2>2
  <1>11. CASE \/ Core \/ FirstInit \/ Start \/ NextInit \/ AnnounceRound \/ TakeClues
              \/ CluesTimer \/ CloseInput \/ DraftClues \/ ReturnClues \/ AIClues
              \/ Reveal \/ FinishRound \/ LeaveRound \/ DecideGame \/ ShowGameOver
              \/ Cancelled \/ Crash
    <2>1. at' \notin Taking
      BY <1>11 DEF Core, FirstInit, bridgeVars, Start, NextInit, AnnounceRound, TakeClues,
                   CluesTimer, CloseInput, DraftClues, ReturnClues, AIClues, Reveal,
                   FinishRound, LeaveRound, DecideGame, ShowGameOver, Cancelled, Crash
    <2> QED
      BY <2>1
  <1> QED
    BY <1>1, <1>2, <1>3, <1>4, <1>5, <1>6, <1>7, <1>8, <1>9, <1>10, <1>11
    DEF Next, Goroutine

\* An action that takes no more answers while the round still waits for one has
\* its answer on the way: no order of a submission, an AI answer, a deadline and a
\* restart closes an action that nobody settles (nextExpiry skips closed ones).
THEOREM BridgeClosedIsSettled == Spec => []ClosedIsSettled
  <1>1. SettledInv /\ [Next]_vars => SettledInv'
    BY BridgeNext, OpenNext, TodoNext, HeldGuessNext, ClosedNext DEF SettledInv
  <1>2. SettledInv => ClosedIsSettled
    BY DEF SettledInv
  <1> QED
    BY <1>1, <1>2, SettledInit, PTL DEF Spec

-----------------------------------------------------------------------------
(* What is shown and saved of a round *)

\* The places in which the clues of a round are awaited
WritingAt == {"encrypt", "aiEncrypt", "closing", "closed", "clues"}

Placed ==
    /\ phase \in Phases /\ kept.phase \in Phases /\ at \in Places /\ cancelled \in BOOLEAN
    /\ at \in WritingAt => In("ENCRYPTING")
    /\ at = "clues" => pick.name = "encrypt"
    /\ at = "over" => control = "over"

LEMMA PlacedInit == Init => Placed
  <1> SUFFICES ASSUME Init PROVE Placed
    OBVIOUS
  <1>1. phase = "" /\ at = "session" /\ cancelled = FALSE
    BY DEF Init
  <1>2. kept.phase = ""
    BY DEF Init
  <1> QED
    BY <1>1, <1>2 DEF Placed, Phases, Places, WritingAt

LEMMA PlacedNext == Placed /\ [Next]_vars => Placed'
  <1> SUFFICES ASSUME Placed, [Next]_vars PROVE Placed'
    OBVIOUS
  <1>a. /\ phase \in Phases /\ kept.phase \in Phases /\ at \in Places /\ cancelled \in BOOLEAN
        /\ at \in WritingAt => In("ENCRYPTING")
        /\ at = "clues" => pick.name = "encrypt"
        /\ at = "over" => control = "over"
    BY DEF Placed
  <1>b. ASSUME phase' \in Phases, kept'.phase \in Phases, cancelled' \in BOOLEAN,
               at' \in Places \ (WritingAt \cup {"over"})
        PROVE  Placed'
    BY <1>b DEF Placed, WritingAt
  <1>c. ASSUME UNCHANGED <<phase, kept, cancelled, at, pick, rounds, control>> PROVE Placed'
    BY <1>a, <1>c DEF Placed, In, Current
  <1>d. ASSUME UNCHANGED <<phase, kept, cancelled, rounds, control>>, In("ENCRYPTING"),
               at' \in WritingAt, at' = "clues" => pick'.name = "encrypt"
        PROVE  Placed'
    BY <1>a, <1>d DEF Placed, In, Current, WritingAt, Places
  <1>1. CASE BeginEncrypt
    <2>1. /\ phase' = "encrypting" /\ kept'.phase = phase' /\ UNCHANGED <<cancelled, rounds, control>>
          /\ at' \in {"encrypt", "aiEncrypt"} /\ In("ENCRYPTING")
      BY <1>1 DEF BeginEncrypt, SetPhase, SaveLocked, Save
    <2> QED
      BY <1>a, <2>1 DEF Placed, In, Current, WritingAt, Places, Phases
  <1>2. CASE TakeClues \/ CluesTimer \/ CloseInput \/ DraftClues
    <2>1. UNCHANGED <<phase, kept, cancelled, rounds, control>>
      BY <1>2 DEF TakeClues, CluesTimer, CloseInput, DraftClues, shownVars, sessionVars
    <2>2. at \in WritingAt /\ at' \in WritingAt
      BY <1>2 DEF TakeClues, CluesTimer, CloseInput, DraftClues, WritingAt
    <2>3. at' = "clues" => pick'.name = "encrypt"
      BY <1>2 DEF TakeClues, CluesTimer, CloseInput, DraftClues
    <2>4. In("ENCRYPTING")
      BY <1>a, <2>2
    <2> QED
      BY <1>d, <2>1, <2>2, <2>3, <2>4
  <1>3. CASE BeginGuess
    <2>1. phase' = "guess" /\ kept'.phase = phase' /\ UNCHANGED cancelled /\ at' = "guess"
      BY <1>3 DEF BeginGuess, SetPhase, SaveLocked
    <2> QED
      BY <1>a, <1>b, <2>1 DEF Places, Phases, WritingAt
  <1>4. CASE FinishRound \/ ShowGameOver \/ RecordGuess
    <2>1. /\ phase' \in {phase, "round_result", "game_over"} /\ kept'.phase = phase'
          /\ UNCHANGED cancelled /\ at' \in {"result", "ended", "guess", "settle"}
      BY <1>4 DEF FinishRound, ShowGameOver, RecordGuess, SaveLocked, shownVars
    <2> QED
      BY <1>a, <1>b, <2>1 DEF Places, Phases, WritingAt
  <1>5. CASE AnnounceRound
    <2>1. phase' = "new_round" /\ UNCHANGED <<kept, cancelled>> /\ at' = "session"
      BY <1>5 DEF AnnounceRound, SetPhase
    <2> QED
      BY <1>a, <1>b, <2>1 DEF Places, Phases, WritingAt
  <1>6. CASE DecideGame
    <2>1. UNCHANGED <<phase, kept, cancelled>> /\ at' = "over" /\ control' = "over"
      BY <1>6 DEF DecideGame, GameOver, shownVars
    <2> QED
      BY <1>a, <2>1 DEF Placed, Places, WritingAt
  <1>7. CASE Crash
    <2>1. phase' = kept.phase /\ UNCHANGED <<kept, cancelled>> /\ at' = "paused"
      BY <1>7 DEF Crash
    <2> QED
      BY <1>a, <1>b, <2>1 DEF Places, WritingAt
  <1>8. CASE Stop
    <2>1. UNCHANGED <<phase, kept, at, pick, rounds, control>> /\ cancelled' = TRUE
      BY <1>8 DEF Stop, shownVars, localVars, sessionVars
    <2> QED
      BY <1>a, <2>1 DEF Placed, In, Current
  <1>9. CASE \/ Submissions \/ AcceptSubmission \/ (\E name \in Names : Expire(name))
             \/ Worker \/ UNCHANGED vars
    BY <1>9, <1>c DEF Submissions, CheckSubmission, RelayProgress, AcceptSubmission, Expire,
                      Worker, AIGuess, vars, bridgeVars, shownVars, localVars, sessionVars
  <1>10. CASE \/ Core \/ FirstInit \/ NextInit \/ ReturnClues \/ AIClues
              \/ (\E name \in GuessNames : TakeGuess(name)) \/ TakeAnswer \/ GuessTimer
              \/ Sweep \/ SettleExpired \/ GiveGuess \/ Reveal \/ LeaveRound \/ Cancelled
              \/ Start
    <2>1. UNCHANGED <<phase, kept, cancelled>>
      BY <1>10 DEF Core, FirstInit, NextInit, ReturnClues, AIClues, TakeGuess, TakeAnswer,
                   GuessTimer, Sweep, SettleExpired, GiveGuess, Reveal, LeaveRound, Cancelled,
                   Start, shownVars, bridgeVars
    <2>2. at' \in Places \ (WritingAt \cup {"over"})
      BY <1>10 DEF Core, FirstInit, NextInit, ReturnClues, AIClues, TakeGuess, TakeAnswer,
                   GuessTimer, Guessing, Sweep, SettleExpired, GiveGuess, Reveal, LeaveRound,
                   Cancelled, Start, bridgeVars, Places, WritingAt
    <2> QED
      BY <1>a, <1>b, <2>1, <2>2
  <1> QED
    BY <1>1, <1>2, <1>3, <1>4, <1>5, <1>6, <1>7, <1>8, <1>9, <1>10 DEF Next, Goroutine

\* Round i of a session has the number i.
LEMMA RoundNumber ==
    ASSUME NEW rs, Shape(rs), rs # <<>>
    PROVE  /\ rs \in Seq(Round) /\ Len(rs) \in 1..MaxRounds /\ Len(rs) \in DOMAIN rs
           /\ rs[Len(rs)] \in Round /\ rs[Len(rs)].n = Len(rs)
  <1>1. rs \in Seq(Round) /\ Len(rs) <= MaxRounds /\ MaxRounds \in Nat
        /\ \A i \in DOMAIN rs : ValidRound(rs, i)
    BY SessionAssumption DEF Shape, ValidSnapshot
  <1>2. Len(rs) \in DOMAIN rs /\ Len(rs) \in 1..MaxRounds
    BY <1>1
  <1> QED
    BY <1>1, <1>2 DEF ValidRound

LEMMA CurrentIsLast ==
    ASSUME Inv, rounds # <<>>
    PROVE  /\ Current \in Round /\ Current.n = Len(rounds) /\ Len(rounds) \in 1..MaxRounds
           /\ \A r \in Round : SetCurrent(r) =>
                 Current' = r /\ Len(rounds') = Len(rounds) /\ rounds' # <<>>
  <1>1. rounds \in Seq(Round) /\ Current \in Round /\ Current.n = Len(rounds) /\ Len(rounds) \in 1..MaxRounds
    BY RoundNumber DEF Inv, Current
  <1>2. ASSUME NEW r \in Round, SetCurrent(r)
        PROVE  Current' = r /\ Len(rounds') = Len(rounds) /\ rounds' # <<>>
    BY <1>1, <1>2, SetCurrentType DEF SetCurrent, Current
  <1> QED
    BY <1>1, <1>2

LEMMA ForwardHasRound == ASSUME Inv, control = "forward" PROVE rounds # <<>>
  BY DEF Inv, TypeOK

\* Every snapshot is taken while its own round is shown.
Shown ==
    /\ round <= Len(rounds)
    /\ rounds # <<>> /\ Current.state \in {"GUESSING", "DONE"} => round = Len(rounds)
    /\ kept.round = Len(saved)

LEMMA ShownInit == Init => Shown
  <1> SUFFICES ASSUME Init PROVE Shown
    OBVIOUS
  <1>1. rounds = <<>> /\ saved = <<>> /\ round = 0
    BY DEF Init, SessionInit
  <1>2. kept.round = 0
    BY DEF Init
  <1> QED
    BY <1>1, <1>2 DEF Shown

\* Whether round r has its answer to an action: Given, of any round
Answered(r, name) ==
    CASE name = "encrypt"   -> r.state \in {"GUESSING", "DONE"}
      [] name = "decrypt"   -> r.decrypted
      [] name = "intercept" -> r.intercepted

\* A round keeps the answers it has
AnswersStay == \A name \in Names : Answered(Current, name) => Answered(Current, name)'

\* What becomes of the current round, as far as its place and phase go: in the
\* steps of the rules.
LEMMA RoundGoesOn ==
    ASSUME Inv
    PROVE  /\ InitDone \/ EnterInit => /\ rounds # <<>> /\ rounds' # <<>> /\ Len(rounds') = Len(rounds)
                                       /\ Current'.state \in {"INIT", "ENCRYPTING"}
                                       /\ AnswersStay
           /\ \A c \in Clues : EncryptDone(c) =>
                 /\ rounds # <<>> /\ rounds' # <<>> /\ Len(rounds') = Len(rounds)
                 /\ Current'.state = "GUESSING" /\ AnswersStay
           /\ \A g \in Codes \cup {NoCode} : GiveDecrypt(g) =>
                 /\ rounds # <<>> /\ rounds' # <<>> /\ Len(rounds') = Len(rounds)
                 /\ Current'.state = "GUESSING" /\ Current'.decrypted
                 /\ Current'.intercepted = Current.intercepted /\ AnswersStay
           /\ \A g \in Codes \cup {NoCode} : GiveIntercept(g) =>
                 /\ rounds # <<>> /\ rounds' # <<>> /\ Len(rounds') = Len(rounds)
                 /\ Current'.state = "GUESSING" /\ Current'.intercepted
                 /\ Current'.decrypted = Current.decrypted /\ AnswersStay
           /\ GuessDone =>
                 /\ rounds # <<>> /\ rounds' # <<>> /\ Len(rounds') = Len(rounds)
                 /\ Current.state = "GUESSING" /\ Current'.state = "DONE" /\ Current'.decrypted
                 /\ Current.intercepted => Current'.intercepted
                 /\ AnswersStay
           /\ StartRound => /\ rounds' # <<>> /\ Len(rounds') = Len(rounds) + 1
                            /\ Current'.state = "NEW"
  <1>0. control = "forward" => rounds # <<>>
    BY ForwardHasRound
  <1>1. ASSUME NEW s \in {"INIT", "ENCRYPTING"}, control = "forward",
               SetCurrent([Current EXCEPT !.state = s])
        PROVE  /\ rounds # <<>> /\ rounds' # <<>> /\ Len(rounds') = Len(rounds)
               /\ Current'.state = s
               /\ Current'.decrypted = Current.decrypted
               /\ Current'.intercepted = Current.intercepted
    <2> DEFINE r == [Current EXCEPT !.state = s]
    <2>1. /\ r \in Round /\ r.state = s
          /\ r.decrypted = Current.decrypted /\ r.intercepted = Current.intercepted
      BY <1>0, <1>1, CurrentIsLast DEF Round, States
    <2>2. SetCurrent(r) /\ rounds # <<>>
      BY <1>0, <1>1
    <2> HIDE DEF r
    <2> QED
      BY <2>1, <2>2, CurrentIsLast
  <1>2. ASSUME InitDone \/ EnterInit
        PROVE  /\ rounds # <<>> /\ rounds' # <<>> /\ Len(rounds') = Len(rounds)
               /\ Current'.state \in {"INIT", "ENCRYPTING"} /\ AnswersStay
    <2>1. PICK s \in {"INIT", "ENCRYPTING"} :
             control = "forward" /\ SetCurrent([Current EXCEPT !.state = s])
      BY <1>2 DEF InitDone, EnterInit, In
    <2>2. Current.state \in {"NEW", "INIT"}
      BY <1>2 DEF InitDone, EnterInit, In
    <2>3. /\ rounds # <<>> /\ rounds' # <<>> /\ Len(rounds') = Len(rounds)
          /\ Current'.state = s
          /\ Current'.decrypted = Current.decrypted
          /\ Current'.intercepted = Current.intercepted
      BY <1>1, <2>1
    <2> QED
      BY <2>2, <2>3 DEF AnswersStay, Answered, Names, GuessNames
  <1>3. ASSUME NEW c \in Clues, EncryptDone(c)
        PROVE  /\ rounds # <<>> /\ rounds' # <<>> /\ Len(rounds') = Len(rounds)
               /\ Current'.state = "GUESSING" /\ AnswersStay
    <2> DEFINE r == [Current EXCEPT !.clues = c, !.state = "GUESSING"]
    <2>1. rounds # <<>> /\ Current.state = "ENCRYPTING" /\ SetCurrent(r)
      BY <1>0, <1>3 DEF EncryptDone, In
    <2>2. /\ r \in Round /\ r.state = "GUESSING"
          /\ r.decrypted = Current.decrypted /\ r.intercepted = Current.intercepted
      BY <2>1, CurrentIsLast, CluesWritten
    <2> HIDE DEF r
    <2> QED
      BY <2>1, <2>2, CurrentIsLast DEF AnswersStay, Answered, Names, GuessNames
  <1>4. ASSUME NEW g \in Codes \cup {NoCode}, GiveDecrypt(g)
        PROVE  /\ rounds # <<>> /\ rounds' # <<>> /\ Len(rounds') = Len(rounds)
               /\ Current'.state = "GUESSING" /\ Current'.decrypted
               /\ Current'.intercepted = Current.intercepted /\ AnswersStay
    <2> DEFINE r == [Current EXCEPT !.decrypt = g, !.decrypted = TRUE]
    <2>1. rounds # <<>> /\ Current.state = "GUESSING" /\ ~Current.decrypted /\ SetCurrent(r)
      BY <1>0, <1>4 DEF GiveDecrypt, In, NeedsDecrypt
    <2>2. r \in Round /\ r.state = "GUESSING" /\ r.intercepted = Current.intercepted
      BY <2>1, CurrentIsLast, DecryptFilled
    <2>3. r.decrypted
      BY <2>1, CurrentIsLast DEF Round
    <2> HIDE DEF r
    <2> QED
      BY <2>1, <2>2, <2>3, CurrentIsLast DEF AnswersStay, Answered, Names, GuessNames
  <1>5. ASSUME NEW g \in Codes \cup {NoCode}, GiveIntercept(g)
        PROVE  /\ rounds # <<>> /\ rounds' # <<>> /\ Len(rounds') = Len(rounds)
               /\ Current'.state = "GUESSING" /\ Current'.intercepted
               /\ Current'.decrypted = Current.decrypted /\ AnswersStay
    <2> DEFINE r == [Current EXCEPT !.intercept = g, !.intercepted = TRUE]
    <2>1. rounds # <<>> /\ Current.state = "GUESSING" /\ ~Current.intercepted /\ SetCurrent(r)
      BY <1>0, <1>5 DEF GiveIntercept, In, NeedsIntercept
    <2>2. r \in Round /\ r.state = "GUESSING"
      BY <2>1, CurrentIsLast, InterceptFilled
    <2>3. r.intercepted /\ r.decrypted = Current.decrypted
      BY <2>1, CurrentIsLast DEF Round
    <2> HIDE DEF r
    <2> QED
      BY <2>1, <2>2, <2>3, CurrentIsLast DEF AnswersStay, Answered, Names, GuessNames
  <1>6. ASSUME GuessDone
        PROVE  /\ rounds # <<>> /\ rounds' # <<>> /\ Len(rounds') = Len(rounds)
               /\ Current.state = "GUESSING" /\ Current'.state = "DONE" /\ Current'.decrypted
               /\ Current.intercepted => Current'.intercepted
               /\ AnswersStay
    <2> DEFINE f == FillGuesses(Current)
               r == [f EXCEPT !.state = "DONE"]
    <2>1. rounds # <<>> /\ Current.state = "GUESSING" /\ SetCurrent(r)
      BY <1>0, <1>6 DEF GuessDone, In
    <2>2. Current.intercepted => Current.n > 2
      <3>1. Len(rounds) \in DOMAIN rounds /\ ValidRound(rounds, Len(rounds))
        BY <2>1, RoundNumber DEF Inv, Shape, ValidSnapshot
      <3> QED
        BY <3>1 DEF ValidRound, Current
    <2>3. r \in Round /\ r.state = "DONE" /\ r.decrypted /\ Continues(Current, r)
      BY <2>1, <2>2, CurrentIsLast, GuessesFilled
    <2> HIDE DEF r
    <2> QED
      BY <2>1, <2>3, CurrentIsLast DEF Continues, AnswersStay, Answered, Names, GuessNames
  <1>7. ASSUME StartRound
        PROVE  rounds' # <<>> /\ Len(rounds') = Len(rounds) + 1 /\ Current'.state = "NEW"
    <2>1. PICK secret \in Codes : rounds' = Append(rounds, NewRound(rounds, secret))
      BY <1>7 DEF StartRound
    <2>2. rounds \in Seq(Round) /\ NewRound(rounds, secret).state = "NEW"
      BY DEF Inv, TypeOK, NewRound
    <2> QED
      BY <2>1, <2>2 DEF Current
  <1> QED
    BY <1>2, <1>3, <1>4, <1>5, <1>6, <1>7

LEMMA ShownRoundNext == SettledInv /\ Placed /\ Shown /\ [Next]_vars => Shown'
  <1> SUFFICES ASSUME SettledInv, Placed, Shown, [Next]_vars PROVE Shown'
    OBVIOUS
  <1>a. Inv /\ round \in Nat /\ rounds \in Seq(Round) /\ saved \in Seq(Round)
    BY DEF SettledInv, BridgeInv, Counted, Inv, TypeOK
  <1>b. /\ round <= Len(rounds)
        /\ rounds # <<>> /\ Current.state \in {"GUESSING", "DONE"} => round = Len(rounds)
        /\ kept.round = Len(saved)
    BY DEF Shown
  <1>c. control = "forward" => rounds # <<>> /\ Current.n = Len(rounds)
    BY <1>a, ForwardHasRound, CurrentIsLast
  <1>d. at \in InPhase /\ control = "forward" => round = Len(rounds)
    BY <1>c DEF SettledInv, BridgeInv, ShownIsPlayed
  <1>e. ASSUME UNCHANGED <<rounds, round>>, kept'.round = round', saved' = rounds,
               round = Len(rounds)
        PROVE  Shown'
    BY <1>a, <1>e DEF Shown, Current
  <1>1. CASE BeginEncrypt \/ BeginGuess
    <2>1. /\ control = "forward" /\ round' = Current.n /\ rounds' = rounds
          /\ kept'.round = round' /\ saved' = rounds
      BY <1>1 DEF BeginEncrypt, BeginGuess, SetPhase, SaveLocked, Save, In
    <2>2. round' = Len(rounds) /\ Len(rounds) \in Nat
      BY <1>a, <1>c, <2>1
    <2> QED
      BY <2>1, <2>2 DEF Shown, Current
  <1>2. CASE AnnounceRound
    <2>1. /\ control = "forward" /\ round' = Current.n /\ UNCHANGED <<kept, saved>> /\ InitDone
      BY <1>2 DEF AnnounceRound, SetPhase, InitDone, In
    <2>2. round' = Len(rounds) /\ Len(rounds') = Len(rounds) /\ Current'.state \notin {"GUESSING", "DONE"}
      BY <1>a, <1>c, <2>1, RoundGoesOn
    <2> QED
      BY <1>a, <1>b, <2>1, <2>2 DEF Shown
  <1>3. CASE RecordGuess
    <2>1. at = "record" /\ control = "forward"
      BY <1>3 DEF RecordGuess, SettledInv, OpenInPhase, GuessAt
    <2>2. UNCHANGED <<rounds, round>> /\ kept'.round = round' /\ saved' = rounds
      BY <1>3 DEF RecordGuess, SaveLocked, Save, shownVars
    <2> QED
      BY <1>d, <1>e, <2>1, <2>2 DEF InPhase
  <1>4. CASE FinishRound \/ ShowGameOver
    <2>1. UNCHANGED <<rounds, round>> /\ kept'.round = round' /\ saved' = rounds
      BY <1>4 DEF FinishRound, ShowGameOver, SaveLocked, Save
    <2>2. rounds = <<>> \/ Current.state = "DONE"
      BY <1>4, <1>a DEF FinishRound, ShowGameOver, Placed, In, Inv
    <2>3. round = Len(rounds)
      BY <1>a, <1>b, <2>2
    <2> QED
      BY <1>e, <2>1, <2>3
  <1>5. CASE Crash
    <2>1. rounds' = saved /\ round' = kept.round /\ UNCHANGED <<kept, saved>>
      BY <1>5 DEF Crash, Restart
    <2> QED
      BY <1>a, <1>b, <2>1 DEF Shown
  <1>6. CASE ReturnClues \/ AIClues \/ GiveGuess \/ Reveal
    <2>1. UNCHANGED <<round, kept, saved>>
      BY <1>6 DEF ReturnClues, AIClues, EncryptDone, GiveGuess, GiveDecrypt, GiveIntercept,
                  Reveal, GuessDone, shownVars, sessionVars
    <2>2. Len(rounds') = Len(rounds) /\ (rounds' # <<>> => control = "forward")
      <3>1. CASE ReturnClues
        <4>1. pick.v \in Clues /\ EncryptDone(pick.v)
          BY <3>1 DEF ReturnClues, SettledInv, BridgeInv, HeldInRound
        <4> QED
          BY <1>a, <4>1, RoundGoesOn DEF EncryptDone, In
      <3>2. CASE AIClues
        BY <1>a, <3>2, RoundGoesOn DEF AIClues, EncryptDone, In
      <3>3. CASE GiveGuess
        <4>1. control = "forward" /\ pick.name \in GuessNames /\ pick.v \in Codes \cup {NoCode}
          BY <3>3 DEF GiveGuess, SettledInv, OpenInPhase, GuessHeld, GuessAt, BridgeInv, HeldInRound
        <4>2. UNCHANGED rounds \/ GiveDecrypt(pick.v) \/ GiveIntercept(pick.v)
          BY <3>3 DEF GiveGuess, sessionVars
        <4> QED
          BY <1>a, <4>1, <4>2, RoundGoesOn
      <3>4. CASE Reveal
        BY <1>a, <3>4, RoundGoesOn DEF Reveal, GuessDone, In
      <3> QED
        BY <1>6, <3>1, <3>2, <3>3, <3>4
    <2>3. control = "forward" => round = Len(rounds)
      <3>1. at \in InPhase \/ (Reveal /\ Current.state = "GUESSING")
        BY <1>6 DEF ReturnClues, AIClues, GiveGuess, Reveal, InPhase, In
      <3> QED
        BY <1>b, <1>c, <1>d, <3>1
    <2> QED
      BY <1>a, <1>b, <2>1, <2>2, <2>3 DEF Shown
  <1>7. CASE Core \/ FirstInit
    <2>1. UNCHANGED <<round, kept>>
      BY <1>7 DEF Core, FirstInit, bridgeVars, shownVars
    <2>2. StartRound \/ EnterInit \/ InitDone
      BY <1>7 DEF Core, FirstInit
    <2>3. UNCHANGED saved
      BY <2>2 DEF StartRound, EnterInit, InitDone
    <2>4. /\ Len(rounds') = Len(rounds) \/ Len(rounds') = Len(rounds) + 1
          /\ Current'.state \notin {"GUESSING", "DONE"}
      BY <1>a, <2>2, RoundGoesOn
    <2> QED
      BY <1>a, <1>b, <2>1, <2>3, <2>4 DEF Shown
  <1>8. CASE \/ Submissions \/ AcceptSubmission \/ (\E name \in Names : Expire(name))
             \/ Worker \/ Stop \/ Start \/ UNCHANGED vars
             \/ NextInit \/ TakeClues \/ CluesTimer \/ CloseInput \/ DraftClues
             \/ (\E name \in GuessNames : TakeGuess(name)) \/ TakeAnswer \/ GuessTimer
             \/ Sweep \/ SettleExpired \/ LeaveRound \/ DecideGame \/ Cancelled
    <2>1. UNCHANGED <<round, kept, rounds, saved>>
      BY <1>8 DEF Submissions, CheckSubmission, RelayProgress, AcceptSubmission, Expire,
                  Worker, AIGuess, Stop, Start, vars, bridgeVars, shownVars, sessionVars,
                  NextInit, TakeClues, CluesTimer, CloseInput, DraftClues, TakeGuess,
                  TakeAnswer, GuessTimer, Sweep, SettleExpired, LeaveRound, RoundDone,
                  DecideGame, GameOver, Cancelled, Cancel
    <2> QED
      BY <1>b, <2>1 DEF Shown, Current
  <1> QED
    BY <1>1, <1>2, <1>3, <1>4, <1>5, <1>6, <1>7, <1>8 DEF Next, Goroutine

-----------------------------------------------------------------------------
(* What is open is still wanted *)

Distinct(s) == \A i, j \in DOMAIN s : s[i] = s[j] => i = j

\* While guesses are awaited, the round has no answer to an action that is open
\* or about to be settled, and what the goroutine holds was closed before.
OpenIsNeeded ==
    at \in GuessAt =>
        /\ \A name \in acts \ accepted : ~Given(name)
        /\ \A name \in Names \ acts : ch[name] = <<>>
        /\ pick # Idle => pick.name \in accepted
        /\ Distinct(todo)
        /\ \A i \in DOMAIN todo : /\ todo[i] \in accepted /\ ~Given(todo[i])
                                  /\ pick # Idle => pick.name # todo[i]

LEMMA OpenInit == Init => OpenIsNeeded
  BY DEF Init, OpenIsNeeded, GuessAt

LEMMA InOrderOnly ==
    ASSUME NEW names \in SUBSET GuessNames
    PROVE  /\ Distinct(InOrder(names))
           /\ \A i \in DOMAIN InOrder(names) : InOrder(names)[i] \in names
           /\ Len(InOrder(names)) <= 2
  <1>1. CASE names = {}
    BY <1>1 DEF InOrder, Distinct
  <1>2. CASE names = {"decrypt"}
    BY <1>2 DEF InOrder, GuessNames, Distinct
  <1>3. CASE names = {"intercept"}
    BY <1>3 DEF InOrder, GuessNames, Distinct
  <1>4. CASE names = {"decrypt", "intercept"}
    <2>1. InOrder(names) = <<"decrypt">> \o <<"intercept">>
      BY <1>4 DEF InOrder
    <2>2. /\ Len(InOrder(names)) = 2 /\ DOMAIN InOrder(names) = 1..2
          /\ InOrder(names)[1] = "decrypt" /\ InOrder(names)[2] = "intercept"
      BY <2>1
    <2>3. \A i \in DOMAIN InOrder(names) : i = 1 \/ i = 2
      BY <2>2
    <2> QED
      BY <1>4, <2>2, <2>3 DEF Distinct
  <1> QED
    BY <1>1, <1>2, <1>3, <1>4 DEF GuessNames

LEMMA DistinctTail ==
    ASSUME NEW S, NEW s \in Seq(S), s # <<>>, Distinct(s)
    PROVE  /\ Distinct(Tail(s)) /\ Len(Tail(s)) < Len(s)
           /\ \A i \in DOMAIN Tail(s) : /\ i + 1 \in DOMAIN s /\ Tail(s)[i] = s[i + 1]
                                        /\ Tail(s)[i] # Head(s)
  <1>1. /\ Len(Tail(s)) = Len(s) - 1 /\ DOMAIN Tail(s) = 1..(Len(s) - 1) /\ DOMAIN s = 1..Len(s)
        /\ \A i \in 1..(Len(s) - 1) : Tail(s)[i] = s[i + 1]
        /\ Head(s) = s[1] /\ Len(s) \in Nat \ {0}
    OBVIOUS
  <1> QED
    BY <1>1 DEF Distinct

LEMMA DistinctAppend ==
    ASSUME NEW S, NEW s \in Seq(S), NEW x \in S, Distinct(s), \A i \in DOMAIN s : s[i] # x
    PROVE  /\ Append(s, x) \in Seq(S) /\ Distinct(Append(s, x))
           /\ \A i \in DOMAIN Append(s, x) :
                 Append(s, x)[i] = x \/ (i \in DOMAIN s /\ Append(s, x)[i] = s[i])
  <1>1. /\ DOMAIN s = 1..Len(s) /\ DOMAIN Append(s, x) = 1..(Len(s) + 1) /\ Len(s) \in Nat
        /\ \A i \in 1..Len(s) : Append(s, x)[i] = s[i]
        /\ Append(s, x)[Len(s) + 1] = x
        /\ Append(s, x) \in Seq(S)
    OBVIOUS
  <1>2. \A i \in DOMAIN Append(s, x) :
           Append(s, x)[i] = x \/ (i \in DOMAIN s /\ Append(s, x)[i] = s[i])
    BY <1>1
  <1>3. Distinct(Append(s, x))
    BY <1>1 DEF Distinct
  <1> QED
    BY <1>1, <1>2, <1>3

LEMMA OpenNeededNext == SettledInv /\ OpenIsNeeded /\ [Next]_vars => OpenIsNeeded'
  <1> SUFFICES ASSUME SettledInv, OpenIsNeeded, [Next]_vars PROVE OpenIsNeeded'
    OBVIOUS
  <1>a. at \in GuessAt =>
          /\ \A name \in acts \ accepted : ~Given(name)
          /\ \A name \in Names \ acts : ch[name] = <<>>
          /\ pick # Idle => pick.name \in accepted
          /\ Distinct(todo)
          /\ \A i \in DOMAIN todo : /\ todo[i] \in accepted /\ ~Given(todo[i])
                                    /\ pick # Idle => pick.name # todo[i]
    BY DEF OpenIsNeeded
  <1>b. /\ (pick # Idle => at \in {"clues", "give", "record"})
        /\ (todo # <<>> => at \in {"settle", "give", "record"})
        /\ todo \in Seq(GuessNames) /\ (at = "settle" => todo # <<>>)
        /\ DOMAIN ch = Names /\ acts \subseteq Names /\ accepted \subseteq acts
    BY DEF SettledInv, BridgeInv, HeldInRound, TodoKept, RoomInChannels, ChannelsKnown, OpenInPhase
  <1>c. at \in GuessAt => acts \subseteq GuessNames /\ ("intercept" \in acts => HasInterception(Current))
    BY DEF SettledInv, OpenInPhase, PhaseActions, GuessNames
  <1>d. ASSUME at \in GuessAt, UNCHANGED <<acts, rounds, todo>>, accepted \subseteq accepted',
               \A name \in Names \ acts : ch'[name] = <<>>,
               pick' = pick \/ pick' = Idle
        PROVE  OpenIsNeeded'
    <2>1. \A name : Given(name)' = Given(name)
      BY <1>d, GivenStays
    <2> QED
      BY <1>a, <1>d, <2>1 DEF OpenIsNeeded
  <1>1. CASE BeginGuess
    <2>1. /\ at = "session" /\ UNCHANGED <<rounds, pick, todo>> /\ ch' = Empty
          /\ acts' = PhaseActions("guess", Current)
          /\ accepted' = {name \in acts' : ~Needed(Current, name)}
      BY <1>1 DEF BeginGuess, SetPhase, Drained, SaveLocked, Save, localVars
    <2>2. pick' = Idle /\ todo' = <<>>
      BY <1>b, <2>1
    <2>3. \A name \in acts' \ accepted' : ~Given(name)'
      BY <2>1, GivenStays DEF PhaseActions, Needed, NeedsDecrypt, NeedsIntercept, Given
    <2>4. \A name \in Names : ch'[name] = <<>>
      BY <2>1 DEF Empty
    <2> QED
      BY <2>2, <2>3, <2>4 DEF OpenIsNeeded, Distinct
  <1>2. ASSUME NEW x \in GuessNames, TakeGuess(x) PROVE OpenIsNeeded'
    <2>1. /\ at = "guess" /\ UNCHANGED <<rounds, todo, acts, accepted>> /\ ch[x] # <<>>
          /\ pick'.name = x /\ ch' = [ch EXCEPT ![x] = <<>>]
      BY <1>2 DEF TakeGuess, Guessing, inputVars, sessionVars
    <2>2. x \in acts /\ x \in accepted
      BY <1>a, <2>1 DEF GuessAt, Names, SettledInv, BridgeInv, RoomInChannels, FullIsClosed
    <2>3. todo = <<>>
      BY <1>b, <2>1
    <2>4. \A name \in Names \ acts : ch'[name] = <<>>
      BY <1>a, <1>b, <2>1, <2>2 DEF GuessAt
    <2>5. \A name \in acts' \ accepted' : ~Given(name)'
      BY <1>a, <2>1, GivenStays DEF GuessAt
    <2> QED
      BY <2>1, <2>2, <2>3, <2>4, <2>5 DEF OpenIsNeeded, Distinct
  <1>3. CASE TakeAnswer
    <2>1. /\ at = "guess" /\ UNCHANGED <<rounds, todo, acts, ch>> /\ accepted \subseteq accepted'
          /\ pick' = pick \/ (pick' = Head(answers) /\ Head(answers).name \in accepted')
      BY <1>3 DEF TakeAnswer, Guessing, sessionVars
    <2>2. todo = <<>> /\ pick = Idle
      BY <1>b, <2>1
    <2>3. \A name \in acts' \ accepted' : ~Given(name)'
      BY <1>a, <2>1, GivenStays DEF GuessAt
    <2> QED
      BY <1>a, <2>1, <2>2, <2>3 DEF OpenIsNeeded, Distinct, GuessAt
  <1>4. CASE Sweep
    <2>1. /\ at = "expired" /\ UNCHANGED <<rounds, acts, pick, ch>>
          /\ accepted' = accepted \cup Expired /\ todo' = InOrder(Expired)
      BY <1>4 DEF Sweep, sessionVars
    <2>2. Expired \subseteq acts \ accepted /\ Expired \in SUBSET GuessNames
      BY <1>c, <2>1 DEF Expired, GuessAt
    <2>3. Distinct(todo') /\ \A i \in DOMAIN todo' : todo'[i] \in Expired
      BY <2>1, <2>2, InOrderOnly
    <2>4. \A name \in acts \ accepted : ~Given(name)'
      BY <1>a, <2>1, GivenStays DEF GuessAt
    <2>5. pick' = Idle
      BY <1>b, <2>1
    <2>6. (\A i \in DOMAIN todo : todo[i] \in accepted /\ ~Given(todo[i]))'
      BY <2>1, <2>2, <2>3, <2>4
    <2> QED
      BY <1>a, <2>1, <2>3, <2>4, <2>5, <2>6 DEF OpenIsNeeded, GuessAt
  <1>5. CASE SettleExpired
    <2>1. /\ at = "settle" /\ UNCHANGED <<rounds, acts, accepted, ch>>
          /\ pick'.name = Head(todo) /\ todo' = Tail(todo)
      BY <1>5 DEF SettleExpired, sessionVars, inputVars
    <2>2. todo # <<>> /\ Distinct(todo) /\ Head(todo) = todo[1] /\ 1 \in DOMAIN todo
      BY <1>a, <1>b, <2>1 DEF GuessAt
    <2>3. pick'.name \in accepted'
      BY <1>a, <2>1, <2>2 DEF GuessAt
    <2>4. /\ Distinct(todo')
          /\ \A i \in DOMAIN todo' : /\ i + 1 \in DOMAIN todo /\ todo'[i] = todo[i + 1]
                                     /\ todo'[i] # pick'.name
      BY <1>b, <2>1, <2>2, DistinctTail
    <2>5. (\A i \in DOMAIN todo : todo[i] \in accepted /\ ~Given(todo[i]))'
      <3>1. \A name : Given(name)' = Given(name)
        BY <2>1, GivenStays
      <3>2. \A i \in DOMAIN todo : todo[i] \in accepted /\ ~Given(todo[i])
        BY <1>a, <2>1 DEF GuessAt
      <3> QED
        BY <2>1, <2>4, <3>1, <3>2
    <2>6. \A name \in acts' \ accepted' : ~Given(name)'
      BY <1>a, <2>1, GivenStays DEF GuessAt
    <2> QED
      BY <1>a, <2>1, <2>3, <2>4, <2>5, <2>6 DEF OpenIsNeeded, GuessAt
  <1>6. CASE GiveGuess
    <2>1. /\ at = "give" /\ UNCHANGED <<acts, accepted, ch, todo>> /\ pick # Idle
          /\ pick.name \in GuessNames
      BY <1>6 DEF GiveGuess, inputVars, SettledInv, GuessHeld
    <2>2. CASE ~Needed(Current, pick.name)
      <3>1. UNCHANGED rounds /\ pick' = Idle
        BY <1>6, <2>2 DEF GiveGuess, sessionVars
      <3> QED
        BY <1>a, <1>d, <2>1, <3>1 DEF GuessAt
    <2>3. CASE Needed(Current, pick.name)
      <3>1. pick' = pick
        BY <1>6, <2>3 DEF GiveGuess
      <3>2. Inv
        BY DEF SettledInv, BridgeInv
      <3>3. \A name \in GuessNames : name # pick.name => (Given(name)' <=> Given(name))
        <4>1. /\ pick.name = "decrypt" => Current'.intercepted = Current.intercepted
              /\ pick.name = "intercept" => Current'.decrypted = Current.decrypted
          BY <1>6, <2>3, <3>2, GivenGuess, RoundGoesOn
        <4> QED
          BY <2>1, <4>1 DEF Given, GuessNames
      <3>4. todo \in Seq(GuessNames)
        BY <1>b
      <3>5. \A i \in DOMAIN todo : ~Given(todo[i])'
        BY <1>a, <2>1, <3>3, <3>4 DEF GuessAt
      <3>6. \A name \in acts \ accepted : ~Given(name)'
        BY <1>a, <1>c, <2>1, <3>3 DEF GuessAt
      <3> QED
        BY <1>a, <2>1, <3>1, <3>5, <3>6 DEF OpenIsNeeded, GuessAt
    <2> QED
      BY <2>2, <2>3
  <1>7. CASE RecordGuess
    <2>1. /\ at = "record" /\ UNCHANGED <<rounds, acts, ch, todo>> /\ accepted \subseteq accepted'
          /\ pick' = Idle
      BY <1>7 DEF RecordGuess, SaveLocked, Save
    <2> QED
      BY <1>a, <1>d, <2>1 DEF GuessAt
  <1>8. CASE AcceptSubmission
    <2>1. /\ UNCHANGED <<at, rounds, acts, todo, pick>> /\ accepted \subseteq accepted'
          /\ ch' = [ch EXCEPT ![sub.name] = <<[n |-> sub.n, v |-> sub.v]>>] /\ sub.name \in acts
      BY <1>8 DEF AcceptSubmission, localVars, sessionVars, SettledInv, BridgeInv,
                  RoomInChannels, HolderIsOpen
    <2>2. at \in GuessAt => \A name \in Names \ acts : ch'[name] = <<>>
      BY <1>a, <1>b, <2>1
    <2> QED
      BY <1>d, <2>1, <2>2 DEF OpenIsNeeded
  <1>9. CASE Submissions \/ (\E name \in Names : Expire(name)) \/ Worker \/ Stop
             \/ UNCHANGED vars \/ GuessTimer
    <2>1. UNCHANGED <<rounds, acts, todo, pick, accepted, ch>>
      BY <1>9 DEF Submissions, CheckSubmission, RelayProgress, Expire, Worker, AIGuess, Stop,
                  vars, bridgeVars, localVars, sessionVars, inputVars, GuessTimer
    <2>2. at' = at \/ at \in GuessAt
      BY <1>9 DEF Submissions, CheckSubmission, RelayProgress, Expire, Worker, AIGuess, Stop,
                  vars, bridgeVars, GuessTimer, Guessing, GuessAt
    <2> QED
      BY <1>a, <1>d, <2>1, <2>2 DEF OpenIsNeeded
  <1>10. CASE \/ Core \/ FirstInit \/ Start \/ NextInit \/ AnnounceRound \/ BeginEncrypt
              \/ TakeClues \/ CluesTimer \/ CloseInput \/ DraftClues \/ ReturnClues
              \/ AIClues \/ Reveal \/ FinishRound \/ LeaveRound \/ DecideGame
              \/ ShowGameOver \/ Cancelled \/ Crash
    <2>1. at' \notin GuessAt
      BY <1>10 DEF Core, FirstInit, bridgeVars, Start, NextInit, AnnounceRound, BeginEncrypt,
                   TakeClues, CluesTimer, CloseInput, DraftClues, ReturnClues, AIClues,
                   Reveal, FinishRound, LeaveRound, DecideGame, ShowGameOver, Cancelled,
                   Crash, GuessAt
    <2> QED
      BY <2>1 DEF OpenIsNeeded
  <1> QED
    BY <1>1, <1>2, <1>3, <1>4, <1>5, <1>6, <1>7, <1>8, <1>9, <1>10 DEF Next, Goroutine

-----------------------------------------------------------------------------
(* The actions that ran out of time *)

TimeoutLists ==
    /\ timeouts \in Seq(Names) /\ kept.timeouts \in Seq(Names)
    /\ Distinct(timeouts) /\ Distinct(kept.timeouts)

\* An action of the current round that ran out was settled, or is in hand
TimeoutsSettled ==
    rounds # <<>> /\ round = Len(rounds) =>
        \A i \in DOMAIN timeouts : \/ Answered(Current, timeouts[i])
                                   \/ pick # Idle /\ pick.name = timeouts[i]

KeptTimeoutsSettled ==
    /\ saved # <<>> => \A i \in DOMAIN kept.timeouts : Answered(SavedCurrent, kept.timeouts[i])
    /\ kept.phase \in {"encrypting", "guess", "round_result"} => saved # <<>>

TimeoutsKept == TimeoutLists /\ TimeoutsSettled /\ KeptTimeoutsSettled

LEMMA TimeoutsInit == Init => TimeoutsKept
  <1> SUFFICES ASSUME Init PROVE TimeoutsKept
    OBVIOUS
  <1>1. rounds = <<>> /\ saved = <<>> /\ timeouts = <<>>
    BY DEF Init, SessionInit
  <1>2. kept.timeouts = <<>> /\ kept.phase = ""
    BY DEF Init
  <1>3. <<>> \in Seq(Names)
    OBVIOUS
  <1>4. Distinct(<<>>)
    BY DEF Distinct
  <1>5. TimeoutLists
    BY <1>1, <1>2, <1>3, <1>4 DEF TimeoutLists
  <1>6. TimeoutsSettled /\ KeptTimeoutsSettled
    BY <1>1, <1>2 DEF TimeoutsSettled, KeptTimeoutsSettled
  <1> QED
    BY <1>5, <1>6 DEF TimeoutsKept

\* Saving the round that is shown saves its timeouts settled.
LEMMA SavedAsShown ==
    ASSUME TimeoutsKept, saved' = rounds, kept'.timeouts = timeouts',
           timeouts' \in Seq(Names), Distinct(timeouts'),
           rounds # <<>> => \A i \in DOMAIN timeouts' : Answered(Current, timeouts'[i]),
           kept'.phase \in {"encrypting", "guess", "round_result"} => rounds # <<>>,
           UNCHANGED rounds
    PROVE  TimeoutsKept'
  <1>1. rounds # <<>> => Current' = Current /\ SavedCurrent' = Current
    BY DEF Current, SavedCurrent
  <1>2. TimeoutLists'
    BY DEF TimeoutLists
  <1>3. TimeoutsSettled'
    BY <1>1 DEF TimeoutsSettled
  <1>4. KeptTimeoutsSettled'
    BY <1>1 DEF KeptTimeoutsSettled
  <1> QED
    BY <1>2, <1>3, <1>4 DEF TimeoutsKept

\* A step of the round that keeps its answers keeps its timeouts settled.
LEMMA RoundKeepsTimeouts ==
    ASSUME TimeoutsKept, UNCHANGED <<timeouts, kept, saved, round>>,
           rounds # <<>>, Len(rounds') = Len(rounds), AnswersStay,
           \/ pick' = pick
           \/ pick # Idle => pick.name = "encrypt" /\ Current'.state = "GUESSING"
    PROVE  TimeoutsKept'
  <1>1. TimeoutLists' /\ KeptTimeoutsSettled'
    BY DEF TimeoutsKept, TimeoutLists, KeptTimeoutsSettled, SavedCurrent
  <1>2. ASSUME round = Len(rounds), NEW i \in DOMAIN timeouts
        PROVE  Answered(Current, timeouts[i])' \/ (pick' # Idle /\ pick'.name = timeouts[i])
    <2>1. timeouts[i] \in Names
      BY DEF TimeoutsKept, TimeoutLists
    <2>2. Answered(Current, timeouts[i]) \/ (pick # Idle /\ pick.name = timeouts[i])
      BY <1>2 DEF TimeoutsKept, TimeoutsSettled
    <2>3. Answered(Current, timeouts[i]) => Answered(Current, timeouts[i])'
      BY <2>1 DEF AnswersStay, Answered
    <2>4. timeouts'[i] = timeouts[i]
      OBVIOUS
    <2>5. CASE Answered(Current, timeouts[i])
      BY <2>3, <2>5
    <2>6. CASE pick # Idle /\ pick.name = timeouts[i] /\ pick' = pick
      BY <2>6
    <2>7. CASE timeouts[i] = "encrypt" /\ Current'.state = "GUESSING"
      BY <2>4, <2>7 DEF Answered
    <2> QED
      BY <2>2, <2>5, <2>6, <2>7
  <1>3. TimeoutsSettled'
    BY <1>2 DEF TimeoutsSettled
  <1> QED
    BY <1>1, <1>3 DEF TimeoutsKept

LEMMA TimeoutsNext ==
    SettledInv /\ Placed /\ Shown /\ OpenIsNeeded /\ TimeoutsKept /\ [Next]_vars => TimeoutsKept'
  <1> SUFFICES ASSUME SettledInv, Placed, Shown, OpenIsNeeded, TimeoutsKept, [Next]_vars
               PROVE  TimeoutsKept'
    OBVIOUS
  <1>a. Inv /\ round \in Nat /\ rounds \in Seq(Round)
    BY DEF SettledInv, BridgeInv, Counted, Inv, TypeOK
  <1>b. control = "forward" => rounds # <<>> /\ Current.n = Len(rounds)
    BY <1>a, ForwardHasRound, CurrentIsLast
  <1>c. at \in InPhase /\ control = "forward" => round = Len(rounds)
    BY <1>b DEF SettledInv, BridgeInv, ShownIsPlayed
  <1>d. pick # Idle => at \in {"clues", "give", "record"}
    BY DEF SettledInv, BridgeInv, HeldInRound
  <1>e. at \in WritingAt => In("ENCRYPTING")
    BY DEF Placed
  <1>f. at \in GuessAt => control = "forward" /\ Current.state = "GUESSING"
    BY DEF SettledInv, OpenInPhase
  <1>g. TimeoutLists
    BY DEF TimeoutsKept
  \* With nothing in hand, every timeout of the round is settled
  <1>h. ASSUME rounds # <<>>, round = Len(rounds), pick = Idle
        PROVE  \A i \in DOMAIN timeouts : Answered(Current, timeouts[i])
    BY <1>h DEF TimeoutsKept, TimeoutsSettled
  \* What the goroutine takes in hand settles nothing yet
  <1>i. ASSUME UNCHANGED <<timeouts, kept, saved, round, rounds>>, pick' = pick \/ pick = Idle
        PROVE  TimeoutsKept'
    <2>1. TimeoutLists' /\ KeptTimeoutsSettled'
      BY <1>i DEF TimeoutsKept, TimeoutLists, KeptTimeoutsSettled, SavedCurrent
    <2>2. TimeoutsSettled'
      BY <1>i DEF TimeoutsKept, TimeoutsSettled, Current
    <2> QED
      BY <2>1, <2>2 DEF TimeoutsKept
  \* A timeout is reported with the answer the server found for it
  <1>j. ASSUME NEW name \in Names, timeouts' = Append(timeouts, name), pick'.name = name,
               pick = Idle, UNCHANGED <<kept, saved, round, rounds>>,
               rounds # <<>>, round = Len(rounds), ~Answered(Current, name)
        PROVE  TimeoutsKept'
    <2>1. \A i \in DOMAIN timeouts : Answered(Current, timeouts[i]) /\ timeouts[i] # name
      BY <1>h, <1>j
    <2>2. /\ timeouts' \in Seq(Names) /\ Distinct(timeouts')
          /\ \A i \in DOMAIN timeouts' :
                timeouts'[i] = name \/ (i \in DOMAIN timeouts /\ timeouts'[i] = timeouts[i])
      BY <1>g, <1>j, <2>1, DistinctAppend DEF TimeoutLists
    <2>3. TimeoutLists'
      BY <1>g, <1>j, <2>2 DEF TimeoutLists
    <2>4. pick' # Idle
      BY <1>j DEF Names, GuessNames, Idle
    <2>5. Current' = Current
      BY <1>j DEF Current
    <2>6. TimeoutsSettled'
      BY <1>j, <2>1, <2>2, <2>4, <2>5 DEF TimeoutsSettled
    <2>7. KeptTimeoutsSettled'
      BY <1>j DEF TimeoutsKept, KeptTimeoutsSettled, SavedCurrent
    <2> QED
      BY <2>3, <2>6, <2>7 DEF TimeoutsKept
  <1>1. CASE BeginEncrypt \/ BeginGuess
    <2>1. /\ at = "session" /\ control = "forward" /\ UNCHANGED <<rounds, pick>>
          /\ timeouts' = RoundTimeouts /\ kept'.timeouts = timeouts' /\ saved' = rounds
      BY <1>1 DEF BeginEncrypt, BeginGuess, SetPhase, SaveLocked, Save, In, localVars
    <2>2. rounds # <<>> /\ pick = Idle
      BY <1>b, <1>d, <2>1
    <2>3. /\ timeouts' \in Seq(Names) /\ Distinct(timeouts')
          /\ \A i \in DOMAIN timeouts' : Answered(Current, timeouts'[i])
      <3>1. CASE round = Current.n
        <4>1. timeouts' = timeouts
          BY <2>1, <3>1 DEF RoundTimeouts
        <4> QED
          BY <1>b, <1>g, <1>h, <2>1, <2>2, <3>1, <4>1 DEF TimeoutLists
      <3>2. CASE round # Current.n
        <4>1. timeouts' = <<>>
          BY <2>1, <3>2 DEF RoundTimeouts
        <4> QED
          BY <4>1 DEF Distinct
      <3> QED
        BY <3>1, <3>2
    <2> QED
      BY <2>1, <2>2, <2>3, SavedAsShown
  <1>2. CASE AnnounceRound
    <2>1. /\ at = "between" /\ control = "forward" /\ InitDone /\ UNCHANGED <<pick, kept, saved>>
          /\ round' = Current.n /\ timeouts' = RoundTimeouts
      BY <1>2 DEF AnnounceRound, SetPhase, InitDone, In, localVars
    <2>2. rounds # <<>> /\ pick = Idle
      BY <1>b, <1>d, <2>1
    <2>3. Len(rounds') = Len(rounds) /\ AnswersStay
      BY <1>a, <2>1, RoundGoesOn
    <2>4. CASE round = Current.n
      <3>1. UNCHANGED <<timeouts, round>>
        BY <2>1, <2>4 DEF RoundTimeouts
      <3> QED
        BY <2>1, <2>2, <2>3, <3>1, RoundKeepsTimeouts
    <2>5. CASE round # Current.n
      <3>1. timeouts' = <<>> /\ <<>> \in Seq(Names)
        BY <2>1, <2>5 DEF RoundTimeouts
      <3>2. TimeoutLists'
        BY <1>g, <2>1, <3>1 DEF TimeoutLists, Distinct
      <3>3. TimeoutsSettled' /\ KeptTimeoutsSettled'
        BY <2>1, <3>1
        DEF TimeoutsKept, TimeoutsSettled, KeptTimeoutsSettled, SavedCurrent
      <3> QED
        BY <3>2, <3>3 DEF TimeoutsKept
    <2> QED
      BY <2>4, <2>5
  <1>3. CASE DraftClues
    <2>1. /\ at = "closed" /\ UNCHANGED <<kept, saved, round, rounds>> /\ pick'.name = "encrypt"
          /\ timeouts' = Append(timeouts, "encrypt")
      BY <1>3 DEF DraftClues, sessionVars
    <2>2. pick = Idle /\ control = "forward" /\ Current.state = "ENCRYPTING"
      BY <1>d, <1>e, <2>1 DEF WritingAt, In
    <2>3. rounds # <<>> /\ round = Len(rounds) /\ ~Answered(Current, "encrypt")
      BY <1>b, <1>c, <2>1, <2>2 DEF InPhase, Answered
    <2> QED
      BY <1>j, <2>1, <2>2, <2>3 DEF Names
  <1>4. CASE SettleExpired
    <2>1. /\ at = "settle" /\ UNCHANGED <<kept, saved, round, rounds>> /\ pick'.name = Head(todo)
          /\ timeouts' = Append(timeouts, Head(todo))
      BY <1>4 DEF SettleExpired, sessionVars
    <2>2. pick = Idle /\ control = "forward"
      BY <1>d, <1>f, <2>1 DEF GuessAt
    <2>3. Head(todo) \in GuessNames /\ ~Given(Head(todo))
      <3>1. todo \in Seq(GuessNames) /\ todo # <<>>
        BY <2>1 DEF SettledInv, TodoKept
      <3>2. 1 \in DOMAIN todo /\ Head(todo) = todo[1] /\ todo[1] \in GuessNames
        BY <3>1
      <3> QED
        BY <2>1, <3>2 DEF OpenIsNeeded, GuessAt
    <2>4. ~Answered(Current, Head(todo)) /\ Head(todo) \in Names
      BY <2>3 DEF Given, Answered, Names, GuessNames
    <2>5. rounds # <<>> /\ round = Len(rounds)
      BY <1>b, <1>c, <2>1, <2>2 DEF InPhase
    <2> QED
      BY <1>j, <2>1, <2>2, <2>4, <2>5
  <1>5. CASE ReturnClues \/ AIClues
    <2>1. UNCHANGED <<timeouts, kept, saved, round>>
      BY <1>5 DEF ReturnClues, AIClues, EncryptDone, shownVars
    <2>2. PICK c \in Clues : EncryptDone(c)
      BY <1>5 DEF ReturnClues, AIClues, SettledInv, BridgeInv, HeldInRound
    <2>3. /\ rounds # <<>> /\ Len(rounds') = Len(rounds) /\ AnswersStay
          /\ Current'.state = "GUESSING"
      BY <1>a, <2>2, RoundGoesOn
    <2>4. pick # Idle => pick.name = "encrypt"
      BY <1>5, <1>d DEF ReturnClues, AIClues, Placed
    <2> QED
      BY <2>1, <2>3, <2>4, RoundKeepsTimeouts
  <1>6. CASE GiveGuess
    <2>1. UNCHANGED <<timeouts, kept, saved, round>> /\ at = "give"
      BY <1>6 DEF GiveGuess, GiveDecrypt, GiveIntercept, shownVars, sessionVars
    <2>2. rounds # <<>> /\ pick # Idle /\ pick.name \in GuessNames
      BY <1>b, <1>f, <2>1 DEF GuessAt, SettledInv, GuessHeld
    <2>3. CASE Needed(Current, pick.name)
      <3>1. pick' = pick
        BY <1>6, <2>3 DEF GiveGuess
      <3>2. Len(rounds') = Len(rounds) /\ AnswersStay
        BY <1>6, <1>a, <2>3, GivenGuess, RoundGoesOn
      <3>3. UNCHANGED <<timeouts, kept, saved, round>> /\ rounds # <<>>
        BY <2>1, <2>2
      <3> QED
        BY <3>1, <3>2, <3>3, RoundKeepsTimeouts
    <2>4. CASE ~Needed(Current, pick.name)
      <3>1. UNCHANGED rounds /\ pick' = Idle
        BY <1>6, <2>4 DEF GiveGuess, sessionVars
      <3>2. Current' = Current
        BY <3>1 DEF Current
      <3>3. Answered(Current, pick.name)
        <4>1. pick.name \in PhaseActions("guess", Current)
          BY <2>1, <2>2 DEF OpenIsNeeded, GuessAt, SettledInv, OpenInPhase
        <4> QED
          BY <2>2, <2>4, <4>1
          DEF PhaseActions, Needed, NeedsDecrypt, NeedsIntercept, Answered, GuessNames
      <3>4. TimeoutLists' /\ KeptTimeoutsSettled'
        BY <2>1, <3>1 DEF TimeoutsKept, TimeoutLists, KeptTimeoutsSettled, SavedCurrent
      <3>5. TimeoutsSettled'
        BY <2>1, <3>1, <3>2, <3>3 DEF TimeoutsKept, TimeoutsSettled
      <3> QED
        BY <3>4, <3>5 DEF TimeoutsKept
    <2> QED
      BY <2>3, <2>4
  <1>7. CASE RecordGuess
    <2>1. /\ at = "record" /\ UNCHANGED <<rounds, timeouts>> /\ kept'.timeouts = timeouts'
          /\ saved' = rounds
      BY <1>7 DEF RecordGuess, SaveLocked, Save, shownVars
    <2>2. rounds # <<>> /\ round = Len(rounds)
      BY <1>b, <1>c, <1>f, <2>1 DEF GuessAt, InPhase
    <2>3. pick.name \in GuessNames /\ Given(pick.name)
      BY <2>1 DEF SettledInv, GuessHeld
    <2>4. Answered(Current, pick.name)
      BY <2>3 DEF Given, Answered, GuessNames
    <2>5. \A i \in DOMAIN timeouts : Answered(Current, timeouts[i])
      BY <2>2, <2>4 DEF TimeoutsKept, TimeoutsSettled
    <2> QED
      BY <1>g, <2>1, <2>2, <2>5, SavedAsShown DEF TimeoutLists
  <1>8. CASE FinishRound \/ ShowGameOver
    <2>1. /\ at \in {"session", "over"} /\ UNCHANGED <<rounds, timeouts>>
          /\ kept'.timeouts = timeouts' /\ saved' = rounds
      BY <1>8 DEF FinishRound, ShowGameOver, SaveLocked, Save
    <2>2. pick = Idle
      BY <1>d, <2>1
    <2>3. rounds # <<>> => Current.state = "DONE"
      BY <1>8, <1>a DEF FinishRound, ShowGameOver, Placed, In, Inv
    <2>4. rounds # <<>> => \A i \in DOMAIN timeouts : Answered(Current, timeouts[i])
      BY <1>h, <2>2, <2>3 DEF Shown
    <2>5. kept'.phase \in {"encrypting", "guess", "round_result"} => rounds # <<>>
      <3>1. CASE FinishRound
        BY <1>b, <3>1 DEF FinishRound, In
      <3>2. CASE ShowGameOver
        BY <3>2 DEF ShowGameOver, SaveLocked
      <3> QED
        BY <1>8, <3>1, <3>2
    <2> QED
      BY <1>g, <2>1, <2>4, <2>5, SavedAsShown DEF TimeoutLists
  <1>9. CASE Crash
    <2>1. rounds' = saved /\ timeouts' = kept.timeouts /\ UNCHANGED <<kept, saved>>
      BY <1>9 DEF Crash, Restart
    <2>2. rounds' # <<>> => Current' = SavedCurrent
      BY <2>1 DEF Current, SavedCurrent
    <2>3. TimeoutLists' /\ KeptTimeoutsSettled'
      BY <2>1 DEF TimeoutsKept, TimeoutLists, KeptTimeoutsSettled, SavedCurrent
    <2>4. TimeoutsSettled'
      BY <2>1, <2>2 DEF TimeoutsKept, TimeoutsSettled, KeptTimeoutsSettled
    <2> QED
      BY <2>3, <2>4 DEF TimeoutsKept
  <1>10. CASE Core \/ FirstInit
    <2>1. UNCHANGED <<timeouts, kept, round, pick>>
      BY <1>10 DEF Core, FirstInit, bridgeVars, shownVars, localVars
    <2>2. UNCHANGED saved
      BY <1>10 DEF Core, FirstInit, StartRound, EnterInit, InitDone
    <2>3. CASE StartRound
      <3>1. Len(rounds') = Len(rounds) + 1
        BY <1>a, <2>3, RoundGoesOn
      <3>2. round' # Len(rounds')
        BY <1>a, <2>1, <3>1 DEF Shown
      <3>3. TimeoutLists' /\ KeptTimeoutsSettled'
        BY <2>1, <2>2 DEF TimeoutsKept, TimeoutLists, KeptTimeoutsSettled, SavedCurrent
      <3>4. TimeoutsSettled'
        BY <3>2 DEF TimeoutsSettled
      <3> QED
        BY <3>3, <3>4 DEF TimeoutsKept
    <2>4. CASE InitDone \/ EnterInit
      <3>1. rounds # <<>> /\ Len(rounds') = Len(rounds) /\ AnswersStay
        BY <1>a, <2>4, RoundGoesOn
      <3>2. UNCHANGED <<timeouts, kept, saved, round>> /\ pick' = pick
        BY <2>1, <2>2
      <3> QED
        BY <3>1, <3>2, RoundKeepsTimeouts
    <2> QED
      BY <1>10, <2>3, <2>4 DEF Core, FirstInit
  <1>11. CASE Reveal
    <2>1. UNCHANGED <<timeouts, kept, round, pick, saved>> /\ GuessDone
      BY <1>11 DEF Reveal, GuessDone, shownVars, localVars
    <2>2. rounds # <<>> /\ Len(rounds') = Len(rounds) /\ AnswersStay
      BY <1>a, <2>1, RoundGoesOn
    <2>3. UNCHANGED <<timeouts, kept, saved, round>> /\ pick' = pick
      BY <2>1
    <2> QED
      BY <2>2, <2>3, RoundKeepsTimeouts
  <1>12. CASE TakeClues \/ (\E name \in GuessNames : TakeGuess(name)) \/ TakeAnswer
    <2>1. UNCHANGED <<timeouts, kept, saved, round, rounds>> /\ at \in {"encrypt", "guess"}
      BY <1>12 DEF TakeClues, TakeGuess, TakeAnswer, Guessing, sessionVars, shownVars
    <2> QED
      BY <1>d, <1>i, <2>1
  <1>13. CASE \/ Submissions \/ AcceptSubmission \/ (\E name \in Names : Expire(name))
              \/ Worker \/ Stop \/ Start \/ UNCHANGED vars \/ NextInit \/ CluesTimer
              \/ CloseInput \/ GuessTimer \/ Sweep \/ LeaveRound \/ DecideGame \/ Cancelled
    <2>1. UNCHANGED <<timeouts, kept, saved, round, rounds, pick>>
      BY <1>13 DEF Submissions, CheckSubmission, RelayProgress, AcceptSubmission, Expire,
                   Worker, AIGuess, Stop, Start, vars, bridgeVars, shownVars, sessionVars,
                   localVars, NextInit, CluesTimer, CloseInput, GuessTimer, Sweep,
                   LeaveRound, RoundDone, DecideGame, GameOver, Cancelled, Cancel
    <2> QED
      BY <1>i, <2>1
  <1> QED
    BY <1>1, <1>2, <1>3, <1>4, <1>5, <1>6, <1>7, <1>8, <1>9, <1>10, <1>11, <1>12, <1>13
    DEF Next, Goroutine

RunningInv == SettledInv /\ Placed /\ Shown /\ OpenIsNeeded /\ TimeoutsKept

LEMMA RunningInit == Init => RunningInv
  BY SettledInit, PlacedInit, ShownInit, OpenInit, TimeoutsInit DEF RunningInv

LEMMA RunningNext == RunningInv /\ [Next]_vars => RunningInv'
  BY BridgeNext, OpenNext, TodoNext, HeldGuessNext, ClosedNext, PlacedNext, ShownRoundNext,
     OpenNeededNext, TimeoutsNext DEF RunningInv, SettledInv

LEMMA RunningSettles == ASSUME RunningInv PROVE SavedTimeoutsSettled
  <1>1. /\ kept.timeouts \in Seq(Names) /\ Distinct(kept.timeouts)
        /\ saved # <<>> => \A i \in DOMAIN kept.timeouts :
                              Answered(SavedCurrent, kept.timeouts[i])
        /\ kept.phase \in {"encrypting", "guess", "round_result"} => saved # <<>>
    BY DEF RunningInv, TimeoutsKept, TimeoutLists, KeptTimeoutsSettled
  <1> QED
    BY <1>1 DEF SavedTimeoutsSettled, Distinct, Answered

\* A timeout that is saved is settled: the snapshot that tells the seats an action
\* ran out also holds its answer, whatever raced the deadline and however often
\* the process stopped, so that no action runs out twice (timedOut, recordGuess,
\* setPhase, Restore).
THEOREM BridgeSavedTimeoutsSettled == Spec => []SavedTimeoutsSettled
  BY RunningSettles, RunningInit, RunningNext, PTL DEF Spec

-----------------------------------------------------------------------------
(* Types *)

Shapes ==
    /\ late \subseteq acts
    /\ \A name \in Names : Len(ch[name]) <= 1
    /\ sub \in Pick \cup {Idle} /\ pick \in Pick \cup {Idle}
    /\ thinking \subseteq GuessNames

\* A worker answers once, so the answers are of as many actions.
OneAnswerEach ==
    /\ \A i, j \in DOMAIN answers : answers[i].name = answers[j].name => i = j
    /\ \A i \in DOMAIN answers : answers[i].name \notin thinking

LEMMA ShapesInit == Init => Shapes /\ OneAnswerEach
  <1> SUFFICES ASSUME Init PROVE Shapes /\ OneAnswerEach
    OBVIOUS
  <1>1. /\ late = {} /\ sub = Idle /\ pick = Idle /\ thinking = {} /\ answers = <<>>
        /\ ch = Empty
    BY DEF Init
  <1>2. \A name \in Names : Len(ch[name]) <= 1
    BY <1>1 DEF Empty
  <1> QED
    BY <1>1, <1>2 DEF Shapes, OneAnswerEach

LEMMA ShapesNext == RunningInv /\ Shapes /\ [Next]_vars => Shapes'
  <1> SUFFICES ASSUME RunningInv, Shapes, [Next]_vars PROVE Shapes'
    OBVIOUS
  <1>a. /\ late \subseteq acts
        /\ \A name \in Names : Len(ch[name]) <= 1
        /\ sub \in Pick \cup {Idle} /\ pick \in Pick \cup {Idle}
        /\ thinking \subseteq GuessNames
    BY DEF Shapes
  <1>b. /\ round \in Nat /\ acts \subseteq Names /\ DOMAIN ch = Names
        /\ \A name \in Names : ch[name] # <<>> =>
              /\ 1 \in DOMAIN ch[name]
              /\ ch[name][1].n = round /\ ch[name][1].v \in Value(name)
        /\ draft["encrypt"] \in Clues \cup {NoClues}
        /\ \A name \in GuessNames : draft[name] \in Codes \cup {NoCode}
    BY DEF RunningInv, SettledInv, BridgeInv, Counted, RoomInChannels, ChannelsKnown,
           SentInRound, DraftsTyped
  <1>c. \A name \in Names : Len(Empty[name]) <= 1
    BY DEF Empty
  <1>d. ASSUME UNCHANGED <<late, acts, ch, sub, thinking>>, pick' \in Pick \cup {Idle}
        PROVE  Shapes'
    BY <1>a, <1>d DEF Shapes
  <1>e. \A name \in Names, n \in Nat : \A v \in Value(name) :
            [name |-> name, n |-> n, v |-> v] \in Pick
    BY DEF Pick, Value
  <1>1. CASE BeginEncrypt \/ BeginGuess \/ AnnounceRound
    <2>1. late' = {} /\ ch' = Empty /\ UNCHANGED <<sub, pick>>
      BY <1>1 DEF BeginEncrypt, BeginGuess, AnnounceRound, SetPhase, Drained, localVars
    <2>2. thinking' \subseteq GuessNames
      <3>1. CASE BeginGuess
        <4>1. thinking' \subseteq PhaseActions("guess", Current)
          BY <3>1 DEF BeginGuess, SetPhase
        <4> QED
          BY <4>1 DEF PhaseActions, GuessNames
      <3>2. CASE BeginEncrypt \/ AnnounceRound
        BY <1>a, <3>2 DEF BeginEncrypt, AnnounceRound, aiVars
      <3> QED
        BY <1>1, <3>1, <3>2
    <2> QED
      BY <1>a, <1>c, <2>1, <2>2 DEF Shapes
  <1>2. ASSUME NEW name \in Names, ch[name] # <<>>, pick' = [name |-> name, n |-> ch[name][1].n,
                                                            v |-> ch[name][1].v],
               ch' = [ch EXCEPT ![name] = <<>>], UNCHANGED <<late, acts, sub, thinking>>
        PROVE  Shapes'
    <2>1. pick' \in Pick
      BY <1>2, <1>b, <1>e
    <2>2. \A x \in Names : Len(ch'[x]) <= 1
      BY <1>a, <1>b, <1>2
    <2> QED
      BY <1>a, <1>2, <2>1, <2>2 DEF Shapes
  <1>3. CASE TakeClues
    <2>1. "encrypt" \in Names
      BY DEF Names
    <2> QED
      BY <1>2, <1>3, <2>1 DEF TakeClues, inputVars, aiVars
  <1>4. ASSUME NEW name \in GuessNames, TakeGuess(name) PROVE Shapes'
    <2>1. name \in Names
      BY DEF Names
    <2> QED
      BY <1>2, <1>4, <2>1 DEF TakeGuess, inputVars, aiVars
  <1>5. CASE DraftClues
    <2>1. /\ UNCHANGED <<late, acts, ch, sub, thinking>>
          /\ pick' = [name |-> "encrypt", n |-> round,
                      v |-> IF draft["encrypt"] = NoClues THEN Dashes ELSE draft["encrypt"]]
      BY <1>5 DEF DraftClues, inputVars, aiVars
    <2>2. (IF draft["encrypt"] = NoClues THEN Dashes ELSE draft["encrypt"]) \in Clues
      BY <1>b, BridgeAssumption
    <2>3. pick' \in Pick
      BY <1>b, <1>e, <2>1, <2>2 DEF Names, Value
    <2> QED
      BY <1>d, <2>1, <2>3
  <1>6. CASE SettleExpired
    <2>1. /\ UNCHANGED <<late, acts, ch, sub, thinking>> /\ at = "settle"
          /\ pick' = [name |-> Head(todo), n |-> round, v |-> draft[Head(todo)]]
      BY <1>6 DEF SettleExpired, inputVars, aiVars
    <2>2. Head(todo) \in GuessNames
      BY <2>1 DEF RunningInv, SettledInv, TodoKept
    <2>3. pick' \in Pick
      BY <1>b, <1>e, <2>1, <2>2 DEF Names, GuessNames, Value
    <2> QED
      BY <1>d, <2>1, <2>3
  <1>7. CASE TakeAnswer
    <2>1. UNCHANGED <<late, acts, ch, sub, thinking>> /\ (pick' = pick \/ pick' = Head(answers))
      BY <1>7 DEF TakeAnswer
    <2>2. Head(answers) \in Pick
      BY <1>7, AnswerTaken DEF RunningInv, Answer, Pick, Names
    <2> QED
      BY <1>a, <1>d, <2>1, <2>2
  <1>8. CASE Submissions
    <2>1. PICK name \in Names, s \in Seats, v \in Clues \cup Codes \cup {NoClues, NoCode} :
             \/ v \in Answers(name) /\ CheckSubmission(s, name, v)
             \/ v \in Answers(name) \cup {NoDraft[name]} /\ RelayProgress(s, name, v)
      BY <1>8 DEF Submissions
    <2>2. CASE RelayProgress(s, name, v)
      BY <1>a, <1>d, <2>2 DEF RelayProgress, aiVars, localVars
    <2>3. CASE v \in Answers(name) /\ CheckSubmission(s, name, v)
      <3>1. /\ sub' = [name |-> name, n |-> round, v |-> v]
            /\ UNCHANGED <<late, acts, ch, pick, thinking>>
        BY <2>3 DEF CheckSubmission, inputVars, aiVars, localVars
      <3>2. v \in Value(name)
        BY <2>3 DEF Answers, Value
      <3>3. sub' \in Pick
        BY <1>b, <1>e, <3>1, <3>2
      <3> QED
        BY <1>a, <3>1, <3>3 DEF Shapes
    <2> QED
      BY <2>1, <2>2, <2>3
  <1>9. CASE AcceptSubmission
    <2>1. /\ UNCHANGED <<late, acts, pick, thinking>> /\ sub' = Idle
          /\ ch' = [ch EXCEPT ![sub.name] = <<[n |-> sub.n, v |-> sub.v]>>]
      BY <1>9 DEF AcceptSubmission, aiVars, localVars
    <2>2. \A x \in Names : Len(ch'[x]) <= 1
      BY <1>a, <1>b, <2>1
    <2> QED
      BY <1>a, <2>1, <2>2 DEF Shapes
  <1>10. ASSUME NEW name \in Names, Expire(name) PROVE Shapes'
    <2>1. UNCHANGED <<acts, ch, sub, pick, thinking>> /\ late' = late \cup {name} /\ name \in acts
      BY <1>10 DEF Expire, aiVars, localVars
    <2> QED
      BY <1>a, <2>1 DEF Shapes
  <1>11. CASE Worker
    <2>1. UNCHANGED <<late, acts, ch, sub, pick>> /\ thinking' \subseteq thinking
      BY <1>11 DEF Worker, AIGuess, inputVars, localVars
    <2> QED
      BY <1>a, <2>1 DEF Shapes
  <1>12. CASE Reveal \/ Crash \/ FinishRound \/ ShowGameOver
    <2>1. /\ (UNCHANGED <<late, acts>> \/ late' = {}) /\ (ch' = ch \/ ch' = Empty)
          /\ sub' \in {sub, Idle} /\ pick' \in {pick, Idle} /\ thinking' \in {thinking, {}}
      BY <1>12 DEF Reveal, Crash, FinishRound, ShowGameOver, inputVars, localVars, aiVars
    <2> QED
      BY <1>a, <1>c, <2>1 DEF Shapes
  <1>13. CASE RecordGuess \/ GiveGuess \/ ReturnClues
    <2>1. UNCHANGED <<late, acts, ch, sub, thinking>> /\ (pick' = pick \/ pick' = Idle)
      BY <1>13 DEF RecordGuess, GiveGuess, ReturnClues, inputVars, aiVars
    <2> QED
      BY <1>a, <1>d, <2>1
  <1>14. CASE \/ Stop \/ Start \/ UNCHANGED vars \/ Core \/ FirstInit \/ NextInit \/ CluesTimer
              \/ CloseInput \/ AIClues \/ GuessTimer \/ Sweep \/ LeaveRound \/ DecideGame
              \/ Cancelled
    <2>1. UNCHANGED <<late, acts, ch, sub, thinking, pick>>
      BY <1>14 DEF Stop, Start, vars, bridgeVars, inputVars, aiVars, localVars, Core, FirstInit,
                   NextInit, CluesTimer, CloseInput, AIClues, GuessTimer, Sweep, LeaveRound,
                   DecideGame, Cancelled
    <2> QED
      BY <1>a, <1>d, <2>1
  <1> QED
    BY <1>1, <1>3, <1>4, <1>5, <1>6, <1>7, <1>8, <1>9, <1>10, <1>11, <1>12, <1>13, <1>14
    DEF Next, Goroutine

LEMMA OneAnswerNext == RunningInv /\ OneAnswerEach /\ [Next]_vars => OneAnswerEach'
  <1> SUFFICES ASSUME RunningInv, OneAnswerEach, [Next]_vars PROVE OneAnswerEach'
    OBVIOUS
  <1>a. answers \in Seq(Answer)
    BY DEF RunningInv, SettledInv, BridgeInv, AnswersTyped
  <1>b. /\ \A i, j \in DOMAIN answers : answers[i].name = answers[j].name => i = j
        /\ \A i \in DOMAIN answers : answers[i].name \notin thinking
    BY DEF OneAnswerEach
  <1>c. ASSUME UNCHANGED <<thinking, answers>> PROVE OneAnswerEach'
    BY <1>c DEF OneAnswerEach
  <1>d. ASSUME answers' = <<>> PROVE OneAnswerEach'
    BY <1>d DEF OneAnswerEach
  <1>1. ASSUME NEW name \in GuessNames, NEW g \in Codes, AIGuess(name, g) PROVE OneAnswerEach'
    <2>1. name \in thinking /\ thinking' = thinking \ {name}
      BY <1>1 DEF AIGuess
    <2>2. CASE UNCHANGED answers
      BY <1>b, <2>1, <2>2 DEF OneAnswerEach
    <2>3. CASE answers' = Append(answers, [name |-> name, n |-> round, v |-> g])
      <3>1. /\ DOMAIN answers' = 1..(Len(answers) + 1) /\ DOMAIN answers = 1..Len(answers)
            /\ Len(answers) \in Nat
            /\ \A i \in DOMAIN answers : answers'[i] = answers[i]
            /\ answers'[Len(answers) + 1].name = name
        BY <1>a, <2>3
      <3> QED
        BY <1>b, <2>1, <3>1 DEF OneAnswerEach
    <2> QED
      BY <1>1, <2>2, <2>3 DEF AIGuess
  <1>2. CASE TakeAnswer
    <2>1. answers # <<>> /\ answers' = Tail(answers) /\ UNCHANGED thinking
      BY <1>2 DEF TakeAnswer
    <2>2. /\ DOMAIN answers' = 1..(Len(answers) - 1) /\ DOMAIN answers = 1..Len(answers)
          /\ Len(answers) \in Nat
          /\ \A i \in DOMAIN answers' : i + 1 \in DOMAIN answers /\ answers'[i] = answers[i + 1]
      BY <1>a, <2>1
    <2> QED
      BY <1>b, <2>1, <2>2 DEF OneAnswerEach
  <1>3. CASE BeginGuess \/ Reveal \/ Crash
    BY <1>3, <1>d DEF BeginGuess, Reveal, Crash
  <1>4. CASE \/ Submissions \/ AcceptSubmission \/ (\E name \in Names : Expire(name))
             \/ Stop \/ Start \/ UNCHANGED vars \/ Core \/ FirstInit \/ NextInit \/ AnnounceRound
             \/ BeginEncrypt \/ TakeClues \/ CluesTimer \/ CloseInput \/ DraftClues
             \/ ReturnClues \/ AIClues \/ (\E name \in GuessNames : TakeGuess(name))
             \/ GuessTimer \/ Sweep \/ SettleExpired \/ GiveGuess \/ RecordGuess
             \/ FinishRound \/ LeaveRound \/ DecideGame \/ ShowGameOver \/ Cancelled
    <2>1. UNCHANGED <<thinking, answers>>
      BY <1>4 DEF Submissions, CheckSubmission, RelayProgress, AcceptSubmission, Expire, Stop,
                  Start, vars, bridgeVars, aiVars, Core, FirstInit, NextInit, AnnounceRound,
                  BeginEncrypt, TakeClues, CluesTimer, CloseInput, DraftClues, ReturnClues,
                  AIClues, TakeGuess, GuessTimer, Sweep, SettleExpired, GiveGuess,
                  RecordGuess, FinishRound, LeaveRound, DecideGame, ShowGameOver, Cancelled
    <2> QED
      BY <1>c, <2>1
  <1> QED
    BY <1>1, <1>2, <1>3, <1>4 DEF Next, Goroutine, Worker

\* No more of them than there are names
LEMMA DistinctShort ==
    ASSUME NEW s, NEW S, s \in Seq(S), Distinct(s)
    PROVE  /\ S = Names => Len(s) <= 3
           /\ S = GuessNames => Len(s) <= 2
  <1>1. Len(s) \in Nat /\ DOMAIN s = 1..Len(s) /\ \A i \in DOMAIN s : s[i] \in S
    OBVIOUS
  <1>2. ASSUME S = Names, Len(s) > 3 PROVE FALSE
    <2>1. 1 \in DOMAIN s /\ 2 \in DOMAIN s /\ 3 \in DOMAIN s /\ 4 \in DOMAIN s
      BY <1>1, <1>2
    <2> QED
      BY <1>1, <1>2, <2>1 DEF Distinct, Names, GuessNames
  <1>3. ASSUME S = GuessNames, Len(s) > 2 PROVE FALSE
    <2>1. 1 \in DOMAIN s /\ 2 \in DOMAIN s /\ 3 \in DOMAIN s
      BY <1>1, <1>3
    <2> QED
      BY <1>1, <1>3, <2>1 DEF Distinct, GuessNames
  <1> QED
    BY <1>1, <1>2, <1>3

\* Every variable of a running game keeps its type: the channels hold one answer,
\* an action runs out once in a round, and each AI worker answers once.
THEOREM BridgeTypes == Spec => []BridgeTypeOK
  <1>1. ASSUME RunningInv, Shapes, OneAnswerEach PROVE BridgeTypeOK
    <2>1. TypeOK /\ Inv /\ round \in Nat /\ round <= Len(rounds)
      BY <1>1 DEF RunningInv, Shown, SettledInv, BridgeInv, Counted, Inv
    <2>2. Len(rounds) \in Nat /\ Len(rounds) <= MaxRounds /\ MaxRounds \in Nat
      BY <2>1, SessionAssumption DEF TypeOK
    <2>3. round \in 0..MaxRounds
      BY <2>1, <2>2
    <2>4. timeouts \in Seq(Names) /\ Len(timeouts) <= 3
      <3>1. timeouts \in Seq(Names) /\ Distinct(timeouts)
        BY <1>1 DEF RunningInv, TimeoutsKept, TimeoutLists
      <3> QED
        BY <3>1, DistinctShort
    <2>5. /\ accepted \subseteq acts /\ acts \subseteq Names
          /\ draft["encrypt"] \in Clues \cup {NoClues}
          /\ \A name \in GuessNames : draft[name] \in Codes \cup {NoCode}
      BY <1>1 DEF RunningInv, SettledInv, BridgeInv, OpenInPhase, RoomInChannels,
                  ChannelsKnown, DraftsTyped
    <2>6. Len(answers) <= 2
      <3> DEFINE names == [i \in 1..Len(answers) |-> answers[i].name]
      <3>1. answers \in Seq(Answer)
        BY <1>1 DEF RunningInv, SettledInv, BridgeInv, AnswersTyped
      <3>2. \A i \in 1..Len(answers) : answers[i].name \in GuessNames
        <4>1. \A i \in 1..Len(answers) : answers[i] \in Answer
          BY <3>1
        <4> QED
          BY <4>1 DEF Answer
      <3>3. names \in Seq(GuessNames) /\ Len(names) = Len(answers)
        BY <3>1, <3>2
      <3>4. Distinct(names)
        BY <1>1, <3>1 DEF Distinct, OneAnswerEach
      <3> HIDE DEF names
      <3> QED
        BY <3>3, <3>4, DistinctShort
    <2>7. todo \in Seq(GuessNames) /\ Len(todo) <= 2
      <3>1. todo \in Seq(GuessNames) /\ (todo # <<>> => at \in GuessAt)
        BY <1>1 DEF RunningInv, SettledInv, TodoKept, GuessAt
      <3>2. CASE todo = <<>>
        BY <3>1, <3>2
      <3>3. CASE todo # <<>>
        BY <1>1, <3>1, <3>3, DistinctShort DEF RunningInv, OpenIsNeeded
      <3> QED
        BY <3>2, <3>3
    <2>8. phase \in Phases /\ at \in Places /\ cancelled \in BOOLEAN
      BY <1>1 DEF RunningInv, Placed
    <2> QED
      BY <1>1, <2>1, <2>3, <2>4, <2>5, <2>6, <2>7, <2>8 DEF BridgeTypeOK, Shapes
  <1> QED
    BY <1>1, RunningInit, RunningNext, ShapesInit, ShapesNext, OneAnswerNext, PTL DEF Spec

-----------------------------------------------------------------------------
(* The match the players see *)

\* The snapshot is at most one round behind, and that round was started in a game
\* nobody had won; between rounds it is not behind at all.
Behind ==
    /\ Len(rounds) <= Len(saved) + 1
    /\ \A i \in 1..(Len(rounds) - 1) : saved[i].state = "DONE"
    /\ Len(saved) < Len(rounds) => ~IsGameOver(Recount(saved))
    /\ control \in {"start", "over"} \/ at = "result" => saved = rounds

DecidedRight ==
    control = "over" =>
        \/ IsGameOver(tokens) /\ winner = WinnerOf(tokens)
        \/ ~IsGameOver(tokens) /\ FinalRound /\ winner = Leader(tokens)

\* A game that was shown as over takes no more snapshots
OverIsLast ==
    /\ "game_over" \in {phase, kept.phase} => at \in {"ended", "paused"}
    /\ kept.phase = "game_over" /\ at = "paused" => phase = "game_over"

MatchInv == RunningInv /\ Behind /\ DecidedRight /\ OverIsLast

LEMMA MatchInvInit == Init => MatchInv
  <1> SUFFICES ASSUME Init PROVE MatchInv
    OBVIOUS
  <1>1. rounds = <<>> /\ saved = <<>> /\ control = "start" /\ phase = "" /\ at = "session"
    BY DEF Init, SessionInit
  <1>2. kept.phase = ""
    BY DEF Init
  <1>3. Behind
    <2>1. Len(rounds) = 0 /\ Len(saved) = 0
      BY <1>1
    <2>2. 1..(Len(rounds) - 1) = {} /\ ~(Len(saved) < Len(rounds)) /\ Len(rounds) <= Len(saved) + 1
      BY <2>1
    <2> QED
      BY <1>1, <2>2 DEF Behind
  <1> QED
    BY <1>1, <1>2, <1>3, RunningInit DEF MatchInv, DecidedRight, OverIsLast

\* The steps that take a snapshot
Saving == BeginEncrypt \/ BeginGuess \/ RecordGuess \/ FinishRound \/ ShowGameOver

LEMMA SavingSaves ==
    ASSUME Saving
    PROVE  /\ saved' = rounds /\ UNCHANGED <<rounds, tokens, control, winner>>
           /\ kept'.phase = phase' /\ kept'.winner = winner
           /\ phase' \in {"encrypting", "guess", "round_result", "game_over", phase}
  BY DEF Saving, BeginEncrypt, BeginGuess, RecordGuess, FinishRound, ShowGameOver,
         SaveLocked, Save, SetPhase, shownVars

\* The steps of the rules that stay in a round, and those that show nothing
InRound ==
    \/ FirstInit \/ AnnounceRound \/ ReturnClues \/ AIClues \/ GiveGuess \/ Reveal
    \/ (Core /\ EnterInit)

Aside ==
    \/ Submissions \/ AcceptSubmission \/ (\E name \in Names : Expire(name)) \/ Worker \/ Stop
    \/ Start \/ UNCHANGED vars \/ NextInit \/ TakeClues \/ CluesTimer \/ CloseInput
    \/ DraftClues \/ (\E name \in GuessNames : TakeGuess(name)) \/ TakeAnswer \/ GuessTimer
    \/ Sweep \/ SettleExpired

LEMMA NextSplit ==
    ASSUME [Next]_vars
    PROVE  \/ Saving \/ InRound \/ Aside \/ (Core /\ StartRound) \/ LeaveRound \/ DecideGame
           \/ Cancelled \/ Crash
  BY DEF Next, Goroutine, Saving, InRound, Aside, Core

LEMMA InRoundKeeps ==
    ASSUME RunningInv, InRound
    PROVE  /\ Len(rounds') = Len(rounds) /\ UNCHANGED <<saved, kept>>
           /\ control = "forward" \/ UNCHANGED rounds
           /\ control' = control /\ at' \notin {"result", "ended", "paused"}
           /\ phase' \in {phase, "new_round"} /\ at \notin {"ended", "paused"}
  <1>a. Inv
    BY DEF RunningInv, SettledInv, BridgeInv
  <1>1. CASE FirstInit \/ AnnounceRound \/ (Core /\ EnterInit)
    <2>1. InitDone \/ EnterInit
      BY <1>1 DEF FirstInit, AnnounceRound, Core
    <2>2. Len(rounds') = Len(rounds)
      BY <1>a, <2>1, RoundGoesOn
    <2>3. UNCHANGED <<saved, control>> /\ control = "forward"
      BY <2>1 DEF InitDone, EnterInit, In
    <2>4. UNCHANGED kept /\ phase' \in {phase, "new_round"}
      BY <1>1 DEF FirstInit, AnnounceRound, Core, SetPhase, bridgeVars, shownVars
    <2>5. at \in {"session", "between"} /\ at' = "session"
      BY <1>1 DEF FirstInit, AnnounceRound, Core, bridgeVars
    <2> QED
      BY <2>2, <2>3, <2>4, <2>5
  <1>2. CASE ReturnClues \/ AIClues
    <2>1. PICK c \in Clues : EncryptDone(c)
      BY <1>2 DEF ReturnClues, AIClues, RunningInv, SettledInv, BridgeInv, HeldInRound
    <2>2. Len(rounds') = Len(rounds)
      BY <1>a, <2>1, RoundGoesOn
    <2>3. UNCHANGED <<saved, control>> /\ control = "forward"
      BY <2>1 DEF EncryptDone, In
    <2>4. UNCHANGED <<kept, phase>> /\ at \in {"clues", "aiEncrypt"} /\ at' = "session"
      BY <1>2 DEF ReturnClues, AIClues, shownVars
    <2> QED
      BY <2>2, <2>3, <2>4
  <1>3. CASE GiveGuess
    <2>1. UNCHANGED <<kept, phase>> /\ at = "give" /\ at' \in {"record", "guess", "settle"}
      BY <1>3 DEF GiveGuess, shownVars
    <2>2. CASE Needed(Current, pick.name)
      <3>1. pick.v \in Codes \cup {NoCode} /\ (GiveDecrypt(pick.v) \/ GiveIntercept(pick.v))
        BY <1>3, <2>2, GivenGuess DEF RunningInv
      <3>2. Len(rounds') = Len(rounds)
        BY <1>a, <3>1, RoundGoesOn
      <3>3. UNCHANGED <<saved, control>> /\ control = "forward"
        BY <3>1 DEF GiveDecrypt, GiveIntercept, In
      <3> QED
        BY <2>1, <3>2, <3>3
    <2>3. CASE ~Needed(Current, pick.name)
      BY <1>3, <2>1, <2>3 DEF GiveGuess, sessionVars
    <2> QED
      BY <2>2, <2>3
  <1>4. CASE Reveal
    <2>1. /\ GuessDone /\ UNCHANGED <<kept, phase>> /\ at \in {"guess", "session"}
          /\ at' = "session"
      BY <1>4 DEF Reveal, shownVars
    <2>2. Len(rounds') = Len(rounds)
      BY <1>a, <2>1, RoundGoesOn
    <2>3. UNCHANGED <<saved, control>> /\ control = "forward"
      BY <2>1 DEF GuessDone, In
    <2> QED
      BY <2>1, <2>2, <2>3
  <1> QED
    BY <1>1, <1>2, <1>3, <1>4 DEF InRound

LEMMA AsideKeeps ==
    ASSUME Aside
    PROVE  /\ UNCHANGED <<rounds, saved, kept, phase, control, tokens, winner>>
           /\ at' = at \/ at \notin {"ended", "paused"} \/ Start
           /\ at' = at \/ at' # "result"
  <1>1. UNCHANGED <<rounds, saved, kept, phase, control, tokens, winner>>
    BY DEF Aside, Submissions, CheckSubmission, RelayProgress, AcceptSubmission, Expire, Worker,
           AIGuess, Stop, Start, vars, bridgeVars, shownVars, sessionVars, NextInit, TakeClues,
           CluesTimer, CloseInput, DraftClues, TakeGuess, TakeAnswer, GuessTimer, Sweep,
           SettleExpired
  <1>2. at' = at \/ at \notin {"ended", "paused"} \/ Start
    BY DEF Aside, Submissions, CheckSubmission, RelayProgress, AcceptSubmission, Expire, Worker,
           AIGuess, Stop, vars, bridgeVars, NextInit, TakeClues, CluesTimer, CloseInput,
           DraftClues, TakeGuess, TakeAnswer, Guessing, GuessTimer, Sweep, SettleExpired
  <1>3. at' = at \/ at' # "result"
    BY DEF Aside, Submissions, CheckSubmission, RelayProgress, AcceptSubmission, Expire, Worker,
           AIGuess, Stop, Start, vars, bridgeVars, NextInit, TakeClues, CluesTimer, CloseInput,
           DraftClues, TakeGuess, TakeAnswer, GuessTimer, Sweep, SettleExpired
  <1> QED
    BY <1>1, <1>2, <1>3

LEMMA BehindNext == MatchInv /\ [Next]_vars => Behind'
  <1> SUFFICES ASSUME MatchInv, [Next]_vars PROVE Behind'
    OBVIOUS
  <1>a. /\ Inv /\ rounds \in Seq(Round) /\ saved \in Seq(Round)
        /\ Shape(rounds) /\ Shape(saved) /\ tokens = Recount(rounds)
    BY DEF MatchInv, RunningInv, SettledInv, BridgeInv, Inv, TypeOK, TokensAgree
  <1>b. /\ Len(rounds) <= Len(saved) + 1
        /\ \A i \in 1..(Len(rounds) - 1) : saved[i].state = "DONE"
        /\ Len(saved) < Len(rounds) => ~IsGameOver(Recount(saved))
        /\ control \in {"start", "over"} \/ at = "result" => saved = rounds
    BY DEF MatchInv, Behind
  <1>c. /\ \A i \in 1..(Len(rounds) - 1) : rounds[i].state = "DONE"
        /\ \A i \in 1..(Len(saved) - 1) : saved[i].state = "DONE"
    BY <1>a DEF Shape, ValidSnapshot, ValidRound
  <1>d. Len(rounds) \in Nat /\ Len(saved) \in Nat
    BY <1>a
  <1>1. CASE Saving
    <2>1. saved' = rounds /\ rounds' = rounds
      BY <1>1, SavingSaves
    <2> QED
      BY <1>c, <1>d, <2>1 DEF Behind
  <1>2. CASE InRound
    <2>1. /\ Len(rounds') = Len(rounds) /\ saved' = saved /\ control' = control
          /\ control = "forward" \/ rounds' = rounds
      BY <1>2, InRoundKeeps DEF MatchInv
    <2>2. at' # "result"
      BY <1>2, InRoundKeeps DEF MatchInv
    <2> QED
      BY <1>b, <1>d, <2>1, <2>2 DEF Behind
  <1>3. CASE Aside
    <2>1. UNCHANGED <<rounds, saved, control>> /\ (at' = at \/ at' # "result")
      BY <1>3, AsideKeeps
    <2> QED
      BY <1>b, <2>1 DEF Behind
  <1>4. CASE Core /\ StartRound
    <2>1. /\ control = "start" /\ ~IsGameOver(tokens) /\ control' = "forward" /\ saved' = saved
          /\ at' = "session"
      BY <1>4 DEF Core, StartRound
    <2>2. Len(rounds') = Len(rounds) + 1
      BY <1>4, <1>a, RoundGoesOn
    <2>3. saved = rounds
      BY <1>b, <2>1
    <2>4. \A i \in 1..Len(rounds) : rounds[i].state = "DONE"
      BY <1>a, <1>c, <1>d, <2>1 DEF Inv, Current
    <2> QED
      BY <1>a, <1>d, <2>1, <2>2, <2>3, <2>4 DEF Behind
  <1>5. CASE LeaveRound \/ DecideGame
    <2>1. UNCHANGED <<rounds, saved>> /\ (at = "result" \/ control = "start")
      BY <1>5 DEF LeaveRound, RoundDone, DecideGame, GameOver
    <2> QED
      BY <1>b, <2>1 DEF Behind
  <1>6. CASE Cancelled
    <2>1. UNCHANGED <<rounds, saved>> /\ control' = "stopped" /\ at' = "ended"
      BY <1>6 DEF Cancelled, Cancel
    <2> QED
      BY <1>b, <2>1 DEF Behind
  <1>7. CASE Crash
    <2>1. rounds' = saved /\ saved' = saved
      BY <1>7 DEF Crash, Restart
    <2> QED
      BY <1>c, <1>d, <2>1 DEF Behind
  <1> QED
    BY <1>1, <1>2, <1>3, <1>4, <1>5, <1>6, <1>7, NextSplit

LEMMA DecidedNext == MatchInv /\ [Next]_vars => DecidedRight'
  <1> SUFFICES ASSUME MatchInv, [Next]_vars PROVE DecidedRight'
    OBVIOUS
  <1>a. DecidedRight
    BY DEF MatchInv
  <1>b. ASSUME UNCHANGED <<rounds, tokens, control, winner>> PROVE DecidedRight'
    BY <1>a, <1>b DEF DecidedRight, IsGameOver, FinalRound, Current, WinnerOf, Leader, Score, Wins
  <1>1. CASE Saving \/ Aside
    BY <1>1, <1>b, SavingSaves, AsideKeeps
  <1>2. CASE InRound
    <2>1. control = "forward" \/ UNCHANGED rounds
      BY <1>2, InRoundKeeps DEF MatchInv
    <2>2. control' = "forward" \/ UNCHANGED sessionVars
      BY <1>2 DEF InRound, FirstInit, AnnounceRound, InitDone, ReturnClues, AIClues, EncryptDone,
                  GiveGuess, GiveDecrypt, GiveIntercept, Reveal, GuessDone, Core, EnterInit, In
    <2> QED
      BY <1>b, <2>2 DEF sessionVars, DecidedRight
  <1>3. CASE DecideGame
    <2>1. GameOver
      BY <1>3 DEF DecideGame
    <2>2. UNCHANGED <<rounds, tokens>>
      BY <2>1 DEF GameOver
    <2>3. \/ IsGameOver(tokens) /\ winner' = WinnerOf(tokens)
          \/ ~IsGameOver(tokens) /\ FinalRound /\ winner' = Leader(tokens)
      BY <2>1 DEF GameOver
    <2> QED
      BY <2>2, <2>3
      DEF DecidedRight, IsGameOver, FinalRound, Current, WinnerOf, Leader, Score, Wins
  <1>4. CASE (Core /\ StartRound) \/ LeaveRound \/ Cancelled \/ Crash
    <2>1. control' # "over"
      BY <1>4 DEF StartRound, LeaveRound, RoundDone, Cancelled, Cancel, Crash, Restart
    <2> QED
      BY <2>1 DEF DecidedRight
  <1> QED
    BY <1>1, <1>2, <1>3, <1>4, NextSplit

LEMMA OverNext == MatchInv /\ [Next]_vars => OverIsLast'
  <1> SUFFICES ASSUME MatchInv, [Next]_vars PROVE OverIsLast'
    OBVIOUS
  <1>a. /\ "game_over" \in {phase, kept.phase} => at \in {"ended", "paused"}
        /\ kept.phase = "game_over" /\ at = "paused" => phase = "game_over"
    BY DEF MatchInv, OverIsLast
  <1>b. ASSUME "game_over" \notin {phase', kept'.phase} PROVE OverIsLast'
    BY <1>b DEF OverIsLast
  <1>c. ASSUME UNCHANGED <<phase, kept>>, at' = at \/ at \notin {"ended", "paused"}
        PROVE  OverIsLast'
    BY <1>a, <1>c DEF OverIsLast
  <1>1. CASE Saving
    <2>1. CASE ShowGameOver
      BY <2>1 DEF ShowGameOver, OverIsLast
    <2>2. CASE BeginEncrypt \/ BeginGuess \/ RecordGuess \/ FinishRound
      <3>1. /\ at \notin {"ended", "paused"} /\ kept'.phase = phase'
            /\ phase' \in {"encrypting", "guess", "round_result", phase}
        BY <2>2 DEF BeginEncrypt, BeginGuess, RecordGuess, FinishRound, SetPhase, SaveLocked,
                    shownVars
      <3> QED
        BY <1>a, <1>b, <3>1
    <2> QED
      BY <1>1, <2>1, <2>2 DEF Saving
  <1>2. CASE InRound
    <2>1. UNCHANGED kept /\ phase' \in {phase, "new_round"} /\ at \notin {"ended", "paused"}
      BY <1>2, InRoundKeeps DEF MatchInv
    <2> QED
      BY <1>a, <1>b, <2>1
  <1>3. CASE Aside
    <2>1. UNCHANGED <<phase, kept>> /\ (at' = at \/ at \notin {"ended", "paused"} \/ Start)
      BY <1>3, AsideKeeps
    <2>2. CASE Start
      <3>1. at = "paused" /\ at' = IF phase = "game_over" THEN "ended" ELSE "session"
        BY <2>2 DEF Start
      <3> QED
        BY <1>a, <2>1, <3>1 DEF OverIsLast
    <2> QED
      BY <1>c, <2>1, <2>2
  <1>4. CASE (Core /\ StartRound) \/ LeaveRound \/ DecideGame \/ Cancelled
    <2>1. UNCHANGED <<phase, kept>> /\ at \notin {"ended", "paused"}
      BY <1>4 DEF Core, LeaveRound, DecideGame, Cancelled, NoticesStop, Guessing, shownVars
    <2> QED
      BY <1>c, <2>1
  <1>5. CASE Crash
    BY <1>5 DEF Crash, OverIsLast
  <1> QED
    BY <1>1, <1>2, <1>3, <1>4, <1>5, NextSplit

LEMMA MatchInvNext == MatchInv /\ [Next]_vars => MatchInv'
  BY RunningNext, BehindNext, DecidedNext, OverNext DEF MatchInv

-----------------------------------------------------------------------------
(* Every snapshot, as a log *)

\* The finished rounds of a session are its first ones.
LEMMA FinishedFirst ==
    ASSUME NEW rs, Shape(rs)
    PROVE  /\ rs # <<>> /\ rs[Len(rs)].state = "DONE" => Finished(rs) = 1..Len(rs)
           /\ ~(rs # <<>> /\ rs[Len(rs)].state = "DONE") => Finished(rs) = 1..(Len(rs) - 1)
           /\ Len(rs) \in Nat
  <1>1. /\ rs \in Seq(Round) /\ DOMAIN rs = 1..Len(rs) /\ Len(rs) \in Nat
        /\ \A i \in 1..Len(rs) : i < Len(rs) => rs[i].state = "DONE"
    BY DEF Shape, ValidSnapshot, ValidRound
  <1>2. CASE rs = <<>>
    <2>1. Len(rs) = 0
      BY <1>2
    <2> QED
      BY <1>1, <1>2, <2>1 DEF Finished
  <1>3. CASE rs # <<>>
    <2>1. Len(rs) \in 1..Len(rs)
      BY <1>1, <1>3
    <2>2. ASSUME rs[Len(rs)].state = "DONE" PROVE Finished(rs) = 1..Len(rs)
      BY <1>1, <2>2 DEF Finished
    <2>3. ASSUME rs[Len(rs)].state # "DONE" PROVE Finished(rs) = 1..(Len(rs) - 1)
      <3>1. PICK k \in Nat : k = Len(rs)
        BY <1>1
      <3>2. \A i : i \in 1..k /\ i # k <=> i \in 1..(k - 1)
        OBVIOUS
      <3>3. Finished(rs) = {i \in 1..k : i # k}
        BY <1>1, <2>3, <3>1 DEF Finished
      <3> QED
        BY <3>1, <3>2, <3>3
    <2> QED
      BY <1>1, <1>3, <2>2, <2>3
  <1> QED
    BY <1>2, <1>3

\* A finished round of the snapshot reads the same in any session that goes on
\* from it.
LEMMA LineStays ==
    ASSUME NEW rs, NEW ss, Shape(rs), Shape(ss), SessionContinues(rs, ss),
           NEW i \in Finished(rs)
    PROVE  i \in Finished(ss) /\ Line(ss[i]) = Line(rs[i])
  <1>1. /\ i \in DOMAIN rs /\ i \in DOMAIN ss /\ rs[i] \in Round /\ ss[i] \in Round
        /\ rs[i].state = "DONE" /\ Continues(rs[i], ss[i])
        /\ ValidRound(rs, i) /\ ValidRound(ss, i)
    <2>1. rs \in Seq(Round) /\ ss \in Seq(Round) /\ Len(rs) <= Len(ss)
      BY DEF Shape, SessionContinues
    <2>2. i \in DOMAIN rs /\ rs[i].state = "DONE"
      BY DEF Finished
    <2>3. i \in DOMAIN ss
      BY <2>1, <2>2
    <2> QED
      BY <2>1, <2>2, <2>3 DEF Shape, ValidSnapshot, SessionContinues
  <1>2. ss[i].state = "DONE"
    BY <1>1 DEF Continues, Rank, Round, States
  <1>3. /\ rs[i].decrypted /\ ss[i].decrypt = rs[i].decrypt /\ ss[i].secret = rs[i].secret
        /\ rs[i].n = i /\ ss[i].n = i
    BY <1>1 DEF ValidRound, Continues
  <1>4. rs[i].intercepted => ss[i].intercepted /\ ss[i].intercept = rs[i].intercept
    BY <1>1 DEF Continues
  <1>5. ss[i].intercepted => rs[i].intercepted
    BY <1>1, <1>2, <1>3 DEF ValidRound
  <1>6. ss[i].intercepted \in BOOLEAN /\ rs[i].intercepted \in BOOLEAN
    BY <1>1 DEF Round
  <1>7. DecryptFails(ss[i]) = DecryptFails(rs[i])
    BY <1>3 DEF DecryptFails
  <1>8. InterceptScores(ss[i]) <=> InterceptScores(rs[i])
    BY <1>3, <1>4, <1>5 DEF InterceptScores
  <1>9. InterceptScores(ss[i]) = InterceptScores(rs[i])
    BY <1>6, <1>8 DEF InterceptScores
  <1> QED
    BY <1>1, <1>2, <1>7, <1>9 DEF Finished, Line

LEMMA SameCardinality == ASSUME NEW S PROVE M!Cardinality(S) = Cardinality(S)
  BY DEF M!Cardinality, Cardinality, M!IsFiniteSet, IsFiniteSet

\* The log counts for a team what a restart counts (Recount).
LEMMA LogCounts ==
    ASSUME Shape(saved), NEW t \in Teams
    PROVE  /\ M!Errors(t) = Recount(saved)[t].errors
           /\ M!Interceptions(t) = Recount(saved)[t].interceptions
  <1>1. \A i \in DOMAIN saved : i \in Nat /\ saved[i].currentTeam = IF i % 2 = 1 THEN 1 ELSE 2
    BY DEF Shape, Turn
  <1>2. \A i \in DOMAIN saved : \A u \in Teams : saved[i].currentTeam = u <=> i % 2 = u % 2
    BY <1>1 DEF Teams
  <1>3. Other(t) \in Teams /\ Other(t) = 3 - t
    BY DEF Other, Teams
  <1>4. \A u \in Teams : M!RoundsOf(u) = {i \in Finished(saved) : saved[i].currentTeam = u}
    BY <1>2 DEF M!RoundsOf, Published, Finished
  <1>5. {i \in M!RoundsOf(t) : ~Published[i].decoded} = FailedBy(saved, t)
    BY <1>4 DEF FailedBy, Finished, Published, Line
  <1>6. {i \in M!RoundsOf(3 - t) : Published[i].intercepted} = InterceptedBy(saved, t)
    BY <1>3, <1>4 DEF InterceptedBy, Finished, Published, Line
  <1> QED
    BY <1>5, <1>6, SameCardinality DEF M!Errors, M!Interceptions, Recount

\* So the log decides the game when the rules do, and the same way.
LEMMA LogDecides ==
    ASSUME Shape(saved)
    PROVE  /\ M!Decided <=> IsGameOver(Recount(saved))
           /\ M!Beaten(1) <=> Wins(Recount(saved), 2)
           /\ M!Beaten(2) <=> Wins(Recount(saved), 1)
           /\ M!Ahead = Leader(Recount(saved))
  <1> DEFINE tk == Recount(saved)
  <1>1. \A t \in Teams : /\ M!Errors(t) = tk[t].errors
                         /\ M!Interceptions(t) = tk[t].interceptions
    BY LogCounts
  <1>2. \A t \in Teams : tk[t].errors \in Nat /\ tk[t].interceptions \in Nat
    <2>1. saved \in Seq(Round)
      BY DEF Shape
    <2> QED
      BY <2>1, CountsFinite DEF Recount
  <1> HIDE DEF tk
  <1>3. M!Beaten(1) <=> Wins(tk, 2)
    BY <1>1 DEF M!Beaten, Wins, Teams, Other
  <1>4. M!Beaten(2) <=> Wins(tk, 1)
    BY <1>1 DEF M!Beaten, Wins, Teams, Other
  <1>5. M!Decided <=> IsGameOver(tk)
    BY <1>3, <1>4 DEF M!Decided, IsGameOver, Teams
  <1>6. M!Points(1) = Score(tk, 1) /\ M!Points(2) = Score(tk, 2)
    BY <1>1 DEF M!Points, Score, Teams
  <1>7. Score(tk, 1) \in Int /\ Score(tk, 2) \in Int
    BY <1>2 DEF Score, Teams
  <1>8. M!Ahead = Leader(tk)
    BY <1>6, <1>7 DEF M!Ahead, Leader
  <1> QED
    BY <1>3, <1>4, <1>5, <1>8 DEF tk

Lines == [decoded : BOOLEAN, intercepted : BOOLEAN]

\* The log is a sequence of lines, one for each finished round of the snapshot.
LEMMA LogIsASequence ==
    ASSUME NEW n \in Nat, Finished(saved) = 1..n, Shape(saved)
    PROVE  /\ Published \in Seq(Lines) /\ Len(Published) = n
           /\ \A i \in 1..n : Published[i] = Line(saved[i])
  <1>1. \A i \in 1..n : Line(saved[i]) \in Lines
    <2>1. \A i \in 1..n : i \in DOMAIN saved /\ saved[i] \in Round
      BY DEF Finished, Shape
    <2> QED
      BY <2>1 DEF Line, Lines, DecryptFails, InterceptScores, Round
  <1>2. Published = [i \in 1..n |-> Line(saved[i])]
    BY DEF Published
  <1> QED
    BY <1>1, <1>2

LEMMA SavedBehind ==
    ASSUME MatchInv
    PROVE  /\ Shape(saved) /\ Shape(rounds) /\ SessionContinues(saved, rounds)
           /\ \A i \in Finished(saved) : i \in Finished(rounds) /\ Line(rounds[i]) = Line(saved[i])
           /\ Len(saved) <= Len(rounds) /\ Len(rounds) <= Len(saved) + 1
           /\ Finished(saved) = Finished(rounds) \/
                 /\ rounds # <<>> /\ Current.state = "DONE" /\ ~IsGameOver(Recount(saved))
                 /\ Finished(saved) = 1..(Len(rounds) - 1) /\ Finished(rounds) = 1..Len(rounds)
  <1>1. Shape(saved) /\ Shape(rounds) /\ SessionContinues(saved, rounds) /\ Bounded(saved)
    BY DEF MatchInv, RunningInv, SettledInv, BridgeInv, Inv
  <1>2. \A i \in Finished(saved) : i \in Finished(rounds) /\ Line(rounds[i]) = Line(saved[i])
    BY <1>1, LineStays
  <1>3. /\ Len(saved) <= Len(rounds) /\ Len(rounds) <= Len(saved) + 1
        /\ \A i \in 1..(Len(rounds) - 1) : saved[i].state = "DONE"
        /\ Len(saved) < Len(rounds) => ~IsGameOver(Recount(saved))
    BY <1>1 DEF SessionContinues, MatchInv, Behind
  <1>4. Len(saved) \in Nat /\ Len(rounds) \in Nat
    BY <1>1 DEF Shape
  <1>a. PICK m \in Nat : m = Len(saved)
    BY <1>4
  <1>b. PICK n \in Nat : n = Len(rounds)
    BY <1>4
  <1>c. n = m \/ n = m + 1
    BY <1>3, <1>a, <1>b
  <1> DEFINE last(rs) == rs # <<>> /\ rs[Len(rs)].state = "DONE"
  <1>5. /\ last(saved) => Finished(saved) = 1..m
        /\ ~last(saved) => Finished(saved) = 1..(m - 1)
        /\ last(rounds) => Finished(rounds) = 1..n
        /\ ~last(rounds) => Finished(rounds) = 1..(n - 1)
    BY <1>1, <1>a, <1>b, FinishedFirst
  <1>6. ~last(saved) => ~IsGameOver(Recount(saved))
    BY <1>1 DEF Bounded
  <1>7. n = m /\ last(saved) => last(rounds)
    <2>1. SUFFICES ASSUME n = m, last(saved) PROVE last(rounds)
      OBVIOUS
    <2>2. m \in Finished(saved)
      <3>1. m # 0
        BY <1>1, <1>a, <2>1 DEF Shape
      <3> QED
        BY <1>5, <2>1, <3>1
    <2>3. m \in Finished(rounds)
      BY <1>2, <2>2
    <2> QED
      BY <1>b, <2>1, <2>3 DEF Finished
  <1>8. n = m + 1 => last(saved) \/ m = 0
    <2>1. SUFFICES ASSUME n = m + 1, m # 0 PROVE last(saved)
      OBVIOUS
    <2>2. m \in 1..(Len(rounds) - 1)
      BY <1>b, <2>1
    <2> QED
      BY <1>3, <1>a, <2>1, <2>2
  <1>9. last(rounds) => rounds # <<>> /\ Current.state = "DONE"
    BY DEF Current
  <1> HIDE DEF last
  <1>10. CASE n = m
    <2>1. CASE last(saved) \/ ~last(rounds)
      <3>1. Finished(saved) = Finished(rounds)
        BY <1>5, <1>7, <1>10, <2>1
      <3> QED
        BY <1>1, <1>2, <1>3, <3>1
    <2>2. CASE ~last(saved) /\ last(rounds)
      BY <1>1, <1>2, <1>3, <1>5, <1>6, <1>9, <1>10, <1>b, <2>2
    <2> QED
      BY <2>1, <2>2
  <1>11. CASE n = m + 1
    <2>1. Finished(saved) = 1..m
      <3>1. CASE last(saved)
        BY <1>5, <3>1
      <3>2. CASE m = 0
        <4>1. 1..m = {} /\ 1..(m - 1) = {}
          BY <3>2
        <4> QED
          BY <1>5, <4>1
      <3> QED
        BY <1>8, <1>11, <3>1, <3>2
    <2>2. n - 1 = m
      BY <1>11
    <2>3. CASE ~last(rounds)
      BY <1>1, <1>2, <1>3, <1>5, <2>1, <2>2, <2>3
    <2>4. CASE last(rounds)
      <3>1. ~IsGameOver(Recount(saved))
        BY <1>3, <1>11, <1>a, <1>b
      <3>2. Finished(saved) = 1..(Len(rounds) - 1) /\ Finished(rounds) = 1..Len(rounds)
        BY <1>5, <1>b, <2>1, <2>2, <2>4
      <3> QED
        BY <1>1, <1>2, <1>3, <1>9, <2>4, <3>1, <3>2
    <2> QED
      BY <2>3, <2>4
  <1> QED
    BY <1>10, <1>11, <1>c

LEMMA LogAppends ==
    ASSUME NEW s \in Seq(Lines), NEW r \in Seq(Lines), NEW x \in Lines,
           Len(r) = Len(s) + 1, \A i \in 1..Len(s) : r[i] = s[i], r[Len(s) + 1] = x
    PROVE  r = Append(s, x)
  <1>1. Append(s, x) \in Seq(Lines) /\ Len(Append(s, x)) = Len(r)
    OBVIOUS
  <1>2. \A i \in 1..Len(r) : Append(s, x)[i] = r[i]
    OBVIOUS
  <1> QED
    BY <1>1, <1>2

LEMMA MatchStep == MatchInv /\ [Next]_vars => [M!Next]_M!matchVars
  <1> SUFFICES ASSUME MatchInv, [Next]_vars PROVE [M!Next]_M!matchVars
    OBVIOUS
  <1>a. /\ Shape(saved) /\ Shape(rounds)
        /\ \A i \in Finished(saved) : i \in Finished(rounds) /\ Line(rounds[i]) = Line(saved[i])
        /\ Finished(saved) = Finished(rounds) \/
              /\ rounds # <<>> /\ Current.state = "DONE" /\ ~IsGameOver(Recount(saved))
              /\ Finished(saved) = 1..(Len(rounds) - 1) /\ Finished(rounds) = 1..Len(rounds)
    BY SavedBehind
  <1>b. "game_over" \in {phase, kept.phase} => at \in {"ended", "paused"}
    BY DEF MatchInv, OverIsLast
  <1>c. ASSUME UNCHANGED <<saved, kept>> PROVE UNCHANGED M!matchVars
    BY <1>c DEF M!matchVars, Published, Finished
  <1>d. rounds # <<>> => /\ Len(rounds) \in Nat /\ Len(rounds) <= MaxRounds /\ MaxRounds \in Nat
                         /\ Current = rounds[Len(rounds)] /\ Current.n = Len(rounds)
                         /\ Current \in Round /\ ValidRound(rounds, Len(rounds))
    <2>1. SUFFICES ASSUME rounds # <<>> PROVE /\ Current.n = Len(rounds) /\ Current \in Round
                                              /\ Len(rounds) \in 1..MaxRounds
                                              /\ ValidRound(rounds, Len(rounds))
      BY SessionAssumption DEF Current
    <2>2. Len(rounds) \in DOMAIN rounds
      BY <1>a, <2>1, RoundNumber
    <2> QED
      BY <1>a, <2>1, <2>2, RoundNumber DEF Current, Shape, ValidSnapshot
  \* A snapshot of rounds already published shows nothing new
  <1>e. ASSUME saved' = rounds, Finished(saved) = Finished(rounds) PROVE Published' = Published
    BY <1>a, <1>e DEF Published, Finished
  <1>1. CASE InRound \/ Aside
    BY <1>1, <1>c, InRoundKeeps, AsideKeeps DEF MatchInv
  <1>2. CASE (Core /\ StartRound) \/ LeaveRound \/ DecideGame \/ Cancelled \/ Crash
    <2>1. UNCHANGED <<saved, kept>>
      BY <1>2 DEF Core, StartRound, LeaveRound, RoundDone, DecideGame, GameOver, Cancelled,
                  Cancel, Crash, Restart
    <2> QED
      BY <1>c, <2>1
  <1>3. CASE BeginEncrypt \/ BeginGuess \/ RecordGuess
    <2>1. /\ at \notin {"ended", "paused"} /\ kept'.phase = phase' /\ saved' = rounds
          /\ phase' \in {"encrypting", "guess", phase}
      BY <1>3 DEF BeginEncrypt, BeginGuess, RecordGuess, SetPhase, SaveLocked, Save, shownVars
    <2>2. Current.state # "DONE"
      BY <1>3 DEF BeginEncrypt, BeginGuess, RecordGuess, In, MatchInv, RunningInv, SettledInv,
                  OpenInPhase, GuessAt
    <2>3. Published' = Published
      BY <1>a, <1>e, <2>1, <2>2
    <2>4. kept.phase # "game_over" /\ kept'.phase # "game_over"
      BY <1>b, <2>1
    <2> QED
      BY <2>3, <2>4 DEF M!matchVars
  <1>4. CASE FinishRound
    <2>1. /\ at = "session" /\ kept'.phase = "round_result" /\ saved' = rounds
          /\ control = "forward" /\ Current.state = "DONE"
      BY <1>4 DEF FinishRound, SaveLocked, Save, In
    <2>2. kept.phase # "game_over"
      BY <1>b, <2>1
    <2>3. CASE Finished(saved) = Finished(rounds)
      BY <1>e, <2>1, <2>2, <2>3 DEF M!matchVars
    <2>4. CASE /\ rounds # <<>> /\ ~IsGameOver(Recount(saved))
               /\ Finished(saved) = 1..(Len(rounds) - 1) /\ Finished(rounds) = 1..Len(rounds)
      <3>1. PICK n \in Nat : n + 1 = Len(rounds)
        BY <1>d, <2>4
      <3> DEFINE line == Line(rounds[n + 1])
      <3>2. Finished(saved) = 1..n /\ Finished(rounds) = 1..(n + 1)
        BY <2>4, <3>1
      <3>3. /\ Published \in Seq(Lines) /\ Len(Published) = n
            /\ \A i \in 1..n : Published[i] = Line(saved[i])
        BY <1>a, <3>2, LogIsASequence
      <3>4. Published' = [i \in 1..(n + 1) |-> Line(rounds[i])]
        BY <2>1, <3>2 DEF Published, Finished
      <3>5. \A i \in 1..(n + 1) : Line(rounds[i]) \in Lines
        <4>1. \A i \in 1..(n + 1) : i \in DOMAIN rounds /\ rounds[i] \in Round
          BY <1>a, <3>1 DEF Shape
        <4> QED
          BY <4>1 DEF Line, Lines, DecryptFails, InterceptScores, Round
      <3>6. Published' \in Seq(Lines) /\ Len(Published') = n + 1 /\ line \in Lines
        BY <3>4, <3>5
      <3>7. \A i \in 1..n : Published'[i] = Published[i]
        BY <1>a, <3>2, <3>3, <3>4
      <3>8. Published'[n + 1] = line
        BY <3>4
      <3> HIDE DEF line
      <3>9. Published' = Append(Published, line)
        BY <3>3, <3>6, <3>7, <3>8, LogAppends
      <3>10. ~M!Decided /\ Len(Published) < MaxRounds
        BY <1>a, <1>d, <2>4, <3>1, <3>3, LogDecides
      <3>11. /\ line = [decoded |-> line.decoded, intercepted |-> line.intercepted]
             /\ line.decoded \in BOOLEAN /\ line.intercepted \in BOOLEAN
        BY <3>6 DEF Lines
      <3>12. line.intercepted => Len(Published) >= 2
        <4>1. line.intercepted => Current.intercepted
          BY <1>d, <2>4, <3>1 DEF line, Line, InterceptScores
        <4> QED
          BY <1>d, <2>4, <3>1, <3>3, <4>1 DEF ValidRound
      <3>13. M!Play
        BY <2>1, <2>2, <3>9, <3>10, <3>11, <3>12 DEF M!Play, M!Open
      <3> QED
        BY <3>13 DEF M!Next
    <2> QED
      BY <1>a, <2>3, <2>4
  <1>5. CASE ShowGameOver
    <2>1. /\ at = "over" /\ kept'.phase = "game_over" /\ kept'.winner = winner /\ saved' = rounds
      BY <1>5 DEF ShowGameOver, SaveLocked, Save
    <2>2. kept.phase # "game_over" /\ control = "over"
      BY <1>b, <2>1 DEF MatchInv, RunningInv, Placed
    <2>3. saved = rounds /\ tokens = Recount(saved)
      BY <2>2 DEF MatchInv, Behind, RunningInv, SettledInv, BridgeInv, Inv, TokensAgree
    <2>4. Published' = Published
      BY <1>e, <2>1, <2>3
    <2>5. \/ IsGameOver(tokens) /\ winner = WinnerOf(tokens)
          \/ ~IsGameOver(tokens) /\ FinalRound /\ winner = Leader(tokens)
      BY <2>2 DEF MatchInv, DecidedRight
    <2>6. /\ M!Decided <=> IsGameOver(tokens)
          /\ M!Beaten(1) <=> Wins(tokens, 2)
          /\ M!Beaten(2) <=> Wins(tokens, 1)
          /\ M!Ahead = Leader(tokens)
      BY <1>a, <2>3, LogDecides
    <2>7. M!Decided \/ Len(Published) = MaxRounds
      <3>1. CASE IsGameOver(tokens)
        BY <2>6, <3>1
      <3>2. CASE FinalRound
        <4>1. rounds # <<>> /\ Len(rounds) = MaxRounds /\ Current.state = "DONE"
          BY <1>d, <2>2, <3>2 DEF FinalRound, MatchInv, RunningInv, SettledInv, BridgeInv, Inv
        <4>2. Finished(saved) = 1..Len(rounds) /\ Len(rounds) \in Nat
          BY <1>a, <1>d, <2>3, <4>1, FinishedFirst
        <4> QED
          BY <1>a, <4>1, <4>2, LogIsASequence
      <3> QED
        BY <2>5, <3>1, <3>2
    <2>8. winner = IF M!Beaten(1) <=> M!Beaten(2) THEN M!Ahead ELSE IF M!Beaten(1) THEN 2 ELSE 1
      <3>1. CASE Wins(tokens, 1) /\ Wins(tokens, 2)
        BY <2>5, <2>6, <3>1 DEF IsGameOver, WinnerOf, Teams
      <3>2. CASE ~Wins(tokens, 1) /\ ~Wins(tokens, 2)
        BY <2>5, <2>6, <3>2 DEF IsGameOver, Teams
      <3>3. CASE Wins(tokens, 1) /\ ~Wins(tokens, 2)
        <4>1. IsGameOver(tokens) /\ ~(\A t \in Teams : Wins(tokens, t))
          BY <3>3 DEF IsGameOver, Teams
        <4>2. winner = CHOOSE t \in Teams : Wins(tokens, t)
          BY <2>5, <4>1 DEF WinnerOf
        <4>3. winner \in Teams /\ Wins(tokens, winner)
          BY <3>3, <4>2 DEF Teams
        <4> QED
          BY <2>6, <3>3, <4>3 DEF Teams
      <3>4. CASE ~Wins(tokens, 1) /\ Wins(tokens, 2)
        <4>1. IsGameOver(tokens) /\ ~(\A t \in Teams : Wins(tokens, t))
          BY <3>4 DEF IsGameOver, Teams
        <4>2. winner = CHOOSE t \in Teams : Wins(tokens, t)
          BY <2>5, <4>1 DEF WinnerOf
        <4>3. winner \in Teams /\ Wins(tokens, winner)
          BY <3>4, <4>2 DEF Teams
        <4> QED
          BY <2>6, <3>4, <4>3 DEF Teams
      <3> QED
        BY <3>1, <3>2, <3>3, <3>4
    <2>9. M!Beaten(1) \in BOOLEAN /\ M!Beaten(2) \in BOOLEAN
      BY DEF M!Beaten
    <2>10. M!End
      BY <2>1, <2>2, <2>4, <2>7, <2>8, <2>9 DEF M!End, M!Open
    <2> QED
      BY <2>10 DEF M!Next
  <1> QED
    BY <1>1, <1>2, <1>3, <1>4, <1>5, NextSplit DEF Saving

\* However a game is raced by deadlines and late answers, and however often it is
\* killed and restored, what its snapshots show is one undisturbed match: a step
\* adds a line to the log, decides the game by the rules, or does not show
\* (finishRound, broadcastGameOver, core.Restore, Session.Resume).
THEOREM BridgeImplementsMatch == Spec => ImplementsMatch
  <1>1. Init => M!Init
    <2> SUFFICES ASSUME Init PROVE M!Init
      OBVIOUS
    <2>1. saved = <<>>
      BY DEF Init, SessionInit
    <2>2. kept.phase = ""
      BY DEF Init
    <2>3. Finished(saved) = {}
      BY <2>1 DEF Finished
    <2>4. Published = <<>>
      BY <2>3 DEF Published
    <2> QED
      BY <2>2, <2>4 DEF M!Init, M!Open
  <1> QED
    BY <1>1, MatchInvInit, MatchInvNext, MatchStep, PTL DEF Spec, ImplementsMatch, M!Spec

-----------------------------------------------------------------------------
(* What the players were told stands, as long as the process runs *)

SameGuesses ==
    /\ Current'.decrypt = Current.decrypt /\ Current'.decrypted = Current.decrypted
    /\ Current'.intercept = Current.intercept /\ Current'.intercepted = Current.intercepted

\* Only SetDecryptedSecret and SetInterceptSecret touch a round's guesses.
LEMMA GuessesGoOn ==
    ASSUME Inv
    PROVE  /\ InitDone \/ EnterInit => rounds # <<>> /\ SameGuesses
           /\ \A c \in Clues : EncryptDone(c) => rounds # <<>> /\ SameGuesses
           /\ \A g \in Codes \cup {NoCode} : GiveDecrypt(g) =>
                 /\ rounds # <<>> /\ Current'.decrypt = g /\ ~Current.decrypted
                 /\ Current'.intercept = Current.intercept
                 /\ Current'.intercepted = Current.intercepted
           /\ \A g \in Codes \cup {NoCode} : GiveIntercept(g) =>
                 /\ rounds # <<>> /\ Current'.intercept = g /\ ~Current.intercepted
                 /\ Current'.decrypt = Current.decrypt
                 /\ Current'.decrypted = Current.decrypted
           /\ GuessDone /\ ~NeedsDecrypt(Current) /\ ~NeedsIntercept(Current) =>
                 rounds # <<>> /\ SameGuesses
  <1>0. control = "forward" => rounds # <<>> /\ Current \in Round
    BY ForwardHasRound, CurrentIsLast
  <1>a. ASSUME NEW r \in Round, SetCurrent(r), rounds # <<>> PROVE Current' = r
    BY <1>a, CurrentIsLast
  <1>1. ASSUME InitDone \/ EnterInit PROVE rounds # <<>> /\ SameGuesses
    <2>1. PICK s \in {"INIT", "ENCRYPTING"} :
             control = "forward" /\ SetCurrent([Current EXCEPT !.state = s])
      BY <1>1 DEF InitDone, EnterInit, In
    <2> DEFINE r == [Current EXCEPT !.state = s]
    <2>2. /\ r \in Round /\ r.decrypt = Current.decrypt /\ r.decrypted = Current.decrypted
          /\ r.intercept = Current.intercept /\ r.intercepted = Current.intercepted
      BY <1>0, <2>1 DEF Round, States
    <2>3. SetCurrent(r)
      BY <2>1
    <2> HIDE DEF r
    <2> QED
      BY <1>0, <1>a, <2>1, <2>2, <2>3 DEF SameGuesses
  <1>2. ASSUME NEW c \in Clues, EncryptDone(c) PROVE rounds # <<>> /\ SameGuesses
    <2> DEFINE r == [Current EXCEPT !.clues = c, !.state = "GUESSING"]
    <2>1. control = "forward" /\ SetCurrent(r) /\ Current.state = "ENCRYPTING"
      BY <1>2 DEF EncryptDone, In
    <2>2. r \in Round
      BY <1>0, <2>1, CluesWritten
    <2>3. /\ r.decrypt = Current.decrypt /\ r.decrypted = Current.decrypted
          /\ r.intercept = Current.intercept /\ r.intercepted = Current.intercepted
      BY <1>0, <2>1 DEF Round
    <2> HIDE DEF r
    <2> QED
      BY <1>0, <1>a, <2>1, <2>2, <2>3 DEF SameGuesses
  <1>3. ASSUME NEW g \in Codes \cup {NoCode}, GiveDecrypt(g)
        PROVE  /\ rounds # <<>> /\ Current'.decrypt = g /\ ~Current.decrypted
               /\ Current'.intercept = Current.intercept
               /\ Current'.intercepted = Current.intercepted
    <2> DEFINE r == [Current EXCEPT !.decrypt = g, !.decrypted = TRUE]
    <2>1. /\ control = "forward" /\ Current.state = "GUESSING" /\ ~Current.decrypted
          /\ SetCurrent(r)
      BY <1>3 DEF GiveDecrypt, In, NeedsDecrypt
    <2>2. r \in Round
      BY <1>0, <2>1, DecryptFilled
    <2>3. /\ r.decrypt = g
          /\ r.intercept = Current.intercept /\ r.intercepted = Current.intercepted
      BY <1>0, <2>1 DEF Round
    <2> HIDE DEF r
    <2> QED
      BY <1>0, <1>a, <2>1, <2>2, <2>3
  <1>4. ASSUME NEW g \in Codes \cup {NoCode}, GiveIntercept(g)
        PROVE  /\ rounds # <<>> /\ Current'.intercept = g /\ ~Current.intercepted
               /\ Current'.decrypt = Current.decrypt
               /\ Current'.decrypted = Current.decrypted
    <2> DEFINE r == [Current EXCEPT !.intercept = g, !.intercepted = TRUE]
    <2>1. /\ control = "forward" /\ Current.state = "GUESSING" /\ ~Current.intercepted
          /\ SetCurrent(r)
      BY <1>4 DEF GiveIntercept, In, NeedsIntercept
    <2>2. r \in Round
      BY <1>0, <2>1, InterceptFilled
    <2>3. /\ r.intercept = g
          /\ r.decrypt = Current.decrypt /\ r.decrypted = Current.decrypted
      BY <1>0, <2>1 DEF Round
    <2> HIDE DEF r
    <2> QED
      BY <1>0, <1>a, <2>1, <2>2, <2>3
  <1>5. ASSUME GuessDone, ~NeedsDecrypt(Current), ~NeedsIntercept(Current)
        PROVE  rounds # <<>> /\ SameGuesses
    <2> DEFINE f == FillGuesses(Current)
               r == [f EXCEPT !.state = "DONE"]
    <2>1. control = "forward" /\ SetCurrent(r)
      BY <1>5 DEF GuessDone, In
    <2>2. f \in Round /\ f.decrypt = Current.decrypt /\ f.decrypted = Current.decrypted
          /\ f.intercept = Current.intercept /\ f.intercepted = Current.intercepted
      BY <1>0, <1>5, <2>1 DEF FillGuesses, NeedsDecrypt, NeedsIntercept, HasInterception, Round
    <2> HIDE DEF f
    <2>3. /\ r \in Round /\ r.decrypt = f.decrypt /\ r.decrypted = f.decrypted
          /\ r.intercept = f.intercept /\ r.intercepted = f.intercepted
      BY <2>2 DEF Round, States
    <2> HIDE DEF r
    <2> QED
      BY <1>0, <1>a, <2>1, <2>2, <2>3 DEF SameGuesses
  <1> QED
    BY <1>1, <1>2, <1>3, <1>4, <1>5

\* Nobody was told of a guess that is open, and one that is on its way to the
\* round is the one that was told; a guess told before the phase was entered is
\* the round's already.
OpenIsAsked ==
    /\ DOMAIN told = Names
    /\ \A name \in (acts \ accepted) \cap GuessNames : at \in GuessAt /\ told[name] = Nothing

ToldIsHeld ==
    at \in GuessAt =>
        /\ \A name \in GuessNames : told[name] # Nothing => name \in acts
        /\ \A name \in GuessNames : ch[name] # <<>> => told[name] = ch[name][1].v
        /\ pick # Idle /\ told[pick.name] # Nothing => pick.v = told[pick.name]
        /\ \A i \in DOMAIN todo : told[todo[i]] = Nothing

ToldIsGiven ==
    at \notin GuessAt \cup {"ended"} /\ rounds # <<>> =>
        \A name \in GuessNames : told[name] # Nothing => Given(name)

Stands(name) ==
    told[name] # Nothing =>
        /\ name = "decrypt" /\ Current.decrypted => Current.decrypt = told[name]
        /\ name = "intercept" /\ Current.intercepted => Current.intercept = told[name]
        /\ \A i \in DOMAIN timeouts : timeouts[i] # name

ToldInv == OpenIsAsked /\ ToldIsHeld /\ ToldIsGiven /\ GuessesStand

LEMMA ToldInit == Init => ToldInv
  <1> SUFFICES ASSUME Init PROVE ToldInv
    OBVIOUS
  <1>1. acts = {} /\ at = "session" /\ told = NothingTold /\ rounds = <<>>
    BY DEF Init, SessionInit
  <1> QED
    BY <1>1 DEF ToldInv, OpenIsAsked, ToldIsHeld, ToldIsGiven, GuessesStand, GuessAt, NothingTold

LEMMA SameGiven ==
    ASSUME SameGuesses, NEW name \in GuessNames
    PROVE  Given(name)' = Given(name)
  BY DEF SameGuesses, Given, GuessNames

\* Only an open action takes a submission.
LEMMA SubmittedToOpen ==
    ASSUME SettledInv, AcceptSubmission
    PROVE  /\ sub.name \in acts \ accepted /\ sub.name \in Names
           /\ accepted' = accepted \cup {sub.name}
           /\ told' = [told EXCEPT ![sub.name] = sub.v]
           /\ ch' = [ch EXCEPT ![sub.name] = <<[n |-> sub.n, v |-> sub.v]>>]
           /\ UNCHANGED <<rounds, timeouts, acts, at, pick, todo>>
  BY DEF AcceptSubmission, SettledInv, BridgeInv, RoomInChannels, HolderIsOpen, ChannelsKnown,
         sessionVars, shownVars, localVars

LEMMA AskedNext == SettledInv /\ OpenIsAsked /\ ToldIsGiven /\ [Next]_vars => OpenIsAsked'
  <1> SUFFICES ASSUME SettledInv, OpenIsAsked, ToldIsGiven, [Next]_vars PROVE OpenIsAsked'
    OBVIOUS
  <1>a. /\ DOMAIN told = Names
        /\ \A name \in (acts \ accepted) \cap GuessNames : at \in GuessAt /\ told[name] = Nothing
    BY DEF OpenIsAsked
  <1>b. Inv
    BY DEF SettledInv, BridgeInv
  <1>c. ASSUME UNCHANGED <<told, acts>>, accepted \subseteq accepted',
               at \in GuessAt => at' \in GuessAt \/ accepted' = acts
        PROVE  OpenIsAsked'
    BY <1>a, <1>c DEF OpenIsAsked
  <1>1. CASE BeginGuess
    <2>1. /\ at = "session" /\ In("GUESSING") /\ UNCHANGED <<rounds, told>> /\ at' = "guess"
          /\ acts' = PhaseActions("guess", Current)
          /\ accepted' = {name \in acts' : ~Needed(Current, name)}
      BY <1>1 DEF BeginGuess, SetPhase, SaveLocked, Save
    <2>2. rounds # <<>>
      BY <1>b, <2>1, ForwardHasRound DEF In
    <2>3. \A name \in GuessNames : told[name] # Nothing => Given(name)
      BY <2>1, <2>2 DEF ToldIsGiven, GuessAt
    <2>4. \A name \in (acts' \ accepted') \cap GuessNames : ~Given(name)
      BY <2>1 DEF Needed, NeedsDecrypt, NeedsIntercept, Given, GuessNames
    <2> QED
      BY <1>a, <2>1, <2>3, <2>4 DEF OpenIsAsked, GuessAt
  <1>2. CASE AnnounceRound \/ BeginEncrypt \/ FinishRound \/ ShowGameOver \/ Crash
    <2>1. acts' \subseteq {"encrypt"} /\ UNCHANGED told
      BY <1>2 DEF AnnounceRound, BeginEncrypt, SetPhase, PhaseActions, FinishRound,
                  ShowGameOver, Crash
    <2> QED
      BY <1>a, <2>1 DEF OpenIsAsked, GuessNames
  <1>3. CASE AcceptSubmission
    <2>1. /\ sub.name \in acts \ accepted /\ sub.name \in Names
          /\ accepted' = accepted \cup {sub.name}
          /\ told' = [told EXCEPT ![sub.name] = sub.v] /\ UNCHANGED <<acts, at>>
      BY <1>3, SubmittedToOpen
    <2> QED
      BY <1>a, <2>1 DEF OpenIsAsked
  <1>4. CASE TakeAnswer
    <2>1. /\ at = "guess" /\ at' \in {"guess", "give"} /\ UNCHANGED acts
          /\ \/ UNCHANGED <<accepted, told>>
             \/ /\ accepted' = accepted \cup {Head(answers).name}
                /\ told' = [told EXCEPT ![Head(answers).name] = Head(answers).v]
      BY <1>4 DEF TakeAnswer, Guessing
    <2>2. \A name \in acts \ accepted' : name \in acts \ accepted /\ told'[name] = told[name]
      BY <1>a, <2>1 DEF SettledInv, BridgeInv, RoomInChannels, ChannelsKnown
    <2>3. DOMAIN told' = Names
      BY <1>a, <2>1
    <2> QED
      BY <1>a, <2>1, <2>2, <2>3 DEF OpenIsAsked, GuessAt
  <1>5. CASE \/ (\E name \in GuessNames : TakeGuess(name)) \/ GuessTimer \/ Sweep
             \/ SettleExpired \/ GiveGuess \/ RecordGuess
    <2>1. UNCHANGED <<told, acts>> /\ accepted \subseteq accepted' /\ at' \in GuessAt
      BY <1>5 DEF TakeGuess, GuessTimer, Sweep, SettleExpired, GiveGuess, RecordGuess,
                  inputVars, GuessAt
    <2> QED
      BY <1>c, <2>1
  <1>6. CASE Core
    <2>1. /\ UNCHANGED <<acts, accepted>> /\ at = "session"
          /\ told' = told \/ told' = NothingTold
      BY <1>6 DEF Core, inputVars
    <2> QED
      BY <1>a, <2>1 DEF OpenIsAsked, GuessAt, NothingTold
  <1>7. CASE Reveal \/ Cancelled
    <2>1. /\ UNCHANGED <<told, acts>>
          /\ at \in GuessAt => at = "guess"
          /\ IF at = "guess" THEN accepted' = acts
             ELSE accepted' = accepted \/ accepted' = acts
      BY <1>7 DEF Reveal, Cancelled, NoticesStop, Guessing, GuessAt
    <2>2. accepted \subseteq acts
      BY DEF SettledInv, OpenInPhase
    <2> QED
      BY <1>c, <2>1, <2>2
  <1>8. CASE \/ FirstInit \/ NextInit \/ TakeClues \/ CluesTimer \/ CloseInput \/ DraftClues
             \/ ReturnClues \/ AIClues \/ LeaveRound \/ DecideGame \/ Start
    <2>1. /\ UNCHANGED <<told, acts>>
          /\ accepted' = accepted \/ accepted' = acts
          /\ at \notin GuessAt
      BY <1>8 DEF FirstInit, NextInit, TakeClues, CluesTimer, CloseInput, DraftClues,
                  ReturnClues, AIClues, LeaveRound, DecideGame, Start, bridgeVars, inputVars,
                  GuessAt
    <2>2. accepted \subseteq acts
      BY DEF SettledInv, OpenInPhase
    <2> QED
      BY <1>c, <2>1, <2>2
  <1>9. CASE Submissions \/ (\E name \in Names : Expire(name)) \/ Worker \/ Stop \/ UNCHANGED vars
    <2>1. UNCHANGED <<told, acts, accepted, at>>
      BY <1>9 DEF Submissions, CheckSubmission, RelayProgress, Expire, Worker, AIGuess, Stop,
                  vars, bridgeVars, inputVars
    <2> QED
      BY <1>c, <2>1
  <1> QED
    BY <1>1, <1>2, <1>3, <1>4, <1>5, <1>6, <1>7, <1>8, <1>9 DEF Next, Goroutine

\* An intercept is only ever given in a round that has one.
LEMMA InterceptedLate ==
    ASSUME Inv, rounds # <<>>
    PROVE  Current.intercepted => HasInterception(Current)
  <1>1. Len(rounds) \in DOMAIN rounds /\ ValidRound(rounds, Len(rounds)) /\ Current.n = Len(rounds)
    BY CurrentIsLast DEF Inv, Shape, ValidSnapshot
  <1> QED
    BY <1>1 DEF ValidRound, Current, HasInterception


LEMMA HeldToldNext ==
    SettledInv /\ OpenIsNeeded /\ OpenIsAsked /\ ToldIsHeld /\ ToldIsGiven /\ [Next]_vars
        => ToldIsHeld'
  <1> SUFFICES ASSUME SettledInv, OpenIsNeeded, OpenIsAsked, ToldIsHeld, ToldIsGiven, [Next]_vars
               PROVE  ToldIsHeld'
    OBVIOUS
  <1>a. at \in GuessAt =>
          /\ \A name \in GuessNames : told[name] # Nothing => name \in acts
          /\ \A name \in GuessNames : ch[name] # <<>> => told[name] = ch[name][1].v
          /\ pick # Idle /\ told[pick.name] # Nothing => pick.v = told[pick.name]
          /\ \A i \in DOMAIN todo : told[todo[i]] = Nothing
    BY DEF ToldIsHeld
  <1>b. /\ (pick # Idle => at \in {"clues", "give", "record"})
        /\ (todo # <<>> => at \in {"settle", "give", "record"})
        /\ todo \in Seq(GuessNames) /\ DOMAIN ch = Names /\ DOMAIN told = Names
    BY DEF SettledInv, BridgeInv, HeldInRound, TodoKept, RoomInChannels, ChannelsKnown, OpenIsAsked
  <1>c. at \in GuessAt =>
          /\ pick # Idle => pick.name \in accepted
          /\ \A i \in DOMAIN todo : todo[i] \in accepted
    BY DEF OpenIsNeeded
  <1>d. \A name \in (acts \ accepted) \cap GuessNames : told[name] = Nothing
    BY DEF OpenIsAsked
  <1>e. ASSUME at \in GuessAt, UNCHANGED <<told, acts, ch, todo>>, pick' = pick \/ pick' = Idle
        PROVE  ToldIsHeld'
    BY <1>a, <1>e DEF ToldIsHeld
  <1>1. CASE BeginGuess
    <2>1. /\ at = "session" /\ In("GUESSING") /\ UNCHANGED <<rounds, told, pick, todo>>
          /\ acts' = PhaseActions("guess", Current) /\ ch' = Empty
      BY <1>1 DEF BeginGuess, SetPhase, Drained, SaveLocked, Save, localVars
    <2>2. rounds # <<>> /\ Inv
      BY <2>1, ForwardHasRound DEF In, SettledInv, BridgeInv
    <2>3. pick = Idle /\ todo = <<>>
      BY <1>b, <2>1
    <2>4. \A name \in GuessNames : told[name] # Nothing => Given(name)
      BY <2>1, <2>2 DEF ToldIsGiven, GuessAt
    <2>5. Current.intercepted => HasInterception(Current)
      BY <2>2, InterceptedLate
    <2>6. \A name \in GuessNames : Given(name) => name \in acts'
      BY <2>1, <2>5 DEF Given, GuessNames, PhaseActions
    <2>7. \A name \in GuessNames : ch'[name] = <<>>
      BY <2>1 DEF Empty, Names
    <2> QED
      BY <2>1, <2>3, <2>4, <2>6, <2>7 DEF ToldIsHeld
  <1>2. CASE AcceptSubmission
    <2>1. /\ sub.name \in acts \ accepted /\ sub.name \in Names
          /\ told' = [told EXCEPT ![sub.name] = sub.v]
          /\ ch' = [ch EXCEPT ![sub.name] = <<[n |-> sub.n, v |-> sub.v]>>]
          /\ UNCHANGED <<acts, at, pick, todo>>
      BY <1>2, SubmittedToOpen
    <2> SUFFICES ASSUME at \in GuessAt PROVE ToldIsHeld'
      BY <2>1 DEF ToldIsHeld
    <2>2. \A name \in Names \ {sub.name} : told'[name] = told[name] /\ ch'[name] = ch[name]
      BY <1>b, <2>1
    <2>3. told'[sub.name] = sub.v /\ ch'[sub.name][1].v = sub.v
      BY <1>b, <2>1
    <2>4. \A name \in GuessNames : told'[name] # Nothing => name \in acts
      BY <1>a, <2>1, <2>2 DEF Names
    <2>5. \A name \in GuessNames : ch'[name] # <<>> => told'[name] = ch'[name][1].v
      BY <1>a, <2>2, <2>3 DEF Names
    <2>6. accepted \subseteq Names
      BY DEF SettledInv, BridgeInv, OpenInPhase, RoomInChannels, ChannelsKnown
    <2>7. pick # Idle /\ told'[pick.name] # Nothing => pick.v = told'[pick.name]
      BY <1>a, <1>c, <2>1, <2>2, <2>6
    <2>8. \A i \in DOMAIN todo : told'[todo[i]] = Nothing
      BY <1>a, <1>c, <2>1, <2>2, <2>6
    <2> QED
      BY <2>1, <2>4, <2>5, <2>7, <2>8 DEF ToldIsHeld
  <1>3. ASSUME NEW x \in GuessNames, TakeGuess(x) PROVE ToldIsHeld'
    <2>1. /\ at = "guess" /\ UNCHANGED <<told, todo, acts>> /\ ch[x] # <<>>
          /\ pick'.name = x /\ pick'.v = ch[x][1].v /\ ch' = [ch EXCEPT ![x] = <<>>]
      BY <1>3 DEF TakeGuess, Guessing, inputVars
    <2>2. \A name \in GuessNames : ch'[name] # <<>> => ch'[name] = ch[name]
      BY <1>b, <2>1 DEF Names
    <2> QED
      BY <1>a, <2>1, <2>2 DEF ToldIsHeld, GuessAt
  <1>4. CASE TakeAnswer
    <2>a. /\ at = "guess" /\ UNCHANGED <<acts, ch, todo>>
          /\ \/ UNCHANGED <<told, pick>>
             \/ /\ Head(answers).name \in acts \ accepted
                /\ told' = [told EXCEPT ![Head(answers).name] = Head(answers).v]
                /\ pick' = Head(answers)
      BY <1>4 DEF TakeAnswer, Guessing
    <2>1. CASE UNCHANGED <<told, pick>>
      BY <1>e, <2>1, <2>a DEF GuessAt
    <2>2. CASE /\ Head(answers).name \in acts \ accepted
               /\ told' = [told EXCEPT ![Head(answers).name] = Head(answers).v]
               /\ pick' = Head(answers)
      <3> DEFINE x == Head(answers).name
      <3>1. x \in GuessNames /\ x \in Names
        BY <1>4, AnswerTaken DEF Names
      <3>2. todo = <<>>
        BY <1>b, <2>a
      <3>3. ch[x] = <<>>
        BY <2>2 DEF SettledInv, BridgeInv, RoomInChannels, FullIsClosed
      <3>4. told'[x] = pick'.v /\ \A name \in Names \ {x} : told'[name] = told[name]
        BY <1>b, <2>2, <3>1
      <3>5. \A name \in GuessNames : ch'[name] # <<>> => told'[name] = ch'[name][1].v
        BY <1>a, <2>a, <3>3, <3>4 DEF GuessAt, Names
      <3>6. \A name \in GuessNames : told'[name] # Nothing => name \in acts'
        BY <1>a, <2>a, <2>2, <3>4 DEF GuessAt, Names
      <3> QED
        BY <2>a, <2>2, <3>2, <3>4, <3>5, <3>6 DEF ToldIsHeld
    <2> QED
      BY <2>a, <2>1, <2>2
  <1>5. CASE Sweep
    <2>1. /\ at = "expired" /\ UNCHANGED <<told, acts, pick, ch>> /\ todo' = InOrder(Expired)
      BY <1>5 DEF Sweep
    <2>2. Expired \subseteq acts \ accepted /\ Expired \in SUBSET GuessNames
      BY <2>1 DEF Expired, GuessAt, SettledInv, OpenInPhase, PhaseActions, GuessNames
    <2>3. \A i \in DOMAIN todo' : todo'[i] \in Expired
      BY <2>1, <2>2, InOrderOnly
    <2>4. (\A i \in DOMAIN todo : told[todo[i]] = Nothing)'
      BY <1>d, <2>1, <2>2, <2>3
    <2> QED
      BY <1>a, <2>1, <2>4 DEF ToldIsHeld, GuessAt
  <1>6. CASE SettleExpired
    <2>1. /\ at = "settle" /\ UNCHANGED <<told, acts, ch>>
          /\ pick'.name = Head(todo) /\ todo' = Tail(todo)
      BY <1>6 DEF SettleExpired, inputVars
    <2>2. todo # <<>> /\ Head(todo) = todo[1] /\ 1 \in DOMAIN todo
      BY <1>b, <2>1 DEF SettledInv, TodoKept
    <2>3. Distinct(todo)
      BY <2>1 DEF OpenIsNeeded, GuessAt
    <2>4. \A i \in DOMAIN todo' : i + 1 \in DOMAIN todo /\ todo'[i] = todo[i + 1]
      BY <1>b, <2>1, <2>2, <2>3, DistinctTail
    <2>5. (\A i \in DOMAIN todo : told[todo[i]] = Nothing)'
      BY <1>a, <2>1, <2>4 DEF GuessAt
    <2>6. told'[pick'.name] = Nothing
      BY <1>a, <2>1, <2>2 DEF GuessAt
    <2> QED
      BY <1>a, <2>1, <2>5, <2>6 DEF ToldIsHeld, GuessAt
  <1>7. CASE GuessTimer \/ GiveGuess \/ RecordGuess
    <2>1. /\ at \in GuessAt /\ UNCHANGED <<told, acts, ch, todo>>
          /\ pick' = pick \/ pick' = Idle
      BY <1>7 DEF GuessTimer, Guessing, GiveGuess, RecordGuess, inputVars, localVars, GuessAt
    <2> QED
      BY <1>e, <2>1
  <1>8. CASE Submissions \/ (\E name \in Names : Expire(name)) \/ Worker \/ Stop \/ UNCHANGED vars
    <2>1. UNCHANGED <<told, acts, ch, todo, pick, at>>
      BY <1>8 DEF Submissions, CheckSubmission, RelayProgress, Expire, Worker, AIGuess, Stop,
                  vars, bridgeVars, inputVars, localVars
    <2> QED
      BY <1>e, <2>1 DEF ToldIsHeld
  <1>9. CASE \/ Core \/ FirstInit \/ Start \/ NextInit \/ AnnounceRound \/ BeginEncrypt
             \/ TakeClues \/ CluesTimer \/ CloseInput \/ DraftClues \/ ReturnClues
             \/ AIClues \/ Reveal \/ FinishRound \/ LeaveRound \/ DecideGame
             \/ ShowGameOver \/ Cancelled \/ Crash
    <2>1. at' \notin GuessAt
      BY <1>9 DEF Core, FirstInit, bridgeVars, Start, NextInit, AnnounceRound, BeginEncrypt,
                  TakeClues, CluesTimer, CloseInput, DraftClues, ReturnClues, AIClues,
                  Reveal, FinishRound, LeaveRound, DecideGame, ShowGameOver, Cancelled,
                  Crash, GuessAt
    <2> QED
      BY <2>1 DEF ToldIsHeld
  <1> QED
    BY <1>1, <1>2, <1>3, <1>4, <1>5, <1>6, <1>7, <1>8, <1>9 DEF Next, Goroutine

LEMMA GivenToldNext ==
    ~CanCrash /\ SettledInv /\ OpenIsAsked /\ ToldIsHeld /\ ToldIsGiven /\ [Next]_vars
        => ToldIsGiven'
  <1> SUFFICES ASSUME ~CanCrash, SettledInv, OpenIsAsked, ToldIsHeld, ToldIsGiven, [Next]_vars
               PROVE  ToldIsGiven'
    OBVIOUS
  <1>a. at \notin GuessAt \cup {"ended"} /\ rounds # <<>> =>
           \A name \in GuessNames : told[name] # Nothing => Given(name)
    BY DEF ToldIsGiven
  <1>b. Inv
    BY DEF SettledInv, BridgeInv
  <1>c. ASSUME at \notin GuessAt \cup {"ended"}, UNCHANGED told, rounds # <<>>, SameGuesses
        PROVE  ToldIsGiven'
    BY <1>a, <1>c, SameGiven DEF ToldIsGiven
  <1>d. ASSUME at \notin GuessAt \cup {"ended"}, UNCHANGED <<told, rounds>>
        PROVE  ToldIsGiven'
    <2>1. \A name : Given(name)' = Given(name)
      BY <1>d, GivenStays
    <2> QED
      BY <1>a, <1>d, <2>1 DEF ToldIsGiven
  <1>1. CASE \/ BeginGuess \/ (\E name \in GuessNames : TakeGuess(name)) \/ TakeAnswer
             \/ GuessTimer \/ Sweep \/ SettleExpired \/ GiveGuess \/ RecordGuess
             \/ ShowGameOver \/ Cancelled
    <2>1. at' \in GuessAt \cup {"ended"}
      BY <1>1 DEF BeginGuess, TakeGuess, TakeAnswer, Guessing, GuessTimer, Sweep, SettleExpired,
                  GiveGuess, RecordGuess, ShowGameOver, Cancelled, GuessAt
    <2> QED
      BY <2>1 DEF ToldIsGiven
  <1>2. CASE Core
    <2>1. at = "session" /\ (told' = told \/ told' = NothingTold)
      BY <1>2 DEF Core
    <2>2. CASE StartRound
      <3>1. told' = NothingTold
        BY <1>2, <2>2 DEF Core, StartRound
      <3> QED
        BY <3>1 DEF NothingTold, ToldIsGiven, Names
    <2>3. CASE EnterInit
      <3>1. rounds # <<>> /\ SameGuesses
        BY <1>b, <2>3, GuessesGoOn
      <3>2. told' = told
        BY <1>2, <2>3 DEF Core, EnterInit, In
      <3> QED
        BY <1>c, <2>1, <3>1, <3>2 DEF GuessAt
    <2> QED
      BY <1>2, <2>2, <2>3 DEF Core
  <1>3. CASE FirstInit \/ AnnounceRound \/ ReturnClues \/ AIClues
    <2>1. /\ UNCHANGED told
          /\ at \in {"session", "between", "clues", "aiEncrypt"}
          /\ InitDone \/ \E c \in Clues : EncryptDone(c)
      BY <1>3 DEF FirstInit, AnnounceRound, ReturnClues, AIClues, bridgeVars, SettledInv,
                  BridgeInv, HeldInRound
    <2>2. rounds # <<>> /\ SameGuesses
      BY <1>b, <2>1, GuessesGoOn
    <2> QED
      BY <1>c, <2>1, <2>2 DEF GuessAt
  <1>4. CASE Reveal
    <2>1. /\ UNCHANGED told /\ GuessDone /\ In("GUESSING") /\ at \in {"guess", "session"}
          /\ ~NeedsDecrypt(Current) /\ ~NeedsIntercept(Current)
      BY <1>4 DEF Reveal
    <2>2. rounds # <<>> /\ SameGuesses
      BY <1>b, <2>1, GuessesGoOn
    <2>3. CASE at = "session"
      BY <1>c, <2>1, <2>2, <2>3 DEF GuessAt
    <2>4. CASE at = "guess"
      <3>1. \A name \in GuessNames : told[name] # Nothing => name \in acts
        BY <2>4 DEF ToldIsHeld, GuessAt
      <3>2. acts = PhaseActions("guess", Current)
        BY <2>4 DEF SettledInv, OpenInPhase, GuessAt
      <3>3. \A name \in GuessNames : told[name] # Nothing => Given(name)
        BY <2>1, <3>1, <3>2 DEF PhaseActions, NeedsDecrypt, NeedsIntercept, Given, GuessNames
      <3> QED
        BY <2>1, <2>2, <3>3, SameGiven DEF ToldIsGiven
    <2> QED
      BY <2>1, <2>3, <2>4
  <1>5. CASE AcceptSubmission
    <2>1. /\ sub.name \in acts \ accepted
          /\ told' = [told EXCEPT ![sub.name] = sub.v] /\ UNCHANGED <<at, rounds>>
      BY <1>5, SubmittedToOpen
    <2> SUFFICES ASSUME at \notin GuessAt PROVE ToldIsGiven'
      BY <2>1 DEF ToldIsGiven
    <2>2. \A name \in GuessNames : told'[name] = told[name]
      BY <2>1 DEF OpenIsAsked, Names
    <2>3. \A name : Given(name)' = Given(name)
      BY <2>1, GivenStays
    <2> QED
      BY <1>a, <2>1, <2>2, <2>3 DEF ToldIsGiven
  <1>6. CASE \/ NextInit \/ BeginEncrypt \/ TakeClues \/ CluesTimer \/ CloseInput \/ DraftClues
             \/ FinishRound \/ LeaveRound \/ DecideGame \/ Crash
    <2>0. CASE Crash
      BY <2>0 DEF Crash
    <2>1. ~Crash => UNCHANGED <<told, rounds>> /\ at \notin GuessAt \cup {"ended"}
      BY <1>6 DEF NextInit, BeginEncrypt, TakeClues, CluesTimer, CloseInput, DraftClues,
                  FinishRound, LeaveRound, DecideGame, GuessAt, sessionVars, SaveLocked, Save,
                  RoundDone, GameOver
    <2> QED
      BY <1>d, <2>0, <2>1
  <1>7. CASE Start
    <2>1. UNCHANGED <<told, rounds>> /\ at = "paused"
      BY <1>7 DEF Start, sessionVars
    <2> QED
      BY <1>d, <2>1 DEF GuessAt
  <1>8. CASE Submissions \/ (\E name \in Names : Expire(name)) \/ Worker \/ Stop \/ UNCHANGED vars
    <2>1. UNCHANGED <<told, rounds, at>>
      BY <1>8 DEF Submissions, CheckSubmission, RelayProgress, Expire, Worker, AIGuess, Stop,
                  vars, bridgeVars, sessionVars
    <2> QED
      BY <1>d, <2>1 DEF ToldIsGiven
  <1> QED
    BY <1>1, <1>2, <1>3, <1>4, <1>5, <1>6, <1>7, <1>8 DEF Next, Goroutine

LEMMA StandsNext == ~CanCrash /\ RunningInv /\ ToldInv /\ [Next]_vars => GuessesStand'
  <1> SUFFICES ASSUME ~CanCrash, RunningInv, ToldInv, [Next]_vars PROVE GuessesStand'
    OBVIOUS
  <1>a. rounds # <<>> => \A name \in GuessNames : Stands(name)
    BY DEF ToldInv, GuessesStand, Stands
  <1>b. /\ Inv /\ SettledInv /\ OpenIsNeeded /\ TimeoutsKept /\ Shown
        /\ OpenIsAsked /\ ToldIsHeld /\ ToldIsGiven
    BY DEF RunningInv, SettledInv, BridgeInv, ToldInv
  <1>c. ASSUME \A name \in GuessNames : Stands(name)' PROVE GuessesStand'
    BY <1>c DEF GuessesStand, Stands
  <1>d. ASSUME UNCHANGED <<told, rounds>>, timeouts' = timeouts \/ timeouts' = <<>>
        PROVE  GuessesStand'
    <2>1. CASE timeouts' = timeouts
      BY <1>d, <2>1 DEF ToldInv, GuessesStand, Current
    <2>2. CASE timeouts' = <<>>
      BY <1>d, <2>2 DEF ToldInv, GuessesStand, Current
    <2> QED
      BY <1>d, <2>1, <2>2
  <1>e. ASSUME UNCHANGED told, rounds # <<>>, SameGuesses, timeouts' = timeouts \/ timeouts' = <<>>
        PROVE  GuessesStand'
    <2>1. CASE timeouts' = timeouts
      BY <1>a, <1>c, <1>e, <2>1 DEF Stands, SameGuesses
    <2>2. CASE timeouts' = <<>>
      BY <1>a, <1>c, <1>e, <2>2 DEF Stands, SameGuesses
    <2> QED
      BY <1>e, <2>1, <2>2
  \* An open guess, taken now, is neither given nor out of time
  <1>f. ASSUME NEW x \in (acts \ accepted) \cap GuessNames, NEW v,
               told' = [told EXCEPT ![x] = v], UNCHANGED <<rounds, timeouts>>
        PROVE  GuessesStand'
    <2>1. at \in GuessAt /\ ~Given(x)
      BY <1>b, <1>f DEF OpenIsAsked, OpenIsNeeded
    <2>2. rounds # <<>> /\ round = Len(rounds)
      BY <1>b, <2>1, ForwardHasRound DEF SettledInv, OpenInPhase, Shown
    <2>3. \A i \in DOMAIN timeouts : timeouts[i] # x
      <3>1. \A i \in DOMAIN timeouts : \/ Answered(Current, timeouts[i])
                                       \/ pick # Idle /\ pick.name = timeouts[i]
        BY <1>b, <2>2 DEF TimeoutsKept, TimeoutsSettled
      <3>2. ~Answered(Current, x)
        BY <1>f, <2>1 DEF Given, Answered, GuessNames
      <3>3. pick # Idle => pick.name # x
        BY <1>b, <1>f, <2>1 DEF OpenIsNeeded
      <3> QED
        BY <3>1, <3>2, <3>3
    <2>4. \A name \in GuessNames \ {x} : told'[name] = told[name]
      BY <1>b, <1>f DEF OpenIsAsked, Names
    <2>5. \A name \in GuessNames \ {x} : Stands(name)'
      BY <1>a, <1>f, <2>2, <2>4 DEF Stands, Current
    <2>6. Stands(x)'
      BY <1>f, <2>1, <2>3 DEF Stands, Given, Current
    <2> QED
      BY <1>c, <2>5, <2>6
  <1>1. CASE AcceptSubmission
    <2>1. /\ sub.name \in acts \ accepted /\ sub.name \in Names
          /\ told' = [told EXCEPT ![sub.name] = sub.v] /\ UNCHANGED <<rounds, timeouts>>
      BY <1>1, <1>b, SubmittedToOpen
    <2>2. CASE sub.name \in GuessNames
      BY <1>f, <2>1, <2>2
    <2>3. CASE sub.name \notin GuessNames
      <3>1. \A name \in GuessNames : told'[name] = told[name]
        BY <1>b, <2>1, <2>3 DEF OpenIsAsked, Names
      <3> QED
        BY <2>1, <3>1 DEF ToldInv, GuessesStand, Current
    <2> QED
      BY <2>2, <2>3
  <1>2. CASE TakeAnswer
    <2>1. /\ UNCHANGED <<rounds, timeouts>>
          /\ \/ UNCHANGED told
             \/ /\ Head(answers).name \in acts \ accepted
                /\ told' = [told EXCEPT ![Head(answers).name] = Head(answers).v]
      BY <1>2 DEF TakeAnswer, sessionVars, shownVars
    <2>2. Head(answers).name \in GuessNames
      BY <1>2, <1>b, AnswerTaken
    <2> QED
      BY <1>d, <1>f, <2>1, <2>2
  <1>3. CASE SettleExpired
    <2>1. /\ at = "settle" /\ UNCHANGED <<told, rounds>> /\ timeouts' = Append(timeouts, Head(todo))
      BY <1>3 DEF SettleExpired, sessionVars
    <2>2. todo \in Seq(GuessNames) /\ todo # <<>>
      BY <1>b, <2>1 DEF SettledInv, TodoKept
    <2>3. Head(todo) = todo[1] /\ 1 \in DOMAIN todo /\ Head(todo) \in Names
      BY <2>2 DEF Names
    <2>4. told[Head(todo)] = Nothing
      BY <1>b, <2>1, <2>3 DEF ToldIsHeld, GuessAt
    <2>5. /\ timeouts \in Seq(Names)
          /\ \A i \in DOMAIN timeouts' :
                timeouts'[i] = Head(todo) \/ (i \in DOMAIN timeouts /\ timeouts'[i] = timeouts[i])
      BY <1>b, <2>1, <2>3 DEF TimeoutsKept, TimeoutLists
    <2> QED
      BY <2>1, <2>4, <2>5 DEF ToldInv, GuessesStand, Current
  <1>4. CASE DraftClues
    <2>1. UNCHANGED <<told, rounds>> /\ timeouts' = Append(timeouts, "encrypt")
      BY <1>4 DEF DraftClues, sessionVars
    <2>2. \A i \in DOMAIN timeouts' :
             timeouts'[i] = "encrypt" \/ (i \in DOMAIN timeouts /\ timeouts'[i] = timeouts[i])
      BY <1>b, <2>1 DEF TimeoutsKept, TimeoutLists, Names
    <2> QED
      BY <2>1, <2>2 DEF ToldInv, GuessesStand, Current, GuessNames
  <1>5. CASE GiveGuess
    <2>1. /\ at = "give" /\ UNCHANGED <<told, timeouts>> /\ pick # Idle /\ pick.name \in GuessNames
      BY <1>5, <1>b DEF GiveGuess, shownVars, SettledInv, GuessHeld
    <2>2. CASE ~Needed(Current, pick.name)
      <3>1. UNCHANGED rounds
        BY <1>5, <2>2 DEF GiveGuess, sessionVars
      <3> QED
        BY <1>d, <2>1, <3>1
    <2>3. CASE Needed(Current, pick.name)
      <3>1. /\ pick.v \in Codes \cup {NoCode}
            /\ pick.name = "decrypt" => GiveDecrypt(pick.v)
            /\ pick.name = "intercept" => GiveIntercept(pick.v)
        BY <1>5, <1>b, <2>3, GivenGuess
      <3>2. told[pick.name] # Nothing => pick.v = told[pick.name]
        BY <1>b, <2>1 DEF ToldIsHeld, GuessAt
      <3>3. CASE pick.name = "decrypt"
        <4>1. /\ rounds # <<>> /\ Current'.decrypt = pick.v
              /\ Current'.intercept = Current.intercept
              /\ Current'.intercepted = Current.intercepted
          BY <1>b, <3>1, <3>3, GuessesGoOn
        <4>2. Stands("decrypt")'
          BY <1>a, <2>1, <3>2, <3>3, <4>1 DEF Stands, GuessNames
        <4>3. Stands("intercept")'
          BY <1>a, <2>1, <4>1 DEF Stands, GuessNames
        <4> QED
          BY <1>c, <4>2, <4>3 DEF GuessNames
      <3>4. CASE pick.name = "intercept"
        <4>1. /\ rounds # <<>> /\ Current'.intercept = pick.v
              /\ Current'.decrypt = Current.decrypt
              /\ Current'.decrypted = Current.decrypted
          BY <1>b, <3>1, <3>4, GuessesGoOn
        <4>2. Stands("intercept")'
          BY <1>a, <2>1, <3>2, <3>4, <4>1 DEF Stands, GuessNames
        <4>3. Stands("decrypt")'
          BY <1>a, <2>1, <4>1 DEF Stands, GuessNames
        <4> QED
          BY <1>c, <4>2, <4>3 DEF GuessNames
      <3> QED
        BY <2>1, <3>3, <3>4 DEF GuessNames
    <2> QED
      BY <2>2, <2>3
  <1>6. CASE Core
    <2>1. UNCHANGED timeouts
      BY <1>6 DEF Core, shownVars
    <2>2. CASE StartRound
      <3>1. told' = NothingTold
        BY <1>6, <2>2 DEF Core, StartRound
      <3> QED
        BY <3>1 DEF NothingTold, GuessesStand, Names
    <2>3. CASE EnterInit
      <3>1. rounds # <<>> /\ SameGuesses
        BY <1>b, <2>3, GuessesGoOn
      <3>2. told' = told
        BY <1>6, <2>3 DEF Core, EnterInit, In
      <3> QED
        BY <1>e, <2>1, <3>1, <3>2
    <2> QED
      BY <1>6, <2>2, <2>3 DEF Core
  <1>7. CASE FirstInit \/ AnnounceRound \/ ReturnClues \/ AIClues
    <2>1. /\ UNCHANGED told
          /\ timeouts' = timeouts \/ timeouts' = <<>>
          /\ InitDone \/ \E c \in Clues : EncryptDone(c)
      BY <1>7, <1>b DEF FirstInit, AnnounceRound, ReturnClues, AIClues, bridgeVars, shownVars,
                  SetPhase, RoundTimeouts, SettledInv, BridgeInv, HeldInRound
    <2>2. rounds # <<>> /\ SameGuesses
      BY <1>b, <2>1, GuessesGoOn
    <2> QED
      BY <1>e, <2>1, <2>2
  <1>8. CASE Reveal
    <2>1. /\ UNCHANGED <<told, timeouts>> /\ GuessDone
          /\ ~NeedsDecrypt(Current) /\ ~NeedsIntercept(Current)
      BY <1>8 DEF Reveal, shownVars
    <2>2. rounds # <<>> /\ SameGuesses
      BY <1>b, <2>1, GuessesGoOn
    <2> QED
      BY <1>e, <2>1, <2>2
  <1>9. CASE BeginEncrypt \/ BeginGuess
    <2>1. UNCHANGED <<told, rounds>>
      BY <1>9 DEF BeginEncrypt, BeginGuess, SaveLocked, Save
    <2>2. timeouts' = timeouts \/ timeouts' = <<>>
      BY <1>9 DEF BeginEncrypt, BeginGuess, SetPhase, RoundTimeouts
    <2> QED
      BY <1>d, <2>1, <2>2
  <1>10. CASE \/ NextInit \/ TakeClues \/ CluesTimer \/ CloseInput
              \/ (\E name \in GuessNames : TakeGuess(name)) \/ GuessTimer \/ Sweep
              \/ RecordGuess \/ FinishRound \/ LeaveRound \/ DecideGame \/ ShowGameOver
              \/ Cancelled \/ Start
    <2>1. UNCHANGED <<told, rounds, timeouts>>
      BY <1>10 DEF NextInit, TakeClues, CluesTimer, CloseInput, TakeGuess, GuessTimer, Sweep,
                   RecordGuess, FinishRound, LeaveRound, DecideGame, ShowGameOver, Cancelled,
                   Start, sessionVars, shownVars, SaveLocked, Save, RoundDone, GameOver, Cancel
    <2> QED
      BY <1>d, <2>1
  <1>11. CASE Submissions \/ (\E name \in Names : Expire(name)) \/ Worker \/ Stop \/ UNCHANGED vars
    <2>1. UNCHANGED <<told, rounds, timeouts>>
      BY <1>11 DEF Submissions, CheckSubmission, RelayProgress, Expire, Worker, AIGuess, Stop,
                   vars, bridgeVars, sessionVars, shownVars
    <2> QED
      BY <1>d, <2>1
  <1>12. ~Crash
    BY DEF Crash
  <1> QED
    BY <1>1, <1>2, <1>3, <1>4, <1>5, <1>6, <1>7, <1>8, <1>9, <1>10, <1>11, <1>12
    DEF Next, Goroutine

LEMMA ToldNext == ~CanCrash /\ RunningInv /\ ToldInv /\ [Next]_vars => ToldInv'
  BY AskedNext, HeldToldNext, GivenToldNext, StandsNext DEF RunningInv, ToldInv

\* The guess a team was told is in is the guess that is scored, and that team is
\* never reported as out of time, whatever answers, AI workers, sweeps of expired
\* actions and a stop of the room do to each other (SubmitGuess, acceptAIGuess,
\* expired, recordGuess): in a process that is not killed.  A killed one may
\* forget a guess it had confirmed.
THEOREM BridgeGuessesStand == ASSUME ~CanCrash PROVE Spec => []GuessesStand
  <1>1. Init => RunningInv /\ ToldInv
    BY RunningInit, ToldInit
  <1>2. RunningInv /\ ToldInv /\ [Next]_vars => (RunningInv /\ ToldInv)'
    BY RunningNext, ToldNext
  <1>3. RunningInv /\ ToldInv => GuessesStand
    BY DEF ToldInv
  <1> QED
    BY <1>1, <1>2, <1>3, PTL DEF Spec
-----------------------------------------------------------------------------
(* Games that begin with a restart *)

\* Round n of a game, saved when it was over, that was played for code c
Saved(r, n, c) ==
    /\ r \in Round /\ r.n = n /\ r.currentTeam = n /\ r.state = "DONE" /\ r.encryptor = 0
    /\ r.secret = c /\ r.decrypted /\ ~r.intercepted

\* A round that is dealt, as it is saved in the end
LEMMA DealtIsSaved ==
    ASSUME NEW n \in Teams, NEW c \in Codes, NEW right \in BOOLEAN, NEW r,
           r = [n |-> n, currentTeam |-> n, state |-> "NEW", encryptor |-> 0, secret |-> c,
                clues |-> NoClues, decrypt |-> NoCode, decrypted |-> FALSE,
                intercept |-> NoCode, intercepted |-> FALSE]
    PROVE  Saved([r EXCEPT !.state = "DONE", !.clues = Dashes, !.decrypted = TRUE,
                           !.decrypt = IF right THEN r.secret ELSE NoCode], n, c)
  <1> DEFINE given == IF right THEN r.secret ELSE NoCode
  <1>1. given \in Codes \cup {NoCode} /\ Dashes \in Clues \cup {NoClues}
    BY BridgeAssumption
  <1>2. r \in Round /\ r.n = n /\ r.currentTeam = n /\ r.encryptor = 0 /\ r.secret = c /\ ~r.intercepted
    BY DEF Round, States, Teams
  <1> HIDE DEF given
  <1>3. Saved([r EXCEPT !.state = "DONE", !.clues = Dashes, !.decrypted = TRUE, !.decrypt = given], n, c)
    BY ONLY <1>1, <1>2 DEF Saved, Round, States
  <1>4. QED
    BY <1>3 DEF given

LEMMA Counts == \A k : (k = 0 \/ k = 1) => ~(k + 1 > 2) /\ (k + 1 = 1 \/ k + 1 = 2)
  OBVIOUS

\* The round that is dealt after none, or after one of the first team
LEMMA DealtIs ==
    ASSUME NEW c, NEW rs \in Seq(Round), rs = <<>> \/ (Len(rs) = 1 /\ rs # <<>> /\ rs[1].currentTeam = 1)
    PROVE  NewRound(rs, c) = [n |-> Len(rs) + 1, currentTeam |-> Len(rs) + 1, state |-> "NEW", encryptor |-> 0,
                              secret |-> c, clues |-> NoClues, decrypt |-> NoCode, decrypted |-> FALSE,
                              intercept |-> NoCode, intercepted |-> FALSE]
  <1>1. (Len(rs) = 0 \/ Len(rs) = 1) /\ (rs = <<>> => Len(rs) = 0)
    OBVIOUS
  <1>2. (IF rs = <<>> THEN 1 ELSE Other(rs[Len(rs)].currentTeam)) = Len(rs) + 1
    BY <1>1 DEF Other
  <1>3. ~(Len(rs) + 1 > 2)
    BY <1>1, Counts
  <1>4. \A t : NextEncryptor(rs, t) = 0
    BY <1>3 DEF NextEncryptor
  <1>5. QED
    BY <1>2, <1>4 DEF NewRound

LEMMA PlayedIs ==
    ASSUME NEW c \in Codes, NEW right \in BOOLEAN, NEW rs \in Seq(Round),
           rs = <<>> \/ (Len(rs) = 1 /\ rs # <<>> /\ rs[1].currentTeam = 1)
    PROVE  \E r : Saved(r, Len(rs) + 1, c) /\ Played(rs, c, right) = Append(rs, r)
  <1> DEFINE dealt == NewRound(rs, c)
             r == [dealt EXCEPT !.state = "DONE", !.clues = Dashes, !.decrypted = TRUE,
                                !.decrypt = IF right THEN dealt.secret ELSE NoCode]
             n == Len(rs) + 1
  <1>1. dealt = [n |-> n, currentTeam |-> n, state |-> "NEW", encryptor |-> 0,
                 secret |-> c, clues |-> NoClues, decrypt |-> NoCode, decrypted |-> FALSE,
                 intercept |-> NoCode, intercepted |-> FALSE]
    BY DealtIs
  <1>2. n \in Teams
    <2>1. Len(rs) = 0 \/ Len(rs) = 1
      OBVIOUS
    <2>2. n = 1 \/ n = 2
      BY <2>1, Counts
    <2>3. QED
      BY <2>2 DEF Teams
  <1>3. Played(rs, c, right) = Append(rs, r)
    BY DEF Played
  <1>4. Saved(r, n, c)
    <2> HIDE DEF dealt, n
    <2>1. QED
      BY <1>1, <1>2, DealtIsSaved
  <1> HIDE DEF r, dealt
  <1>5. QED
    BY <1>3, <1>4

LEMMA PlayedTwice ==
    ASSUME NEW c \in Codes, NEW right1 \in BOOLEAN, NEW right2 \in BOOLEAN
    PROVE  \E r1, r2 : /\ Saved(r1, 1, c) /\ Saved(r2, 2, c)
                       /\ Played(Played(<<>>, c, right1), c, right2) = <<r1, r2>>
  <1>1. PICK r1 : Saved(r1, Len(<<>>) + 1, c) /\ Played(<<>>, c, right1) = Append(<<>>, r1)
    <2>1. <<>> \in Seq(Round)
      OBVIOUS
    <2>2. QED
      BY <2>1, PlayedIs
  <1>2. Saved(r1, 1, c) /\ Played(<<>>, c, right1) = <<r1>>
    BY <1>1
  <1> DEFINE rs == <<r1>>
  <1>3. rs \in Seq(Round) /\ Len(rs) = 1 /\ rs # <<>> /\ rs[1].currentTeam = 1
    BY <1>2 DEF Saved
  <1> HIDE DEF rs
  <1>4. PICK r2 : Saved(r2, Len(rs) + 1, c) /\ Played(rs, c, right2) = Append(rs, r2)
    BY <1>3, PlayedIs
  <1>5. Saved(r2, 2, c) /\ Played(<<r1>>, c, right2) = <<r1, r2>>
    BY <1>3, <1>4 DEF rs
  <1>6. QED
    BY <1>2, <1>5

\* Two rounds decide nothing: each team has failed once at most, and nothing
\* was intercepted.
LEMMA SavedRounds ==
    ASSUME MaxRounds >= 2, NEW c \in Codes, NEW r1, NEW r2, Saved(r1, 1, c), Saved(r2, 2, c), NEW rs, rs = <<r1, r2>>
    PROVE  /\ rs \in Seq(Round) /\ Len(rs) = 2 /\ rs[2].state = "DONE" /\ rs[1].state = "DONE"
           /\ rs[1].n = 1 /\ rs[2].n = 2
           /\ Shape(rs) /\ Bounded(rs) /\ SessionContinues(rs, rs) /\ ~IsGameOver(Recount(rs))
  <1>0. 1 \in Teams /\ 2 \in Teams
    BY DEF Teams
  <1>1. /\ rs \in Seq(Round) /\ Len(rs) = 2 /\ DOMAIN rs = {1, 2}
        /\ rs[1] = r1 /\ rs[2] = r2
    BY DEF Saved
  <1>2. \A i \in {1, 2} : /\ rs[i].n = i /\ rs[i].currentTeam = i /\ rs[i].state = "DONE" /\ rs[i].encryptor = 0
                          /\ rs[i].secret = c /\ rs[i].decrypted /\ ~rs[i].intercepted
    BY <1>1 DEF Saved
  <1>3. Size[1] \in 2..4 /\ Size[2] \in 2..4
    BY <1>0, SizeType
  <1>4. Shape(rs)
    <2>1. \A i \in {1, 2} : ValidRound(rs, i)
      BY <1>1, <1>2, <1>3 DEF ValidRound
    <2>2. \A i \in {1, 2} : Turn(rs, i)
      <3>1. 1 % 2 = 1 /\ 2 % 2 = 0 /\ (1 - 1) \div 2 = 0 /\ (2 - 1) \div 2 = 0 /\ 0 % Size[1] = 0 /\ 0 % Size[2] = 0
        BY <1>3
      <3>2. QED
        BY <1>2, <3>1 DEF Turn
    <2>3. QED
      BY <1>1, <2>1, <2>2 DEF Shape, ValidSnapshot
  <1>5. ASSUME NEW t \in Teams
        PROVE  Recount(rs)[t].interceptions = 0 /\ Recount(rs)[t].errors \in {0, 1}
    <2>1. InterceptedBy(rs, t) = {}
      BY <1>1, <1>2 DEF InterceptedBy, InterceptScores
    <2>2. FailedBy(rs, t) = {} \/ FailedBy(rs, t) = {t}
      BY <1>1, <1>2 DEF FailedBy, Teams
    <2>3. Cardinality({}) = 0 /\ Cardinality({t}) = 1
      BY FS_EmptySet, FS_Singleton
    <2>4. QED
      BY <2>1, <2>2, <2>3 DEF Recount
  <1>6. ~IsGameOver(Recount(rs))
    <2>1. \A t \in Teams : Other(t) \in Teams
      BY DEF Teams, Other
    <2>2. \A t \in Teams : ~Wins(Recount(rs), t)
      BY <1>5, <2>1 DEF Wins
    <2>3. QED
      BY <2>2 DEF IsGameOver
  <1>7. Bounded(rs)
    BY <1>5, <1>6 DEF Bounded
  <1>8. SessionContinues(rs, rs)
    BY <1>1, <1>2 DEF SessionContinues, Continues, Rank
  <1>9. QED
    BY <1>1, <1>2, <1>4, <1>6, <1>7, <1>8

LEMMA RestoredMatchInv == ASSUME MaxRounds >= 2, RestoredInit PROVE MatchInv
  <1>1. PICK c \in Codes, right1 \in BOOLEAN, right2 \in BOOLEAN :
          rounds = Played(Played(<<>>, c, right1), c, right2)
    BY DEF RestoredInit
  <1>2. PICK r1, r2 : Saved(r1, 1, c) /\ Saved(r2, 2, c) /\ rounds = <<r1, r2>>
    BY <1>1, PlayedTwice
  <1>3. /\ rounds \in Seq(Round) /\ Len(rounds) = 2 /\ rounds[1].state = "DONE" /\ rounds[2].state = "DONE"
        /\ rounds[2].n = 2
        /\ Shape(rounds) /\ Bounded(rounds) /\ SessionContinues(rounds, rounds) /\ ~IsGameOver(Recount(rounds))
    <2>1. MaxRounds >= 2
      OBVIOUS
    <2>2. QED
      BY <1>2, <2>1, SavedRounds
  <1>4. /\ saved = rounds /\ tokens = Recount(rounds) /\ control = "forward" /\ winner = 0
        /\ phase = "round_result" /\ round = 2 /\ timeouts = <<>>
        /\ acts = {} /\ accepted = {} /\ late = {} /\ draft = NoDraft
        /\ ch = Empty /\ sub = Idle /\ thinking = {} /\ answers = <<>>
        /\ at = "paused" /\ pick = Idle /\ todo = <<>> /\ cancelled = FALSE
        /\ kept.phase = "round_result" /\ kept.round = 2 /\ kept.timeouts = <<>> /\ kept.winner = 0
    BY DEF RestoredInit
  <1>5. Current = rounds[2] /\ Current.state = "DONE" /\ rounds # <<>>
    BY <1>3 DEF Current
  <1>6. Inv
    <2>1. TypeOK
      <3>1. MaxRounds \in Nat /\ Len(rounds) <= MaxRounds
        BY <1>3, SessionAssumption
      <3>2. Recount(rounds) \in Tokens
        BY <1>3, RecountType
      <3>3. QED
        BY <1>3, <1>4, <1>5, <3>1, <3>2 DEF TypeOK
    <2>2. QED
      BY <1>3, <1>4, <1>5, <2>1 DEF Inv, TokensAgree
  <1>7. RoomInChannels
    BY <1>4 DEF RoomInChannels, ChannelsKnown, FullIsClosed, HolderIsOpen, MutexFree, Empty
  <1>8. BridgeInv
    <2>1. Counted /\ AnswersTyped
      BY <1>4 DEF Counted, AnswersTyped
    <2>2. DraftsTyped
      BY <1>4 DEF DraftsTyped, NoDraft, Names, GuessNames
    <2>3. \A name \in Names : ch[name] = <<>>
      BY <1>4 DEF Empty
    <2>4. SentInRound
      BY <1>4, <2>3 DEF SentInRound, MutexFree
    <2>5. HeldInRound /\ ShownIsPlayed
      BY <1>4 DEF HeldInRound, ShownIsPlayed, InPhase
    <2>6. QED
      BY <1>6, <1>7, <2>1, <2>2, <2>4, <2>5 DEF BridgeInv
  <1>9. SettledInv
    BY <1>4, <1>8 DEF SettledInv, OpenInPhase, GuessAt, TodoKept, GuessHeld, ClosedIsSettled
  <1>10. Placed
    BY <1>4 DEF Placed, Phases, Places, WritingAt
  <1>11. Shown /\ OpenIsNeeded
    BY <1>3, <1>4, <1>5 DEF Shown, OpenIsNeeded, GuessAt
  <1>12. TimeoutsKept
    <2>1. <<>> \in Seq(Names) /\ DOMAIN <<>> = {}
      OBVIOUS
    <2>2. timeouts \in Seq(Names) /\ kept.timeouts \in Seq(Names) /\ DOMAIN timeouts = {} /\ DOMAIN kept.timeouts = {}
      BY <1>4, <2>1
    <2>3. TimeoutLists /\ TimeoutsSettled
      BY <2>2 DEF TimeoutLists, TimeoutsSettled, Distinct
    <2>4. KeptTimeoutsSettled
      BY <1>3, <1>4, <1>5, <2>2 DEF KeptTimeoutsSettled
    <2>5. QED
      BY <2>3, <2>4 DEF TimeoutsKept
  <1>13. Behind
    <2>1. 1..(Len(rounds) - 1) = {1}
      BY <1>3
    <2>2. QED
      BY <1>3, <1>4, <2>1 DEF Behind
  <1>14. DecidedRight /\ OverIsLast
    BY <1>4 DEF DecidedRight, OverIsLast
  <1>15. QED
    BY <1>9, <1>10, <1>11, <1>12, <1>13, <1>14 DEF MatchInv, RunningInv

\* A game restored after two rounds goes on as the match it was: what its snapshots
\* show from there on adds lines or decides it by the rules, nothing saved is taken
\* back, and no action or timeout is left unsettled (core.Restore, Session.Resume).
THEOREM RestoredGoesOn ==
    ASSUME MaxRounds >= 2
    PROVE  RestoredSpec => RestoredMatch /\ SavedStands /\ []SavedTimeoutsSettled /\ []ClosedIsSettled
  <1>1. RestoredInit => MatchInv
    BY RestoredMatchInv
  <1>2. MatchInv => SavedTimeoutsSettled /\ ClosedIsSettled
    BY RunningSettles DEF MatchInv, RunningInv, SettledInv
  <1>3. MatchInv /\ [Next]_vars => [SessionContinues(saved, saved')]_sessionVars
    BY StepOfSession, NextInv DEF MatchInv, RunningInv, SettledInv, BridgeInv
  <1> QED
    BY <1>1, <1>2, <1>3, MatchInvNext, MatchStep, PTL DEF RestoredSpec, RestoredMatch, SavedStands

LEMMA RestoredToldInv == RestoredInit => ToldInv
  <1> SUFFICES ASSUME RestoredInit PROVE ToldInv
    OBVIOUS
  <1>1. acts = {} /\ at = "paused" /\ told = NothingTold
    BY DEF RestoredInit
  <1>2. \A name \in GuessNames : told[name] = Nothing
    BY <1>1 DEF NothingTold, GuessNames, Names
  <1>3. OpenIsAsked /\ ToldIsHeld
    BY <1>1 DEF OpenIsAsked, ToldIsHeld, GuessAt, NothingTold
  <1>4. ToldIsGiven /\ GuessesStand
    BY <1>2 DEF ToldIsGiven, GuessesStand
  <1> QED
    BY <1>3, <1>4 DEF ToldInv

\* In a game restored after two rounds, too, the guess a team was told is in is
\* the one that is scored, as long as its process is not killed again
\* (SubmitGuess, acceptAIGuess, expired, recordGuess).
THEOREM RestoredGuessesStand ==
    ASSUME MaxRounds >= 2, ~CanCrash
    PROVE  RestoredSpec => []GuessesStand
  <1>1. RestoredInit => MatchInv /\ ToldInv
    BY RestoredMatchInv, RestoredToldInv
  <1>2. MatchInv => RunningInv
    BY DEF MatchInv
  <1>3. RunningInv /\ ToldInv /\ [Next]_vars => (RunningInv /\ ToldInv)'
    BY RunningNext, ToldNext
  <1>4. ToldInv => GuessesStand
    BY DEF ToldInv
  <1> QED
    BY <1>1, <1>2, <1>3, <1>4, PTL DEF RestoredSpec
=============================================================================
