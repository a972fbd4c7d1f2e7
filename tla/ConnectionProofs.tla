-------------------------- MODULE ConnectionProofs --------------------------
(***************************************************************************)
(* Both ends of a connection, for any number of sockets, seats, players,   *)
(* games, slots and messages on the way.  Module Hub: the types, and that  *)
(* a player's present client is always in the broadcast group.  Module     *)
(* Page: the tab has one line at most, is never left without one nor       *)
(* without a timer for the next, and a reload finds the seat it had.       *)
(* Once nothing is on its way it shows what the server has: the invariant  *)
(* is about every way the messages on their way can be received.           *)
(* Module Frames: what the page draws is what a full frame would show.     *)
(***************************************************************************)
EXTENDS Hub, Page, Frames, TLAPS

-----------------------------------------------------------------------------
\* The server's end: module Hub

(***************************************************************************)
(* The type invariant                                                      *)
(***************************************************************************)

\* An element appended to a queue with a free slot leaves it within its bound.
LEMMA AppendBounded ==
    ASSUME NEW q \in Seq(Clients), NEW c \in Clients, Free(q)
    PROVE  Append(q, c) \in Seq(Clients) /\ Len(Append(q, c)) <= Slots
  BY HubAssumption DEF Free

\* What is received from a queue is a client, and the rest is a shorter queue.
LEMMA ReceiveBounded ==
    ASSUME NEW q \in Seq(Clients), Len(q) <= Slots, q # <<>>
    PROVE  /\ Head(q) \in Clients
           /\ Tail(q) \in Seq(Clients) /\ Len(Tail(q)) <= Slots
  BY HubAssumption

LEMMA HubInit == Init => HubTypeOK
  BY HubAssumption DEF Init, HubTypeOK

LEMMA HubNext == HubTypeOK /\ [Next]_vars => HubTypeOK'
  <1> SUFFICES ASSUME HubTypeOK, [Next]_vars PROVE HubTypeOK'
    OBVIOUS
  <1> USE DEF HubTypeOK
  <1>1. ASSUME NEW c \in Clients, Connect(c) PROVE HubTypeOK'
    BY <1>1 DEF Connect, hubVars
  <1>2. ASSUME NEW c \in Clients, Register(c) PROVE HubTypeOK'
    BY <1>2, AppendBounded DEF Register
  <1>3. ASSUME NEW c \in Clients, HangUp(c) PROVE HubTypeOK'
    BY <1>3 DEF HangUp, hubVars
  <1>4. ASSUME NEW c \in Clients, Unregister(c) PROVE HubTypeOK'
    BY <1>4, AppendBounded DEF Unregister
  <1>5. ASSUME NEW c \in Clients, NEW p \in Players, Enter(c, p) PROVE HubTypeOK'
    BY <1>5 DEF Enter, hubVars
  <1>6. CASE RunRegister
    BY <1>6, ReceiveBounded DEF RunRegister
  <1>7. CASE RunUnregister
    BY <1>7, ReceiveBounded DEF RunUnregister, Removed, Reported
  <1>8. CASE Notify
    BY <1>8 DEF Notify
  <1>9. CASE UNCHANGED vars
    BY <1>9 DEF vars, hubVars
  <1> QED
    BY <1>1, <1>2, <1>3, <1>4, <1>5, <1>6, <1>7, <1>8, <1>9 DEF Next

(***************************************************************************)
(* The present client of a player                                          *)
(***************************************************************************)

LEMMA ReachedInit == Init => ActiveIsReached
  BY DEF Init, ActiveIsReached

\* Only Enter, RunUnregister and Notify can disturb it.  Enter takes a client
\* that had no name, so that nobody's present client changes its name; a client
\* that Run takes out of the group is in run until the handler has heard of it,
\* and run was free, so that it hides nobody else.
LEMMA ReachedNext == HubTypeOK /\ ActiveIsReached /\ [Next]_vars => ActiveIsReached'
  <1> SUFFICES ASSUME HubTypeOK, ActiveIsReached, [Next]_vars,
                      NEW p \in Players, active'[p] # NoClient
               PROVE  /\ identity'[active'[p]] = p
                      /\ active'[p] \in group' \/ run' = active'[p]
    BY DEF ActiveIsReached
  <1>a. active[p] # NoClient => /\ identity[active[p]] = p
                                /\ active[p] \in group \/ run = active[p]
    BY DEF ActiveIsReached
  <1>1. ASSUME NEW c \in Clients, NEW q \in Players, Enter(c, q)
        PROVE  /\ identity'[active'[p]] = p
               /\ active'[p] \in group' \/ run' = active'[p]
    <2>1. CASE p = q
      BY <1>1, <2>1 DEF Enter, hubVars, HubTypeOK
    <2>2. CASE p # q
      <3>1. active'[p] = active[p] /\ active[p] # c
        BY <1>1, <1>a, <2>2, HubAssumption DEF Enter, HubTypeOK
      <3> QED
        BY <1>1, <1>a, <3>1 DEF Enter, hubVars, HubTypeOK
    <2> QED
      BY <2>1, <2>2
  <1>2. CASE RunUnregister
    <2>1. active'[p] = active[p] /\ identity' = identity /\ active[p] \in group
      BY <1>2, <1>a DEF RunUnregister, HubTypeOK
    <2>2. group \ group' \subseteq {run'}
      BY <1>2 DEF RunUnregister, Removed, Reported
    <2> QED
      BY <1>a, <2>1, <2>2
  <1>3. CASE Notify
    BY <1>3, <1>a DEF Notify, HubTypeOK
  <1>4. CASE UNCHANGED <<active, identity, group, run>>
    BY <1>4, <1>a
  <1> QED
    BY <1>1, <1>2, <1>3, <1>4
    DEF Next, Connect, Register, HangUp, Unregister, RunRegister, vars, hubVars

\* Both channels stay within their capacity and hold clients of the right kind;
\* and as long as the hub has not begun to report a player's present client gone,
\* that client is in the broadcast group and carries the player's name: closing
\* an older client, in whatever order Run hears of the two, cannot cut it off.
THEOREM HubPlayersAreReached == Spec => []PlayersAreReached
  <1>1. Init => PlayersAreReached
    BY HubInit, ReachedInit DEF PlayersAreReached
  <1>2. PlayersAreReached /\ [Next]_vars => PlayersAreReached'
    BY HubNext, ReachedNext DEF PlayersAreReached
  <1> QED
    BY <1>1, <1>2, PTL DEF Spec

-----------------------------------------------------------------------------
\* The page's end: modules Socket and Page

\* A service in use has not been hung up, so that it goes on after a lost socket
InUse == service => ~leaving

SocketInv == SocketTypeOK /\ OneLine /\ NeverStranded /\ InUse

LEMMA DelayDoubled == ASSUME NEW d \in Delays PROVE Doubled(d) \in Delays
  BY DEF Delays, Doubled

LEMMA NoLineNotALine == NoLine \notin Lines
  BY SocketAssumption DEF NoLine, Lines

LEMMA SocketInitInv == SocketInit => SocketInv
  BY NoLineNotALine
  DEF SocketInit, SocketInv, SocketTypeOK, OneLine, NeverStranded, InUse, SocketStates, Live, Delays

\* Dial opens a socket only where none is up, and that one is then the service's.
LEMMA Dialled ==
    ASSUME SocketInv, Dial
    PROVE  /\ line' \in [Lines -> SocketStates]
           /\ ws' \in Lines
           /\ \A l \in Lines : line'[l] \in Live => l = ws'
  <1>1. CASE Up /\ UNCHANGED <<line, ws>>
    BY <1>1 DEF SocketInv, SocketTypeOK, OneLine, Up
  <1>2. ASSUME ~Up, NEW k \in Lines, line[k] = "unborn",
               line' = [line EXCEPT ![k] = "connecting"], ws' = k
        PROVE  /\ line' \in [Lines -> SocketStates]
               /\ ws' \in Lines
               /\ \A l \in Lines : line'[l] \in Live => l = ws'
    <2>1. \A l \in Lines : line[l] \notin Live
      BY <1>2 DEF SocketInv, OneLine, Up
    <2> QED
      BY <1>2, <2>1 DEF SocketInv, SocketTypeOK, SocketStates
  <1> QED
    BY <1>1, <1>2 DEF Dial

LEMMA SocketNextInv == SocketInv /\ [SocketNext]_socketVars => SocketInv'
  <1> SUFFICES ASSUME SocketInv, [SocketNext]_socketVars PROVE SocketInv'
    OBVIOUS
  <1> USE NoLineNotALine DEF SocketInv, SocketTypeOK, OneLine, NeverStranded, InUse
  <1>1. CASE NewService
    <2>1. ws = NoLine /\ ~retrying /\ Dial /\ service' = TRUE /\ UNCHANGED retrying
          /\ leaving' = FALSE /\ delay' = 1
      BY <1>1 DEF NewService
    <2>2. /\ line' \in [Lines -> SocketStates] /\ ws' \in Lines
          /\ \A l \in Lines : line'[l] \in Live => l = ws'
      BY <2>1, Dialled
    <2> QED
      BY <2>1, <2>2 DEF Delays
  <1>2. ASSUME NEW l \in Lines, Opened(l) PROVE SocketInv'
    BY <1>2 DEF Opened, SocketStates, Live, Delays
  <1>3. ASSUME NEW l \in Lines, Failed(l) PROVE SocketInv'
    BY <1>3 DEF Failed, SocketStates, Live
  <1>4. ASSUME NEW l \in Lines, Closed(l) PROVE SocketInv'
    BY <1>4 DEF Closed, SocketStates, Live
  <1>5. CASE Redial
    BY <1>5, Dialled, DelayDoubled DEF Redial
  <1>6. CASE SocketHangUp
    BY <1>6 DEF SocketHangUp, SocketStates, Live
  <1>7. CASE Unloaded
    BY <1>7 DEF Unloaded, SocketStates, Live, Delays
  <1>8. CASE UNCHANGED socketVars
    BY <1>8 DEF socketVars
  <1> QED
    BY <1>1, <1>2, <1>3, <1>4, <1>5, <1>6, <1>7, <1>8 DEF SocketNext

\* Everything the store does to its connection is a step of the service.
LEMMA StepOfSocket == [PageNext]_pageVars => [SocketNext]_socketVars
  <1> SUFFICES ASSUME [PageNext]_pageVars PROVE [SocketNext]_socketVars
    OBVIOUS
  <1>1. CASE \/ (\E elsewhere \in BOOLEAN : PageConnect(elsewhere))
             \/ Retry \/ Disconnect \/ Reset \/ Reload
    BY <1>1 DEF PageConnect, Retry, Disconnect, Reset, Reload, SocketNext
  <1>2. ASSUME NEW l \in Lines, Open(l) \/ Fail(l) \/ Close(l) PROVE SocketNext
    BY <1>2 DEF Open, Fail, Close, SocketNext
  <1>3. ASSUME NEW l \in Lines, Receive(l) \/ Handle(l) PROVE UNCHANGED socketVars
    BY <1>3 DEF Receive, Handle, HandleEnter, HandleResume, HandleReopen
  <1>4. CASE PageEnter \/ Return \/ SendSync \/ Reopen \/ Expire \/ UNCHANGED pageVars
    BY <1>4 DEF PageEnter, Return, SendSync, Reopen, Tell, Expire, pageVars
  <1>5. CASE GameStep
    BY <1>5 DEF GameStep, StartGame, NextRound, BeginGuess, Finish, End, Answer, Announce, Tell
  <1> QED
    BY <1>1, <1>2, <1>3, <1>4, <1>5 DEF PageNext

\* A tab with a service has one socket that is up at most, the one it sends on,
\* and either has a socket whose end it will hear of or the timer that opens the
\* next; a tab that hung up has neither: whatever the network, late events of
\* earlier sockets, the timer and reloads do in whatever order (websocket.ts).
THEOREM PageHasOneLine == PageSpec => [](OneLine /\ NeverStranded)
  <1>1. PageInit => SocketInv
    BY SocketInitInv DEF PageInit
  <1>2. SocketInv => OneLine /\ NeverStranded
    BY DEF SocketInv
  <1> QED
    BY <1>1, <1>2, StepOfSocket, SocketNextInv, PTL DEF PageSpec

-----------------------------------------------------------------------------
(* The seat a reload finds *)

ScreenPhases == {"home", "room", "encrypting", "guess", "round_result", "game_over"}
GamePhases == {"encrypting", "guess", "round_result", "game_over"}
Roles == {"", "encryptor", "teammate", "opponent", "observer"}

GoodPage(p) == DOMAIN p = DOMAIN Initial /\ p.phase \in ScreenPhases /\ p.role \in Roles
GoodView(v) ==
    v # NoView => "token" \notin DOMAIN v /\ v.phase \in ScreenPhases /\ v.role \in Roles

\* What the server puts on the wire
GoodMessage(m) ==
    /\ m.type \in {"room_created", "room_resumed", "room_state", "game_start", "phase_change",
                   "action_submitted", "clues_submitted", "round_result", "game_over",
                   "full_sync", "timeout", "resume_expired"}
    /\ m.type \in {"game_start", "phase_change"} => m.view.role \in Roles
    /\ m.type = "phase_change" => m.phase \in {"new_round", "encrypting", "guess"}
    /\ m.type = "full_sync" => GoodView(m.view)

Mail(s) == \E S : s \in Seq(S) /\ \A m \in S : GoodMessage(m)

LEMMA NoMail == Mail(<<>>)
  <1> DEFINE S == {}
  <1>1. <<>> \in Seq(S) /\ \A m \in S : GoodMessage(m)
    OBVIOUS
  <1> HIDE DEF S
  <1> QED
    BY <1>1 DEF Mail

LEMMA MailGrows ==
    ASSUME NEW s, Mail(s), NEW m, GoodMessage(m)
    PROVE  Mail(Append(s, m)) /\ Mail(s \o <<m>>)
  <1>1. PICK S : s \in Seq(S) /\ \A k \in S : GoodMessage(k)
    BY DEF Mail
  <1> DEFINE T == S \cup {m}
  <1>2. s \in Seq(T) /\ m \in T /\ \A k \in T : GoodMessage(k)
    BY <1>1
  <1> HIDE DEF T
  <1>3. Append(s, m) \in Seq(T) /\ s \o <<m>> \in Seq(T)
    BY <1>2
  <1> QED
    BY <1>2, <1>3 DEF Mail

LEMMA MailGrowsByTwo ==
    ASSUME NEW s, Mail(s), NEW m, GoodMessage(m), NEW n, GoodMessage(n)
    PROVE  Mail(s \o <<m, n>>)
  <1>1. PICK S : s \in Seq(S) /\ \A k \in S : GoodMessage(k)
    BY DEF Mail
  <1> DEFINE T == S \cup {m, n}
  <1>2. s \in Seq(T) /\ m \in T /\ n \in T /\ \A k \in T : GoodMessage(k)
    BY <1>1
  <1> HIDE DEF T
  <1>3. s \o <<m, n>> \in Seq(T)
    BY <1>2
  <1> QED
    BY <1>2, <1>3 DEF Mail

LEMMA MailRead ==
    ASSUME NEW s, Mail(s), s # <<>>
    PROVE  GoodMessage(Head(s)) /\ Mail(Tail(s))
  <1>1. PICK S : s \in Seq(S) /\ \A k \in S : GoodMessage(k)
    BY DEF Mail
  <1>2. Head(s) \in S /\ Tail(s) \in Seq(S)
    BY <1>1
  <1> QED
    BY <1>1, <1>2 DEF Mail

LEMMA RunningView ==
    ASSUME NEW s, Running(s), s.phase \in GamePhases \cup {"new_round"}
    PROVE  /\ View(s).role \in Roles /\ "token" \notin DOMAIN View(s)
           /\ View(s).phase = s.phase
  <1>1. Role(seat, s.round) \in Roles
    BY DEF Role, Roles
  <1> QED
    BY <1>1 DEF View

\* The store keeps its fields, phases and roles, whatever it is set to.
LEMMA SetFields ==
    ASSUME NEW p, GoodPage(p), NEW fields,
           "phase" \in DOMAIN fields => fields["phase"] \in ScreenPhases,
           "role" \in DOMAIN fields => fields["role"] \in Roles
    PROVE  /\ GoodPage(With(p, fields))
           /\ With(p, fields).token = IF "token" \in DOMAIN fields THEN fields["token"] ELSE p.token
           /\ With(p, fields).phase = IF "phase" \in DOMAIN fields THEN fields["phase"] ELSE p.phase
  <1>1. DOMAIN With(p, fields) = DOMAIN p
    BY DEF With
  <1>2. \A f \in DOMAIN p : With(p, fields)[f] = IF f \in DOMAIN fields THEN fields[f] ELSE p[f]
    BY DEF With
  <1>3. {"phase", "role", "token"} \subseteq DOMAIN p
    BY DEF GoodPage, Initial
  <1> QED
    BY <1>1, <1>2, <1>3 DEF GoodPage

LEMMA ClearedFields ==
    /\ "phase" \notin DOMAIN Cleared /\ "token" \notin DOMAIN Cleared
    /\ "role" \in DOMAIN Cleared /\ Cleared["role"] = ""
  BY DEF Cleared, GameFields, Initial

LEMMA InitialPage == GoodPage(Initial) /\ Initial.token = FALSE
  BY DEF GoodPage, Initial, ScreenPhases, Roles

\* A page cleared of its game, in the room or where it was
LEMMA ClearedPage ==
    ASSUME NEW p, GoodPage(p), NEW fields,
           "phase" \in DOMAIN fields => fields["phase"] \in ScreenPhases,
           "role" \notin DOMAIN fields, "token" \notin DOMAIN fields
    PROVE  /\ GoodPage(With(With(p, Cleared), fields))
           /\ With(With(p, Cleared), fields).token = p.token
  <1> DEFINE q == With(p, Cleared)
  <1>1. GoodPage(q) /\ q.token = p.token
    BY ClearedFields, SetFields DEF Roles
  <1> HIDE DEF q
  <1>2. GoodPage(With(q, fields)) /\ With(q, fields).token = q.token
    BY <1>1, SetFields
  <1> QED
    BY <1>1, <1>2 DEF q

LEMMA RoomStateHandled ==
    ASSUME NEW p, GoodPage(p), NEW m
    PROVE  GoodPage(OnRoomState(p, m)) /\ OnRoomState(p, m).token = p.token
  <1> DEFINE lobby == ~m.started /\ (p.phase # "game_over" \/ p.pendingLobby)
             back == lobby /\ p.phase \notin {"room", "home"}
             f == [pendingLobby |-> FALSE]
             q == IF back THEN With(With(p, Cleared), f) ELSE p
             g == [room |-> TRUE, phase |-> IF lobby THEN "room" ELSE p.phase]
  <1>1. OnRoomState(p, m) = With(q, g)
    BY DEF OnRoomState
  <1>2. "role" \notin DOMAIN f /\ "token" \notin DOMAIN f /\ "phase" \notin DOMAIN f
    OBVIOUS
  <1>3. DOMAIN g = {"room", "phase"} /\ g["phase"] \in ScreenPhases
    BY DEF GoodPage, ScreenPhases
  <1> HIDE DEF f, g
  <1>4. GoodPage(With(With(p, Cleared), f)) /\ With(With(p, Cleared), f).token = p.token
    BY <1>2, ClearedPage
  <1>5. GoodPage(q) /\ q.token = p.token
    BY <1>4
  <1> HIDE DEF q
  <1>6. GoodPage(With(q, g)) /\ With(q, g).token = q.token
    BY <1>3, <1>5, SetFields
  <1> QED
    BY <1>1, <1>5, <1>6

LEMMA FullSyncHandled ==
    ASSUME NEW p, GoodPage(p), NEW m, GoodView(m.view)
    PROVE  GoodPage(OnFullSync(p, m)) /\ OnFullSync(p, m).token = p.token
  <1> DEFINE e == [recovering |-> FALSE, change |-> NoChange, room |-> TRUE]
             q == With(p, e)
             v == m.view
             f == [phase |-> "room", pendingLobby |-> FALSE]
             g == [x \in DOMAIN v |-> v[x]]
  <1>1. OnFullSync(p, m) = IF v = NoView THEN With(With(q, Cleared), f) ELSE With(q, g)
    BY DEF OnFullSync
  <1>2. /\ DOMAIN e = {"recovering", "change", "room"}
        /\ DOMAIN f = {"phase", "pendingLobby"} /\ f["phase"] \in ScreenPhases
    BY DEF ScreenPhases
  <1> HIDE DEF e, f
  <1>3. GoodPage(q) /\ q.token = p.token
    BY <1>2, SetFields
  <1> HIDE DEF q
  <1>4. /\ GoodPage(With(With(q, Cleared), f))
        /\ With(With(q, Cleared), f).token = q.token
    BY <1>2, <1>3, ClearedPage
  <1>5. ASSUME v # NoView PROVE GoodPage(With(q, g)) /\ With(q, g).token = q.token
    <2>1. "token" \notin DOMAIN v /\ v.phase \in ScreenPhases /\ v.role \in Roles
      BY <1>5 DEF GoodView
    <2>2. /\ DOMAIN g = DOMAIN v
          /\ "phase" \in DOMAIN g => g["phase"] \in ScreenPhases
          /\ "role" \in DOMAIN g => g["role"] \in Roles
          /\ "token" \notin DOMAIN g
      BY <2>1
    <2> HIDE DEF g
    <2> QED
      BY <1>3, <2>2, SetFields
  <1> QED
    BY <1>1, <1>3, <1>4, <1>5

LEMMA SubmittedHandled ==
    ASSUME NEW p, GoodPage(p), NEW m
    PROVE  GoodPage(OnActionSubmitted(p, m)) /\ OnActionSubmitted(p, m).token = p.token
  <1> DEFINE q == [p EXCEPT !.actions[m.action] = TRUE]
             f == [submitted |-> TRUE, waiting |-> TRUE]
  <1>1. OnActionSubmitted(p, m) \in {p, q, With(q, f)}
    BY DEF OnActionSubmitted
  <1>2. GoodPage(q) /\ q.token = p.token
    BY DEF GoodPage, Initial
  <1>3. DOMAIN f = {"submitted", "waiting"}
    OBVIOUS
  <1> HIDE DEF q, f
  <1>4. GoodPage(With(q, f)) /\ With(q, f).token = q.token
    BY <1>2, <1>3, SetFields
  <1> QED
    BY <1>1, <1>2, <1>4

\* The other handlers set some fields, and only one of them the seat's.
LEMMA MessageHandled ==
    ASSUME NEW p, GoodPage(p), NEW m, GoodMessage(m)
    PROVE  /\ GoodPage(OnMessage(p, m))
           /\ m.type = "room_created" => OnMessage(p, m).token = TRUE
           /\ m.type = "resume_expired" => OnMessage(p, m).token = FALSE
           /\ m.type \notin {"room_created", "resume_expired"} => OnMessage(p, m).token = p.token
  <1> DEFINE Same(q) == GoodPage(q) /\ q.token = p.token
  <1>a. ASSUME NEW f, "token" \notin DOMAIN f,
               "phase" \in DOMAIN f => f["phase"] \in ScreenPhases,
               "role" \in DOMAIN f => f["role"] \in Roles
        PROVE  Same(With(p, f))
    BY <1>a, SetFields
  <1>b. p.phase \in ScreenPhases
    BY DEF GoodPage
  <1>1. CASE m.type = "room_created"
    <2> DEFINE f == [token |-> TRUE, recovering |-> FALSE, room |-> TRUE, phase |-> "room"]
    <2>1. /\ DOMAIN f = {"token", "recovering", "room", "phase"}
          /\ f["token"] = TRUE /\ f["phase"] \in ScreenPhases
      BY DEF ScreenPhases
    <2>2. OnMessage(p, m) = With(p, f)
      BY <1>1 DEF OnMessage, OnRoomCreated
    <2> HIDE DEF f
    <2>3. GoodPage(With(p, f)) /\ With(p, f).token = TRUE
      BY <2>1, SetFields
    <2> QED
      BY <1>1, <2>2, <2>3
  <1>2. CASE m.type = "resume_expired"
    <2> DEFINE f == [connected |-> p.connected]
    <2>1. DOMAIN f = {"connected"}
      OBVIOUS
    <2>2. OnMessage(p, m) = With(Initial, f)
      BY <1>2 DEF OnMessage, Home
    <2> HIDE DEF f
    <2>3. GoodPage(With(Initial, f)) /\ With(Initial, f).token = FALSE
      BY <2>1, SetFields, InitialPage
    <2> QED
      BY <1>2, <2>2, <2>3
  <1>3. CASE m.type = "room_resumed"
    <2> DEFINE f == [room |-> TRUE]
    <2>1. DOMAIN f = {"room"}
      OBVIOUS
    <2>2. OnMessage(p, m) = With(p, f)
      BY <1>3 DEF OnMessage
    <2> HIDE DEF f
    <2>3. Same(With(p, f))
      BY <1>a, <2>1
    <2> QED
      BY <1>3, <2>2, <2>3
  <1>4. CASE m.type = "room_state"
    BY <1>4, RoomStateHandled DEF OnMessage
  <1>5. CASE m.type = "game_start"
    <2> DEFINE f == [round |-> m.view.round, role |-> m.view.role, words |-> m.view.words]
    <2>1. DOMAIN f = {"round", "role", "words"} /\ f["role"] \in Roles
      BY <1>5 DEF GoodMessage
    <2>2. OnMessage(p, m) = With(p, f)
      BY <1>5 DEF OnMessage, OnGameStart
    <2> HIDE DEF f
    <2>3. Same(With(p, f))
      BY <1>a, <2>1
    <2> QED
      BY <1>5, <2>2, <2>3
  <1>6. CASE m.type = "phase_change"
    <2> DEFINE v == m.view
               f == [phase |-> IF m.phase = "new_round" THEN "encrypting" ELSE m.phase,
                     timed |-> v.timed, submitted |-> v.submitted, recovering |-> FALSE,
                     actions |-> v.actions, round |-> v.round, role |-> v.role, secret |-> v.secret,
                     timeouts |-> IF \E t \in p.timeouts : t[1] # v.round THEN {} ELSE p.timeouts,
                     clues |-> m.phase = "guess",
                     rows |-> IF v.rows = 0 THEN p.rows ELSE v.rows,
                     waiting |-> v.waiting, result |-> NoResult]
    <2>1. /\ "token" \notin DOMAIN f
          /\ f["phase"] \in ScreenPhases /\ f["role"] \in Roles
      BY <1>6 DEF GoodMessage, ScreenPhases
    <2>2. OnMessage(p, m) = With(p, f)
      BY <1>6 DEF OnMessage, OnPhaseChange
    <2> HIDE DEF f
    <2>3. Same(With(p, f))
      BY <1>a, <2>1
    <2> QED
      BY <1>6, <2>2, <2>3
  <1>7. CASE m.type = "action_submitted"
    BY <1>7, SubmittedHandled DEF OnMessage
  <1>8. CASE m.type = "clues_submitted"
    <2> DEFINE f == [clues |-> TRUE, rows |-> IF m.view.rows = 0 THEN p.rows ELSE m.view.rows]
    <2>1. DOMAIN f = {"clues", "rows"}
      OBVIOUS
    <2>2. OnMessage(p, m) = With(p, f)
      BY <1>8 DEF OnMessage, OnCluesSubmitted
    <2> HIDE DEF f
    <2>3. Same(With(p, f))
      BY <1>a, <2>1
    <2> QED
      BY <1>8, <2>2, <2>3
  <1>9. CASE m.type = "round_result"
    <2> DEFINE v == m.view
               changes == IF p.connected /\ ~p.recovering /\ p.room
                          THEN Changes(p.score, v.score, v.result) ELSE {}
               f == [timed |-> FALSE, rows |-> v.rows, result |-> v.result, actions |-> NoActions,
                     submitted |-> FALSE, waiting |-> TRUE, score |-> v.score,
                     phase |-> "round_result",
                     change |-> IF changes # {} THEN [round |-> p.round, changes |-> changes]
                                                ELSE p.change]
    <2> HIDE DEF changes
    <2>1. /\ "token" \notin DOMAIN f /\ "role" \notin DOMAIN f
          /\ f["phase"] \in ScreenPhases
      BY DEF ScreenPhases
    <2>2. OnMessage(p, m) = With(p, f)
      BY <1>9 DEF OnMessage, OnRoundResult, changes
    <2> HIDE DEF f
    <2>3. Same(With(p, f))
      BY <1>a, <2>1
    <2> QED
      BY <1>9, <2>2, <2>3
  <1>10. CASE m.type = "game_over"
    <2> DEFINE f == [timed |-> FALSE, round |-> m.view.round, rows |-> m.view.rows, over |-> TRUE,
                     score |-> m.view.score, phase |-> "game_over"]
    <2>1. /\ "token" \notin DOMAIN f /\ "role" \notin DOMAIN f
          /\ f["phase"] \in ScreenPhases
      BY DEF ScreenPhases
    <2>2. OnMessage(p, m) = With(p, f)
      BY <1>10 DEF OnMessage, OnGameOver
    <2> HIDE DEF f
    <2>3. Same(With(p, f))
      BY <1>a, <2>1
    <2> QED
      BY <1>10, <2>2, <2>3
  <1>11. CASE m.type = "full_sync"
    BY <1>11, FullSyncHandled DEF OnMessage, GoodMessage
  <1>12. CASE m.type = "timeout"
    <2> DEFINE f == [timeouts |-> {t \in p.timeouts : t[1] = m.round /\ t[2] # m.action}
                                   \cup {<<m.round, m.action>>}]
    <2>1. DOMAIN f = {"timeouts"}
      OBVIOUS
    <2>2. OnMessage(p, m) = With(p, f)
      BY <1>12 DEF OnMessage, OnTimeout
    <2> HIDE DEF f
    <2>3. Same(With(p, f))
      BY <1>a, <2>1
    <2> QED
      BY <1>12, <2>2, <2>3
  <1> QED
    BY <1>1, <1>2, <1>3, <1>4, <1>5, <1>6, <1>7, <1>8, <1>9, <1>10, <1>11, <1>12 DEF GoodMessage

\* The store and what is kept for a reload
StoreInv ==
    /\ GoodPage(page) /\ kept \in BOOLEAN
    /\ service => page.token = kept
    /\ ~service => page.token = FALSE

\* The game of the room, as far as what is sent of it goes
SrvFields == {"stage", "joined", "game", "round", "phase", "accepted", "announced", "rows",
              "score", "timeouts", "result"}
SrvInv ==
    /\ DOMAIN srv = SrvFields
    /\ IF Running(srv) THEN srv.phase \in GamePhases ELSE srv.phase = ""

\* What is on its way, or about to be sent
WireInv ==
    /\ DOMAIN wire = Lines /\ \A l \in Lines : Mail(wire[l])
    /\ syncing # NoView => GoodView(syncing.view)
    /\ attached \in Lines \cup {NoLine} /\ overtaken \in BOOLEAN

PageInv == SocketInv /\ StoreInv /\ SrvInv /\ WireInv

LEMMA PageInitInv == PageInit => PageInv
  <1> SUFFICES ASSUME PageInit PROVE PageInv
    OBVIOUS
  <1>1. SocketInv
    BY SocketInitInv DEF PageInit
  <1>2. StoreInv
    BY InitialPage DEF PageInit, SocketInit, StoreInv
  <1>3. SrvInv
    BY DEF PageInit, SrvInv, SrvFields, Running
  <1>4. WireInv
    BY NoMail DEF PageInit, WireInv
  <1> QED
    BY <1>1, <1>2, <1>3, <1>4 DEF PageInv

LEMMA Disconnected ==
    ASSUME NEW p, GoodPage(p), p.token \in BOOLEAN
    PROVE  GoodPage(OnDisconnected(p)) /\ OnDisconnected(p).token = p.token
  <1> DEFINE f == [change |-> NoChange, connected |-> FALSE, recovering |-> TRUE]
             g == [change |-> NoChange, connected |-> FALSE]
  <1>1. DOMAIN f = {"change", "connected", "recovering"} /\ DOMAIN g = {"change", "connected"}
    OBVIOUS
  <1>2. OnDisconnected(p) = With(p, f) \/ (~p.token /\ OnDisconnected(p) = Initial)
        \/ OnDisconnected(p) = With(p, g)
    <2>1. CASE p.token
      BY <2>1 DEF OnDisconnected
    <2>2. CASE ~p.token /\ p.room
      BY <2>2 DEF OnDisconnected
    <2>3. CASE ~p.token /\ ~p.room
      BY <2>3 DEF OnDisconnected
    <2> QED
      BY <2>1, <2>2, <2>3
  <1> HIDE DEF f, g
  <1>3. /\ GoodPage(With(p, f)) /\ With(p, f).token = p.token
        /\ GoodPage(With(p, g)) /\ With(p, g).token = p.token
    BY <1>1, SetFields
  <1> QED
    BY <1>2, <1>3, InitialPage

LEMMA StoreNext == SocketInv /\ StoreInv /\ WireInv /\ [PageNext]_pageVars => StoreInv'
  <1> SUFFICES ASSUME SocketInv, StoreInv, WireInv, [PageNext]_pageVars PROVE StoreInv'
    OBVIOUS
  <1>a. /\ GoodPage(page) /\ kept \in BOOLEAN /\ service \in BOOLEAN
        /\ service => page.token = kept
        /\ ~service => page.token = FALSE
        /\ page.token \in BOOLEAN
    BY DEF StoreInv, SocketInv, SocketTypeOK
  <1>b. ASSUME NEW l \in Lines, ws = l PROVE service
    BY <1>b, NoLineNotALine DEF SocketInv, NeverStranded
  <1>c. ASSUME UNCHANGED <<kept, service>>, GoodPage(page'), page'.token = page.token
        PROVE  StoreInv'
    BY <1>a, <1>c DEF StoreInv
  <1>1. ASSUME NEW elsewhere \in BOOLEAN, PageConnect(elsewhere) PROVE StoreInv'
    <2> DEFINE f == [room |-> TRUE, token |-> TRUE, recovering |-> TRUE]
    <2>1. ~service /\ service' = TRUE /\ kept' = (kept /\ ~elsewhere)
      BY <1>1 DEF PageConnect, NewService
    <2>2. page' = IF ~page.token /\ kept' THEN With(page, f) ELSE page
      BY <1>1 DEF PageConnect
    <2>3. DOMAIN f = {"room", "token", "recovering"} /\ f["token"] = TRUE
      OBVIOUS
    <2> HIDE DEF f
    <2>4. GoodPage(With(page, f)) /\ With(page, f).token = TRUE
      BY <1>a, <2>3, SetFields
    <2>5. page.token = FALSE /\ kept' \in BOOLEAN
      BY <1>a, <2>1
    <2> QED
      BY <1>a, <2>1, <2>2, <2>4, <2>5 DEF StoreInv
  <1>2. ASSUME NEW l \in Lines, Open(l) PROVE StoreInv'
    <2> DEFINE back == ws = l /\ page.room /\ page.token
               f == [connected |-> TRUE, recovering |-> back \/ page.recovering]
    <2>1. UNCHANGED <<kept, service>> /\ page' = IF ws = l THEN With(page, f) ELSE page
      BY <1>2 DEF Open, Opened
    <2>2. DOMAIN f = {"connected", "recovering"}
      OBVIOUS
    <2> HIDE DEF f
    <2>3. GoodPage(With(page, f)) /\ With(page, f).token = page.token
      BY <1>a, <2>2, SetFields
    <2> QED
      BY <1>a, <1>c, <2>1, <2>3
  <1>3. ASSUME NEW l \in Lines, Close(l) PROVE StoreInv'
    <2>1. /\ UNCHANGED <<kept, service>>
          /\ page' = IF ws = l /\ ~leaving THEN OnDisconnected(page) ELSE page
      BY <1>3 DEF Close, Closed
    <2>2. GoodPage(OnDisconnected(page)) /\ OnDisconnected(page).token = page.token
      BY <1>a, Disconnected
    <2> QED
      BY <1>a, <1>c, <2>1, <2>2
  <1>4. ASSUME NEW l \in Lines, Receive(l) PROVE StoreInv'
    <2> DEFINE m == Head(wire[l])
    <2>1. /\ UNCHANGED service /\ wire[l] # <<>>
          /\ page' = IF ws = l THEN OnMessage(page, m) ELSE page
          /\ kept' = IF ws # l THEN kept
                     ELSE (kept \/ m.type = "room_created") /\ m.type # "resume_expired"
      BY <1>4 DEF Receive, socketVars
    <2>2. GoodMessage(m)
      BY <2>1, MailRead DEF WireInv
    <2> HIDE DEF m
    <2>3. CASE ws # l
      BY <1>a, <1>c, <2>1, <2>3
    <2>4. CASE ws = l
      <3>1. service /\ page.token = kept
        BY <1>a, <1>b, <2>4
      <3>2. /\ GoodPage(page')
            /\ m.type = "room_created" => page'.token = TRUE
            /\ m.type = "resume_expired" => page'.token = FALSE
            /\ m.type \notin {"room_created", "resume_expired"} => page'.token = page.token
        BY <1>a, <2>1, <2>2, <2>4, MessageHandled
      <3>3. kept' = ((kept \/ m.type = "room_created") /\ m.type # "resume_expired")
        BY <2>1, <2>4
      <3>4. page'.token = kept'
        BY <1>a, <3>1, <3>2, <3>3
      <3> QED
        BY <2>1, <3>1, <3>2, <3>3, <3>4 DEF StoreInv
    <2> QED
      BY <2>3, <2>4
  <1>5. CASE Return
    <2> DEFINE f == [pendingLobby |-> TRUE]
    <2>1. UNCHANGED <<kept, service>> /\ page' = With(page, f)
      BY <1>5 DEF Return, socketVars
    <2>2. DOMAIN f = {"pendingLobby"}
      OBVIOUS
    <2> HIDE DEF f
    <2>3. GoodPage(With(page, f)) /\ With(page, f).token = page.token
      BY <1>a, <2>2, SetFields
    <2> QED
      BY <1>c, <2>1, <2>3
  <1>6. CASE Disconnect \/ Reset \/ Reload
    <2>1. page' = Initial /\ service' = FALSE /\ (kept' = kept \/ kept' = FALSE)
      BY <1>6 DEF Disconnect, Reset, Reload, SocketHangUp, Unloaded
    <2> QED
      BY <1>a, <2>1, InitialPage DEF StoreInv
  <1>7. CASE \/ Retry \/ PageEnter \/ SendSync \/ Reopen \/ Expire \/ GameStep
             \/ UNCHANGED pageVars \/ (\E l \in Lines : Fail(l) \/ Handle(l))
    <2>1. UNCHANGED <<page, kept, service>>
      BY <1>7 DEF Retry, Redial, PageEnter, SendSync, Reopen, Expire, GameStep, StartGame,
                  NextRound, BeginGuess, Finish, End, Answer, Announce, Tell, pageVars,
                  storeVars, socketVars, Fail, Failed, Handle, HandleEnter, HandleResume,
                  HandleReopen
    <2> QED
      BY <1>a, <1>c, <2>1
  <1> QED
    BY <1>1, <1>2, <1>3, <1>4, <1>5, <1>6, <1>7 DEF PageNext

LEMMA SrvNext == SrvInv /\ [PageNext]_pageVars => SrvInv'
  <1> SUFFICES ASSUME SrvInv, [PageNext]_pageVars PROVE SrvInv'
    OBVIOUS
  <1>a. /\ DOMAIN srv = SrvFields
        /\ IF Running(srv) THEN srv.phase \in GamePhases ELSE srv.phase = ""
    BY DEF SrvInv
  <1>1. ASSUME NEW l \in Lines, HandleEnter(l) PROVE SrvInv'
    BY <1>1, <1>a DEF HandleEnter, SrvInv, SrvFields, Running
  <1>2. ASSUME NEW l \in Lines, HandleReopen(l) PROVE SrvInv'
    BY <1>2, <1>a DEF HandleReopen, Lobby, SrvInv, SrvFields, Running
  <1>3. CASE Reopen \/ Expire
    BY <1>3, <1>a DEF Reopen, Expire, Lobby, SrvInv, SrvFields, Running
  <1>4. CASE StartGame
    BY <1>4, <1>a DEF StartGame, PageRound, SrvInv, SrvFields, Running, GamePhases
  <1>5. CASE NextRound
    BY <1>5, <1>a DEF NextRound, PageRound, SrvInv, SrvFields, Running, GamePhases
  <1>6. CASE BeginGuess \/ End
    BY <1>6, <1>a DEF BeginGuess, End, SrvInv, SrvFields, Running, GamePhases
  <1>7. CASE Finish
    BY <1>7, <1>a DEF Finish, SrvInv, SrvFields, Running, GamePhases
  <1>8. ASSUME NEW a, Answer(a) \/ Announce(a) PROVE SrvInv'
    BY <1>8, <1>a DEF Answer, Announce, SrvInv, SrvFields, Running
  <1>9. CASE \/ (\E elsewhere \in BOOLEAN : PageConnect(elsewhere))
             \/ (\E l \in Lines : Open(l) \/ Fail(l) \/ Close(l) \/ Receive(l) \/ HandleResume(l))
             \/ Retry \/ PageEnter \/ Return \/ Disconnect \/ Reset \/ Reload
             \/ SendSync \/ UNCHANGED pageVars
    <2>1. UNCHANGED srv
      BY <1>9 DEF PageConnect, Open, Fail, Close, Receive, HandleResume, Retry, PageEnter,
                  Return, Disconnect, Reset, Reload, SendSync, pageVars, srvVars
    <2> QED
      BY <1>a, <2>1 DEF SrvInv
  <1> QED
    BY <1>1, <1>2, <1>3, <1>4, <1>5, <1>6, <1>7, <1>8, <1>9 DEF PageNext, Handle, GameStep

LEMMA MailPutDown ==
    ASSUME WireInv, NEW l \in Lines, NEW s, Mail(s), wire' = [wire EXCEPT ![l] = s],
           syncing' = syncing \/ syncing' = NoView \/ GoodView(syncing'.view),
           attached' \in Lines \cup {NoLine}, overtaken' \in BOOLEAN
    PROVE  WireInv'
  <1>1. DOMAIN wire' = Lines /\ \A k \in Lines : Mail(wire'[k])
    BY DEF WireInv
  <1>2. syncing' # NoView => GoodView(syncing'.view)
    BY DEF WireInv
  <1> QED
    BY <1>1, <1>2 DEF WireInv

\* What the game's goroutine tells the page
LEMMA Telling ==
    ASSUME WireInv, NEW ms, Tell(ms), \A s : Mail(s) => Mail(s \o ms)
    PROVE  WireInv'
  <1>1. /\ wire' = IF Reached THEN [wire EXCEPT ![attached] = @ \o ms] ELSE wire
        /\ UNCHANGED <<attached, syncing>> /\ overtaken' \in BOOLEAN
    BY DEF Tell, WireInv
  <1>2. CASE Reached
    <2>1. attached \in Lines
      BY <1>2 DEF Reached, WireInv
    <2>2. Mail(wire[attached] \o ms)
      BY <2>1 DEF WireInv
    <2>3. wire' = [wire EXCEPT ![attached] = wire[attached] \o ms]
      BY <1>1, <1>2
    <2> QED
      BY <1>1, <2>1, <2>2, <2>3, MailPutDown
  <1>3. CASE ~Reached
    BY <1>1, <1>3 DEF WireInv
  <1> QED
    BY <1>2, <1>3

LEMMA OneMessage == ASSUME NEW m, GoodMessage(m) PROVE \A s : Mail(s) => Mail(s \o <<m>>)
  BY MailGrows

LEMMA TwoMessages ==
    ASSUME NEW m, GoodMessage(m), NEW n, GoodMessage(n)
    PROVE  \A s : Mail(s) => Mail(s \o <<m, n>>)
  BY MailGrowsByTwo

LEMMA NoMessage == \A s : Mail(s) => Mail(s \o <<>>)
  <1> SUFFICES ASSUME NEW s, Mail(s) PROVE Mail(s \o <<>>)
    OBVIOUS
  <1>1. PICK S : s \in Seq(S) /\ \A k \in S : GoodMessage(k)
    BY DEF Mail
  <1>2. s \o <<>> = s
    BY <1>1
  <1> QED
    BY <1>2

\* A phase change carries the role of a seat in a running game.
LEMMA PhaseMessage ==
    ASSUME NEW s, DOMAIN s = SrvFields, Running(s),
           NEW p \in {"new_round", "encrypting", "guess"}
    PROVE  GoodMessage(PhaseChange(p, s))
  <1> DEFINE t == [s EXCEPT !.phase = p]
  <1>1. Running(t) /\ t.phase = p
    BY DEF Running, SrvFields
  <1>2. p \in GamePhases \cup {"new_round"}
    BY DEF GamePhases
  <1>3. PhaseChange(p, s) = [type |-> "phase_change", phase |-> p, view |-> View(t)]
    BY DEF PhaseChange
  <1> HIDE DEF t
  <1>4. View(t).role \in Roles
    BY <1>1, <1>2, RunningView
  <1> QED
    BY <1>3, <1>4 DEF GoodMessage

LEMMA GameTold == WireInv /\ SrvInv /\ GameStep => WireInv'
  <1> SUFFICES ASSUME WireInv, SrvInv, GameStep PROVE WireInv'
    OBVIOUS
  <1>a. /\ DOMAIN srv = SrvFields
        /\ IF Running(srv) THEN srv.phase \in GamePhases ELSE srv.phase = ""
    BY DEF SrvInv
  <1>1. CASE StartGame
    <2>1. /\ Tell(<<Now("game_start", srv'), PhaseChange("encrypting", srv')>>)
          /\ DOMAIN srv' = SrvFields /\ Running(srv') /\ srv'.phase = "encrypting"
      BY <1>1, <1>a DEF StartGame, PageRound, SrvFields, Running
    <2>2. View(srv').role \in Roles
      BY <2>1, RunningView DEF GamePhases
    <2>3. GoodMessage(Now("game_start", srv'))
      BY <2>2 DEF Now, GoodMessage
    <2>4. GoodMessage(PhaseChange("encrypting", srv'))
      BY <2>1, PhaseMessage
    <2> QED
      BY <2>1, <2>3, <2>4, TwoMessages, Telling
  <1>2. CASE NextRound
    <2>1. /\ Tell(<<PhaseChange("new_round", srv'), PhaseChange("encrypting", srv')>>)
          /\ DOMAIN srv' = SrvFields /\ Running(srv')
      BY <1>2, <1>a DEF NextRound, PageRound, SrvFields, Running
    <2>2. GoodMessage(PhaseChange("new_round", srv')) /\ GoodMessage(PhaseChange("encrypting", srv'))
      BY <2>1, PhaseMessage
    <2> QED
      BY <2>1, <2>2, TwoMessages, Telling
  <1>3. CASE BeginGuess
    <2>1. /\ Tell(<<Now("clues_submitted", srv), PhaseChange("guess", srv')>>)
          /\ DOMAIN srv' = SrvFields /\ Running(srv')
      BY <1>3, <1>a DEF BeginGuess, SrvFields, Running
    <2>2. GoodMessage(Now("clues_submitted", srv)) /\ GoodMessage(PhaseChange("guess", srv'))
      BY <2>1, PhaseMessage DEF Now, GoodMessage
    <2> QED
      BY <2>1, <2>2, TwoMessages, Telling
  <1>4. CASE Finish
    <2>1. Tell(<<Now("round_result", srv')>>) /\ GoodMessage(Now("round_result", srv'))
      BY <1>4 DEF Finish, Now, GoodMessage
    <2> QED
      BY <2>1, OneMessage, Telling
  <1>5. CASE End
    <2>1. Tell(<<Now("game_over", srv')>>) /\ GoodMessage(Now("game_over", srv'))
      BY <1>5 DEF End, Now, GoodMessage
    <2> QED
      BY <2>1, OneMessage, Telling
  <1>6. ASSUME NEW a, Answer(a) PROVE WireInv'
    <2> DEFINE m == [type |-> "timeout", round |-> srv.round, action |-> a]
    <2>1. Tell(<<m>>) \/ Tell(<<>>)
      BY <1>6 DEF Answer
    <2>2. GoodMessage(m)
      BY DEF GoodMessage
    <2> HIDE DEF m
    <2>3. CASE Tell(<<m>>)
      BY <2>2, <2>3, OneMessage, Telling
    <2>4. CASE Tell(<<>>)
      BY <2>4, NoMessage, Telling
    <2> QED
      BY <2>1, <2>3, <2>4
  <1>7. ASSUME NEW a, Announce(a) PROVE WireInv'
    <2> DEFINE m == [type |-> "action_submitted", round |-> srv.round, action |-> a]
    <2>1. Tell(<<m>>) /\ GoodMessage(m)
      BY <1>7 DEF Announce, GoodMessage
    <2> HIDE DEF m
    <2> QED
      BY <2>1, OneMessage, Telling
  <1> QED
    BY <1>1, <1>2, <1>3, <1>4, <1>5, <1>6, <1>7 DEF GameStep

LEMMA WireNext == WireInv /\ SrvInv /\ [PageNext]_pageVars => WireInv'
  <1> SUFFICES ASSUME WireInv, SrvInv, [PageNext]_pageVars PROVE WireInv'
    OBVIOUS
  <1>a. /\ DOMAIN wire = Lines /\ \A l \in Lines : Mail(wire[l])
        /\ attached \in Lines \cup {NoLine} /\ overtaken \in BOOLEAN
    BY DEF WireInv
  <1>1. ASSUME NEW l \in Lines, Close(l) PROVE WireInv'
    <2>1. /\ wire' = [wire EXCEPT ![l] = <<>>]
          /\ attached' = IF attached = l THEN NoLine ELSE attached
          /\ syncing' = IF attached = l THEN NoView ELSE syncing
          /\ UNCHANGED overtaken
      BY <1>1 DEF Close
    <2> QED
      BY <1>a, <2>1, NoMail, MailPutDown
  <1>2. ASSUME NEW l \in Lines, Receive(l) PROVE WireInv'
    <2>1. /\ wire' = [wire EXCEPT ![l] = Tail(wire[l])] /\ wire[l] # <<>>
          /\ UNCHANGED <<attached, syncing, overtaken>>
      BY <1>2 DEF Receive, srvVars
    <2>2. Mail(Tail(wire[l]))
      BY <1>a, <2>1, MailRead
    <2> QED
      BY <1>a, <2>1, <2>2, MailPutDown
  <1>3. CASE Reload
    BY <1>3, <1>a, NoMail DEF Reload, WireInv
  <1>4. ASSUME NEW l \in Lines, HandleEnter(l) PROVE WireInv'
    <2> DEFINE m == [type |-> "room_created"]
    <2>1. GoodMessage(m) /\ GoodMessage(RoomState(srv))
      BY DEF GoodMessage, RoomState
    <2>2. /\ UNCHANGED <<syncing, overtaken>>
          /\ \/ UNCHANGED <<attached, wire>>
             \/ attached' = l /\ wire' = [wire EXCEPT ![l] = wire[l] \o <<m, RoomState(srv)>>]
      BY <1>4 DEF HandleEnter
    <2> HIDE DEF m
    <2>3. CASE UNCHANGED <<attached, wire>>
      BY <2>2, <2>3 DEF WireInv
    <2>4. CASE attached' = l /\ wire' = [wire EXCEPT ![l] = wire[l] \o <<m, RoomState(srv)>>]
      <3>1. Mail(wire[l] \o <<m, RoomState(srv)>>)
        BY <1>a, <2>1, MailGrowsByTwo
      <3> QED
        BY <1>a, <2>2, <2>4, <3>1, MailPutDown
    <2> QED
      BY <2>2, <2>3, <2>4
  <1>5. ASSUME NEW l \in Lines, HandleResume(l) PROVE WireInv'
    <2> DEFINE m == [type |-> "room_resumed"]
               n == [type |-> "resume_expired"]
    <2>1. GoodMessage(m) /\ GoodMessage(n) /\ GoodMessage(RoomState(srv))
      BY DEF GoodMessage, RoomState
    <2>2. \/ /\ attached' = l /\ overtaken' = FALSE
             /\ wire' = [wire EXCEPT ![l] = wire[l] \o <<m, RoomState(srv)>>]
             /\ syncing' = [phase |-> "taken", view |-> View(srv)]
          \/ /\ wire' = [wire EXCEPT ![l] = Append(wire[l], n)]
             /\ UNCHANGED <<attached, overtaken, syncing>>
      BY <1>5 DEF HandleResume
    <2> HIDE DEF m, n
    <2>3. GoodView(View(srv))
      <3>1. CASE Running(srv)
        <4>1. srv.phase \in GamePhases
          BY <3>1 DEF SrvInv
        <4>2. View(srv).role \in Roles /\ "token" \notin DOMAIN View(srv) /\ View(srv).phase = srv.phase
          BY <3>1, <4>1, RunningView
        <4> QED
          BY <4>1, <4>2 DEF GoodView, GamePhases, ScreenPhases
      <3>2. CASE ~Running(srv)
        BY <3>2 DEF View, GoodView
      <3> QED
        BY <3>1, <3>2
    <2>4. Mail(wire[l] \o <<m, RoomState(srv)>>) /\ Mail(Append(wire[l], n))
      BY <1>a, <2>1, MailGrows, MailGrowsByTwo
    <2>5. [phase |-> "taken", view |-> View(srv)].view = View(srv)
      OBVIOUS
    <2>6. CASE /\ attached' = l /\ overtaken' = FALSE
               /\ wire' = [wire EXCEPT ![l] = wire[l] \o <<m, RoomState(srv)>>]
               /\ syncing' = [phase |-> "taken", view |-> View(srv)]
      BY <1>a, <2>3, <2>4, <2>5, <2>6, MailPutDown
    <2>7. CASE /\ wire' = [wire EXCEPT ![l] = Append(wire[l], n)]
               /\ UNCHANGED <<attached, overtaken, syncing>>
      BY <1>a, <2>4, <2>7, MailPutDown
    <2> QED
      BY ONLY <2>2, <2>6, <2>7
  <1>6. ASSUME NEW l \in Lines, HandleReopen(l) PROVE WireInv'
    <2>1. GoodMessage(RoomState(srv'))
      BY DEF GoodMessage, RoomState
    <2>2. /\ UNCHANGED <<attached, syncing, overtaken>>
          /\ \/ UNCHANGED wire
             \/ wire' = [wire EXCEPT ![l] = Append(wire[l], RoomState(srv'))]
      BY <1>6 DEF HandleReopen
    <2>3. Mail(Append(wire[l], RoomState(srv')))
      BY <1>a, <2>1, MailGrows
    <2>4. CASE UNCHANGED wire
      BY <2>2, <2>4 DEF WireInv
    <2> QED
      BY <1>a, <2>2, <2>3, <2>4, MailPutDown
  <1>7. CASE SendSync
    <2> DEFINE m == [type |-> "full_sync", view |-> syncing.view]
    <2>1. /\ syncing # NoView /\ syncing' = NoView /\ UNCHANGED <<attached, overtaken>>
          /\ wire' = IF Reached THEN [wire EXCEPT ![attached] = Append(wire[attached], m)] ELSE wire
      BY <1>7 DEF SendSync
    <2>2. GoodMessage(m)
      BY <2>1 DEF WireInv, GoodMessage
    <2> HIDE DEF m
    <2>3. CASE Reached
      <3>1. attached \in Lines
        BY <1>a, <2>3 DEF Reached
      <3>2. Mail(Append(wire[attached], m))
        BY <1>a, <2>2, <3>1, MailGrows
      <3> QED
        BY <1>a, <2>1, <2>3, <3>1, <3>2, MailPutDown
    <2>4. CASE ~Reached
      BY <2>1, <2>4 DEF WireInv
    <2> QED
      BY <2>3, <2>4
  <1>8. CASE Reopen
    <2>1. Tell(<<RoomState(srv')>>) /\ GoodMessage(RoomState(srv'))
      BY <1>8 DEF Reopen, GoodMessage, RoomState
    <2> QED
      BY <2>1, OneMessage, Telling
  <1>9. CASE GameStep
    BY <1>9, GameTold
  <1>10. CASE \/ (\E elsewhere \in BOOLEAN : PageConnect(elsewhere))
              \/ (\E l \in Lines : Open(l) \/ Fail(l))
              \/ Retry \/ PageEnter \/ Return \/ Disconnect \/ Reset \/ Expire
              \/ UNCHANGED pageVars
    <2>1. UNCHANGED <<wire, attached, syncing, overtaken>>
      BY <1>10 DEF PageConnect, Open, Fail, Retry, PageEnter, Return, Disconnect, Reset, Expire,
                   pageVars, srvVars
    <2> QED
      BY <2>1 DEF WireInv
  <1> QED
    BY <1>1, <1>2, <1>3, <1>4, <1>5, <1>6, <1>7, <1>8, <1>9, <1>10 DEF PageNext, Handle

\* However often the line is cut, hung up or replaced, whatever timer, message or
\* event of an earlier socket comes late: the tab has one line at most, is never
\* left without one nor without a timer for the next, and a reload finds the seat
\* it had, and no seat that was left or has expired (websocket.ts, gameStore.ts).
THEOREM PageKeepsItsSeat == PageSpec => []KeepsItsSeat
  <1>1. PageInv /\ [PageNext]_pageVars => PageInv'
    BY StepOfSocket, SocketNextInv, StoreNext, SrvNext, WireNext DEF PageInv
  <1>2. PageInv => KeepsItsSeat
    BY DEF PageInv, SocketInv, StoreInv, WireInv, GoodPage, ScreenPhases, Roles,
           KeepsItsSeat, PageTypeOK, ReloadFindsSeat
  <1> QED
    BY <1>1, <1>2, PageInitInv, PTL DEF PageSpec
-----------------------------------------------------------------------------
\* The frames of the machine: Frames

Loops == [raf : BOOLEAN, sleep : BOOLEAN, dirty : BOOLEAN, owed : BOOLEAN, disposed : BOOLEAN,
          copy : {"none", "fresh", "stale"}, enabled : BOOLEAN, failed : BOOLEAN, checked : BOOLEAN]
Scenes == [moving : BOOLEAN, needle : BOOLEAN, shadow : BOOLEAN]
Canvases == [rest : BOOLEAN, regions : BOOLEAN, kind : {"none", "partial", "full"}]
Panes == [sized : BOOLEAN, hidden : BOOLEAN, live : BOOLEAN, front : BOOLEAN]
Tunings == [choice : Settings, auto : Levels, engine : Levels,
            probe : {"off", "due", "heard", "unheard", "measured"}, warm : 0 .. Warm]

\* A copy that is out of date, or a canvas, is behind something that the loop
\* still has to do
CopyIsDue(l, p) == l.copy = "stale" => l.dirty \/ ~p.sized
RestIsDue(l, c, p) == ~c.rest => l.dirty \/ ~p.sized
RegionsAreDue(l, c, p, s) ==
    ~c.regions => l.dirty \/ l.owed \/ ~p.sized \/ ~p.front \/ p.live \/ s.moving
MovesInFrames(l, s) == s.moving => l.raf \/ l.disposed
\* Only Auto measures
AutoMeasures(t) == t.probe \in {"due", "heard", "measured"} => t.choice = AutoQuality

FramesInv ==
    /\ loop \in Loops /\ scene \in Scenes /\ canvas \in Canvases /\ pane \in Panes /\ tuning \in Tunings
    /\ loop.disposed => ~loop.raf /\ ~loop.sleep /\ tuning.probe = "off"
    /\ PartialIsWhole
    /\ CopyIsDue(loop, pane) /\ RestIsDue(loop, canvas, pane)
    /\ RegionsAreDue(loop, canvas, pane, scene) /\ MovesInFrames(loop, scene)
    /\ AutoMeasures(tuning) /\ DrawnAsChosen

LEMMA LevelsAre == Levels = {0, 1, 2}
  BY DEF Levels

\* A frame or a sleep that is asked for changes nothing else of the loop
LEMMA ScheduledIs ==
    ASSUME NEW l \in Loops, NEW changed \in BOOLEAN, NEW probing \in BOOLEAN
    PROVE  /\ Scheduled(l, changed, probing) \in Loops
           /\ Scheduled(l, changed, probing).dirty = l.dirty /\ Scheduled(l, changed, probing).owed = l.owed
           /\ Scheduled(l, changed, probing).copy = l.copy /\ Scheduled(l, changed, probing).disposed = l.disposed
           /\ Scheduled(l, changed, probing).enabled = l.enabled /\ Scheduled(l, changed, probing).failed = l.failed
           /\ changed => Scheduled(l, changed, probing).raf
  BY DEF Scheduled, NextSleep, Loops

\* A full frame is whole, and its copy is up to date
LEMMA FullyIs ==
    ASSUME NEW l \in Loops, NEW c, NEW changed, Fully(l, c, changed)
    PROVE  /\ loop' \in Loops /\ loop'.copy # "stale"
           /\ loop'.dirty = l.dirty /\ loop'.owed = l.owed /\ loop'.raf = l.raf
           /\ loop'.sleep = l.sleep /\ loop'.disposed = l.disposed
           /\ canvas' \in Canvases /\ canvas'.rest /\ canvas'.regions
  <1>1. canvas' \in Canvases /\ canvas'.rest /\ canvas'.regions
    BY DEF Fully, Canvases
  <1>2. \/ loop' = [l EXCEPT !.copy = "fresh"]
        \/ loop' = [l EXCEPT !.failed = TRUE, !.copy = "none"]
        \/ loop' = [l EXCEPT !.copy = "none"]
    BY DEF Fully
  <1>3. QED
    BY <1>1, <1>2 DEF Loops

\* A partial frame over a copy that is up to date is whole as well
LEMMA PartiallyIs ==
    ASSUME NEW l \in Loops, NEW c, l.copy = "fresh", Partially(l, c)
    PROVE  /\ loop' \in Loops /\ loop'.copy # "stale"
           /\ loop'.dirty = l.dirty /\ loop'.owed = l.owed /\ loop'.raf = l.raf
           /\ loop'.sleep = l.sleep /\ loop'.disposed = l.disposed
           /\ canvas' \in Canvases /\ canvas'.rest /\ canvas'.regions
  <1>1. canvas' \in Canvases /\ canvas'.rest /\ canvas'.regions
    <2>1. PICK kind \in {"partial", "full"} : canvas' = [rest |-> TRUE, regions |-> TRUE, kind |-> kind]
      <3>1. CASE l.checked
        BY <3>1 DEF Partially
      <3>2. CASE ~l.checked
        BY <3>2 DEF Partially
      <3>3. QED
        BY <3>1, <3>2
    <2>2. QED
      BY <2>1 DEF Canvases
  <1>2. \/ loop' = l
        \/ loop' = [l EXCEPT !.checked = TRUE]
        \/ loop' = [l EXCEPT !.checked = TRUE, !.failed = TRUE, !.copy = "none"]
    BY DEF Partially
  <1>3. QED
    BY <1>1, <1>2 DEF Loops

\* A probe counts down and ends; it chooses nothing
LEMMA CountedIs ==
    ASSUME tuning \in Tunings, AutoMeasures(tuning), DrawnAsChosen, NEW due, CountProbe(due)
    PROVE  /\ tuning' \in Tunings /\ AutoMeasures(tuning') /\ DrawnAsChosen'
           /\ tuning'.auto = tuning.auto
  <1>w. Warm \in Nat
    BY FramesAssumption
  <1>1. CASE tuning' = tuning
    BY <1>1 DEF DrawnAsChosen, Level
  <1>2. CASE tuning.warm > 0 /\ tuning' = [tuning EXCEPT !.warm = @ - 1]
    <2>1. tuning.warm \in 0 .. Warm /\ tuning.warm - 1 \in 0 .. Warm
      BY <1>2, <1>w DEF Tunings
    <2>2. tuning' \in Tunings
      BY <1>2, <2>1 DEF Tunings
    <2>3. QED
      BY <1>2, <2>2 DEF Tunings, AutoMeasures, DrawnAsChosen, Level
  <1>3. CASE Probing /\ tuning' = [tuning EXCEPT !.probe = IF @ = "heard" THEN "measured" ELSE "off"]
    BY <1>3 DEF Tunings, AutoMeasures, DrawnAsChosen, Level, AutoQuality
  <1>4. QED
    BY <1>1, <1>2, <1>3 DEF CountProbe

\* One frame
LEMMA TickKeeps ==
    ASSUME FramesInv, Tick
    PROVE  FramesInv' /\ (tuning.probe = "measured" => tuning'.auto <= tuning.auto)
  <1>0. /\ loop \in Loops /\ scene \in Scenes /\ canvas \in Canvases /\ pane \in Panes /\ tuning \in Tunings
        /\ loop.raf /\ ~loop.disposed /\ ~pane.hidden /\ tuning.probe # "measured" /\ pane' = pane
        /\ CopyIsDue(loop, pane) /\ RestIsDue(loop, canvas, pane)
        /\ RegionsAreDue(loop, canvas, pane, scene) /\ MovesInFrames(loop, scene)
        /\ AutoMeasures(tuning) /\ DrawnAsChosen
    BY DEF FramesInv, Tick
  <1> DEFINE changed == scene.moving
             dirty == loop.dirty
             owed == Owed(scene.needle)
             casting == scene.shadow /\ tuning.engine > 0
             due(t) == Visible /\ (changed \/ dirty \/ Probing \/ AmbientDue(owed, t))
             c == [canvas EXCEPT !.rest = @ /\ ~changed, !.regions = @ /\ ~(scene.needle \/ pane.live), !.kind = "none"]
             l(t) == [(IF changed THEN StaleCopy(loop) ELSE loop) EXCEPT
                        !.raf = FALSE, !.dirty = @ /\ ~due(t), !.owed = owed /\ ~due(t)]
             probing(t) == Probing /\ ~(due(t) /\ tuning.warm = 0)
             s(t) == Scheduled(l(t), changed, probing(t))
  <1>1. PICK moving \in BOOLEAN, needle \in BOOLEAN, timeUp \in BOOLEAN :
          /\ moving => scene.moving
          /\ scene' = [moving |-> moving, needle |-> needle, shadow |-> scene.shadow /\ ~(due(timeUp) /\ casting)]
          /\ CountProbe(due(timeUp))
          /\ IF ~due(timeUp) \/ (~changed /\ ~dirty /\ ~Probing /\ ~pane.front)
             THEN loop' = s(timeUp) /\ canvas' = c
             ELSE IF PartialFrame(changed, dirty, casting) THEN Partially(s(timeUp), c)
             ELSE Fully(s(timeUp), c, changed)
    BY DEF Tick
  <1> DEFINE t == timeUp
  <1>2. /\ changed \in BOOLEAN /\ dirty \in BOOLEAN /\ owed \in BOOLEAN /\ casting \in BOOLEAN
        /\ due(t) \in BOOLEAN /\ probing(t) \in BOOLEAN
        /\ scene.needle => owed
        /\ loop.owed => owed
    BY <1>0 DEF Owed, AmbientDue, Visible, Probing, Loops, Scenes, Panes, Tunings
  <1>3. /\ l(t) \in Loops /\ l(t).dirty = (dirty /\ ~due(t)) /\ l(t).owed = (owed /\ ~due(t)) /\ ~l(t).disposed
        /\ l(t).copy = IF changed /\ loop.copy # "none" THEN "stale" ELSE loop.copy
    <2> HIDE DEF due, owed
    <2>1. due(t) \in BOOLEAN /\ owed \in BOOLEAN
      BY <1>2
    <2>2. QED
      BY <1>0, <2>1 DEF Loops, StaleCopy
  <1>4. c \in Canvases /\ c.rest = (canvas.rest /\ ~changed) /\ c.kind = "none"
        /\ c.regions = (canvas.regions /\ ~(scene.needle \/ pane.live))
    BY <1>0 DEF Canvases, Scenes, Panes
  <1>5. /\ s(t) \in Loops /\ s(t).dirty = (dirty /\ ~due(t)) /\ s(t).owed = (owed /\ ~due(t)) /\ ~s(t).disposed
        /\ s(t).copy = l(t).copy /\ (changed => s(t).raf)
    <2> DEFINE a == l(t)
               b == probing(t)
    <2>1. a \in Loops /\ changed \in BOOLEAN /\ b \in BOOLEAN
      BY <1>2, <1>3
    <2> HIDE DEF a, b, changed
    <2>2. /\ Scheduled(a, changed, b) \in Loops /\ Scheduled(a, changed, b).dirty = a.dirty
          /\ Scheduled(a, changed, b).owed = a.owed /\ Scheduled(a, changed, b).disposed = a.disposed
          /\ Scheduled(a, changed, b).copy = a.copy /\ (changed => Scheduled(a, changed, b).raf)
      BY <2>1, ScheduledIs
    <2>3. s(t) = Scheduled(a, changed, b)
      BY DEF a, b
    <2>4. a.dirty = (dirty /\ ~due(t)) /\ a.owed = (owed /\ ~due(t)) /\ ~a.disposed /\ a.copy = l(t).copy
      BY <1>3 DEF a
    <2> HIDE DEF s, due, owed, dirty, l
    <2>5. QED
      BY <2>2, <2>3, <2>4
  <1>6. scene' \in Scenes /\ (scene'.moving => changed)
    BY <1>0, <1>1 DEF Scenes
  <1>7. tuning' \in Tunings /\ AutoMeasures(tuning') /\ DrawnAsChosen' /\ tuning'.auto = tuning.auto
    BY <1>0, <1>1, CountedIs
  <1>d. due(t) <=> pane.sized /\ (changed \/ dirty \/ Probing \/ AmbientDue(owed, t))
    BY DEF Visible
  <1> HIDE DEF due, owed, l, probing, s, c, casting
  <1>8. CASE ~due(t) \/ (~changed /\ ~dirty /\ ~Probing /\ ~pane.front)
    <2>1. loop' = s(t) /\ canvas' = c
      BY <1>1, <1>8
    <2>2. CopyIsDue(loop, pane)' /\ RestIsDue(loop, canvas, pane)'
      BY <1>0, <1>3, <1>4, <1>5, <1>8, <1>d, <2>1 DEF CopyIsDue, RestIsDue
    <2>3. RegionsAreDue(loop, canvas, pane, scene)' /\ MovesInFrames(loop, scene)'
      <3>1. CASE ~due(t)
        BY <1>0, <1>2, <1>4, <1>5, <1>6, <1>d, <2>1, <3>1 DEF RegionsAreDue, MovesInFrames
      <3>2. CASE ~changed /\ ~pane.front
        BY <1>0, <1>4, <1>5, <1>6, <2>1, <3>2 DEF RegionsAreDue, MovesInFrames
      <3>3. QED
        BY <1>8, <3>1, <3>2
    <2>4. QED
      BY <1>0, <1>4, <1>5, <1>6, <1>7, <2>1, <2>2, <2>3 DEF FramesInv, PartialIsWhole
  <1>9. CASE due(t) /\ ~(~changed /\ ~dirty /\ ~Probing /\ ~pane.front)
    <2>1. /\ loop' \in Loops /\ loop'.copy # "stale" /\ loop'.raf = s(t).raf /\ ~loop'.disposed
          /\ canvas' \in Canvases /\ canvas'.rest /\ canvas'.regions
      <3>1. CASE PartialFrame(changed, dirty, casting)
        <4>1. s(t).copy = "fresh"
          BY <1>0, <1>3, <1>5, <1>9, <1>d, <3>1 DEF PartialFrame, CopyIsDue, Loops
        <4>2. Partially(s(t), c)
          BY <1>1, <1>9, <3>1
        <4>3. QED
          BY <1>5, <4>1, <4>2, PartiallyIs
      <3>2. CASE ~PartialFrame(changed, dirty, casting)
        <4>1. Fully(s(t), c, changed)
          BY <1>1, <1>9, <3>2
        <4>2. QED
          BY <1>5, <4>1, FullyIs
      <3>3. QED
        BY <3>1, <3>2
    <2>2. CopyIsDue(loop, pane)' /\ RestIsDue(loop, canvas, pane)' /\ RegionsAreDue(loop, canvas, pane, scene)'
      BY <2>1 DEF CopyIsDue, RestIsDue, RegionsAreDue
    <2>3. MovesInFrames(loop, scene)' /\ PartialIsWhole'
      BY <1>5, <1>6, <2>1 DEF MovesInFrames, PartialIsWhole
    <2>4. QED
      BY <1>0, <1>6, <1>7, <2>1, <2>2, <2>3 DEF FramesInv
  <1>10. due(t) \in BOOLEAN
    BY <1>2 DEF due
  <1>11. QED
    BY <1>8, <1>9, <1>10

\* A new size leaves nothing to do but what it asks for
LEMMA ResizedIs ==
    ASSUME NEW l \in Loops, ~l.disposed, NEW sized
    PROVE  /\ Resized(l, sized) \in Loops /\ Resized(l, sized).dirty /\ Resized(l, sized).copy = "none"
           /\ Resized(l, sized).raf /\ ~Resized(l, sized).disposed
  BY DEF Resized, Woken, Loops

\* A level that is applied is the level that is drawn
LEMMA AppliedIs ==
    ASSUME FramesInv, ~loop.disposed, NEW t \in Tunings, AutoMeasures(t), t.engine = tuning.engine,
           NEW l \in Loops, ~l.disposed, l.dirty = loop.dirty, l.owed = loop.owed,
           l.copy \in {loop.copy, "none"}, loop.raf => l.raf,
           NEW level \in Levels, level = Level(t), ApplyQuality(t, level, l), UNCHANGED pane
    PROVE  FramesInv' /\ tuning'.auto = t.auto
  <1>0. /\ loop \in Loops /\ scene \in Scenes /\ canvas \in Canvases /\ pane \in Panes /\ tuning \in Tunings
        /\ pane' = pane
    BY DEF FramesInv
  <1>1. CASE level = tuning.engine
    <2>1. tuning' = t /\ loop' = l /\ UNCHANGED <<canvas, scene>>
      BY <1>1 DEF ApplyQuality
    <2>2. DrawnAsChosen'
      BY <1>1, <2>1 DEF DrawnAsChosen
    <2>3. QED
      BY <1>0, <2>1, <2>2
         DEF FramesInv, PartialIsWhole, CopyIsDue, RestIsDue, RegionsAreDue, MovesInFrames
  <1>2. CASE level # tuning.engine
    <2>1. /\ tuning' = [t EXCEPT !.engine = level] /\ loop' = Resized(l, Visible)
          /\ canvas' = [rest |-> Visible, regions |-> Visible, kind |-> "none"]
          /\ scene' = [scene EXCEPT !.shadow = ~(Visible /\ level > 0)]
      BY <1>2 DEF ApplyQuality
    <2>2. tuning' \in Tunings /\ AutoMeasures(tuning') /\ DrawnAsChosen' /\ tuning'.auto = t.auto
      BY <2>1 DEF Tunings, AutoMeasures, DrawnAsChosen, Level
    <2>3. /\ loop' \in Loops /\ loop'.dirty /\ loop'.copy = "none" /\ loop'.raf /\ ~loop'.disposed
      BY <1>0, <2>1, ResizedIs
    <2>4. canvas' \in Canvases /\ canvas'.kind = "none" /\ scene' \in Scenes
      <3>1. Visible \in BOOLEAN /\ (~(Visible /\ level > 0)) \in BOOLEAN
        BY <1>0 DEF Visible, Panes
      <3>2. QED
        BY <1>0, <2>1, <3>1 DEF Canvases, Scenes
    <2>5. QED
      BY <1>0, <2>2, <2>3, <2>4 DEF FramesInv, PartialIsWhole, CopyIsDue, RestIsDue, RegionsAreDue, MovesInFrames
  <1>3. QED
    BY <1>1, <1>2

\* A measurement that is asked for wakes the loop and drops the copy
LEMMA ProbedIs ==
    ASSUME NEW l \in Loops, ~l.disposed
    PROVE  /\ Probed(l) \in Loops /\ ~Probed(l).disposed /\ Probed(l).raf /\ Probed(l).copy = "none"
           /\ Probed(l).dirty = l.dirty /\ Probed(l).owed = l.owed
  BY DEF Probed, Woken, Loops

\* It changes no level
LEMMA AsksProbeIs ==
    ASSUME NEW t \in Tunings
    PROVE  /\ AsksProbe(t) \in Tunings /\ AsksProbe(t).probe = "heard"
           /\ AsksProbe(t).auto = t.auto /\ AsksProbe(t).choice = t.choice /\ AsksProbe(t).engine = t.engine
  <1>1. Warm \in 0 .. Warm
    BY FramesAssumption
  <1>2. QED
    BY <1>1 DEF AsksProbe, Tunings

\* A measurement settles on a level no higher
LEMMA SettlesDown ==
    ASSUME NEW level \in Levels, NEW cost
    PROVE  SettleQuality(level, cost) \in Levels /\ SettleQuality(level, cost) <= level
  <1>1. CASE level = 0
    BY <1>1, LevelsAre DEF SettleQuality
  <1>2. CASE level = 1
    BY <1>2, LevelsAre DEF SettleQuality
  <1>3. CASE level = 2
    BY <1>3, LevelsAre DEF SettleQuality
  <1>4. QED
    BY <1>1, <1>2, <1>3, LevelsAre

\* What asks for a frame, and what chooses a level
LEMMA FramesKeeps ==
    ASSUME FramesInv, [FramesNext]_framesVars
    PROVE  FramesInv' /\ [tuning.probe = "measured" => tuning'.auto <= tuning.auto]_framesVars
  <1>0. /\ loop \in Loops /\ scene \in Scenes /\ canvas \in Canvases /\ pane \in Panes /\ tuning \in Tunings
        /\ loop.disposed => ~loop.raf /\ ~loop.sleep /\ tuning.probe = "off"
        /\ CopyIsDue(loop, pane) /\ RestIsDue(loop, canvas, pane)
        /\ RegionsAreDue(loop, canvas, pane, scene) /\ MovesInFrames(loop, scene)
        /\ AutoMeasures(tuning) /\ DrawnAsChosen /\ PartialIsWhole
    BY DEF FramesInv
  <1>a. tuning.auto \in Levels /\ tuning.auto <= tuning.auto
    BY <1>0 DEF Tunings, Levels
  <1>t. tuning' = tuning => AutoMeasures(tuning') /\ DrawnAsChosen' /\ tuning' \in Tunings
    BY <1>0 DEF DrawnAsChosen, Level
  <1>w. 0 \in 0 .. Warm /\ Warm \in 0 .. Warm
    BY FramesAssumption
  <1>p. \A u \in Tunings : \A p \in {"off", "due", "heard", "unheard", "measured"}, w \in 0 .. Warm :
           LET v == [u EXCEPT !.probe = p, !.warm = w]
           IN  v \in Tunings /\ v.auto = u.auto /\ v.choice = u.choice /\ v.engine = u.engine /\ v.probe = p
    BY DEF Tunings
  <1>n. NoProbe \in Tunings /\ NoProbe.auto = tuning.auto /\ NoProbe.choice = tuning.choice
        /\ NoProbe.engine = tuning.engine /\ NoProbe.probe = "off"
    BY <1>0, <1>w, <1>p DEF NoProbe
  <1>1. CASE Tick
    BY <1>1, TickKeeps
  <1>2. CASE HiddenTick
    <2>1. loop' \in Loops /\ loop'.dirty /\ loop'.raf /\ loop'.copy = loop.copy /\ ~loop'.disposed
          /\ UNCHANGED <<scene, canvas, pane, tuning>>
      BY <1>0, <1>2 DEF HiddenTick, Loops
    <2>2. QED
      BY <1>0, <1>a, <1>t, <2>1 DEF FramesInv, PartialIsWhole, CopyIsDue, RestIsDue, RegionsAreDue, MovesInFrames
  <1>3. CASE SleepEnds
    <2>1. loop' \in Loops /\ loop'.dirty = loop.dirty /\ loop'.owed = loop.owed /\ loop'.raf
          /\ loop'.copy = loop.copy /\ ~loop'.disposed /\ UNCHANGED <<scene, canvas, pane, tuning>>
      BY <1>0, <1>3 DEF SleepEnds, Woken, Loops
    <2>2. QED
      BY <1>0, <1>a, <1>t, <2>1 DEF FramesInv, PartialIsWhole, CopyIsDue, RestIsDue, RegionsAreDue, MovesInFrames
  <1>4. CASE Update \/ TextureArrives
    <2>1. /\ loop' \in Loops /\ loop'.dirty /\ ~loop'.disposed /\ (loop.raf \/ Update => loop'.raf)
      <3>1. ~loop.disposed /\ (loop' = StaleCopy([loop EXCEPT !.dirty = TRUE])
                               \/ (Update /\ loop' = StaleCopy(Woken([loop EXCEPT !.dirty = TRUE]))))
        BY <1>4 DEF Update, TextureArrives
      <3>2. ~Update => loop' = StaleCopy([loop EXCEPT !.dirty = TRUE])
        BY <3>1
      <3>3. Update => loop' = StaleCopy(Woken([loop EXCEPT !.dirty = TRUE]))
        BY DEF Update
      <3>4. QED
        BY <1>0, <3>1, <3>2, <3>3 DEF StaleCopy, Woken, Loops
    <2>2. canvas' \in Canvases /\ canvas'.kind = "none" /\ tuning' = tuning
      BY <1>0, <1>4 DEF Update, TextureArrives, Staled, Canvases
    <2>3. scene' \in Scenes /\ pane' \in Panes /\ (scene'.moving => scene.moving \/ Update)
      <3>1. CASE Update
        BY <1>0, <3>1 DEF Update, Scenes, Panes
      <3>2. CASE TextureArrives
        BY <1>0, <3>2 DEF TextureArrives
      <3>3. QED
        BY <1>4, <3>1, <3>2
    <2>4. MovesInFrames(loop, scene)'
      <3>1. ~loop.disposed
        BY <1>4 DEF Update, TextureArrives
      <3>2. QED
        BY <1>0, <2>1, <2>3, <3>1 DEF MovesInFrames
    <2>5. QED
      BY <1>a, <1>t, <2>1, <2>2, <2>3, <2>4 DEF FramesInv, PartialIsWhole, CopyIsDue, RestIsDue, RegionsAreDue
  <1>5. CASE Pulse
    <2>1. /\ loop' \in Loops /\ loop'.dirty = loop.dirty /\ loop'.owed = loop.owed /\ loop'.raf
          /\ loop'.copy = loop.copy /\ ~loop'.disposed
      BY <1>0, <1>5 DEF Pulse, Woken, Loops
    <2>2. scene' \in Scenes /\ scene'.moving /\ pane' \in Panes /\ pane'.sized = pane.sized
          /\ UNCHANGED <<canvas, tuning>>
      BY <1>0, <1>5 DEF Pulse, Scenes, Panes
    <2>3. QED
      BY <1>0, <1>a, <1>t, <2>1, <2>2 DEF FramesInv, PartialIsWhole, CopyIsDue, RestIsDue, RegionsAreDue, MovesInFrames
  <1>6. CASE Resize
    <2>1. PICK sized \in BOOLEAN :
            /\ pane' = [pane EXCEPT !.sized = sized]
            /\ canvas' = [rest |-> sized, regions |-> sized, kind |-> "none"]
            /\ scene' = [scene EXCEPT !.shadow = @ /\ ~(sized /\ tuning.engine > 0)]
            /\ loop' = Resized(loop, sized) /\ tuning' = tuning
      BY <1>6 DEF Resize
    <2>2. loop' \in Loops /\ loop'.dirty /\ loop'.copy = "none" /\ loop'.raf /\ ~loop'.disposed
      BY <1>0, <1>6, <2>1, ResizedIs DEF Resize
    <2>3. pane' \in Panes /\ canvas' \in Canvases /\ canvas'.kind = "none" /\ scene' \in Scenes
      <3>1. (scene.shadow /\ ~(sized /\ tuning.engine > 0)) \in BOOLEAN
        BY <1>0 DEF Scenes
      <3>2. QED
        BY <1>0, <2>1, <3>1 DEF Panes, Canvases, Scenes
    <2>4. QED
      BY <1>a, <1>t, <2>1, <2>2, <2>3
         DEF FramesInv, PartialIsWhole, CopyIsDue, RestIsDue, RegionsAreDue, MovesInFrames
  <1>7. CASE TabChanges
    <2>1. pane' \in Panes /\ pane'.sized = pane.sized /\ pane'.front = pane.front /\ pane'.live = pane.live
          /\ UNCHANGED <<loop, scene, canvas, tuning>>
      BY <1>0, <1>7 DEF TabChanges, Panes
    <2>2. QED
      BY <1>0, <1>a, <1>t, <2>1 DEF FramesInv, PartialIsWhole, CopyIsDue, RestIsDue, RegionsAreDue, MovesInFrames
  <1>8. CASE SwitchPartial
    <2>1. loop' \in Loops /\ loop'.copy \in {loop.copy, "none"} /\ loop'.raf = loop.raf /\ loop'.sleep = loop.sleep
          /\ loop'.dirty = loop.dirty /\ loop'.owed = loop.owed /\ loop'.disposed = loop.disposed
          /\ UNCHANGED <<scene, canvas, pane, tuning>>
      BY <1>0, <1>8 DEF SwitchPartial, Loops
    <2>2. QED
      BY <1>0, <1>a, <1>t, <2>1 DEF FramesInv, PartialIsWhole, CopyIsDue, RestIsDue, RegionsAreDue, MovesInFrames
  <1>9. CASE Dispose
    <2>1. loop' \in Loops /\ loop'.copy = loop.copy /\ ~loop'.raf /\ ~loop'.sleep
          /\ loop'.dirty = loop.dirty /\ loop'.owed = loop.owed /\ loop'.disposed
          /\ UNCHANGED <<scene, canvas, pane>>
      BY <1>0, <1>9 DEF Dispose, Loops
    <2>2. tuning' \in Tunings /\ AutoMeasures(tuning') /\ DrawnAsChosen' /\ tuning'.auto = tuning.auto /\ tuning'.probe = "off"
      BY <1>0, <1>9, <1>n DEF Dispose, AutoMeasures, DrawnAsChosen, Level
    <2>3. QED
      BY <1>0, <1>a, <2>1, <2>2 DEF FramesInv, PartialIsWhole, CopyIsDue, RestIsDue, RegionsAreDue, MovesInFrames
  <1>10. CASE ChooseQuality
    <2> DEFINE Chosen(choice) ==
          IF choice = AutoQuality THEN AsksProbe([tuning EXCEPT !.choice = choice, !.auto = 2])
          ELSE [tuning EXCEPT !.choice = choice, !.probe = IF Probing THEN "unheard" ELSE "off"]
    <2>1. PICK choice \in Settings :
            ApplyQuality(Chosen(choice), Level(Chosen(choice)), IF choice = AutoQuality THEN Probed(loop) ELSE loop)
      BY <1>10 DEF ChooseQuality
    <2>2. /\ Chosen(choice) \in Tunings /\ AutoMeasures(Chosen(choice)) /\ Chosen(choice).engine = tuning.engine
          /\ Level(Chosen(choice)) \in Levels
      <3>1. CASE choice = AutoQuality
        <4>1. 2 \in Levels /\ AutoQuality \in Settings
          BY DEF Levels, Settings
        <4>2. PICK u : u = [tuning EXCEPT !.choice = AutoQuality, !.auto = 2]
          OBVIOUS
        <4>3. u \in Tunings /\ u.choice = AutoQuality /\ u.auto = 2 /\ u.engine = tuning.engine
          BY <1>0, <4>1, <4>2 DEF Tunings
        <4>4. Chosen(choice) = AsksProbe(u)
          BY <3>1, <4>2
        <4> HIDE DEF Chosen
        <4>5. QED
          BY <4>1, <4>3, <4>4, AsksProbeIs DEF AutoMeasures, Level
      <3>2. CASE choice # AutoQuality
        <4>1. choice \in Levels
          BY <3>2 DEF Settings
        <4>2. PICK p \in {"off", "unheard"} : Chosen(choice) = [tuning EXCEPT !.choice = choice, !.probe = p]
          BY <3>2
        <4> HIDE DEF Chosen
        <4>3. Chosen(choice) \in Tunings /\ Chosen(choice).choice = choice /\ Chosen(choice).probe = p
              /\ Chosen(choice).engine = tuning.engine
          BY <1>0, <4>2 DEF Tunings
        <4>4. QED
          BY <3>2, <4>1, <4>3 DEF AutoMeasures, Level
      <3>3. QED
        BY <3>1, <3>2
    <2> HIDE DEF Chosen
    <2>3. ~loop.disposed /\ pane' = pane /\ tuning.probe # "measured"
      BY <1>10 DEF ChooseQuality
    <2>4. CASE choice = AutoQuality
      <3>1. ApplyQuality(Chosen(choice), Level(Chosen(choice)), Probed(loop))
        BY <2>1, <2>4
      <3>2. PICK l : l = Probed(loop)
        OBVIOUS
      <3>3. QED
        BY <1>0, <2>2, <2>3, <3>1, <3>2, ProbedIs, AppliedIs
    <2>5. CASE choice # AutoQuality
      <3>1. ApplyQuality(Chosen(choice), Level(Chosen(choice)), loop)
        BY <2>1, <2>5
      <3>2. QED
        BY <1>0, <2>2, <2>3, <3>1, AppliedIs
    <2>6. QED
      BY <2>4, <2>5
  <1>11. CASE AskProbe
    <2>1. /\ loop' = Probed(loop) /\ tuning' = AsksProbe(tuning) /\ ~loop.disposed
          /\ tuning.choice = AutoQuality /\ UNCHANGED <<scene, canvas, pane>>
      BY <1>0, <1>11 DEF AskProbe, AutoMeasures
    <2>2. loop' \in Loops /\ loop'.copy = "none" /\ loop'.raf /\ ~loop'.disposed
          /\ loop'.dirty = loop.dirty /\ loop'.owed = loop.owed
      BY <1>0, <2>1, ProbedIs
    <2>3. tuning' \in Tunings /\ AutoMeasures(tuning') /\ DrawnAsChosen' /\ tuning'.auto = tuning.auto
      BY <1>0, <2>1, AsksProbeIs DEF AutoMeasures, DrawnAsChosen, Level
    <2>4. QED
      BY <1>0, <1>a, <2>1, <2>2, <2>3 DEF FramesInv, PartialIsWhole, CopyIsDue, RestIsDue, RegionsAreDue, MovesInFrames
  <1>12. CASE Measured
    <2>1. PICK cost \in {"fits", "over", "far over"} :
            LET next == SettleQuality(tuning.auto, cost) IN
            IF next = tuning.auto THEN /\ tuning' = NoProbe /\ UNCHANGED <<canvas, scene, loop>>
            ELSE ApplyQuality(AsksProbe([tuning EXCEPT !.auto = next]), next, Probed(loop))
      BY <1>12 DEF Measured
    <2> DEFINE next == SettleQuality(tuning.auto, cost)
               u == [tuning EXCEPT !.auto = next]
               t == AsksProbe(u)
    <2>2. next \in Levels /\ next <= tuning.auto
      BY <1>a, SettlesDown
    <2>3. tuning.choice = AutoQuality /\ pane' = pane
      BY <1>0, <1>12 DEF Measured, AutoMeasures
    <2>4. CASE next = tuning.auto
      <3>1. tuning' = NoProbe /\ UNCHANGED <<canvas, scene, loop>>
        BY <2>1, <2>4
      <3>2. tuning' \in Tunings /\ AutoMeasures(tuning') /\ DrawnAsChosen' /\ tuning'.auto = tuning.auto
        BY <1>0, <3>1, <1>n DEF AutoMeasures, DrawnAsChosen, Level
      <3>3. QED
        BY <1>0, <1>a, <1>12, <2>3, <3>1, <3>2 DEF FramesInv, PartialIsWhole, Measured, NoProbe
    <2>5. CASE next # tuning.auto
      <3>1. ApplyQuality(t, next, Probed(loop))
        BY <2>1, <2>5
      <3>2. t \in Tunings /\ t.auto = next /\ t.choice = AutoQuality /\ t.engine = tuning.engine
        <4> HIDE DEF next
        <4>1. u \in Tunings /\ u.auto = next /\ u.choice = AutoQuality /\ u.engine = tuning.engine
          BY <1>0, <2>2, <2>3 DEF Tunings
        <4> HIDE DEF u
        <4>2. QED
          BY <4>1, AsksProbeIs
      <3>3. AutoMeasures(t) /\ Level(t) = next
        BY <3>2 DEF AutoMeasures, Level
      <3>4. ~loop.disposed
        BY <1>0, <1>12 DEF Measured
      <3> HIDE DEF t, next
      <3>5. PICK l : l = Probed(loop)
        OBVIOUS
      <3>6. QED
        BY <1>0, <2>2, <2>3, <3>1, <3>2, <3>3, <3>4, <3>5, ProbedIs, AppliedIs
    <2>6. QED
      BY <2>4, <2>5
  <1>13. CASE UNCHANGED framesVars
    BY <1>0, <1>13, <1>t DEF framesVars, FramesInv, PartialIsWhole
  <1>14. QED
    BY <1>1, <1>2, <1>3, <1>4, <1>5, <1>6, <1>7, <1>8, <1>9, <1>10, <1>11, <1>12, <1>13 DEF FramesNext

LEMMA FramesBegin == FramesInit => FramesInv
  <1> SUFFICES ASSUME FramesInit PROVE FramesInv
    OBVIOUS
  <1>1. loop \in Loops /\ loop.dirty /\ loop.copy = "none" /\ loop.raf /\ ~loop.disposed
    BY DEF FramesInit, Loops
  <1>2. scene \in Scenes /\ canvas \in Canvases /\ canvas.kind = "none" /\ pane \in Panes
    BY DEF FramesInit, Scenes, Canvases, Panes
  <1>3. tuning \in Tunings /\ AutoMeasures(tuning) /\ DrawnAsChosen
    BY FramesAssumption DEF FramesInit, Tunings, AutoMeasures, DrawnAsChosen, Level, Settings, AutoQuality
  <1>4. QED
    BY <1>1, <1>2, <1>3 DEF FramesInv, PartialIsWhole, CopyIsDue, RestIsDue, RegionsAreDue, MovesInFrames

\* A loop that is asleep has nothing to do
LEMMA FramesAreSo == FramesInv => FramesTypeOK /\ PartialIsWhole /\ AsleepIsCurrent /\ DrawnAsChosen
  <1> SUFFICES ASSUME FramesInv PROVE FramesTypeOK /\ PartialIsWhole /\ AsleepIsCurrent /\ DrawnAsChosen
    OBVIOUS
  <1>1. FramesTypeOK
    BY DEF FramesInv, FramesTypeOK, Loops, Canvases, Tunings
  <1>2. AsleepIsCurrent
    BY DEF FramesInv, AsleepIsCurrent, Seen, Visible, RestIsDue, RegionsAreDue, MovesInFrames
  <1>3. QED
    BY <1>1, <1>2 DEF FramesInv

\* What is on the canvas is what a full frame would show, and it is drawn at the
\* level chosen, which no measurement raises, for any number of frames before one
\* is measured (engine.ts, partialRedraw.ts, quality.ts).
THEOREM FramesAreCurrent == FramesSpec => CanvasIsCurrent
  <1>1. FramesInv /\ [FramesNext]_framesVars => FramesInv'
    BY FramesKeeps
  <1>2. FramesInv /\ [FramesNext]_framesVars => [tuning.probe = "measured" => tuning'.auto <= tuning.auto]_framesVars
    BY FramesKeeps
  <1>3. QED
    BY <1>1, <1>2, FramesBegin, FramesAreSo, PTL DEF FramesSpec, CanvasIsCurrent, AutoStepsDown

-----------------------------------------------------------------------------
(* What the page shows *)

\* The page has nothing of a game
Fresh(p) == p.timeouts = {} /\ ~p.over /\ p.score = Zero /\ p.rows = 0

Scores == [PageTeams -> [interceptions : Nat, failures : Nat]]

\* A page that stayed on the final screen has the score of the last game until
\* the first result of this one
IsOver(s) == s.stage = "over"
ScoreFits(p, s) ==
    \/ p.over /\ p.phase # "game_over"
    \/ p.score = s.score /\ p.rows = s.rows /\ p.over = IsOver(s)
Counts(p, s) == s.score = Zero \/ p.score = s.score

WordsOf(me, g) == IF me[1] = "" THEN 0 ELSE g
CodeOf(me, r) == IF Role(me, r) = "encryptor" THEN r ELSE 0
CluesTold(ph) == ph \in {"guess", "round_result", "game_over"}
Timed(ph, r) == Actions(ph, r) # {}
Acted(me, ph, r, done) == SeatAction(ph, Role(me, r), r) \in done

SameGame(me, p, s) ==
    /\ p.phase = s.phase /\ p.round = s.round /\ p.role = Role(me, s.round)
    /\ p.words = WordsOf(me, s.game) /\ p.secret = CodeOf(me, s.round)
    /\ p.clues = CluesTold(s.phase) /\ p.timed = Timed(s.phase, s.round)
    /\ p.timeouts = s.timeouts /\ p.result = s.result
    /\ p.submitted => Acted(me, s.phase, s.round, s.accepted)

Answered(p, s) ==
    /\ DOMAIN p.actions = Actions(s.phase, s.round)
    /\ \A a \in DOMAIN p.actions : /\ a \in s.announced => p.actions[a]
                                   /\ p.actions[a] => a \in s.accepted

\* In the room, or still on the final screen
Rests(p) ==
    \/ p.phase = "room" /\ Fresh(p)
    \/ p.phase = "game_over" /\ p.over /\ \A t \in p.timeouts : t[1] # 1

\* What a page in seat me is that has received everything
Agrees(me, p, s) ==
    /\ GoodPage(p) /\ ~p.recovering /\ p.score \in Scores
    /\ IF Running(s) THEN SameGame(me, p, s) /\ Answered(p, s) /\ ScoreFits(p, s) /\ Counts(p, s)
                     ELSE Rests(p)

\* The player may wish to go back between any two messages
Bumps(p) == {p} \cup {q \in {With(p, [pendingLobby |-> TRUE])} : p.phase = "game_over"}

\* The stores a page goes through as it receives w, the last of them tr[Len(w)]
IsTrailTo(tr, p, w, n) ==
    tr[0] \in Bumps(p) /\ \A i \in 1 .. n : tr[i] \in Bumps(OnMessage(tr[i - 1], w[i]))
IsTrail(tr, p, w) == IsTrailTo(tr, p, w, Len(w))
IsPath(tr, p, w) ==
    tr[0] = p /\ \A i \in 1 .. Len(w) : tr[i] = OnMessage(tr[i - 1], w[i])

\* A result that comes to p changes the score by what happened in this round
OneStep(p, m) ==
    p.connected /\ ~p.recovering /\ p.room =>
       \A c \in Changes(p.score, m.view.score, m.view.result) :
          IF c.kind = "failure"
          THEN c.team = Sending(p.round) /\ c.total = p.score[c.team].failures + 1
          ELSE c.team # Sending(p.round) /\ c.total = p.score[c.team].interceptions + 1

EndsAgree(me, p, w, s) == \A tr : IsTrail(tr, p, w) => Agrees(me, tr[Len(w)], s)
EndsGood(p, w) == \A tr : IsTrail(tr, p, w) => GoodPage(tr[Len(w)])
EventsFit(p, w) ==
    \A i \in 1 .. Len(w) : \A tr :
       w[i].type = "round_result" /\ IsTrailTo(tr, p, w, i - 1) => OneStep(tr[i - 1], w[i])
Waits(p, w) ==
    \A tr : IsPath(tr, p, w) => (tr[Len(w)].phase = "game_over" => ~tr[Len(w)].pendingLobby)

-----------------------------------------------------------------------------
\* Trails

\* x is w with m at its end
Adds(x, w, m) ==
    /\ Len(w) \in Nat /\ Len(x) = Len(w) + 1 /\ x[Len(w) + 1] = m
    /\ \A i \in 1 .. Len(w) : x[i] = w[i]

LEMMA Longer ==
    ASSUME NEW w, Mail(w), NEW m
    PROVE  Adds(w \o <<m>>, w, m) /\ Append(w, m) = w \o <<m>>
  <1>1. PICK S : w \in Seq(S)
    BY DEF Mail
  <1> DEFINE T == S \cup {m}
  <1>2. w \in Seq(T) /\ m \in T
    BY <1>1
  <1> HIDE DEF T
  <1> QED
    BY <1>2 DEF Adds

LEMMA LongerByTwo ==
    ASSUME NEW w, Mail(w), NEW m, NEW n
    PROVE  Adds(w \o <<m, n>>, w \o <<m>>, n)
  <1>1. PICK S : w \in Seq(S)
    BY DEF Mail
  <1> DEFINE T == S \cup {m, n}
  <1>2. w \in Seq(T) /\ m \in T /\ n \in T
    BY <1>1
  <1> HIDE DEF T
  <1> QED
    BY <1>2 DEF Adds

LEMMA TrailShorter ==
    ASSUME NEW w, NEW x, NEW m, Adds(x, w, m), NEW p, NEW tr, IsTrail(tr, p, x)
    PROVE  /\ IsTrail(tr, p, w)
           /\ tr[Len(w) + 1] \in Bumps(OnMessage(tr[Len(w)], m))
  <1>1. /\ Len(w) \in Nat /\ Len(x) = Len(w) + 1 /\ x[Len(w) + 1] = m
        /\ \A i \in 1 .. Len(w) : x[i] = w[i]
    BY DEF Adds
  <1>2. tr[0] \in Bumps(p) /\ \A i \in 1 .. Len(x) : tr[i] \in Bumps(OnMessage(tr[i - 1], x[i]))
    BY DEF IsTrail, IsTrailTo
  <1>3. \A i \in 1 .. Len(w) : i \in 1 .. Len(x)
    BY <1>1
  <1>4. Len(w) + 1 \in 1 .. Len(x) /\ Len(w) + 1 - 1 = Len(w)
    BY <1>1
  <1>5. tr[Len(w) + 1] \in Bumps(OnMessage(tr[Len(w)], m))
    BY <1>1, <1>2, <1>4
  <1> QED
    BY <1>1, <1>2, <1>3, <1>5 DEF IsTrail, IsTrailTo

LEMMA PathShorter ==
    ASSUME NEW w, NEW x, NEW m, Adds(x, w, m), NEW p, NEW tr, IsPath(tr, p, x)
    PROVE  /\ IsPath(tr, p, w)
           /\ tr[Len(w) + 1] = OnMessage(tr[Len(w)], m)
  <1>1. /\ Len(w) \in Nat /\ Len(x) = Len(w) + 1 /\ x[Len(w) + 1] = m
        /\ \A i \in 1 .. Len(w) : x[i] = w[i]
    BY DEF Adds
  <1>2. tr[0] = p /\ \A i \in 1 .. Len(x) : tr[i] = OnMessage(tr[i - 1], x[i])
    BY DEF IsPath
  <1>3. \A i \in 1 .. Len(w) : i \in 1 .. Len(x)
    BY <1>1
  <1>4. Len(w) + 1 \in 1 .. Len(x) /\ Len(w) + 1 - 1 = Len(w)
    BY <1>1
  <1>5. tr[Len(w) + 1] = OnMessage(tr[Len(w)], m)
    BY <1>1, <1>2, <1>4
  <1> QED
    BY <1>1, <1>2, <1>3, <1>5 DEF IsPath

\* A message that keeps the agreement when it comes last
LEMMA Told ==
    ASSUME NEW me, NEW w, Mail(w), NEW m, NEW p, NEW s, NEW t, EndsAgree(me, p, w, s), EventsFit(p, w),
           \A q : Agrees(me, q, s) => \A r \in Bumps(OnMessage(q, m)) : Agrees(me, r, t),
           m.type = "round_result" => \A q : Agrees(me, q, s) => OneStep(q, m)
    PROVE  EndsAgree(me, p, w \o <<m>>, t) /\ EventsFit(p, w \o <<m>>)
  <1> DEFINE x == w \o <<m>>
  <1>0. Adds(x, w, m)
    BY Longer
  <1> HIDE DEF x
  <1>1. /\ Len(w) \in Nat /\ Len(x) = Len(w) + 1 /\ x[Len(w) + 1] = m
        /\ \A i \in 1 .. Len(w) : x[i] = w[i]
    BY <1>0 DEF Adds
  <1>2. ASSUME NEW tr, IsTrail(tr, p, x) PROVE Agrees(me, tr[Len(x)], t)
    <2>1. IsTrail(tr, p, w) /\ tr[Len(w) + 1] \in Bumps(OnMessage(tr[Len(w)], m))
      BY <1>0, <1>2, TrailShorter
    <2>2. Agrees(me, tr[Len(w)], s)
      BY <2>1 DEF EndsAgree
    <2> QED
      BY <1>1, <2>1, <2>2
  <1>3. ASSUME NEW i \in 1 .. Len(x), NEW tr, x[i].type = "round_result", IsTrailTo(tr, p, x, i - 1)
        PROVE  OneStep(tr[i - 1], x[i])
    <2>1. IsTrailTo(tr, p, w, i - 1)
      <3>1. \A k \in 1 .. i - 1 : k \in 1 .. Len(w)
        BY <1>1
      <3> QED
        BY <1>1, <1>3, <3>1 DEF IsTrailTo
    <2>2. CASE i = Len(w) + 1
      <3>1. i - 1 = Len(w) /\ x[i] = m
        BY <1>1, <2>2
      <3> QED
        BY <1>3, <2>1, <3>1 DEF EndsAgree, IsTrail
    <2>3. CASE i # Len(w) + 1
      <3>1. i \in 1 .. Len(w) /\ x[i] = w[i]
        BY <1>1, <2>3
      <3> QED
        BY <1>3, <2>1, <3>1 DEF EventsFit
    <2> QED
      BY <2>2, <2>3
  <1> QED
    BY <1>2, <1>3 DEF x, EndsAgree, EventsFit

\* Two of them at once, neither of them a result
LEMMA ToldTwo ==
    ASSUME NEW me, NEW w, Mail(w), NEW m, NEW n, NEW p, NEW s, NEW t,
           EndsAgree(me, p, w, s), EventsFit(p, w), m.type # "round_result", n.type # "round_result",
           \A q : Agrees(me, q, s) => \A r \in Bumps(OnMessage(q, m)) : \A u \in Bumps(OnMessage(r, n)) : Agrees(me, u, t)
    PROVE  EndsAgree(me, p, w \o <<m, n>>, t) /\ EventsFit(p, w \o <<m, n>>)
  <1> DEFINE x == w \o <<m>>
             y == w \o <<m, n>>
  <1>1. Adds(x, w, m) /\ Adds(y, x, n)
    BY Longer, LongerByTwo
  <1> HIDE DEF x, y
  <1>3. /\ Len(w) \in Nat /\ Len(x) = Len(w) + 1 /\ x[Len(w) + 1] = m
        /\ \A i \in 1 .. Len(w) : x[i] = w[i]
    BY <1>1 DEF Adds
  <1>4. /\ Len(x) \in Nat /\ Len(y) = Len(x) + 1 /\ y[Len(x) + 1] = n
        /\ \A i \in 1 .. Len(x) : y[i] = x[i]
    BY <1>1 DEF Adds
  <1>5. ASSUME NEW tr, IsTrail(tr, p, y) PROVE Agrees(me, tr[Len(y)], t)
    <2>1. IsTrail(tr, p, x) /\ tr[Len(x) + 1] \in Bumps(OnMessage(tr[Len(x)], n))
      BY <1>1, <1>5, TrailShorter
    <2>2. IsTrail(tr, p, w) /\ tr[Len(w) + 1] \in Bumps(OnMessage(tr[Len(w)], m))
      BY <1>1, <2>1, TrailShorter
    <2>3. Agrees(me, tr[Len(w)], s)
      BY <2>2 DEF EndsAgree
    <2> QED
      BY <1>3, <1>4, <2>1, <2>2, <2>3
  <1>6. ASSUME NEW i \in 1 .. Len(y), NEW tr, y[i].type = "round_result", IsTrailTo(tr, p, y, i - 1)
        PROVE  OneStep(tr[i - 1], y[i])
    <2>1. i \in 1 .. Len(w)
      <3>1. i # Len(x) + 1 /\ i # Len(w) + 1
        BY <1>3, <1>4, <1>6
      <3> QED
        BY <1>3, <1>4, <3>1
    <2>2. \A k \in 1 .. i : y[k] = w[k]
      BY <1>3, <1>4, <2>1
    <2>3. IsTrailTo(tr, p, w, i - 1) /\ y[i] = w[i]
      BY <1>6, <2>1, <2>2 DEF IsTrailTo
    <2> QED
      BY <1>6, <2>1, <2>3 DEF EventsFit
  <1> QED
    BY <1>5, <1>6 DEF y, EndsAgree, EventsFit

\* A message is received: what follows it goes on from there
Before(p, w, tr) == [i \in 0 .. Len(w) |-> IF i = 0 THEN p ELSE tr[i - 1]]

LEMMA TrailRead ==
    ASSUME NEW w, Mail(w), w # <<>>, NEW p, NEW tr, NEW n \in 0 .. Len(Tail(w)),
           IsTrailTo(tr, OnMessage(p, Head(w)), Tail(w), n),
           NEW back, back = Before(p, w, tr)
    PROVE  /\ IsTrailTo(back, p, w, n + 1) /\ back[n + 1] = tr[n]
           /\ Len(Tail(w)) = Len(w) - 1 /\ Len(w) \in Nat \ {0}
           /\ \A i \in 1 .. Len(Tail(w)) : Tail(w)[i] = w[i + 1] /\ i + 1 \in 1 .. Len(w)
  <1>1. PICK S : w \in Seq(S)
    BY DEF Mail
  <1>2. /\ Len(w) \in Nat \ {0} /\ Len(Tail(w)) = Len(w) - 1 /\ Head(w) = w[1]
        /\ \A i \in 1 .. Len(w) - 1 : Tail(w)[i] = w[i + 1]
    BY <1>1
  <1>3. /\ tr[0] \in Bumps(OnMessage(p, w[1]))
        /\ \A i \in 1 .. n : tr[i] \in Bumps(OnMessage(tr[i - 1], w[i + 1]))
    BY <1>2 DEF IsTrailTo
  <1>4. back[0] = p /\ \A i \in 1 .. Len(w) : back[i] = tr[i - 1]
    BY <1>2 DEF Before
  <1>5. p \in Bumps(p)
    BY DEF Bumps
  <1>6. ASSUME NEW i \in 1 .. n + 1 PROVE back[i] \in Bumps(OnMessage(back[i - 1], w[i]))
    <2>0. i \in 1 .. Len(w)
      BY <1>2
    <2>1. CASE i = 1
      BY <1>2, <1>3, <1>4, <2>0, <2>1
    <2>2. CASE i # 1
      <3>1. i - 1 \in 1 .. n /\ i - 1 \in 1 .. Len(w) /\ (i - 1) + 1 = i
        BY <1>2, <2>2
      <3>2. tr[i - 1] \in Bumps(OnMessage(tr[(i - 1) - 1], w[(i - 1) + 1]))
        BY <1>3, <3>1
      <3>3. back[i] = tr[i - 1] /\ back[i - 1] = tr[(i - 1) - 1]
        BY <1>4, <2>0, <3>1
      <3> QED
        BY <3>1, <3>2, <3>3
    <2> QED
      BY <2>1, <2>2
  <1>7. IsTrailTo(back, p, w, n + 1)
    BY <1>4, <1>5, <1>6 DEF IsTrailTo
  <1>8. n + 1 \in 1 .. Len(w) /\ (n + 1) - 1 = n
    BY <1>2
  <1> QED
    BY <1>2, <1>4, <1>7, <1>8

LEMMA PathRead ==
    ASSUME NEW w, Mail(w), w # <<>>, NEW p, NEW tr, IsPath(tr, OnMessage(p, Head(w)), Tail(w)),
           NEW back, back = Before(p, w, tr)
    PROVE  IsPath(back, p, w) /\ back[Len(w)] = tr[Len(Tail(w))]
  <1>1. PICK S : w \in Seq(S)
    BY DEF Mail
  <1>2. /\ Len(w) \in Nat \ {0} /\ Len(Tail(w)) = Len(w) - 1 /\ Head(w) = w[1]
        /\ \A i \in 1 .. Len(w) - 1 : Tail(w)[i] = w[i + 1]
    BY <1>1
  <1>3. /\ tr[0] = OnMessage(p, w[1])
        /\ \A i \in 1 .. Len(w) - 1 : tr[i] = OnMessage(tr[i - 1], w[i + 1])
    BY <1>2 DEF IsPath
  <1>4. back[0] = p /\ \A i \in 1 .. Len(w) : back[i] = tr[i - 1]
    BY <1>2 DEF Before
  <1>6. ASSUME NEW i \in 1 .. Len(w) PROVE back[i] = OnMessage(back[i - 1], w[i])
    <2>1. CASE i = 1
      BY <1>2, <1>3, <1>4, <2>1
    <2>2. CASE i # 1
      <3>1. i - 1 \in 1 .. Len(w) - 1 /\ i - 1 \in 1 .. Len(w) /\ (i - 1) + 1 = i
        BY <1>2, <2>2
      <3>2. tr[i - 1] = OnMessage(tr[(i - 1) - 1], w[(i - 1) + 1])
        BY <1>3, <3>1
      <3>3. back[i] = tr[i - 1] /\ back[i - 1] = tr[(i - 1) - 1]
        BY <1>4, <3>1
      <3> QED
        BY <3>1, <3>2, <3>3
    <2> QED
      BY <2>1, <2>2
  <1>8. Len(w) \in 1 .. Len(w)
    BY <1>2
  <1> QED
    BY <1>2, <1>4, <1>6, <1>8 DEF IsPath

LEMMA Received ==
    ASSUME NEW me, NEW w, Mail(w), w # <<>>, NEW p, NEW q, q = OnMessage(p, Head(w))
    PROVE  /\ \A s : EndsAgree(me, p, w, s) => EndsAgree(me, q, Tail(w), s)
           /\ EndsGood(p, w) => EndsGood(q, Tail(w))
           /\ EventsFit(p, w) => EventsFit(q, Tail(w))
           /\ Waits(p, w) => Waits(q, Tail(w))
  <1> DEFINE b(tr) == Before(p, w, tr)
  <1>0. /\ Len(Tail(w)) \in 0 .. Len(Tail(w)) /\ Len(Tail(w)) + 1 = Len(w)
        /\ \A i \in 1 .. Len(Tail(w)) : i - 1 \in 0 .. Len(Tail(w)) /\ (i + 1) - 1 = i /\ (i - 1) + 1 = i
    <2>1. PICK S : w \in Seq(S)
      BY DEF Mail
    <2>2. Len(w) \in Nat \ {0} /\ Len(Tail(w)) = Len(w) - 1
      BY <2>1
    <2> QED
      BY <2>2
  <1>1. ASSUME NEW tr, NEW n \in 0 .. Len(Tail(w)), IsTrailTo(tr, q, Tail(w), n)
        PROVE  /\ IsTrailTo(b(tr), p, w, n + 1) /\ b(tr)[n + 1] = tr[n]
               /\ \A i \in 1 .. Len(Tail(w)) : Tail(w)[i] = w[i + 1] /\ i + 1 \in 1 .. Len(w)
    BY <1>1, TrailRead
  <1>2. ASSUME NEW tr, IsPath(tr, q, Tail(w)) PROVE IsPath(b(tr), p, w) /\ b(tr)[Len(w)] = tr[Len(Tail(w))]
    BY <1>2, PathRead
  <1> HIDE DEF b
  <1>3. ASSUME NEW tr, IsTrail(tr, q, Tail(w)) PROVE IsTrail(b(tr), p, w) /\ b(tr)[Len(w)] = tr[Len(Tail(w))]
    BY <1>0, <1>1, <1>3 DEF IsTrail
  <1>4. ASSUME NEW s, EndsAgree(me, p, w, s) PROVE EndsAgree(me, q, Tail(w), s)
    BY <1>3, <1>4 DEF EndsAgree
  <1>5. ASSUME EndsGood(p, w) PROVE EndsGood(q, Tail(w))
    BY <1>3, <1>5 DEF EndsGood
  <1>6. ASSUME EventsFit(p, w), NEW i \in 1 .. Len(Tail(w)), NEW tr, IsTrailTo(tr, q, Tail(w), i - 1),
               Tail(w)[i].type = "round_result"
        PROVE  OneStep(tr[i - 1], Tail(w)[i])
    <2>1. /\ IsTrailTo(b(tr), p, w, i) /\ b(tr)[i] = tr[i - 1]
          /\ Tail(w)[i] = w[i + 1] /\ i + 1 \in 1 .. Len(w) /\ (i + 1) - 1 = i
      BY <1>0, <1>1, <1>6
    <2>2. OneStep(b(tr)[(i + 1) - 1], w[i + 1])
      BY <1>6, <2>1 DEF EventsFit
    <2> QED
      BY <2>1, <2>2
  <1>7. ASSUME Waits(p, w) PROVE Waits(q, Tail(w))
    BY <1>2, <1>7 DEF Waits
  <1> QED
    BY <1>4, <1>5, <1>6, <1>7 DEF EventsFit

-----------------------------------------------------------------------------
\* What each message sets

PageFields == {"phase", "room", "token", "connected", "recovering", "pendingLobby", "change",
               "round", "role", "words", "secret", "clues", "rows", "score", "result", "over",
               "waiting", "submitted", "timed", "timeouts", "actions"}

LEMMA InitialFields ==
    /\ DOMAIN Initial = PageFields
    /\ Initial.phase = "home" /\ ~Initial.room /\ Fresh(Initial) /\ ~Initial.recovering
    /\ \A f \in GameFields : f \in PageFields
  BY DEF Initial, PageFields, Fresh, GameFields

LEMMA FieldsSet ==
    ASSUME NEW p, GoodPage(p), NEW fields
    PROVE  \A f \in PageFields : With(p, fields)[f] = IF f \in DOMAIN fields THEN fields[f] ELSE p[f]
  BY InitialFields DEF With, GoodPage

LEMMA CreatedSets ==
    ASSUME NEW p, GoodPage(p), NEW m, m.type = "room_created", NEW q, q = OnMessage(p, m)
    PROVE  /\ q.room /\ q.phase = "room" /\ ~q.recovering
           /\ \A f \in PageFields \ {"token", "recovering", "room", "phase"} : q[f] = p[f]
  <1> DEFINE F == [token |-> TRUE, recovering |-> FALSE, room |-> TRUE, phase |-> "room"]
  <1>1. q = With(p, F)
    BY DEF OnMessage, OnRoomCreated
  <1>2. DOMAIN F = {"token", "recovering", "room", "phase"} /\ F["recovering"] = FALSE /\ F["room"] = TRUE /\ F["phase"] = "room"
    OBVIOUS
  <1> HIDE DEF F
  <1> QED
    BY <1>1, <1>2, FieldsSet DEF PageFields

LEMMA ResumedSets ==
    ASSUME NEW p, GoodPage(p), NEW m, m.type = "room_resumed", NEW q, q = OnMessage(p, m)
    PROVE  q.room /\ \A f \in PageFields \ {"room"} : q[f] = p[f]
  <1> DEFINE F == [room |-> TRUE]
  <1>1. q = With(p, F)
    BY DEF OnMessage
  <1>2. DOMAIN F = {"room"} /\ F["room"] = TRUE
    OBVIOUS
  <1> HIDE DEF F
  <1> QED
    BY <1>1, <1>2, FieldsSet DEF PageFields

LEMMA ExpiredSets ==
    ASSUME NEW p, GoodPage(p), NEW m, m.type = "resume_expired", NEW q, q = OnMessage(p, m)
    PROVE  \A f \in PageFields \ {"connected"} : q[f] = Initial[f]
  <1> DEFINE F == [connected |-> p.connected]
  <1>1. q = With(Initial, F)
    BY DEF OnMessage, Home
  <1>2. DOMAIN F = {"connected"}
    OBVIOUS
  <1> HIDE DEF F
  <1> QED
    BY <1>1, <1>2, FieldsSet, InitialPage

LEMMA StartSets ==
    ASSUME NEW p, GoodPage(p), NEW m, m.type = "game_start", NEW q, q = OnMessage(p, m)
    PROVE  /\ q.words = m.view.words
           /\ \A f \in PageFields \ {"round", "role", "words"} : q[f] = p[f]
  <1> DEFINE F == [round |-> m.view.round, role |-> m.view.role, words |-> m.view.words]
  <1>1. q = With(p, F)
    BY DEF OnMessage, OnGameStart
  <1>2. DOMAIN F = {"round", "role", "words"} /\ F["words"] = m.view.words
    OBVIOUS
  <1> HIDE DEF F
  <1> QED
    BY <1>1, <1>2, FieldsSet DEF PageFields

OfRound(ts, r) == IF \E t \in ts : t[1] # r THEN {} ELSE ts
RowsOr(rows, old) == IF rows = 0 THEN old ELSE rows

PhaseSet(p, m, q) ==
    /\ m.phase = "new_round" => q.phase = "encrypting"
    /\ m.phase # "new_round" => q.phase = m.phase
    /\ q.timed = m.view.timed /\ q.submitted = m.view.submitted /\ ~q.recovering
    /\ q.actions = m.view.actions /\ q.round = m.view.round /\ q.role = m.view.role
    /\ q.secret = m.view.secret /\ q.result = NoResult
    /\ m.phase = "guess" => q.clues = TRUE
    /\ m.phase # "guess" => q.clues = FALSE
    /\ q.timeouts = OfRound(p.timeouts, m.view.round) /\ q.rows = RowsOr(m.view.rows, p.rows)
    /\ q.words = p.words /\ q.score = p.score /\ q.over = p.over /\ q.room = p.room
    /\ q.pendingLobby = p.pendingLobby /\ q.connected = p.connected /\ q.change = p.change

LEMMA PhaseSets ==
    ASSUME NEW p, GoodPage(p), NEW m, m.type = "phase_change"
    PROVE  PhaseSet(p, m, OnMessage(p, m))
  <1> DEFINE q == OnMessage(p, m)
  <1> DEFINE v == m.view
             ph == IF m.phase = "new_round" THEN "encrypting" ELSE m.phase
             tm == IF \E t \in p.timeouts : t[1] # v.round THEN {} ELSE p.timeouts
             rw == IF v.rows = 0 THEN p.rows ELSE v.rows
             F == [phase |-> ph,
                   timed |-> v.timed, submitted |-> v.submitted, recovering |-> FALSE,
                   actions |-> v.actions, round |-> v.round, role |-> v.role, secret |-> v.secret,
                   timeouts |-> tm, clues |-> m.phase = "guess", rows |-> rw,
                   waiting |-> v.waiting, result |-> NoResult]
  <1>1. q = With(p, F)
    BY DEF OnMessage, OnPhaseChange
  <1> HIDE DEF q
  <1>2. /\ DOMAIN F = {"phase", "timed", "submitted", "recovering", "actions", "round", "role", "secret",
                       "timeouts", "clues", "rows", "waiting", "result"}
        /\ F["phase"] = ph /\ F["timed"] = v.timed /\ F["submitted"] = v.submitted /\ F["recovering"] = FALSE
        /\ F["actions"] = v.actions /\ F["round"] = v.round /\ F["role"] = v.role /\ F["secret"] = v.secret
        /\ F["timeouts"] = tm /\ F["clues"] = (m.phase = "guess") /\ F["rows"] = rw /\ F["result"] = NoResult
    OBVIOUS
  <1> HIDE DEF F
  <1>3. \A f \in PageFields : q[f] = IF f \in DOMAIN F THEN F[f] ELSE p[f]
    BY <1>1, FieldsSet
  <1> HIDE DEF ph, tm, rw
  <1>4. /\ q.phase = ph /\ q.timed = v.timed /\ q.submitted = v.submitted /\ ~q.recovering
        /\ q.actions = v.actions /\ q.round = v.round /\ q.role = v.role
        /\ q.secret = v.secret /\ q.clues = (m.phase = "guess") /\ q.result = NoResult
        /\ q.timeouts = tm /\ q.rows = rw
    BY <1>2, <1>3 DEF PageFields
  <1>5. \A f \in {"words", "score", "over", "room", "pendingLobby", "connected", "change"} : q[f] = p[f]
    BY <1>2, <1>3 DEF PageFields
  <1>6. /\ m.phase = "guess" => q.clues = TRUE
        /\ m.phase # "guess" => q.clues = FALSE
    BY <1>4
  <1>7. PhaseSet(p, m, q)
    BY <1>4, <1>5, <1>6 DEF ph, tm, rw, OfRound, RowsOr, PhaseSet
  <1> QED
    BY <1>7 DEF q

LEMMA CluesSets ==
    ASSUME NEW p, GoodPage(p), NEW m, m.type = "clues_submitted", NEW q, q = OnMessage(p, m)
    PROVE  /\ q.rows = (IF m.view.rows = 0 THEN p.rows ELSE m.view.rows)
           /\ \A f \in PageFields \ {"clues", "rows"} : q[f] = p[f]
  <1> DEFINE rw == IF m.view.rows = 0 THEN p.rows ELSE m.view.rows
             F == [clues |-> TRUE, rows |-> rw]
  <1>1. q = With(p, F)
    BY DEF OnMessage, OnCluesSubmitted
  <1>2. DOMAIN F = {"clues", "rows"} /\ F["rows"] = rw
    OBVIOUS
  <1> HIDE DEF F
  <1> QED
    BY <1>1, <1>2, FieldsSet DEF PageFields

LEMMA ResultSets ==
    ASSUME NEW p, GoodPage(p), NEW m, m.type = "round_result", NEW q, q = OnMessage(p, m)
    PROVE  /\ ~q.timed /\ ~q.submitted /\ q.rows = m.view.rows /\ q.result = m.view.result /\ q.actions = NoActions
           /\ q.score = m.view.score /\ q.phase = "round_result"
           /\ \A f \in PageFields \ {"timed", "rows", "result", "actions", "submitted", "waiting", "score", "phase", "change"} : q[f] = p[f]
           /\ q.change # p.change =>
                /\ p.connected /\ ~p.recovering /\ p.room
                /\ q.change.changes = Changes(p.score, m.view.score, m.view.result)
  <1> DEFINE v == m.view
             changes == IF p.connected /\ ~p.recovering /\ p.room THEN Changes(p.score, v.score, v.result) ELSE {}
             ch1 == IF changes # {} THEN [round |-> p.round, changes |-> changes] ELSE p.change
             F == [timed |-> FALSE, rows |-> v.rows, result |-> v.result, actions |-> NoActions,
                   submitted |-> FALSE, waiting |-> TRUE, score |-> v.score,
                   phase |-> "round_result", change |-> ch1]
  <1>1. q = With(p, F)
    BY DEF OnMessage, OnRoundResult
  <1> HIDE DEF ch1
  <1>2. /\ DOMAIN F = {"timed", "rows", "result", "actions", "submitted", "waiting", "score", "phase", "change"}
        /\ F["timed"] = FALSE /\ F["submitted"] = FALSE /\ F["rows"] = v.rows /\ F["result"] = v.result
        /\ F["actions"] = NoActions /\ F["score"] = v.score /\ F["phase"] = "round_result" /\ F["change"] = ch1
    OBVIOUS
  <1> HIDE DEF F
  <1>3. \A f \in PageFields : q[f] = IF f \in DOMAIN F THEN F[f] ELSE p[f]
    BY <1>1, FieldsSet
  <1>4. /\ ~q.timed /\ ~q.submitted /\ q.rows = v.rows /\ q.result = v.result /\ q.actions = NoActions
        /\ q.score = v.score /\ q.phase = "round_result" /\ q.change = ch1
    BY <1>2, <1>3 DEF PageFields
  <1>5. \A f \in PageFields \ {"timed", "rows", "result", "actions", "submitted", "waiting", "score", "phase", "change"} : q[f] = p[f]
    BY <1>2, <1>3
  <1>6. q.change # p.change => p.connected /\ ~p.recovering /\ p.room /\ q.change.changes = Changes(p.score, v.score, v.result)
    BY <1>4 DEF ch1
  <1> QED
    BY <1>4, <1>5, <1>6

OverSet(p, m, q) ==
    /\ q.timed = FALSE /\ q.round = m.view.round /\ q.rows = m.view.rows /\ q.over = TRUE
    /\ q.score = m.view.score /\ q.phase = "game_over"
    /\ \A f \in PageFields \ {"timed", "round", "rows", "over", "score", "phase"} : q[f] = p[f]

LEMMA OverSets ==
    ASSUME NEW p, GoodPage(p), NEW m, m.type = "game_over"
    PROVE  OverSet(p, m, OnMessage(p, m))
  <1> DEFINE F == [timed |-> FALSE, round |-> m.view.round, rows |-> m.view.rows, over |-> TRUE,
                   score |-> m.view.score, phase |-> "game_over"]
             q == OnMessage(p, m)
  <1>1. q = With(p, F)
    BY DEF OnMessage, OnGameOver
  <1>2. /\ DOMAIN F = {"timed", "round", "rows", "over", "score", "phase"}
        /\ F["timed"] = FALSE /\ F["round"] = m.view.round /\ F["rows"] = m.view.rows /\ F["over"] = TRUE
        /\ F["score"] = m.view.score /\ F["phase"] = "game_over"
    OBVIOUS
  <1> HIDE DEF F, q
  <1>3. \A f \in PageFields : q[f] = IF f \in DOMAIN F THEN F[f] ELSE p[f]
    BY <1>1, FieldsSet
  <1>4. OverSet(p, m, q)
    BY <1>2, <1>3 DEF OverSet, PageFields
  <1> QED
    BY <1>4 DEF q

LEMMA TimeoutSets ==
    ASSUME NEW p, GoodPage(p), NEW m, m.type = "timeout", NEW q, q = OnMessage(p, m)
    PROVE  /\ q.timeouts = {t \in p.timeouts : t[1] = m.round /\ t[2] # m.action} \cup {<<m.round, m.action>>}
           /\ \A f \in PageFields \ {"timeouts"} : q[f] = p[f]
  <1> DEFINE T == {t \in p.timeouts : t[1] = m.round /\ t[2] # m.action} \cup {<<m.round, m.action>>}
             F == [timeouts |-> T]
  <1>1. q = With(p, F)
    BY DEF OnMessage, OnTimeout
  <1>2. DOMAIN F = {"timeouts"} /\ F["timeouts"] = T
    OBVIOUS
  <1> HIDE DEF F
  <1>3. \A f \in PageFields : q[f] = IF f \in DOMAIN F THEN F[f] ELSE p[f]
    BY <1>1, FieldsSet
  <1> HIDE DEF T
  <1>4. q.timeouts = T /\ \A f \in PageFields \ {"timeouts"} : q[f] = p[f]
    BY <1>2, <1>3 DEF PageFields
  <1> QED
    BY <1>4 DEF T

SubmittedSet(p, m, q) ==
    /\ \A f \in PageFields \ {"actions", "submitted", "waiting"} : q[f] = p[f]
    /\ q.actions = p.actions \/ (m.action \in DOMAIN p.actions /\ q.actions = [p.actions EXCEPT ![m.action] = TRUE])
    /\ m.round = p.round /\ p.phase = "guess" /\ m.action \in DOMAIN p.actions =>
          q.actions = [p.actions EXCEPT ![m.action] = TRUE]
    /\ q.submitted => p.submitted \/ SeatAction(p.phase, p.role, p.round) = m.action

LEMMA SubmittedSets ==
    ASSUME NEW p, GoodPage(p), NEW m, m.type = "action_submitted", NEW q, q = OnMessage(p, m)
    PROVE  SubmittedSet(p, m, q)
  <1> DEFINE F == [submitted |-> TRUE, waiting |-> TRUE]
             r == [p EXCEPT !.actions[m.action] = TRUE]
             same == m.round # p.round \/ p.phase # "guess" \/ m.action \notin DOMAIN p.actions
             mine == SeatAction(p.phase, p.role, p.round) = m.action
  <1>1. q = IF same THEN p ELSE IF mine THEN With(r, F) ELSE r
    BY DEF OnMessage, OnActionSubmitted
  <1>2. /\ DOMAIN r = DOMAIN p
        /\ \A f \in PageFields \ {"actions"} : r[f] = p[f]
        /\ r.actions = [p.actions EXCEPT ![m.action] = TRUE]
    BY InitialFields DEF GoodPage, PageFields
  <1>3. GoodPage(r)
    BY <1>2 DEF GoodPage, PageFields
  <1>4. DOMAIN F = {"submitted", "waiting"}
    OBVIOUS
  <1> HIDE DEF r, F
  <1>5. \A f \in PageFields \ {"submitted", "waiting"} : With(r, F)[f] = r[f]
    BY <1>3, <1>4, FieldsSet
  <1> HIDE DEF mine
  <1>6. CASE same
    BY <1>1, <1>6 DEF SubmittedSet
  <1>7. CASE ~same /\ mine
    <2>1. q = With(r, F)
      BY <1>1, <1>7
    <2>2. \A f \in PageFields \ {"actions", "submitted", "waiting"} : q[f] = p[f]
      BY <2>1, <1>2, <1>5
    <2>3. q.actions = [p.actions EXCEPT ![m.action] = TRUE]
      BY <2>1, <1>2, <1>5 DEF PageFields
    <2> QED
      BY <1>7, <2>2, <2>3 DEF mine, SubmittedSet
  <1>8. CASE ~same /\ ~mine
    BY <1>1, <1>2, <1>8 DEF PageFields, SubmittedSet
  <1> QED
    BY <1>6, <1>7, <1>8

LEMMA SyncSets ==
    ASSUME NEW p, GoodPage(p), NEW m, m.type = "full_sync", NEW q, q = OnMessage(p, m)
    PROVE  /\ m.view = NoView => /\ q.phase = "room" /\ q.room /\ Fresh(q) /\ ~q.recovering /\ ~q.pendingLobby
                                 /\ q.change = NoChange
           /\ m.view # NoView /\ DOMAIN m.view \cap {"recovering", "room", "change"} = {} =>
                 /\ ~q.recovering /\ q.change = NoChange /\ q.room
                 /\ \A f \in DOMAIN m.view \cap PageFields : q[f] = m.view[f]
  <1> DEFINE e == [recovering |-> FALSE, change |-> NoChange, room |-> TRUE]
             r == With(p, e)
             v == m.view
             f == [phase |-> "room", pendingLobby |-> FALSE]
             g == [x \in DOMAIN v |-> v[x]]
  <1>1. q = IF v = NoView THEN With(With(r, Cleared), f) ELSE With(r, g)
    BY DEF OnMessage, OnFullSync
  <1>2. /\ DOMAIN e = {"recovering", "change", "room"} /\ e["recovering"] = FALSE /\ e["change"] = NoChange /\ e["room"] = TRUE
        /\ DOMAIN f = {"phase", "pendingLobby"} /\ f["phase"] = "room" /\ f["pendingLobby"] = FALSE
        /\ DOMAIN g = DOMAIN v /\ \A x \in DOMAIN v : g[x] = v[x]
    OBVIOUS
  <1> HIDE DEF e, f, g
  <1>3. GoodPage(r) /\ r.room = TRUE /\ r.recovering = FALSE /\ r.change = NoChange
    BY <1>2, SetFields, FieldsSet DEF PageFields
  <1> HIDE DEF r
  <1>4. CASE v = NoView
    <2> DEFINE c == With(r, Cleared)
    <2>1. GoodPage(c)
      BY <1>3, ClearedFields, SetFields DEF Roles
    <2>2. DOMAIN Cleared = GameFields /\ \A x \in GameFields : Cleared[x] = Initial[x]
      BY DEF Cleared
    <2>3. \A x \in PageFields : c[x] = IF x \in GameFields THEN Initial[x] ELSE r[x]
      BY <1>3, <2>2, FieldsSet
    <2> HIDE DEF c
    <2>4. \A x \in PageFields : With(c, f)[x] = IF x \in DOMAIN f THEN f[x] ELSE c[x]
      BY <2>1, FieldsSet
    <2>5. q = With(c, f)
      BY <1>1, <1>4 DEF c
    <2>6. q.phase = "room" /\ q.pendingLobby = FALSE /\ \A x \in PageFields \ {"phase", "pendingLobby"} : q[x] = c[x]
      BY <1>2, <2>4, <2>5 DEF PageFields
    <2>7. c.timeouts = Initial.timeouts /\ c.over = Initial.over /\ c.score = Initial.score /\ c.rows = Initial.rows
          /\ c.change = Initial.change /\ c.room = r.room /\ c.recovering = r.recovering
      BY <2>3 DEF PageFields, GameFields
    <2>8. q.timeouts = c.timeouts /\ q.over = c.over /\ q.score = c.score /\ q.rows = c.rows /\ q.change = c.change
          /\ q.room = c.room /\ q.recovering = c.recovering
      BY <2>6 DEF PageFields
    <2> QED
      BY <1>3, <1>4, <2>6, <2>7, <2>8, InitialFields DEF Fresh, Initial
  <1>5. CASE v # NoView
    <2>1. \A x \in PageFields : q[x] = IF x \in DOMAIN v THEN v[x] ELSE r[x]
      BY <1>1, <1>2, <1>3, <1>5, FieldsSet
    <2> QED
      BY <1>3, <1>5, <2>1 DEF PageFields
  <1> QED
    BY <1>4, <1>5

\* The room, and whether the page goes back to it
LEMMA RoomSets ==
    ASSUME NEW p, GoodPage(p), NEW m, m.type = "room_state", NEW q, q = OnMessage(p, m)
    PROVE  /\ q.room /\ q.recovering = p.recovering /\ q.connected = p.connected
           /\ \/ /\ ~m.started /\ (p.phase # "game_over" \/ p.pendingLobby) /\ p.phase \notin {"room", "home"}
                 /\ q.phase = "room" /\ Fresh(q) /\ ~q.pendingLobby /\ q.change = NoChange
              \/ /\ ~m.started /\ p.phase \in {"room", "home"} /\ q.phase = "room"
                 /\ \A f \in PageFields \ {"room", "phase"} : q[f] = p[f]
              \/ /\ m.started \/ (p.phase = "game_over" /\ ~p.pendingLobby)
                 /\ \A f \in PageFields \ {"room"} : q[f] = p[f]
  <1> DEFINE lobby == ~m.started /\ (p.phase # "game_over" \/ p.pendingLobby)
             back == lobby /\ p.phase \notin {"room", "home"}
             f == [pendingLobby |-> FALSE]
             r == IF back THEN With(With(p, Cleared), f) ELSE p
             ph == IF lobby THEN "room" ELSE p.phase
             g == [room |-> TRUE, phase |-> ph]
  <1>1. q = With(r, g)
    BY DEF OnMessage, OnRoomState
  <1>2. DOMAIN g = {"room", "phase"} /\ g["room"] = TRUE /\ g["phase"] = ph /\ DOMAIN f = {"pendingLobby"} /\ f["pendingLobby"] = FALSE
    OBVIOUS
  <1> HIDE DEF g, f
  <1> DEFINE c == With(p, Cleared)
             b == With(c, f)
  <1>3. GoodPage(c)
    BY ClearedFields, SetFields DEF Roles
  <1>4. DOMAIN Cleared = GameFields /\ \A x \in GameFields : Cleared[x] = Initial[x]
    BY DEF Cleared
  <1>5. \A x \in PageFields : c[x] = IF x \in GameFields THEN Initial[x] ELSE p[x]
    BY <1>4, FieldsSet
  <1> HIDE DEF c
  <1>6. \A x \in PageFields : b[x] = IF x \in DOMAIN f THEN f[x] ELSE c[x]
    BY <1>3, FieldsSet
  <1>7. GoodPage(b)
    BY <1>2, <1>3, SetFields
  <1>8. r = IF back THEN b ELSE p
    BY DEF c
  <1> HIDE DEF b, r
  <1>9. GoodPage(r)
    BY <1>7, <1>8
  <1>10. \A x \in PageFields : q[x] = IF x \in DOMAIN g THEN g[x] ELSE r[x]
    BY <1>1, <1>9, FieldsSet
  <1>11. q.room = TRUE /\ q.phase = ph /\ \A x \in PageFields \ {"room", "phase"} : q[x] = r[x]
    BY <1>2, <1>10 DEF PageFields
  <1>12. CASE back
    <2>1. \A x \in PageFields \ {"pendingLobby"} : b[x] = c[x]
      BY <1>2, <1>6
    <2>2. b.pendingLobby = FALSE
      BY <1>2, <1>6 DEF PageFields
    <2>3. c.timeouts = Initial.timeouts /\ c.over = Initial.over /\ c.score = Initial.score /\ c.rows = Initial.rows
          /\ c.change = Initial.change /\ c.recovering = p.recovering /\ c.connected = p.connected
      BY <1>5 DEF PageFields, GameFields
    <2>4. b.timeouts = c.timeouts /\ b.over = c.over /\ b.score = c.score /\ b.rows = c.rows /\ b.change = c.change
          /\ b.recovering = c.recovering /\ b.connected = c.connected
      BY <2>1 DEF PageFields
    <2>5. q.timeouts = b.timeouts /\ q.over = b.over /\ q.score = b.score /\ q.rows = b.rows /\ q.change = b.change
          /\ q.recovering = b.recovering /\ q.connected = b.connected /\ q.pendingLobby = b.pendingLobby
      BY <1>8, <1>11, <1>12 DEF PageFields
    <2>6. ph = "room"
      BY <1>12
    <2>7. Fresh(q) /\ q.change = NoChange
      BY <2>3, <2>4, <2>5, InitialFields DEF Fresh, Initial
    <2> QED
      BY <1>11, <1>12, <2>2, <2>3, <2>4, <2>5, <2>6, <2>7
  <1>13. CASE ~back
    <2>1. \A x \in PageFields \ {"room", "phase"} : q[x] = p[x]
      BY <1>8, <1>11, <1>13
    <2>2. q.recovering = p.recovering /\ q.connected = p.connected
      BY <2>1 DEF PageFields
    <2>3. CASE lobby
      BY <1>11, <1>13, <2>1, <2>2, <2>3
    <2>4. CASE ~lobby
      <3>1. q.phase = p.phase
        BY <1>11, <2>4
      <3>2. \A x \in PageFields \ {"room"} : q[x] = p[x]
        BY <2>1, <3>1
      <3> QED
        BY <1>11, <2>2, <2>4, <3>2
    <2> QED
      BY <2>3, <2>4
  <1> QED
    BY <1>12, <1>13

LEMMA BumpSets ==
    ASSUME NEW p, GoodPage(p), NEW q \in Bumps(p)
    PROVE  GoodPage(q) /\ \A f \in PageFields \ {"pendingLobby"} : q[f] = p[f]
  <1> DEFINE F == [pendingLobby |-> TRUE]
  <1>1. q = p \/ q = With(p, F)
    BY DEF Bumps
  <1>2. DOMAIN F = {"pendingLobby"}
    OBVIOUS
  <1> HIDE DEF F
  <1>3. GoodPage(With(p, F))
    BY <1>2, SetFields
  <1>4. \A f \in PageFields \ {"pendingLobby"} : With(p, F)[f] = p[f]
    BY <1>2, FieldsSet
  <1> QED
    BY <1>1, <1>3, <1>4

\* The wish to go back does not count
LEMMA BumpAgrees ==
    ASSUME NEW me, NEW p, NEW s, Agrees(me, p, s), NEW q \in Bumps(p)
    PROVE  Agrees(me, q, s)
  <1>1. GoodPage(q) /\ \A f \in PageFields \ {"pendingLobby"} : q[f] = p[f]
    BY BumpSets DEF Agrees
  <1>2. /\ q.recovering = p.recovering /\ q.score = p.score /\ q.phase = p.phase /\ q.round = p.round /\ q.role = p.role
        /\ q.words = p.words /\ q.secret = p.secret /\ q.clues = p.clues /\ q.timed = p.timed
        /\ q.timeouts = p.timeouts /\ q.result = p.result /\ q.submitted = p.submitted
        /\ q.actions = p.actions /\ q.over = p.over /\ q.rows = p.rows
    BY <1>1 DEF PageFields
  <1> QED
    BY <1>1, <1>2 DEF Agrees, SameGame, Answered, ScoreFits, Counts, Rests, Fresh

-----------------------------------------------------------------------------
\* What the server sends

LEMMA ViewIs ==
    ASSUME NEW s, Running(s), NEW v, v = View(s)
    PROVE  /\ v # NoView /\ DOMAIN v \cap {"recovering", "room", "change"} = {}
           /\ {"phase", "round", "role", "words", "rows", "score", "timeouts", "result", "over", "clues",
               "secret", "actions", "timed", "submitted"} \subseteq DOMAIN v
           /\ v.phase = s.phase /\ v.round = s.round /\ v.role = Role(seat, s.round)
           /\ v.words = WordsOf(seat, s.game) /\ v.rows = s.rows
           /\ v.score = s.score /\ v.timeouts = s.timeouts /\ v.result = s.result
           /\ v.over = IsOver(s) /\ v.clues = CluesTold(s.phase) /\ v.secret = CodeOf(seat, s.round)
           /\ v.actions = Public(s.phase, s.round, s.accepted) /\ v.timed = Timed(s.phase, s.round)
           /\ v.submitted = Acted(seat, s.phase, s.round, s.accepted)
  <1> DEFINE role == Role(seat, s.round)
             mine == SeatAction(s.phase, role, s.round)
             words == WordsOf(seat, s.game)
             isOver == IsOver(s)
             told == CluesTold(s.phase)
             code == CodeOf(seat, s.round)
             acts == Public(s.phase, s.round, s.accepted)
             clock == Timed(s.phase, s.round)
             done == Acted(seat, s.phase, s.round, s.accepted)
             idle == mine \notin Actions(s.phase, s.round) \ s.accepted
  <1>1. v = [phase |-> s.phase, round |-> s.round, role |-> role, words |-> words, rows |-> s.rows,
             score |-> s.score, timeouts |-> s.timeouts, result |-> s.result, over |-> isOver,
             clues |-> told, secret |-> code, actions |-> acts, timed |-> clock, submitted |-> done,
             waiting |-> idle]
    BY DEF View, WordsOf, CodeOf, CluesTold, IsOver, Timed, Acted
  <1> HIDE DEF role, mine, words, isOver, told, code, acts, clock, done, idle
  <1>2. DOMAIN v = {"phase", "round", "role", "words", "rows", "score", "timeouts", "result", "over",
                    "clues", "secret", "actions", "timed", "submitted", "waiting"}
    BY <1>1
  <1>3. v # NoView
    <2>1. DOMAIN NoView = {"phase"}
      BY DEF NoView
    <2> QED
      BY <1>2, <2>1
  <1>4. DOMAIN v \cap {"recovering", "room", "change"} = {}
    BY <1>2
  <1>5. {"phase", "round", "role", "words", "rows", "score", "timeouts", "result", "over", "clues",
         "secret", "actions", "timed", "submitted"} \subseteq DOMAIN v
    BY <1>2
  <1>6. /\ v.phase = s.phase /\ v.round = s.round /\ v.role = role /\ v.words = words /\ v.rows = s.rows
        /\ v.score = s.score /\ v.timeouts = s.timeouts /\ v.result = s.result /\ v.secret = code
        /\ v.actions = acts
    BY <1>1
  <1>7. v.over = isOver /\ v.clues = told /\ v.timed = clock /\ v.submitted = done
    BY <1>1
  <1> QED
    BY <1>3, <1>4, <1>5, <1>6, <1>7 DEF role, mine, words, isOver, told, code, acts, clock, done

LEMMA NoGameView == ASSUME NEW s, ~Running(s) PROVE View(s) = NoView
  BY DEF View

PhaseIs(m, ph, s) ==
    /\ m.type = "phase_change" /\ m.phase = ph /\ m.view.round = s.round
    /\ m.view.role = Role(seat, s.round) /\ m.view.rows = s.rows
    /\ m.view.secret = CodeOf(seat, s.round)
    /\ m.view.actions = Public(ph, s.round, s.accepted) /\ m.view.timed = Timed(ph, s.round)
    /\ m.view.submitted = Acted(seat, ph, s.round, s.accepted)

LEMMA PhaseTold ==
    ASSUME NEW s, DOMAIN s = SrvFields, Running(s), NEW ph
    PROVE  PhaseIs(PhaseChange(ph, s), ph, s)
  <1> DEFINE m == PhaseChange(ph, s)
  <1>1. PICK t : t = [s EXCEPT !.phase = ph]
    OBVIOUS
  <1>2. Running(t) /\ t.phase = ph /\ t.round = s.round /\ t.rows = s.rows /\ t.accepted = s.accepted
    BY <1>1 DEF Running, SrvFields
  <1>3. PICK v : v = View(t)
    OBVIOUS
  <1>4. m.type = "phase_change" /\ m.phase = ph /\ m.view = v
    BY <1>1, <1>3 DEF PhaseChange
  <1> HIDE DEF m
  <1>5. /\ v.round = t.round /\ v.role = Role(seat, t.round) /\ v.rows = t.rows
        /\ v.secret = CodeOf(seat, t.round) /\ v.actions = Public(t.phase, t.round, t.accepted)
        /\ v.timed = Timed(t.phase, t.round) /\ v.submitted = Acted(seat, t.phase, t.round, t.accepted)
    BY <1>2, <1>3, ViewIs
  <1>6. PhaseIs(m, ph, s)
    BY <1>2, <1>4, <1>5 DEF PhaseIs
  <1> QED
    BY <1>6 DEF m

\* The actions of the phases
LEMMA PhaseActions ==
    ASSUME NEW r
    PROVE  /\ Actions("encrypting", r) = {"encrypt"} /\ Actions("guess", r) \in {Guesses, {"decrypt"}}
           /\ Actions("round_result", r) = {} /\ Actions("game_over", r) = {} /\ Actions("", r) = {}
  BY DEF Actions

LEMMA PublicIs ==
    ASSUME NEW ph, NEW r, NEW done
    PROVE  /\ DOMAIN Public(ph, r, done) = Actions(ph, r)
           /\ \A a \in Actions(ph, r) : /\ a \in done => Public(ph, r, done)[a]
                                     /\ Public(ph, r, done)[a] => a \in done
  BY DEF Public

LEMMA NobodyActs == DOMAIN NoActions = {}
  <1>1. DOMAIN Public("", 0, {}) = Actions("", 0)
    BY PublicIs
  <1>2. Actions("", 0) = {}
    BY PhaseActions
  <1> QED
    BY <1>1, <1>2 DEF NoActions

-----------------------------------------------------------------------------
\* The game on the server

\* A game as it goes
Goes(s) ==
    /\ s.game \in 1 .. Len(match) /\ s.round \in Nat \ {0}
    /\ (s.stage = "over") = (s.phase = "game_over")
    /\ s.accepted \subseteq Actions(s.phase, s.round)
    /\ s.phase = "encrypting" => s.announced = {}
    /\ s.phase = "guess" => s.announced \subseteq s.accepted
    /\ s.phase \in {"encrypting", "guess"} => s.result = NoResult
    /\ \A t \in s.timeouts : \E a \in match[s.game][s.round].late : t = <<s.round, a>>
    /\ s.phase = "game_over" => s.round = Len(match[s.game])

SrvPlays ==
    /\ match \in Matches
    /\ srv.stage \in {"lobby", "playing", "over", "gone"}
    /\ srv.game \in 0 .. Len(match) /\ srv.score \in Scores /\ srv.rows \in Nat
    /\ srv.stage = "gone" => attached = NoLine
    /\ Running(srv) => Goes(srv)

LEMMA ScoredIs ==
    ASSUME NEW score \in Scores, NEW t \in PageTeams, NEW wrong, NEW hit, NEW new, new = Scored(score, t, wrong, hit)
    PROVE  /\ new \in Scores
           /\ new[t].interceptions = score[t].interceptions
           /\ new[t].failures = score[t].failures + (IF wrong THEN 1 ELSE 0)
           /\ \A u \in PageTeams \ {t} : /\ new[u].failures = score[u].failures
                                         /\ new[u].interceptions = score[u].interceptions + (IF hit THEN 1 ELSE 0)
  <1> DEFINE f == IF wrong THEN 1 ELSE 0
             i == IF hit THEN 1 ELSE 0
  <1>1. f \in Nat /\ i \in Nat
    OBVIOUS
  <1>2. new = [score EXCEPT ![t].failures = @ + f, ![OtherTeam(t)].interceptions = @ + i]
    BY DEF Scored
  <1> HIDE DEF f, i
  <1>3. /\ OtherTeam(t) \in PageTeams /\ OtherTeam(t) # t
        /\ \A u \in PageTeams \ {t} : u = OtherTeam(t)
    BY DEF OtherTeam, PageTeams
  <1> QED
    BY <1>1, <1>2, <1>3 DEF Scores, f, i

LEMMA SrvPlaysInit == PageInit => SrvPlays
  <1> SUFFICES ASSUME PageInit PROVE SrvPlays
    OBVIOUS
  <1>1. match \in Seq(Seq(Verdicts)) /\ match \in Matches
    BY PageAssumption DEF PageInit
  <1>2. Zero \in Scores
    BY DEF Zero, Scores
  <1>3. 0 \in 0 .. Len(match)
    BY <1>1
  <1>4. srv.stage = "lobby" /\ srv.game = 0 /\ srv.score = Zero /\ srv.rows = 0
    BY DEF PageInit
  <1> QED
    BY <1>1, <1>2, <1>3, <1>4 DEF SrvPlays, Running

LEMMA SrvPlaysNext == SrvInv /\ SrvPlays /\ [PageNext]_pageVars => SrvPlays'
  <1> SUFFICES ASSUME SrvInv, SrvPlays, [PageNext]_pageVars PROVE SrvPlays'
    OBVIOUS
  <1>a. /\ DOMAIN srv = SrvFields
        /\ IF Running(srv) THEN srv.phase \in GamePhases ELSE srv.phase = ""
    BY DEF SrvInv
  <1>b. match \in Seq(Seq(Verdicts)) /\ Len(match) \in Nat
    BY PageAssumption DEF SrvPlays
  <1>c. UNCHANGED match
    BY DEF PageNext, PageConnect, Open, Fail, Close, Receive, Handle, HandleEnter, HandleResume, HandleReopen,
           Retry, PageEnter, Return, Disconnect, Reset, Reload, SendSync, Reopen, Expire, GameStep,
           StartGame, NextRound, BeginGuess, Finish, End, Answer, Announce, Tell, pageVars, srvVars
  <1>d. Zero \in Scores
    BY DEF Zero, Scores
  <1>1. ASSUME NEW l \in Lines, HandleEnter(l) PROVE SrvPlays'
    <2>1. CASE srv.stage = "lobby" /\ attached # l
      <3>1. srv' = [srv EXCEPT !.joined = TRUE]
        BY <1>1, <2>1 DEF HandleEnter
      <3>2. srv'.stage = "lobby" /\ srv'.game = srv.game /\ srv'.score = srv.score /\ srv'.rows = srv.rows
        BY <1>a, <2>1, <3>1 DEF SrvFields
      <3> QED
        BY <1>c, <3>2 DEF SrvPlays, Running
    <2>2. CASE ~(srv.stage = "lobby" /\ attached # l)
      <3>1. UNCHANGED <<srv, attached>>
        BY <1>1, <2>2 DEF HandleEnter
      <3> QED
        BY <1>c, <3>1 DEF SrvPlays, Running, Goes
    <2> QED
      BY <2>1, <2>2
  <1>2. ASSUME srv' = Lobby(srv) PROVE SrvPlays'
    <2>1. srv'.stage = "lobby" /\ srv'.game = srv.game /\ srv'.score = srv.score /\ srv'.rows = srv.rows
      BY <1>a, <1>2 DEF SrvFields, Lobby
    <2> QED
      BY <1>c, <2>1 DEF SrvPlays, Running
  <1>3. CASE Expire
    <2>1. srv' = [srv EXCEPT !.stage = "gone"] /\ attached' = NoLine
      BY <1>3 DEF Expire
    <2>2. srv'.stage = "gone" /\ srv'.game = srv.game /\ srv'.score = srv.score /\ srv'.rows = srv.rows
      BY <1>a, <2>1 DEF SrvFields
    <2> QED
      BY <1>c, <2>1, <2>2 DEF SrvPlays, Running
  <1>4. CASE StartGame
    <2>1. /\ srv.game < Len(match)
          /\ srv' = PageRound([srv EXCEPT !.stage = "playing", !.game = @ + 1, !.rows = 0, !.score = Zero], 1)
      BY <1>4 DEF StartGame
    <2>2. /\ srv'.stage = "playing" /\ srv'.game = srv.game + 1 /\ srv'.rows = 0 /\ srv'.score = Zero
          /\ srv'.round = 1 /\ srv'.phase = "encrypting" /\ srv'.accepted = {} /\ srv'.announced = {}
          /\ srv'.timeouts = {} /\ srv'.result = NoResult
      BY <1>a, <2>1 DEF SrvFields, PageRound
    <2>3. srv.game + 1 \in 1 .. Len(match)
      BY <1>b, <2>1 DEF SrvPlays
    <2> QED
      BY <1>b, <1>c, <1>d, <2>2, <2>3 DEF SrvPlays, Running, Goes
  <1>5. CASE NextRound
    <2>1. srv.phase = "round_result" /\ srv' = PageRound(srv, srv.round + 1)
      BY <1>5 DEF NextRound
    <2>2. Running(srv) /\ Goes(srv)
      BY <1>a, <2>1 DEF SrvPlays
    <2>3. /\ srv'.stage = srv.stage /\ srv'.game = srv.game /\ srv'.rows = srv.rows /\ srv'.score = srv.score
          /\ srv'.round = srv.round + 1 /\ srv'.phase = "encrypting" /\ srv'.accepted = {} /\ srv'.announced = {}
          /\ srv'.timeouts = {} /\ srv'.result = NoResult
      BY <1>a, <2>1 DEF SrvFields, PageRound
    <2>4. srv.stage = "playing"
      BY <2>1, <2>2 DEF Running, Goes
    <2>5. srv.round + 1 \in Nat \ {0}
      BY <2>2 DEF Goes
    <2> QED
      BY <1>c, <2>2, <2>3, <2>4, <2>5 DEF SrvPlays, Running, Goes
  <1>6. CASE BeginGuess
    <2>1. srv.phase = "encrypting" /\ srv' = [srv EXCEPT !.phase = "guess", !.accepted = {}]
      BY <1>6 DEF BeginGuess
    <2>2. Running(srv) /\ Goes(srv)
      BY <1>a, <2>1 DEF SrvPlays
    <2>3. /\ srv'.stage = srv.stage /\ srv'.game = srv.game /\ srv'.rows = srv.rows /\ srv'.score = srv.score
          /\ srv'.round = srv.round /\ srv'.phase = "guess" /\ srv'.accepted = {} /\ srv'.announced = srv.announced
          /\ srv'.timeouts = srv.timeouts /\ srv'.result = srv.result
      BY <1>a, <2>1 DEF SrvFields
    <2>5. srv.stage = "playing" /\ srv.announced = {} /\ srv.result = NoResult
      BY <2>1, <2>2 DEF Running, Goes
    <2> QED
      BY <1>c, <2>2, <2>3, <2>5 DEF SrvPlays, Running, Goes
  <1>7. ASSUME NEW a, Answer(a) PROVE SrvPlays'
    <2> DEFINE late == a \in This.late
               T == IF late THEN srv.timeouts \cup {<<srv.round, a>>} ELSE srv.timeouts
    <2>1. /\ a \in Actions(srv.phase, srv.round) \ srv.accepted /\ attached' = attached
          /\ srv' = [srv EXCEPT !.accepted = @ \cup {a}, !.timeouts = T]
      BY <1>7 DEF Answer, Tell
    <2>0. Running(srv) /\ Goes(srv)
      BY <1>a, <2>1, PhaseActions DEF SrvPlays
    <2>2. \A t \in T : \E b \in match[srv.game][srv.round].late : t = <<srv.round, b>>
      BY <2>0 DEF Goes, This
    <2> HIDE DEF T
    <2>3. /\ srv'.stage = srv.stage /\ srv'.game = srv.game /\ srv'.rows = srv.rows /\ srv'.score = srv.score
          /\ srv'.round = srv.round /\ srv'.phase = srv.phase /\ srv'.accepted = srv.accepted \cup {a}
          /\ srv'.announced = srv.announced
          /\ srv'.timeouts = T /\ srv'.result = srv.result
      BY <1>a, <2>1 DEF SrvFields
    <2>4. srv.accepted \cup {a} \subseteq Actions(srv.phase, srv.round)
      BY <2>0, <2>1 DEF Goes
    <2> QED
      BY <1>c, <2>0, <2>1, <2>2, <2>3, <2>4 DEF SrvPlays, Running, Goes
  <1>8. ASSUME NEW a, Announce(a) PROVE SrvPlays'
    <2>1. /\ srv.phase = "guess" /\ a \in srv.accepted /\ attached' = attached
          /\ srv' = [srv EXCEPT !.announced = @ \cup {a}]
      BY <1>8 DEF Announce, Tell
    <2>2. Running(srv) /\ Goes(srv)
      BY <1>a, <2>1 DEF SrvPlays
    <2>3. /\ srv'.stage = srv.stage /\ srv'.game = srv.game /\ srv'.rows = srv.rows /\ srv'.score = srv.score
          /\ srv'.round = srv.round /\ srv'.phase = srv.phase /\ srv'.accepted = srv.accepted
          /\ srv'.announced = srv.announced \cup {a}
          /\ srv'.timeouts = srv.timeouts /\ srv'.result = srv.result
      BY <1>a, <2>1 DEF SrvFields
    <2> QED
      BY <1>c, <2>1, <2>2, <2>3 DEF SrvPlays, Running, Goes
  <1>9. CASE Finish
    <2> DEFINE t == Sending(srv.round)
               hit == "intercept" \in srv.announced /\ This.hit
               res == [decrypt |-> IF This.right THEN "yes" ELSE "no",
                       intercept |-> IF ~("intercept" \in srv.announced) THEN "none" ELSE IF hit THEN "yes" ELSE "no"]
               S == Scored(srv.score, t, ~This.right, hit)
    <2>1. /\ srv.phase = "guess" /\ attached' = attached
          /\ srv' = [srv EXCEPT !.phase = "round_result", !.accepted = {}, !.rows = srv.round,
                                !.result = res, !.score = S]
      BY <1>9 DEF Finish, Tell
    <2>2. Running(srv) /\ Goes(srv)
      BY <1>a, <2>1 DEF SrvPlays
    <2>3. S \in Scores
      BY ScoredIs DEF SrvPlays, Sending, PageTeams
    <2> HIDE DEF S, res
    <2>4. /\ srv'.stage = srv.stage /\ srv'.game = srv.game /\ srv'.rows = srv.round /\ srv'.score = S
          /\ srv'.round = srv.round /\ srv'.phase = "round_result" /\ srv'.accepted = {}
          /\ srv'.timeouts = srv.timeouts
      BY <1>a, <2>1 DEF SrvFields
    <2>5. srv.stage = "playing" /\ srv.round \in Nat
      BY <2>1, <2>2 DEF Running, Goes
    <2> QED
      BY <1>c, <2>1, <2>2, <2>3, <2>4, <2>5 DEF SrvPlays, Running, Goes
  <1>10. CASE End
    <2>1. /\ srv.phase = "round_result" /\ srv.round = Len(match[srv.game]) /\ attached' = attached
          /\ srv' = [srv EXCEPT !.phase = "game_over", !.stage = "over"]
      BY <1>10 DEF End, Tell
    <2>2. Running(srv) /\ Goes(srv)
      BY <1>a, <2>1 DEF SrvPlays
    <2>3. /\ srv'.stage = "over" /\ srv'.game = srv.game /\ srv'.rows = srv.rows /\ srv'.score = srv.score
          /\ srv'.round = srv.round /\ srv'.phase = "game_over" /\ srv'.accepted = srv.accepted
          /\ srv'.timeouts = srv.timeouts
      BY <1>a, <2>1 DEF SrvFields
    <2>4. srv.accepted \subseteq Actions("game_over", srv.round)
      BY <2>1, <2>2, PhaseActions DEF Goes
    <2> QED
      BY <1>c, <2>1, <2>2, <2>3, <2>4 DEF SrvPlays, Running, Goes
  <1>11. CASE Reopen \/ (\E l \in Lines : HandleReopen(l))
    <2>1. srv' = Lobby(srv) \/ UNCHANGED <<srv, attached>>
      BY <1>11 DEF Reopen, HandleReopen
    <2> QED
      BY <1>2, <1>c, <2>1 DEF SrvPlays, Running, Goes
  <1>12. CASE \/ (\E elsewhere \in BOOLEAN : PageConnect(elsewhere))
              \/ (\E l \in Lines : Open(l) \/ Fail(l) \/ Close(l) \/ Receive(l) \/ HandleResume(l))
              \/ Retry \/ PageEnter \/ Return \/ Disconnect \/ Reset \/ Reload
              \/ SendSync \/ UNCHANGED pageVars
    <2>1. UNCHANGED srv /\ (attached' = attached \/ attached' = NoLine \/ srv.stage # "gone")
      BY <1>12 DEF PageConnect, Open, Fail, Close, Receive, HandleResume, Retry, PageEnter,
                  Return, Disconnect, Reset, Reload, SendSync, pageVars, srvVars
    <2> QED
      BY <1>c, <2>1 DEF SrvPlays, Running, Goes
  <1> QED
    BY <1>1, <1>3, <1>4, <1>5, <1>6, <1>7, <1>8, <1>9, <1>10, <1>11, <1>12 DEF PageNext, Handle, GameStep

-----------------------------------------------------------------------------
\* Each message brings the page to what the server then has

\* The answers as the server has them, when the table was told of no other
LEMMA FreshAnswers ==
    ASSUME NEW s, s.announced \subseteq s.accepted, NEW q, q.actions = Public(s.phase, s.round, s.accepted)
    PROVE  Answered(q, s)
  <1>1. DOMAIN q.actions = Actions(s.phase, s.round)
    BY PublicIs
  <1>2. ASSUME NEW a \in Actions(s.phase, s.round)
        PROVE  (a \in s.accepted => q.actions[a]) /\ (q.actions[a] => a \in s.accepted)
    BY <1>2, Zenon DEF Public
  <1> QED
    BY <1>1, <1>2 DEF Answered

LEMMA CluesAre ==
    /\ CluesTold("encrypting") = FALSE
    /\ CluesTold("guess") = TRUE /\ CluesTold("round_result") = TRUE /\ CluesTold("game_over") = TRUE
  BY DEF CluesTold

\* The first moment of a round
Begins(s) ==
    /\ DOMAIN s = SrvFields /\ Running(s) /\ s.stage = "playing" /\ s.phase = "encrypting"
    /\ s.accepted = {} /\ s.announced = {} /\ s.timeouts = {} /\ s.result = NoResult /\ s.score \in Scores

LEMMA EncryptingShown ==
    ASSUME NEW s, Begins(s), NEW p, GoodPage(p), p.score \in Scores,
           p.words = WordsOf(seat, s.game),
           \A t \in p.timeouts : t[1] # s.round,
           p.over \/ (p.score = s.score /\ p.rows = s.rows /\ p.over = FALSE), Counts(p, s),
           NEW q, q = OnMessage(p, PhaseChange("encrypting", s)), GoodPage(q)
    PROVE  Agrees(seat, q, s)
  <1>0. PICK m : m = PhaseChange("encrypting", s)
    OBVIOUS
  <1>a. DOMAIN s = SrvFields /\ Running(s)
    BY DEF Begins
  <1>1. /\ m.type = "phase_change" /\ m.phase = "encrypting" /\ m.view.round = s.round
        /\ m.view.role = Role(seat, s.round) /\ m.view.rows = s.rows
        /\ m.view.secret = CodeOf(seat, s.round)
        /\ m.view.actions = Public("encrypting", s.round, s.accepted)
        /\ m.view.timed = Timed("encrypting", s.round)
        /\ m.view.submitted = Acted(seat, "encrypting", s.round, s.accepted)
    <2>1. PhaseIs(m, "encrypting", s)
      BY <1>0, <1>a, PhaseTold
    <2> QED
      BY <2>1 DEF PhaseIs
  <1>2. q = OnMessage(p, m)
    BY <1>0
  <1>3. /\ q.phase = "encrypting"
        /\ q.timed = m.view.timed /\ q.submitted = m.view.submitted /\ ~q.recovering
        /\ q.actions = m.view.actions /\ q.round = m.view.round /\ q.role = m.view.role
        /\ q.secret = m.view.secret /\ q.clues = FALSE /\ q.result = NoResult
        /\ q.timeouts = OfRound(p.timeouts, m.view.round) /\ q.rows = RowsOr(m.view.rows, p.rows)
        /\ q.words = p.words /\ q.score = p.score /\ q.over = p.over
    <2>1. PhaseSet(p, m, q)
      BY <1>1, <1>2, PhaseSets
    <2> QED
      BY <1>1, <2>1 DEF PhaseSet
  <1>4. q.timeouts = {}
    BY <1>1, <1>3 DEF OfRound
  <1>5. ~q.submitted
    BY <1>1, <1>3 DEF Begins, Acted
  <1>6. Answered(q, s)
    <2>1. q.actions = Public("encrypting", s.round, s.accepted)
      BY <1>1, <1>3
    <2> QED
      BY <2>1, FreshAnswers DEF Begins
  <1>7. q.timed = Timed(s.phase, s.round) /\ q.clues = CluesTold(s.phase)
    BY <1>1, <1>3, CluesAre DEF Begins
  <1>8. SameGame(seat, q, s)
    BY <1>1, <1>3, <1>4, <1>5, <1>7 DEF SameGame, Begins
  <1>9. ScoreFits(q, s) /\ Counts(q, s)
    BY <1>1, <1>3 DEF ScoreFits, Counts, Begins, RowsOr, IsOver
  <1> QED
    BY <1>3, <1>6, <1>8, <1>9 DEF Agrees, Begins

\* What the agreement says, field by field
LEMMA StartTold ==
    ASSUME SrvInv, StartGame, NEW p, Agrees(seat, p, srv),
           NEW q \in Bumps(OnMessage(p, Now("game_start", srv'))),
           NEW r \in Bumps(OnMessage(q, PhaseChange("encrypting", srv')))
    PROVE  Agrees(seat, r, srv')
  <1>a. DOMAIN srv = SrvFields
    BY DEF SrvInv
  <1>1. /\ ~Running(srv)
        /\ srv' = PageRound([srv EXCEPT !.stage = "playing", !.game = @ + 1, !.rows = 0, !.score = Zero], 1)
    BY DEF StartGame, Running
  <1>2. PICK s : s = srv'
    OBVIOUS
  <1>3. Begins(s) /\ s.rows = 0 /\ s.score = Zero /\ s.round = 1 /\ GoodMessage(PhaseChange("encrypting", s))
    <2>0. Zero \in Scores
      BY DEF Zero, Scores
    <2>1. /\ DOMAIN s = SrvFields /\ s.stage = "playing" /\ s.rows = 0 /\ s.score = Zero
          /\ s.round = 1 /\ s.phase = "encrypting" /\ s.accepted = {} /\ s.announced = {}
          /\ s.timeouts = {} /\ s.result = NoResult
      BY <1>a, <1>1, <1>2 DEF SrvFields, PageRound
    <2>2. Running(s)
      BY <2>1 DEF Running
    <2>3. GoodMessage(PhaseChange("encrypting", s))
      BY <2>1, <2>2, PhaseMessage
    <2> QED
      BY <2>0, <2>1, <2>2, <2>3 DEF Begins
  <1>4. PICK m : m = Now("game_start", s)
    OBVIOUS
  <1>5. m.type = "game_start" /\ m.view = View(s) /\ m.view.words = WordsOf(seat, s.game) /\ GoodMessage(m)
    <2>1. m.type = "game_start" /\ m.view = View(s)
      BY <1>4 DEF Now
    <2>2. View(s).words = WordsOf(seat, s.game) /\ View(s).role = Role(seat, s.round)
      BY <1>3, ViewIs DEF Begins
    <2>3. Role(seat, s.round) \in Roles
      BY DEF Role, Roles
    <2> QED
      BY <2>1, <2>2, <2>3 DEF GoodMessage
  <1>6. /\ GoodPage(p) /\ p.score \in Scores /\ Rests(p)
    BY <1>1 DEF Agrees
  <1>7. PICK o : o = OnMessage(p, m)
    OBVIOUS
  <1>8. /\ o.words = m.view.words /\ \A f \in PageFields \ {"round", "role", "words"} : o[f] = p[f]
    BY <1>5, <1>6, <1>7, StartSets
  <1>9. GoodPage(o) /\ q \in Bumps(o)
    BY <1>2, <1>4, <1>5, <1>6, <1>7, MessageHandled
  <1>10. GoodPage(q) /\ \A f \in PageFields \ {"pendingLobby"} : q[f] = o[f]
    BY <1>9, BumpSets
  <1>11. q.words = m.view.words /\ q.score = p.score /\ q.over = p.over /\ q.rows = p.rows /\ q.timeouts = p.timeouts
    BY <1>8, <1>10 DEF PageFields
  <1>12. PICK u : u = OnMessage(q, PhaseChange("encrypting", s))
    OBVIOUS
  <1>13. GoodPage(u)
    BY <1>3, <1>10, <1>12, MessageHandled
  <1>14. \A t \in q.timeouts : t[1] # s.round
    BY <1>3, <1>6, <1>11 DEF Rests, Fresh
  <1>15. q.over \/ (q.score = s.score /\ q.rows = s.rows /\ q.over = FALSE)
    BY <1>3, <1>6, <1>11 DEF Rests, Fresh
  <1>16. Counts(q, s)
    BY <1>3 DEF Counts
  <1>17. Agrees(seat, u, s)
    BY <1>3, <1>5, <1>6, <1>10, <1>11, <1>12, <1>13, <1>14, <1>15, <1>16, EncryptingShown
  <1> QED
    BY <1>2, <1>12, <1>17, BumpAgrees

LEMMA RoundTold ==
    ASSUME SrvInv, SrvPlays, NextRound, NEW p, Agrees(seat, p, srv),
           NEW q \in Bumps(OnMessage(p, PhaseChange("new_round", srv'))),
           NEW r \in Bumps(OnMessage(q, PhaseChange("encrypting", srv')))
    PROVE  Agrees(seat, r, srv')
  <1>a. DOMAIN srv = SrvFields /\ IF Running(srv) THEN srv.phase \in GamePhases ELSE srv.phase = ""
    BY DEF SrvInv
  <1>1. srv.phase = "round_result" /\ srv' = PageRound(srv, srv.round + 1)
    BY DEF NextRound
  <1>2. Running(srv) /\ Goes(srv) /\ srv.score \in Scores
    BY <1>a, <1>1 DEF SrvPlays
  <1>3. srv.stage = "playing" /\ srv.round \in Nat /\ \A t \in srv.timeouts : t[1] = srv.round
    BY <1>1, <1>2 DEF Running, Goes
  <1>4. PICK s : s = srv'
    OBVIOUS
  <1>5. /\ DOMAIN s = SrvFields /\ s.stage = "playing" /\ s.rows = srv.rows /\ s.score = srv.score
        /\ s.round = srv.round + 1 /\ s.phase = "encrypting" /\ s.accepted = {} /\ s.announced = {}
        /\ s.timeouts = {} /\ s.result = NoResult /\ s.game = srv.game
    BY <1>a, <1>1, <1>3, <1>4 DEF SrvFields, PageRound
  <1>6. Running(s)
    BY <1>5 DEF Running
  <1>7. Begins(s) /\ GoodMessage(PhaseChange("encrypting", s)) /\ GoodMessage(PhaseChange("new_round", s))
    BY <1>2, <1>5, <1>6, PhaseMessage DEF Begins
  <1>8. GoodPage(p) /\ p.score \in Scores /\ SameGame(seat, p, srv) /\ ScoreFits(p, srv) /\ Counts(p, srv)
    BY <1>2 DEF Agrees
  <1>9. PICK m : m = PhaseChange("new_round", s)
    OBVIOUS
  <1>10. m.type = "phase_change" /\ m.phase = "new_round" /\ m.view.round = s.round /\ m.view.rows = s.rows
    <2>1. PhaseIs(m, "new_round", s)
      BY <1>5, <1>6, <1>9, PhaseTold
    <2> QED
      BY <2>1 DEF PhaseIs
  <1>11. PICK o : o = OnMessage(p, m)
    OBVIOUS
  <1>12. /\ o.timeouts = OfRound(p.timeouts, s.round) /\ o.rows = RowsOr(s.rows, p.rows)
         /\ o.words = p.words /\ o.score = p.score /\ o.over = p.over
    <2>1. PhaseSet(p, m, o)
      BY <1>8, <1>10, <1>11, PhaseSets
    <2> QED
      BY <1>10, <2>1 DEF PhaseSet
  <1>13. GoodPage(o) /\ q \in Bumps(o)
    BY <1>4, <1>7, <1>8, <1>9, <1>11, MessageHandled
  <1>14. GoodPage(q) /\ \A f \in PageFields \ {"pendingLobby"} : q[f] = o[f]
    BY <1>13, BumpSets
  <1>15. q.words = o.words /\ q.score = o.score /\ q.over = o.over /\ q.rows = o.rows /\ q.timeouts = o.timeouts
    BY <1>14 DEF PageFields
  <1>16. PICK u : u = OnMessage(q, PhaseChange("encrypting", s))
    OBVIOUS
  <1>17. GoodPage(u)
    BY <1>7, <1>14, <1>16, MessageHandled
  <1>18. \A t \in q.timeouts : t[1] # s.round
    <2>1. \A t \in p.timeouts : t[1] # s.round
      BY <1>3, <1>5, <1>8 DEF SameGame
    <2> QED
      BY <1>12, <1>15, <2>1 DEF OfRound
  <1>19. q.over \/ (q.score = s.score /\ q.rows = s.rows /\ q.over = FALSE)
    BY <1>3, <1>5, <1>8, <1>12, <1>15 DEF ScoreFits, RowsOr, IsOver
  <1>20. Counts(q, s)
    BY <1>5, <1>8, <1>12, <1>15 DEF Counts
  <1>21. q.words = WordsOf(seat, s.game)
    BY <1>5, <1>8, <1>12, <1>15 DEF SameGame
  <1>22. Agrees(seat, u, s)
    BY <1>7, <1>8, <1>12, <1>14, <1>15, <1>16, <1>17, <1>18, <1>19, <1>20, <1>21, EncryptingShown
  <1> QED
    BY <1>4, <1>16, <1>22, BumpAgrees

\* A page that agrees in a running game
LEMMA InGame ==
    ASSUME NEW p, NEW s, Running(s), Agrees(seat, p, s)
    PROVE  GoodPage(p) /\ p.recovering = FALSE /\ p.score \in Scores /\ SameGame(seat, p, s) /\ Answered(p, s)
           /\ ScoreFits(p, s) /\ Counts(p, s)
  <1>1. p.recovering = FALSE
    BY DEF Agrees
  <1> QED
    BY <1>1 DEF Agrees

LEMMA GuessTold ==
    ASSUME SrvInv, SrvPlays, BeginGuess, NEW p, Agrees(seat, p, srv),
           NEW q \in Bumps(OnMessage(p, Now("clues_submitted", srv))),
           NEW r \in Bumps(OnMessage(q, PhaseChange("guess", srv')))
    PROVE  Agrees(seat, r, srv')
  <1>a. DOMAIN srv = SrvFields /\ IF Running(srv) THEN srv.phase \in GamePhases ELSE srv.phase = ""
    BY DEF SrvInv
  <1>1. srv.phase = "encrypting" /\ srv' = [srv EXCEPT !.phase = "guess", !.accepted = {}]
    BY DEF BeginGuess
  <1>2. Running(srv) /\ Goes(srv)
    BY <1>a, <1>1 DEF SrvPlays
  <1>3. srv.stage = "playing" /\ srv.announced = {} /\ srv.result = NoResult /\ \A t \in srv.timeouts : t[1] = srv.round
    BY <1>1, <1>2 DEF Running, Goes
  <1>4. PICK s : s = srv'
    OBVIOUS
  <1>5. /\ DOMAIN s = SrvFields /\ s.stage = "playing" /\ s.rows = srv.rows /\ s.score = srv.score
        /\ s.round = srv.round /\ s.phase = "guess" /\ s.accepted = {} /\ s.announced = {}
        /\ s.timeouts = srv.timeouts /\ s.result = NoResult /\ s.game = srv.game
    BY <1>a, <1>1, <1>3, <1>4 DEF SrvFields
  <1>6. Running(s)
    BY <1>5 DEF Running
  <1>7. GoodMessage(PhaseChange("guess", s))
    BY <1>5, <1>6, PhaseMessage
  <1>8. GoodPage(p) /\ p.score \in Scores /\ SameGame(seat, p, srv) /\ ScoreFits(p, srv) /\ Counts(p, srv)
    BY <1>2, InGame
  <1>9. PICK m : m = Now("clues_submitted", srv)
    OBVIOUS
  <1>10. m.type = "clues_submitted" /\ m.view.rows = srv.rows /\ GoodMessage(m)
    <2>1. m.type = "clues_submitted" /\ m.view = View(srv)
      BY <1>9 DEF Now
    <2>2. View(srv).rows = srv.rows
      BY <1>2, ViewIs
    <2> QED
      BY <2>1, <2>2 DEF GoodMessage
  <1>11. PICK o : o = OnMessage(p, m)
    OBVIOUS
  <1>12. o.rows = RowsOr(srv.rows, p.rows) /\ \A f \in PageFields \ {"clues", "rows"} : o[f] = p[f]
    BY <1>8, <1>10, <1>11, CluesSets DEF RowsOr
  <1>13. GoodPage(o) /\ q \in Bumps(o)
    BY <1>8, <1>9, <1>10, <1>11, MessageHandled
  <1>14. GoodPage(q) /\ \A f \in PageFields \ {"pendingLobby"} : q[f] = o[f]
    BY <1>13, BumpSets
  <1>15. /\ q.words = p.words /\ q.score = p.score /\ q.over = p.over /\ q.rows = RowsOr(srv.rows, p.rows)
         /\ q.timeouts = p.timeouts
    BY <1>12, <1>14 DEF PageFields
  <1>16. PICK u : u = OnMessage(q, PhaseChange("guess", s))
    OBVIOUS
  <1>17. GoodPage(u)
    BY <1>7, <1>14, <1>16, MessageHandled
  <1>18. PICK n : n = PhaseChange("guess", s)
    OBVIOUS
  <1>19. /\ n.type = "phase_change" /\ n.phase = "guess" /\ n.view.round = s.round
         /\ n.view.role = Role(seat, s.round) /\ n.view.rows = s.rows
         /\ n.view.secret = CodeOf(seat, s.round)
         /\ n.view.actions = Public("guess", s.round, s.accepted) /\ n.view.timed = Timed("guess", s.round)
         /\ n.view.submitted = Acted(seat, "guess", s.round, s.accepted)
    <2>1. PhaseIs(n, "guess", s)
      BY <1>5, <1>6, <1>18, PhaseTold
    <2> QED
      BY <2>1 DEF PhaseIs
  <1>20. PhaseSet(q, n, u)
    BY <1>14, <1>16, <1>18, <1>19, PhaseSets
  <1>21. /\ u.phase = "guess" /\ u.clues = TRUE
         /\ u.timed = Timed("guess", s.round) /\ u.submitted = Acted(seat, "guess", s.round, s.accepted)
         /\ ~u.recovering /\ u.actions = Public("guess", s.round, s.accepted) /\ u.round = s.round
         /\ u.role = Role(seat, s.round) /\ u.secret = CodeOf(seat, s.round) /\ u.result = NoResult
         /\ u.timeouts = OfRound(p.timeouts, s.round) /\ u.rows = RowsOr(s.rows, RowsOr(srv.rows, p.rows))
         /\ u.words = p.words /\ u.score = p.score /\ u.over = p.over
    BY <1>15, <1>19, <1>20 DEF PhaseSet
  <1>22. u.timeouts = s.timeouts
    BY <1>3, <1>5, <1>8, <1>21 DEF OfRound, SameGame
  <1>23. Answered(u, s)
    BY <1>5, <1>21, FreshAnswers
  <1>24. SameGame(seat, u, s)
    BY <1>5, <1>8, <1>21, <1>22, CluesAre DEF SameGame
  <1>25. ScoreFits(u, s) /\ Counts(u, s)
    BY <1>3, <1>5, <1>8, <1>21 DEF ScoreFits, Counts, RowsOr, IsOver
  <1>26. Agrees(seat, u, s)
    BY <1>6, <1>8, <1>17, <1>21, <1>23, <1>24, <1>25 DEF Agrees
  <1> QED
    BY <1>4, <1>16, <1>26, BumpAgrees

\* An action is answered
LEMMA AnswerTold ==
    ASSUME SrvInv, SrvPlays, NEW a, Answer(a), NEW p, Agrees(seat, p, srv)
    PROVE  /\ a \notin This.late => Agrees(seat, p, srv')
           /\ a \in This.late =>
                 \A r \in Bumps(OnMessage(p, [type |-> "timeout", round |-> srv.round, action |-> a])) :
                    Agrees(seat, r, srv')
  <1>a. DOMAIN srv = SrvFields /\ IF Running(srv) THEN srv.phase \in GamePhases ELSE srv.phase = ""
    BY DEF SrvInv
  <1> DEFINE T == IF a \in This.late THEN srv.timeouts \cup {<<srv.round, a>>} ELSE srv.timeouts
  <1>1. /\ a \in Actions(srv.phase, srv.round) \ srv.accepted
        /\ srv' = [srv EXCEPT !.accepted = @ \cup {a}, !.timeouts = T]
    BY DEF Answer
  <1>2. Running(srv) /\ Goes(srv)
    BY <1>a, <1>1, PhaseActions DEF SrvPlays
  <1>3. \A t \in srv.timeouts : \E b : t = <<srv.round, b>>
    BY <1>2 DEF Goes
  <1>4. PICK s : s = srv'
    OBVIOUS
  <1>5. PICK ts : ts = T
    OBVIOUS
  <1>6. ts = IF a \in This.late THEN srv.timeouts \cup {<<srv.round, a>>} ELSE srv.timeouts
    BY <1>5
  <1>7. srv' = [srv EXCEPT !.accepted = @ \cup {a}, !.timeouts = ts]
    BY <1>1, <1>5
  <1> HIDE DEF T
  <1>8. /\ DOMAIN s = SrvFields /\ s.stage = srv.stage /\ s.rows = srv.rows /\ s.score = srv.score
        /\ s.round = srv.round /\ s.phase = srv.phase /\ s.accepted = srv.accepted \cup {a} /\ s.announced = srv.announced
        /\ s.timeouts = ts /\ s.result = srv.result /\ s.game = srv.game
    BY <1>a, <1>4, <1>7 DEF SrvFields
  <1>9. Running(s)
    BY <1>2, <1>8 DEF Running
  <1>10. /\ GoodPage(p) /\ p.recovering = FALSE /\ p.score \in Scores /\ SameGame(seat, p, srv) /\ Answered(p, srv)
         /\ ScoreFits(p, srv) /\ Counts(p, srv)
    BY <1>2, InGame
  <1>11. ASSUME NEW q, GoodPage(q), \A f \in PageFields \ {"timeouts"} : q[f] = p[f], q.timeouts = ts
         PROVE  Agrees(seat, q, s)
    <2>1. /\ q.recovering = p.recovering /\ q.score = p.score /\ q.phase = p.phase /\ q.round = p.round /\ q.role = p.role
          /\ q.words = p.words /\ q.secret = p.secret /\ q.clues = p.clues /\ q.timed = p.timed
          /\ q.result = p.result /\ q.submitted = p.submitted
          /\ q.actions = p.actions /\ q.over = p.over /\ q.rows = p.rows
      BY <1>11 DEF PageFields
    <2>2. Acted(seat, srv.phase, srv.round, srv.accepted) => Acted(seat, s.phase, s.round, s.accepted)
      BY <1>8 DEF Acted
    <2>3. SameGame(seat, q, s)
      BY <1>8, <1>10, <1>11, <2>1, <2>2 DEF SameGame
    <2>4. Answered(q, s)
      BY <1>8, <1>10, <2>1 DEF Answered
    <2>5. ScoreFits(q, s) /\ Counts(q, s)
      BY <1>8, <1>10, <2>1 DEF ScoreFits, Counts, IsOver
    <2> QED
      BY <1>9, <1>10, <1>11, <2>1, <2>3, <2>4, <2>5 DEF Agrees
  <1>12. CASE a \notin This.late
    <2>1. p.timeouts = ts
      BY <1>6, <1>10, <1>12 DEF SameGame
    <2> QED
      BY <1>4, <1>10, <1>11, <1>12, <2>1
  <1>13. CASE a \in This.late
    <2>1. PICK m : m = [type |-> "timeout", round |-> srv.round, action |-> a]
      OBVIOUS
    <2>2. m.type = "timeout" /\ m.round = srv.round /\ m.action = a /\ GoodMessage(m)
      BY <2>1 DEF GoodMessage
    <2>3. PICK o : o = OnMessage(p, m)
      OBVIOUS
    <2>4. /\ o.timeouts = {t \in p.timeouts : t[1] = m.round /\ t[2] # m.action} \cup {<<m.round, m.action>>}
          /\ \A f \in PageFields \ {"timeouts"} : o[f] = p[f]
      BY <1>10, <2>2, <2>3, TimeoutSets
    <2>5. o.timeouts = ts
      <3>1. p.timeouts = srv.timeouts /\ ts = srv.timeouts \cup {<<srv.round, a>>}
        BY <1>6, <1>10, <1>13 DEF SameGame
      <3>2. \A t \in srv.timeouts : t[1] = srv.round /\ (t[2] # a \/ t = <<srv.round, a>>)
        BY <1>3
      <3> QED
        BY <2>2, <2>4, <3>1, <3>2
    <2>6. GoodPage(o)
      BY <1>10, <2>2, <2>3, MessageHandled
    <2>7. Agrees(seat, o, s)
      BY <1>11, <2>4, <2>5, <2>6
    <2> QED
      BY <1>4, <1>13, <2>1, <2>3, <2>7, BumpAgrees
  <1> QED
    BY <1>12, <1>13

LEMMA AnnounceTold ==
    ASSUME SrvInv, SrvPlays, NEW a, Announce(a), NEW p, Agrees(seat, p, srv),
           NEW r \in Bumps(OnMessage(p, [type |-> "action_submitted", round |-> srv.round, action |-> a]))
    PROVE  Agrees(seat, r, srv')
  <1>a. DOMAIN srv = SrvFields /\ IF Running(srv) THEN srv.phase \in GamePhases ELSE srv.phase = ""
    BY DEF SrvInv
  <1>1. /\ srv.phase = "guess" /\ a \in srv.accepted /\ srv' = [srv EXCEPT !.announced = @ \cup {a}]
    BY DEF Announce
  <1>2. Running(srv) /\ Goes(srv)
    BY <1>a, <1>1 DEF SrvPlays
  <1>3. a \in Actions(srv.phase, srv.round)
    BY <1>1, <1>2 DEF Goes
  <1>4. PICK s : s = srv'
    OBVIOUS
  <1>5. /\ DOMAIN s = SrvFields /\ s.stage = srv.stage /\ s.rows = srv.rows /\ s.score = srv.score
        /\ s.round = srv.round /\ s.phase = srv.phase /\ s.accepted = srv.accepted /\ s.announced = srv.announced \cup {a}
        /\ s.timeouts = srv.timeouts /\ s.result = srv.result /\ s.game = srv.game
    BY <1>a, <1>1, <1>4 DEF SrvFields
  <1>6. Running(s)
    BY <1>2, <1>5 DEF Running
  <1>7. /\ GoodPage(p) /\ p.recovering = FALSE /\ p.score \in Scores /\ SameGame(seat, p, srv) /\ Answered(p, srv)
        /\ ScoreFits(p, srv) /\ Counts(p, srv)
    BY <1>2, InGame
  <1>8. PICK m : m = [type |-> "action_submitted", round |-> srv.round, action |-> a]
    OBVIOUS
  <1>9. m.type = "action_submitted" /\ m.round = srv.round /\ m.action = a /\ GoodMessage(m)
    BY <1>8 DEF GoodMessage
  <1>10. PICK o : o = OnMessage(p, m)
    OBVIOUS
  <1>11. /\ p.phase = srv.phase /\ p.round = srv.round /\ p.role = Role(seat, srv.round)
         /\ a \in DOMAIN p.actions /\ DOMAIN p.actions = Actions(srv.phase, srv.round)
    BY <1>3, <1>7 DEF SameGame, Answered
  <1>12. /\ \A f \in PageFields \ {"actions", "submitted", "waiting"} : o[f] = p[f]
         /\ o.actions = [p.actions EXCEPT ![a] = TRUE]
         /\ o.submitted => p.submitted \/ SeatAction(p.phase, p.role, p.round) = a
    BY <1>1, <1>7, <1>9, <1>10, <1>11, SubmittedSets DEF SubmittedSet
  <1>13. /\ o.recovering = p.recovering /\ o.score = p.score /\ o.phase = p.phase /\ o.round = p.round /\ o.role = p.role
         /\ o.words = p.words /\ o.secret = p.secret /\ o.clues = p.clues /\ o.timed = p.timed
         /\ o.result = p.result /\ o.timeouts = p.timeouts /\ o.over = p.over /\ o.rows = p.rows
    BY <1>12 DEF PageFields
  <1>14. GoodPage(o)
    BY <1>7, <1>9, <1>10, MessageHandled
  <1>15. o.submitted => Acted(seat, s.phase, s.round, s.accepted)
    BY <1>1, <1>5, <1>7, <1>11, <1>12 DEF SameGame, Acted
  <1>16. SameGame(seat, o, s)
    BY <1>5, <1>7, <1>13, <1>15 DEF SameGame
  <1>17. Answered(o, s)
    <2>1. DOMAIN o.actions = DOMAIN p.actions /\ o.actions[a] = TRUE
      BY <1>11, <1>12
    <2>2. \A b \in DOMAIN p.actions : b # a => o.actions[b] = p.actions[b]
      BY <1>12
    <2>3. ASSUME NEW b \in DOMAIN p.actions PROVE (b \in srv.announced => p.actions[b]) /\ (p.actions[b] => b \in srv.accepted)
      <3>1. Answered(p, srv)
        BY <1>7
      <3> QED
        BY <3>1 DEF Answered
    <2> QED
      BY <1>1, <1>5, <1>11, <2>1, <2>2, <2>3 DEF Answered
  <1>18. ScoreFits(o, s) /\ Counts(o, s)
    BY <1>5, <1>7, <1>13 DEF ScoreFits, Counts, IsOver
  <1>19. Agrees(seat, o, s)
    BY <1>6, <1>7, <1>13, <1>14, <1>16, <1>17, <1>18 DEF Agrees
  <1> QED
    BY <1>4, <1>8, <1>10, <1>19, BumpAgrees

\* The verdicts of a round
LEMMA FinishTold ==
    ASSUME SrvInv, SrvPlays, SrvPlays', Finish, NEW p, Agrees(seat, p, srv)
    PROVE  /\ \A r \in Bumps(OnMessage(p, Now("round_result", srv'))) : Agrees(seat, r, srv')
           /\ OneStep(p, Now("round_result", srv'))
  <1>a. DOMAIN srv = SrvFields /\ IF Running(srv) THEN srv.phase \in GamePhases ELSE srv.phase = ""
    BY DEF SrvInv
  <1> DEFINE t == Sending(srv.round)
             hit == "intercept" \in srv.announced /\ This.hit
             res == [decrypt |-> IF This.right THEN "yes" ELSE "no",
                     intercept |-> IF ~("intercept" \in srv.announced) THEN "none" ELSE IF hit THEN "yes" ELSE "no"]
             bad == ~This.right
             S == Scored(srv.score, t, bad, hit)
  <1>1. /\ srv.phase = "guess"
        /\ srv' = [srv EXCEPT !.phase = "round_result", !.accepted = {}, !.rows = srv.round,
                              !.result = res, !.score = S]
    BY DEF Finish
  <1>2. Running(srv) /\ Goes(srv) /\ srv.score \in Scores /\ srv'.score \in Scores
    BY <1>a, <1>1 DEF SrvPlays
  <1>b. t \in PageTeams
    BY DEF Sending, PageTeams
  <1>c. /\ S[t].interceptions = srv.score[t].interceptions
        /\ S[t].failures = srv.score[t].failures \/ S[t].failures = srv.score[t].failures + 1
        /\ \A u \in PageTeams \ {t} :
              /\ S[u].failures = srv.score[u].failures
              /\ S[u].interceptions = srv.score[u].interceptions \/ S[u].interceptions = srv.score[u].interceptions + 1
    <2> HIDE DEF t, hit, bad
    <2>1. PICK new : new = Scored(srv.score, t, bad, hit)
      OBVIOUS
    <2>2. /\ new[t].interceptions = srv.score[t].interceptions
          /\ new[t].failures = srv.score[t].failures + (IF bad THEN 1 ELSE 0)
          /\ \A u \in PageTeams \ {t} : /\ new[u].failures = srv.score[u].failures
                                        /\ new[u].interceptions = srv.score[u].interceptions + (IF hit THEN 1 ELSE 0)
      BY <1>2, <1>b, <2>1, ScoredIs
    <2>3. \A u \in PageTeams : srv.score[u].failures \in Nat /\ srv.score[u].interceptions \in Nat
      BY <1>2 DEF Scores
    <2> QED
      BY <1>b, <2>1, <2>2, <2>3
  <1> HIDE DEF t, hit, bad, res, S
  <1>3. srv.stage = "playing"
    BY <1>1, <1>2 DEF Running, Goes
  <1>4. PICK s : s = srv'
    OBVIOUS
  <1>5. /\ DOMAIN s = SrvFields /\ s.stage = "playing" /\ s.rows = srv.round /\ s.score = S
        /\ s.round = srv.round /\ s.phase = "round_result" /\ s.accepted = {} /\ s.announced = srv.announced
        /\ s.timeouts = srv.timeouts /\ s.result = res /\ s.game = srv.game
    BY <1>a, <1>1, <1>3, <1>4 DEF SrvFields
  <1>6. Running(s) /\ s.score \in Scores
    BY <1>2, <1>4, <1>5 DEF Running
  <1>7. /\ GoodPage(p) /\ p.recovering = FALSE /\ p.score \in Scores /\ SameGame(seat, p, srv) /\ Answered(p, srv)
        /\ ScoreFits(p, srv) /\ Counts(p, srv)
    BY <1>2, InGame
  <1>8. PICK m : m = Now("round_result", s)
    OBVIOUS
  <1>9. m.type = "round_result" /\ GoodMessage(m) /\ m.view.rows = s.rows /\ m.view.result = s.result /\ m.view.score = s.score
    <2>1. m.type = "round_result" /\ m.view = View(s)
      BY <1>8 DEF Now
    <2>2. View(s).rows = s.rows /\ View(s).result = s.result /\ View(s).score = s.score
      BY <1>6, ViewIs
    <2> QED
      BY <2>1, <2>2 DEF GoodMessage
  <1>10. PICK o : o = OnMessage(p, m)
    OBVIOUS
  <1>11. /\ o.timed = FALSE /\ o.submitted = FALSE /\ o.rows = m.view.rows /\ o.result = m.view.result
         /\ o.actions = NoActions
         /\ o.score = m.view.score /\ o.phase = "round_result"
         /\ \A f \in PageFields \ {"timed", "rows", "result", "actions", "submitted", "waiting", "score", "phase", "change"} : o[f] = p[f]
    <2>1. /\ ~o.timed /\ ~o.submitted
      BY <1>7, <1>9, <1>10, ResultSets
    <2>2. /\ o.timed = FALSE /\ o.submitted = FALSE
      BY <1>7, <1>9, <1>10, ResultSets
    <2> QED
      BY <1>7, <1>9, <1>10, <2>2, ResultSets
  <1>12. /\ o.recovering = p.recovering /\ o.round = p.round /\ o.role = p.role
         /\ o.words = p.words /\ o.secret = p.secret /\ o.clues = p.clues
         /\ o.timeouts = p.timeouts /\ o.over = p.over
    BY <1>11 DEF PageFields
  <1>13. GoodPage(o)
    BY <1>7, <1>9, <1>10, MessageHandled
  <1>14. Timed("round_result", s.round) = FALSE
    BY PhaseActions DEF Timed
  <1>15. SameGame(seat, o, s)
    BY <1>1, <1>5, <1>7, <1>9, <1>11, <1>12, <1>14, CluesAre DEF SameGame
  <1>16. Answered(o, s)
    BY <1>5, <1>11, NobodyActs, PhaseActions DEF Answered
  <1>17. ScoreFits(o, s) /\ Counts(o, s)
    BY <1>3, <1>5, <1>7, <1>9, <1>11, <1>12 DEF ScoreFits, Counts, IsOver
  <1>18. Agrees(seat, o, s)
    BY <1>6, <1>7, <1>9, <1>11, <1>12, <1>13, <1>15, <1>16, <1>17 DEF Agrees
  <1>19. OneStep(p, m)
    <2>1. /\ \A u \in PageTeams : /\ p.score[u].failures \in Nat /\ p.score[u].interceptions \in Nat
                                  /\ srv.score[u].failures \in Nat /\ srv.score[u].interceptions \in Nat
      BY <1>2, <1>7 DEF Scores
    <2>2. p.round = srv.round
      BY <1>7 DEF SameGame
    <2>3. CASE p.score = srv.score
      BY <1>5, <1>9, <1>b, <1>c, <2>1, <2>2, <2>3 DEF OneStep, Changes, t
    <2>4. CASE srv.score = Zero
      <3>1. \A u \in PageTeams : srv.score[u].failures = 0 /\ srv.score[u].interceptions = 0
        BY <2>4 DEF Zero
      <3> QED
        BY <1>5, <1>9, <1>b, <1>c, <2>1, <2>2, <3>1 DEF OneStep, Changes, t
    <2> QED
      BY <1>7, <2>3, <2>4 DEF Counts
  <1> QED
    BY <1>4, <1>8, <1>10, <1>18, <1>19, BumpAgrees

\* The end of the game
LEMMA OverTold ==
    ASSUME SrvInv, SrvPlays, End, NEW p, Agrees(seat, p, srv),
           NEW r \in Bumps(OnMessage(p, Now("game_over", srv')))
    PROVE  Agrees(seat, r, srv')
  <1>a. DOMAIN srv = SrvFields /\ IF Running(srv) THEN srv.phase \in GamePhases ELSE srv.phase = ""
    BY DEF SrvInv
  <1>1. srv.phase = "round_result" /\ srv' = [srv EXCEPT !.phase = "game_over", !.stage = "over"]
    BY DEF End
  <1>2. Running(srv) /\ Goes(srv)
    BY <1>a, <1>1 DEF SrvPlays
  <1>3. srv.stage = "playing" /\ srv.accepted = {}
    BY <1>1, <1>2, PhaseActions DEF Running, Goes
  <1>4. PICK s : s = srv'
    OBVIOUS
  <1>5. /\ DOMAIN s = SrvFields /\ s.stage = "over" /\ s.rows = srv.rows /\ s.score = srv.score
        /\ s.round = srv.round /\ s.phase = "game_over" /\ s.accepted = {} /\ s.announced = srv.announced
        /\ s.timeouts = srv.timeouts /\ s.result = srv.result /\ s.game = srv.game
    BY <1>a, <1>1, <1>3, <1>4 DEF SrvFields
  <1>6. Running(s)
    BY <1>5 DEF Running
  <1>7. /\ GoodPage(p) /\ p.recovering = FALSE /\ p.score \in Scores /\ SameGame(seat, p, srv) /\ Answered(p, srv)
        /\ ScoreFits(p, srv) /\ Counts(p, srv)
    BY <1>2, InGame
  <1>8. PICK m : m = Now("game_over", s)
    OBVIOUS
  <1>9. m.type = "game_over" /\ GoodMessage(m) /\ m.view.rows = s.rows /\ m.view.round = s.round /\ m.view.score = s.score
    <2>1. m.type = "game_over" /\ m.view = View(s)
      BY <1>8 DEF Now
    <2>2. View(s).rows = s.rows /\ View(s).round = s.round /\ View(s).score = s.score
      BY <1>6, ViewIs
    <2> QED
      BY <2>1, <2>2 DEF GoodMessage
  <1>10. PICK o : o = OnMessage(p, m)
    OBVIOUS
  <1>11. /\ o.timed = FALSE /\ o.round = m.view.round /\ o.rows = m.view.rows /\ o.over = TRUE /\ o.score = m.view.score
         /\ o.phase = "game_over"
         /\ \A f \in PageFields \ {"timed", "round", "rows", "over", "score", "phase"} : o[f] = p[f]
    <2>1. OverSet(p, m, o)
      BY <1>7, <1>9, <1>10, OverSets
    <2> QED
      BY <2>1 DEF OverSet
  <1>12. /\ o.recovering = p.recovering /\ o.role = p.role
         /\ o.words = p.words /\ o.secret = p.secret /\ o.clues = p.clues /\ o.result = p.result
         /\ o.timeouts = p.timeouts /\ o.actions = p.actions /\ o.submitted = p.submitted
    BY <1>11 DEF PageFields
  <1>13. GoodPage(o)
    BY <1>7, <1>9, <1>10, MessageHandled
  <1>14. Timed("game_over", s.round) = FALSE
    BY PhaseActions DEF Timed
  <1>15. ~p.submitted
    BY <1>3, <1>7 DEF SameGame, Acted
  <1>16. SameGame(seat, o, s)
    BY <1>1, <1>5, <1>7, <1>9, <1>11, <1>12, <1>14, <1>15, CluesAre DEF SameGame
  <1>17. Answered(o, s)
    BY <1>1, <1>5, <1>7, <1>12, PhaseActions DEF Answered
  <1>18. ScoreFits(o, s) /\ Counts(o, s)
    BY <1>5, <1>9, <1>11 DEF ScoreFits, Counts, IsOver
  <1>19. o.score \in Scores
    BY <1>5, <1>9, <1>11 DEF SrvPlays
  <1>20. Agrees(seat, o, s)
    BY <1>6, <1>7, <1>12, <1>13, <1>16, <1>17, <1>18, <1>19 DEF Agrees
  <1> QED
    BY <1>4, <1>8, <1>10, <1>20, BumpAgrees

-----------------------------------------------------------------------------
\* The room, and a snapshot

\* An empty queue is one that says nothing
LEMMA MailIs ==
    ASSUME NEW w, Mail(w)
    PROVE  /\ Len(w) \in Nat /\ (w = <<>> <=> Len(w) = 0)
           /\ w # <<>> => Head(w) = w[1] /\ GoodMessage(w[1]) /\ Len(Tail(w)) = Len(w) - 1
                          /\ \A i \in 1 .. Len(Tail(w)) : Tail(w)[i] = w[i + 1] /\ i + 1 \in 1 .. Len(w)
  <1>1. PICK S : w \in Seq(S) /\ \A k \in S : GoodMessage(k)
    BY DEF Mail
  <1>2. Len(w) \in Nat /\ (w = <<>> <=> Len(w) = 0)
    BY <1>1
  <1>3. ASSUME w # <<>>
        PROVE  Head(w) = w[1] /\ w[1] \in S /\ Len(Tail(w)) = Len(w) - 1
               /\ \A i \in 1 .. Len(Tail(w)) : Tail(w)[i] = w[i + 1] /\ i + 1 \in 1 .. Len(w)
    BY <1>1, <1>3
  <1> QED
    BY <1>1, <1>2, <1>3

\* The room goes back to its lobby: the final screen stays, or the room is shown
LEMMA RestTold ==
    ASSUME SrvInv, SrvPlays, srv.stage \in {"over", "lobby"}, NEW s, s = Lobby(srv), NEW m, m = RoomState(s),
           NEW p, Agrees(seat, p, srv), NEW q \in Bumps(OnMessage(p, m))
    PROVE  Agrees(seat, q, s)
  <1>1. DOMAIN srv = SrvFields
    BY DEF SrvInv
  <1>2. s.stage = "lobby" /\ ~Running(s)
    BY <1>1 DEF SrvFields, Lobby, Running
  <1>3. m.type = "room_state" /\ ~m.started /\ GoodMessage(m)
    BY <1>2 DEF RoomState, GoodMessage
  <1>4. PICK o : o = OnMessage(p, m)
    OBVIOUS
  <1>5. GoodPage(p) /\ ~p.recovering /\ p.score \in Scores
    BY DEF Agrees
  <1>6. GoodPage(o)
    BY <1>3, <1>4, <1>5, MessageHandled
  <1>7. Zero \in Scores
    BY DEF Zero, Scores
  <1>8. /\ o.recovering = p.recovering
        /\ \/ o.phase = "room" /\ Fresh(o)
           \/ /\ p.phase \in {"room", "home"} /\ o.phase = "room"
              /\ \A f \in PageFields \ {"room", "phase"} : o[f] = p[f]
           \/ /\ p.phase = "game_over" /\ \A f \in PageFields \ {"room"} : o[f] = p[f]
    BY <1>3, <1>4, <1>5, RoomSets
  <1>9. p.phase \in {"room", "home"} => Fresh(p)
    <2>1. CASE Running(srv)
      <3>1. srv.phase = p.phase /\ srv.phase \in GamePhases
        BY <2>1, InGame DEF SameGame, SrvInv
      <3> QED
        BY <3>1 DEF GamePhases
    <2>2. CASE ~Running(srv)
      BY <2>2 DEF Agrees, Rests
    <2> QED
      BY <2>1, <2>2
  <1>10. ASSUME p.phase = "game_over" PROVE p.over /\ \A t \in p.timeouts : t[1] # 1
    <2>1. CASE Running(srv)
      <3>1. p.phase = srv.phase /\ p.timeouts = srv.timeouts /\ Goes(srv) /\ p.over = IsOver(srv)
        BY <1>10, <2>1, InGame DEF SameGame, ScoreFits, SrvPlays
      <3>2. srv.stage = "over" /\ srv.round = Len(match[srv.game]) /\ srv.game \in 1 .. Len(match)
        BY <1>10, <3>1 DEF Goes
      <3>3. match[srv.game] \in Seq(Verdicts) /\ (Len(match[srv.game]) = 1 => match[srv.game][1].late = {})
        <4>1. match \in Seq(Seq(Verdicts)) /\ \A g \in DOMAIN match : Len(match[g]) = 1 => match[g][1].late = {}
          BY PageAssumption DEF SrvPlays
        <4>2. srv.game \in DOMAIN match
          BY <3>2, <4>1
        <4> QED
          BY <4>1, <4>2
      <3>4. ASSUME NEW t \in srv.timeouts, t[1] = 1 PROVE FALSE
        <4>1. PICK a \in match[srv.game][srv.round].late : t = <<srv.round, a>>
          BY <3>1 DEF Goes
        <4>2. srv.round = 1
          BY <3>4, <4>1
        <4> QED
          BY <3>2, <3>3, <4>1, <4>2
      <3> QED
        BY <3>1, <3>2, <3>4 DEF IsOver
    <2>2. CASE ~Running(srv)
      BY <1>10, <2>2 DEF Agrees, Rests
    <2> QED
      BY <2>1, <2>2
  <1>11. CASE o.phase = "room" /\ Fresh(o)
    <2>1. o.score \in Scores
      BY <1>7, <1>11 DEF Fresh
    <2>2. Agrees(seat, o, s)
      BY <1>2, <1>5, <1>6, <1>8, <1>11, <2>1 DEF Agrees, Rests
    <2> QED
      BY <1>4, <2>2, BumpAgrees
  <1>12. CASE /\ p.phase \in {"room", "home"} /\ o.phase = "room"
              /\ \A f \in PageFields \ {"room", "phase"} : o[f] = p[f]
    <2>1. o.timeouts = p.timeouts /\ o.over = p.over /\ o.score = p.score /\ o.rows = p.rows
      BY <1>12 DEF PageFields
    <2>2. Fresh(o)
      BY <1>9, <1>12, <2>1 DEF Fresh
    <2> QED
      BY <1>11, <1>12, <2>2
  <1>13. CASE p.phase = "game_over" /\ \A f \in PageFields \ {"room"} : o[f] = p[f]
    <2>1. o.timeouts = p.timeouts /\ o.over = p.over /\ o.score = p.score /\ o.phase = p.phase
      BY <1>13 DEF PageFields
    <2>2. Agrees(seat, o, s)
      BY <1>2, <1>5, <1>6, <1>8, <1>10, <1>13, <2>1 DEF Agrees, Rests
    <2> QED
      BY <1>4, <2>2, BumpAgrees
  <1> QED
    BY <1>8, <1>11, <1>12, <1>13

\* A view is one the page can be set to
LEMMA ViewIsGood == SrvInv => GoodView(View(srv))
  <1> SUFFICES ASSUME SrvInv PROVE GoodView(View(srv))
    OBVIOUS
  <1>1. CASE Running(srv)
    <2>1. srv.phase \in GamePhases
      BY <1>1 DEF SrvInv
    <2>2. View(srv).role \in Roles /\ "token" \notin DOMAIN View(srv) /\ View(srv).phase = srv.phase
      BY <1>1, <2>1, RunningView
    <2> QED
      BY <2>1, <2>2 DEF GoodView, GamePhases, ScreenPhases
  <1>2. CASE ~Running(srv)
    BY <1>2 DEF View, GoodView
  <1> QED
    BY <1>1, <1>2

\* A snapshot brings any page to what the server has
LEMMA SyncTold ==
    ASSUME SrvInv, SrvPlays, NEW m, m.type = "full_sync", m.view = View(srv), NEW p, GoodPage(p),
           NEW q \in Bumps(OnMessage(p, m))
    PROVE  Agrees(seat, q, srv)
  <1>1. PICK o : o = OnMessage(p, m)
    OBVIOUS
  <1>2. GoodMessage(m)
    BY ViewIsGood DEF GoodMessage
  <1>3. GoodPage(o)
    BY <1>1, <1>2, MessageHandled
  <1>4. CASE Running(srv)
    <2>1. PICK v : v = View(srv)
      OBVIOUS
    <2>2. /\ v # NoView /\ DOMAIN v \cap {"recovering", "room", "change"} = {}
          /\ {"phase", "round", "role", "words", "rows", "score", "timeouts", "result", "over", "clues",
              "secret", "actions", "timed", "submitted"} \subseteq DOMAIN v
          /\ v.phase = srv.phase /\ v.round = srv.round /\ v.role = Role(seat, srv.round)
          /\ v.words = WordsOf(seat, srv.game) /\ v.rows = srv.rows
          /\ v.score = srv.score /\ v.timeouts = srv.timeouts /\ v.result = srv.result
          /\ v.over = IsOver(srv) /\ v.clues = CluesTold(srv.phase) /\ v.secret = CodeOf(seat, srv.round)
          /\ v.actions = Public(srv.phase, srv.round, srv.accepted) /\ v.timed = Timed(srv.phase, srv.round)
          /\ v.submitted = Acted(seat, srv.phase, srv.round, srv.accepted)
      BY <1>4, <2>1, ViewIs
    <2>3. /\ ~o.recovering /\ \A f \in DOMAIN v \cap PageFields : o[f] = v[f]
      BY <1>1, <2>1, <2>2, SyncSets
    <2>4. /\ o.phase = v.phase /\ o.round = v.round /\ o.role = v.role /\ o.words = v.words /\ o.rows = v.rows
          /\ o.score = v.score /\ o.timeouts = v.timeouts /\ o.result = v.result /\ o.over = v.over
          /\ o.clues = v.clues /\ o.secret = v.secret /\ o.actions = v.actions /\ o.timed = v.timed
          /\ o.submitted = v.submitted
      BY <2>2, <2>3 DEF PageFields
    <2>5. o.actions = Public(srv.phase, srv.round, srv.accepted)
      BY <2>2, <2>4
    <2>6. Answered(o, srv)
      <3>1. srv.phase \in GamePhases /\ Goes(srv)
        BY <1>4 DEF SrvInv, SrvPlays
      <3>2. CASE srv.phase \in {"encrypting", "guess"}
        <4>1. srv.announced \subseteq srv.accepted
          BY <3>1, <3>2 DEF Goes
        <4> QED
          BY <2>5, <4>1, FreshAnswers
      <3>3. CASE srv.phase \in {"round_result", "game_over"}
        <4>1. Actions(srv.phase, srv.round) = {}
          BY <3>3, PhaseActions
        <4>2. DOMAIN o.actions = Actions(srv.phase, srv.round)
          BY <2>5, PublicIs
        <4> QED
          BY <4>1, <4>2 DEF Answered
      <3> QED
        BY <3>1, <3>2, <3>3 DEF GamePhases
    <2>7. SameGame(seat, o, srv)
      BY <2>2, <2>4 DEF SameGame
    <2>8. ScoreFits(o, srv) /\ Counts(o, srv) /\ o.score \in Scores
      BY <2>2, <2>4 DEF ScoreFits, Counts, SrvPlays
    <2>9. Agrees(seat, o, srv)
      BY <1>3, <1>4, <2>3, <2>6, <2>7, <2>8 DEF Agrees
    <2> QED
      BY <1>1, <2>9, BumpAgrees
  <1>5. CASE ~Running(srv)
    <2>1. m.view = NoView
      BY <1>5, NoGameView
    <2>2. o.phase = "room" /\ Fresh(o) /\ ~o.recovering
      BY <1>1, <2>1, SyncSets
    <2>3. o.score \in Scores
      BY <2>2 DEF Fresh, Zero, Scores
    <2>4. Agrees(seat, o, srv)
      BY <1>3, <1>5, <2>2, <2>3 DEF Agrees, Rests
    <2> QED
      BY <1>1, <2>4, BumpAgrees
  <1> QED
    BY <1>4, <1>5

\* A page that takes a seat in the lobby
LEMMA EnterTold ==
    ASSUME NEW s, ~Running(s), NEW p, GoodPage(p), p.phase = "home", Fresh(p),
           NEW m, m.type = "room_created", NEW n, n.type = "room_state", ~n.started,
           NEW r \in Bumps(p), NEW q \in Bumps(OnMessage(r, m)), NEW u \in Bumps(OnMessage(q, n))
    PROVE  Agrees(seat, u, s)
  <1>1. r = p
    BY DEF Bumps
  <1>2. PICK o : o = OnMessage(p, m)
    OBVIOUS
  <1>3. GoodMessage(m) /\ GoodMessage(n)
    BY DEF GoodMessage
  <1>4. GoodPage(o)
    BY <1>2, <1>3, MessageHandled
  <1>5. o.phase = "room" /\ ~o.recovering
        /\ \A f \in PageFields \ {"token", "recovering", "room", "phase"} : o[f] = p[f]
    BY <1>2, CreatedSets
  <1>6. q = o
    BY <1>1, <1>2, <1>5 DEF Bumps
  <1>7. PICK x : x = OnMessage(o, n)
    OBVIOUS
  <1>8. /\ x.recovering = o.recovering /\ x.phase = "room"
        /\ \A f \in PageFields \ {"room", "phase"} : x[f] = o[f]
    BY <1>4, <1>5, <1>7, RoomSets
  <1>9. GoodPage(x)
    BY <1>3, <1>4, <1>7, MessageHandled
  <1>10. x.timeouts = p.timeouts /\ x.over = p.over /\ x.score = p.score /\ x.rows = p.rows
    BY <1>5, <1>8 DEF PageFields
  <1>11. Fresh(x) /\ x.score \in Scores
    BY <1>10 DEF Fresh, Zero, Scores
  <1>12. Agrees(seat, x, s)
    BY <1>5, <1>8, <1>9, <1>11 DEF Agrees, Rests
  <1> QED
    BY <1>6, <1>7, <1>12, BumpAgrees

-----------------------------------------------------------------------------
\* What is on its way keeps its promises as it grows

\* Nothing on its way
LEMMA NoTrail ==
    ASSUME NEW p, GoodPage(p)
    PROVE  /\ EndsGood(p, <<>>) /\ EventsFit(p, <<>>)
           /\ \A me, s : EndsAgree(me, p, <<>>, s) => Agrees(me, p, s)
           /\ Waits(p, <<>>) => (p.phase = "game_over" => ~p.pendingLobby)
  <1>1. Len(<<>>) = 0
    OBVIOUS
  <1>2. ASSUME NEW tr, IsTrail(tr, p, <<>>) PROVE GoodPage(tr[0])
    BY <1>1, <1>2, BumpSets DEF IsTrail, IsTrailTo
  <1>3. PICK tr : tr = [i \in {0} |-> p]
    OBVIOUS
  <1>4. tr[0] = p /\ p \in Bumps(p)
    BY <1>3 DEF Bumps
  <1>5. IsTrail(tr, p, <<>>) /\ IsPath(tr, p, <<>>)
    BY <1>1, <1>4 DEF IsTrail, IsTrailTo, IsPath
  <1> QED
    BY <1>1, <1>2, <1>4, <1>5 DEF EndsGood, EventsFit, EndsAgree, Waits

LEMMA AgreeIsGood == ASSUME NEW me, NEW p, NEW w, NEW s, EndsAgree(me, p, w, s) PROVE EndsGood(p, w)
  BY DEF EndsAgree, EndsGood, Agrees

\* A message that is no result
LEMMA FitTold ==
    ASSUME NEW w, Mail(w), NEW m, NEW p, EventsFit(p, w), m.type # "round_result"
    PROVE  EventsFit(p, w \o <<m>>)
  <1> DEFINE x == w \o <<m>>
  <1>0. Adds(x, w, m)
    BY Longer
  <1> HIDE DEF x
  <1>1. /\ Len(w) \in Nat /\ Len(x) = Len(w) + 1 /\ x[Len(w) + 1] = m
        /\ \A i \in 1 .. Len(w) : x[i] = w[i]
    BY <1>0 DEF Adds
  <1>2. ASSUME NEW i \in 1 .. Len(x), NEW tr, x[i].type = "round_result", IsTrailTo(tr, p, x, i - 1)
        PROVE  OneStep(tr[i - 1], x[i])
    <2>1. i \in 1 .. Len(w)
      <3>1. i # Len(w) + 1
        BY <1>1, <1>2
      <3> QED
        BY <1>1, <3>1
    <2>2. \A k \in 1 .. i : x[k] = w[k]
      BY <1>1, <2>1
    <2>3. IsTrailTo(tr, p, w, i - 1) /\ x[i] = w[i]
      BY <1>2, <2>1, <2>2 DEF IsTrailTo
    <2> QED
      BY <1>2, <2>1, <2>3 DEF EventsFit
  <1> QED
    BY <1>2 DEF x, EventsFit

\* A message that brings any page to what the server has
LEMMA SyncEnds ==
    ASSUME NEW w, Mail(w), NEW m, NEW p, NEW me, NEW s, EndsGood(p, w),
           \A q : GoodPage(q) => \A r \in Bumps(OnMessage(q, m)) : Agrees(me, r, s)
    PROVE  EndsAgree(me, p, w \o <<m>>, s)
  <1> DEFINE x == w \o <<m>>
  <1>0. Adds(x, w, m)
    BY Longer
  <1> HIDE DEF x
  <1>1. Len(x) = Len(w) + 1
    BY <1>0 DEF Adds
  <1>2. ASSUME NEW tr, IsTrail(tr, p, x) PROVE Agrees(me, tr[Len(x)], s)
    <2>1. IsTrail(tr, p, w) /\ tr[Len(w) + 1] \in Bumps(OnMessage(tr[Len(w)], m))
      BY <1>0, <1>2, TrailShorter
    <2>2. GoodPage(tr[Len(w)])
      BY <2>1 DEF EndsGood
    <2> QED
      BY <1>1, <2>1, <2>2
  <1> QED
    BY <1>2 DEF x, EndsAgree

\* A message after which nobody waits on the final screen to go back
LEMMA WaitsTold ==
    ASSUME NEW w, Mail(w), NEW m, NEW p, EndsGood(p, w),
           \A q : GoodPage(q) => (OnMessage(q, m).phase = "game_over" => ~OnMessage(q, m).pendingLobby)
    PROVE  Waits(p, w \o <<m>>)
  <1> DEFINE x == w \o <<m>>
  <1>0. Adds(x, w, m)
    BY Longer
  <1> HIDE DEF x
  <1>1. Len(x) = Len(w) + 1
    BY <1>0 DEF Adds
  <1>2. ASSUME NEW tr, IsPath(tr, p, x) PROVE tr[Len(x)].phase = "game_over" => ~tr[Len(x)].pendingLobby
    <2>1. IsPath(tr, p, w) /\ tr[Len(w) + 1] = OnMessage(tr[Len(w)], m)
      BY <1>0, <1>2, PathShorter
    <2>2. \A q : q \in Bumps(q)
      BY DEF Bumps
    <2>3. IsTrail(tr, p, w)
      BY <2>1, <2>2 DEF IsTrail, IsTrailTo, IsPath
    <2>4. GoodPage(tr[Len(w)])
      BY <2>3 DEF EndsGood
    <2> QED
      BY <1>1, <2>1, <2>4
  <1> QED
    BY <1>2 DEF x, Waits

LEMMA LobbyWaits ==
    ASSUME NEW p, GoodPage(p), NEW m, m.type = "room_state", ~m.started, NEW q, q = OnMessage(p, m)
    PROVE  q.phase = "game_over" => ~q.pendingLobby
  <1>1. \/ q.phase = "room"
        \/ ~p.pendingLobby /\ \A f \in PageFields \ {"room"} : q[f] = p[f]
    BY RoomSets
  <1>2. CASE \A f \in PageFields \ {"room"} : q[f] = p[f]
    <2>1. q.pendingLobby = p.pendingLobby
      BY <1>2 DEF PageFields
    <2> QED
      BY <1>1, <2>1
  <1> QED
    BY <1>1, <1>2

\* Two messages to a page to which nothing was on its way
LEMMA TwoFrom ==
    ASSUME NEW p, NEW m, NEW n
    PROVE  /\ \A me, s :
                (\A r \in Bumps(p) : \A q \in Bumps(OnMessage(r, m)) : \A u \in Bumps(OnMessage(q, n)) : Agrees(me, u, s))
                => EndsAgree(me, p, <<m, n>>, s)
           /\ GoodPage(p) /\ GoodMessage(m) /\ GoodMessage(n) => EndsGood(p, <<m, n>>)
           /\ m.type # "round_result" /\ n.type # "round_result" => EventsFit(p, <<m, n>>)
  <1>1. PICK x : x = <<m, n>>
    OBVIOUS
  <1>2. Len(x) = 2 /\ x[1] = m /\ x[2] = n
    BY <1>1
  <1>3. ASSUME NEW tr, IsTrail(tr, p, x)
        PROVE  tr[0] \in Bumps(p) /\ tr[1] \in Bumps(OnMessage(tr[0], m)) /\ tr[2] \in Bumps(OnMessage(tr[1], n))
    <2>1. tr[0] \in Bumps(p) /\ \A i \in 1 .. 2 : tr[i] \in Bumps(OnMessage(tr[i - 1], x[i]))
      BY <1>2, <1>3 DEF IsTrail, IsTrailTo
    <2>2. 1 \in 1 .. 2 /\ 2 \in 1 .. 2 /\ 1 - 1 = 0 /\ 2 - 1 = 1
      OBVIOUS
    <2> QED
      BY <1>2, <2>1, <2>2
  <1>4. ASSUME NEW me, NEW s,
               \A r \in Bumps(p) : \A q \in Bumps(OnMessage(r, m)) : \A u \in Bumps(OnMessage(q, n)) : Agrees(me, u, s)
        PROVE  EndsAgree(me, p, x, s)
    BY <1>2, <1>3, <1>4 DEF EndsAgree
  <1>5. ASSUME GoodPage(p), GoodMessage(m), GoodMessage(n) PROVE EndsGood(p, x)
    <2>1. ASSUME NEW tr, IsTrail(tr, p, x) PROVE GoodPage(tr[2])
      <3>1. tr[0] \in Bumps(p) /\ tr[1] \in Bumps(OnMessage(tr[0], m)) /\ tr[2] \in Bumps(OnMessage(tr[1], n))
        BY <1>3, <2>1
      <3>2. GoodPage(tr[0])
        BY <1>5, <3>1, BumpSets
      <3>3. GoodPage(OnMessage(tr[0], m))
        BY <1>5, <3>2, MessageHandled
      <3>4. GoodPage(tr[1])
        BY <3>1, <3>3, BumpSets
      <3>5. GoodPage(OnMessage(tr[1], n))
        BY <1>5, <3>4, MessageHandled
      <3> QED
        BY <3>1, <3>5, BumpSets
    <2> QED
      BY <1>2, <2>1 DEF EndsGood
  <1>6. ASSUME m.type # "round_result", n.type # "round_result" PROVE EventsFit(p, x)
    BY <1>2, <1>6 DEF EventsFit
  <1> QED
    BY <1>1, <1>4, <1>5, <1>6

\* The wish to go back, while messages are on their way
LEMMA WishKeeps ==
    ASSUME NEW p, GoodPage(p), p.phase = "game_over", NEW q, q = With(p, [pendingLobby |-> TRUE]), NEW w
    PROVE  /\ \A me, s : EndsAgree(me, p, w, s) => EndsAgree(me, q, w, s)
           /\ EndsGood(p, w) => EndsGood(q, w)
           /\ EventsFit(p, w) => EventsFit(q, w)
  <1> DEFINE F == [pendingLobby |-> TRUE]
  <1>1. q \in Bumps(p) /\ q = With(p, F)
    BY DEF Bumps
  <1>2. With(q, F) = q
    <2>1. DOMAIN With(p, F) = DOMAIN p /\ DOMAIN With(q, F) = DOMAIN q
      BY DEF With
    <2>2. \A f \in DOMAIN p : With(q, F)[f] = q[f]
      BY <1>1, <2>1 DEF With
    <2>3. With(q, F) = [f \in DOMAIN p |-> With(q, F)[f]] /\ q = [f \in DOMAIN p |-> q[f]]
      BY <1>1, <2>1 DEF With
    <2> QED
      BY <2>2, <2>3
  <1>3. Bumps(q) \subseteq Bumps(p)
    BY <1>1, <1>2 DEF Bumps
  <1>4. ASSUME NEW tr, NEW n, IsTrailTo(tr, q, w, n) PROVE IsTrailTo(tr, p, w, n)
    BY <1>3, <1>4 DEF IsTrailTo
  <1> QED
    BY <1>4 DEF EndsAgree, EndsGood, EventsFit, IsTrail

-----------------------------------------------------------------------------
(* What may be on its way, and when *)

\* A snapshot says nothing of what only the page knows
CleanView(v) == DOMAIN v \cap {"recovering", "room", "change"} = {}
Clean(m) == m.type = "full_sync" => CleanView(m.view)

LEMMA ViewIsClean == ASSUME NEW s PROVE CleanView(View(s))
  <1>1. CASE Running(s)
    BY <1>1, ViewIs DEF CleanView
  <1>2. CASE ~Running(s)
    <2>1. DOMAIN NoView = {"phase"}
      BY DEF NoView
    <2> QED
      BY <1>2, <2>1, NoGameView DEF CleanView
  <1> QED
    BY <1>1, <1>2

\* Where a message takes the page
Moves(p, m, q) ==
    /\ m.type # "resume_expired" /\ p.room => q.room
    /\ m.type \in {"room_created", "room_resumed"} => q.room
    /\ m.type = "resume_expired" => ~q.room /\ q.phase = "home" /\ Fresh(q) /\ q.change = NoChange
    /\ \/ q.change = p.change
       \/ q.change = NoChange
       \/ /\ m.type = "round_result" /\ p.connected /\ ~p.recovering /\ p.room
          /\ q.change.changes = Changes(p.score, m.view.score, m.view.result)
    /\ p.phase = "game_over" /\ q.phase = "room" => m.type \in {"room_created", "full_sync"} \/ p.pendingLobby

LEMMA MessageMoves ==
    ASSUME NEW p, GoodPage(p), NEW m, GoodMessage(m), Clean(m)
    PROVE  Moves(p, m, OnMessage(p, m))
  <1>0. PICK q : q = OnMessage(p, m)
    OBVIOUS
  <1>1. CASE m.type = "room_created"
    <2>1. q.room /\ \A f \in PageFields \ {"token", "recovering", "room", "phase"} : q[f] = p[f]
      BY <1>0, <1>1, CreatedSets
    <2>2. q.change = p.change
      BY <2>1 DEF PageFields
    <2> QED
      BY <1>0, <1>1, <2>1, <2>2 DEF Moves
  <1>2. CASE m.type = "room_resumed"
    <2>1. q.room /\ \A f \in PageFields \ {"room"} : q[f] = p[f]
      BY <1>0, <1>2, ResumedSets
    <2>2. q.change = p.change /\ q.phase = p.phase
      BY <2>1 DEF PageFields
    <2> QED
      BY <1>0, <1>2, <2>1, <2>2 DEF Moves
  <1>3. CASE m.type = "room_state"
    <2>1. /\ q.room
          /\ \/ (p.phase # "game_over" \/ p.pendingLobby) /\ q.change = NoChange
             \/ p.phase \in {"room", "home"} /\ \A f \in PageFields \ {"room", "phase"} : q[f] = p[f]
             \/ \A f \in PageFields \ {"room"} : q[f] = p[f]
      BY <1>0, <1>3, RoomSets
    <2>2. ASSUME p.phase \in {"room", "home"}, \A f \in PageFields \ {"room", "phase"} : q[f] = p[f] PROVE q.change = p.change
      BY <2>2 DEF PageFields
    <2>3. ASSUME \A f \in PageFields \ {"room"} : q[f] = p[f] PROVE q.change = p.change /\ q.phase = p.phase
      BY <2>3 DEF PageFields
    <2> QED
      BY <1>0, <1>3, <2>1, <2>2, <2>3 DEF Moves
  <1>4. CASE m.type = "full_sync"
    <2>1. q.room /\ q.change = NoChange
      <3>1. m.view = NoView => q.room /\ q.change = NoChange
        BY <1>0, <1>4, SyncSets
      <3>2. m.view # NoView => q.room /\ q.change = NoChange
        BY <1>0, <1>4, SyncSets DEF Clean, CleanView
      <3> QED
        BY <3>1, <3>2
    <2> QED
      BY <1>0, <1>4, <2>1 DEF Moves
  <1>5. CASE m.type = "resume_expired"
    <2>1. \A f \in PageFields \ {"connected"} : q[f] = Initial[f]
      BY <1>0, <1>5, ExpiredSets
    <2>2. q.room = Initial.room /\ q.phase = Initial.phase /\ q.change = Initial.change /\ q.timeouts = Initial.timeouts
          /\ q.over = Initial.over /\ q.score = Initial.score /\ q.rows = Initial.rows
      BY <2>1 DEF PageFields
    <2>3. Initial.change = NoChange
      BY DEF Initial
    <2> QED
      BY <1>0, <1>5, <2>2, <2>3, InitialFields DEF Moves, Fresh
  <1>6. CASE m.type = "round_result"
    <2>1. /\ q.phase = "round_result"
          /\ \A f \in PageFields \ {"timed", "rows", "result", "actions", "submitted", "waiting", "score", "phase", "change"} : q[f] = p[f]
          /\ q.change # p.change =>
                /\ p.connected /\ ~p.recovering /\ p.room
                /\ q.change.changes = Changes(p.score, m.view.score, m.view.result)
      BY <1>0, <1>6, ResultSets
    <2>2. q.room = p.room
      BY <2>1 DEF PageFields
    <2> QED
      BY <1>0, <1>6, <2>1, <2>2 DEF Moves
  <1>7. ASSUME q.room = p.room, q.change = p.change, q.phase = p.phase \/ q.phase # "room",
               m.type \notin {"room_created", "room_resumed", "resume_expired"}
        PROVE  Moves(p, m, q)
    BY <1>7 DEF Moves
  <1>8. CASE m.type = "game_start"
    <2>1. \A f \in PageFields \ {"round", "role", "words"} : q[f] = p[f]
      BY <1>0, <1>8, StartSets
    <2> QED
      BY <1>0, <1>7, <1>8, <2>1 DEF PageFields
  <1>9. CASE m.type = "phase_change"
    <2>1. PhaseSet(p, m, q) /\ m.phase \in {"new_round", "encrypting", "guess"}
      BY <1>0, <1>9, PhaseSets DEF GoodMessage
    <2>2. q.room = p.room /\ q.change = p.change /\ q.phase # "room"
      BY <2>1 DEF PhaseSet
    <2> QED
      BY <1>0, <1>7, <1>9, <2>2
  <1>10. CASE m.type = "action_submitted"
    <2>1. SubmittedSet(p, m, q)
      BY <1>0, <1>10, SubmittedSets
    <2>2. \A f \in PageFields \ {"actions", "submitted", "waiting"} : q[f] = p[f]
      BY <2>1 DEF SubmittedSet
    <2> QED
      BY <1>0, <1>7, <1>10, <2>2 DEF PageFields
  <1>11. CASE m.type = "clues_submitted"
    <2>1. \A f \in PageFields \ {"clues", "rows"} : q[f] = p[f]
      BY <1>0, <1>11, CluesSets
    <2> QED
      BY <1>0, <1>7, <1>11, <2>1 DEF PageFields
  <1>12. CASE m.type = "game_over"
    <2>1. OverSet(p, m, q)
      BY <1>0, <1>12, OverSets
    <2>2. q.phase = "game_over" /\ \A f \in PageFields \ {"timed", "round", "rows", "over", "score", "phase"} : q[f] = p[f]
      BY <2>1 DEF OverSet
    <2> QED
      BY <1>0, <1>7, <1>12, <2>2 DEF PageFields
  <1>13. CASE m.type = "timeout"
    <2>1. \A f \in PageFields \ {"timeouts"} : q[f] = p[f]
      BY <1>0, <1>13, TimeoutSets
    <2> QED
      BY <1>0, <1>7, <1>13, <2>1 DEF PageFields
  <1> QED
    BY <1>0, <1>1, <1>2, <1>3, <1>4, <1>5, <1>6, <1>8, <1>9, <1>10, <1>11, <1>12, <1>13 DEF GoodMessage

\* The service's socket is open
Here == ws \in Lines /\ line[ws] = "open"

\* A page that holds its seat: a seat it was just given comes first
SeatMail(p, w) ==
    /\ \A i \in 1 .. Len(w) : w[i].type # "resume_expired" /\ (w[i].type = "room_created" => i = 1 /\ ~p.room)
    /\ p.room \/ (Len(w) > 0 /\ w[1].type \in {"room_created", "room_resumed"})

\* One that holds none: it may only be told that it has expired
NoSeatMail(p, w) == Len(w) = 0 \/ (Len(w) = 1 /\ w[1].type = "resume_expired" /\ p.room)

Queue == {<<>>, <<"resume">>, <<"enter">>, <<"reopen">>}

HereInv ==
    /\ asks[ws] \in Queue
    /\ attached = ws => asks[ws] # <<"resume">> /\ SeatMail(page, wire[ws])
    /\ attached # ws =>
          /\ NoSeatMail(page, wire[ws])
          /\ asks[ws] = <<"resume">> => Len(wire[ws]) = 0 /\ page.room
          /\ asks[ws] = <<"enter">> => Len(wire[ws]) = 0 /\ ~page.room

AtHome(p) == p.phase = "home" /\ Fresh(p)

LinesInv ==
    /\ DOMAIN asks = Lines
    /\ attached # NoLine => line[attached] \in {"open", "closing"}
    /\ syncing # NoView => attached # NoLine /\ CleanView(syncing.view)
    /\ \A l \in Lines : line[l] \in {"unborn", "connecting"} => asks[l] = <<>> /\ wire[l] = <<>>
    /\ \A l \in Lines : \A i \in 1 .. Len(wire[l]) : Clean(wire[l][i])

OrderInv ==
    /\ LinesInv
    /\ ~page.room => AtHome(page)
    /\ Here => HereInv

AllClean(w) == \A i \in 1 .. Len(w) : Clean(w[i])

\* Messages that can follow any others
Plain(m) == m.type \notin {"room_created", "resume_expired", "full_sync"}
AllPlain(ms) ==
    \/ ms = <<>>
    \/ \E m : ms = <<m>> /\ Plain(m)
    \/ \E m, n : ms = <<m, n>> /\ Plain(m) /\ Plain(n)

LEMMA MailAdds ==
    ASSUME NEW w, NEW x, NEW m, Adds(x, w, m), Clean(m)
    PROVE  /\ AllClean(w) => AllClean(x)
           /\ m.type \notin {"room_created", "resume_expired"} => \A p : SeatMail(p, w) => SeatMail(p, x)
  <1>1. /\ Len(w) \in Nat /\ Len(x) = Len(w) + 1 /\ x[Len(w) + 1] = m
        /\ \A i \in 1 .. Len(w) : x[i] = w[i]
    BY DEF Adds
  <1>2. \A i \in 1 .. Len(x) : i \in 1 .. Len(w) \/ i = Len(w) + 1
    BY <1>1
  <1>3. AllClean(w) => AllClean(x)
    BY <1>1, <1>2 DEF AllClean
  <1>4. ASSUME m.type \notin {"room_created", "resume_expired"}, NEW p, SeatMail(p, w) PROVE SeatMail(p, x)
    <2>1. Len(w) > 0 => 1 \in 1 .. Len(w) /\ x[1] = w[1]
      BY <1>1
    <2>2. p.room \/ (Len(x) > 0 /\ x[1].type \in {"room_created", "room_resumed"})
      BY <1>1, <1>4, <2>1 DEF SeatMail
    <2>3. ASSUME NEW i \in 1 .. Len(x) PROVE x[i].type # "resume_expired" /\ (x[i].type = "room_created" => i = 1 /\ ~p.room)
      <3>1. CASE i \in 1 .. Len(w)
        BY <1>1, <1>4, <3>1 DEF SeatMail
      <3>2. CASE i = Len(w) + 1
        BY <1>1, <1>4, <3>2
      <3> QED
        BY <1>2, <3>1, <3>2
    <2> QED
      BY <2>2, <2>3 DEF SeatMail
  <1> QED
    BY <1>3, <1>4

LEMMA PlainAdds ==
    ASSUME NEW w, Mail(w), NEW ms, AllPlain(ms)
    PROVE  /\ AllClean(w) => AllClean(w \o ms)
           /\ \A p : SeatMail(p, w) => SeatMail(p, w \o ms)
  <1>1. CASE ms = <<>>
    <2>1. PICK S : w \in Seq(S)
      BY DEF Mail
    <2>2. w \o ms = w
      BY <1>1, <2>1
    <2> QED
      BY <2>2
  <1>2. ASSUME NEW m, ms = <<m>>, Plain(m)
        PROVE  /\ AllClean(w) => AllClean(w \o ms)
               /\ \A p : SeatMail(p, w) => SeatMail(p, w \o ms)
    BY <1>2, Longer, MailAdds DEF Plain, Clean
  <1>3. ASSUME NEW m, NEW n, ms = <<m, n>>, Plain(m), Plain(n)
        PROVE  /\ AllClean(w) => AllClean(w \o ms)
               /\ \A p : SeatMail(p, w) => SeatMail(p, w \o ms)
    <2>1. Clean(m) /\ Clean(n)
      BY <1>3 DEF Plain, Clean
    <2>2. PICK x : x = w \o <<m>>
      OBVIOUS
    <2>3. Adds(x, w, m) /\ Adds(w \o ms, x, n)
      BY <1>3, <2>2, Longer, LongerByTwo
    <2>4. /\ AllClean(w) => AllClean(x)
          /\ \A p : SeatMail(p, w) => SeatMail(p, x)
      BY <1>3, <2>1, <2>3, MailAdds DEF Plain
    <2>5. /\ AllClean(x) => AllClean(w \o ms)
          /\ \A p : SeatMail(p, x) => SeatMail(p, w \o ms)
      BY <1>3, <2>1, <2>3, MailAdds DEF Plain
    <2> QED
      BY <2>4, <2>5
  <1> QED
    BY <1>1, <1>2, <1>3 DEF AllPlain

LEMMA GameTells == ASSUME GameStep \/ Reopen PROVE \E ms : Tell(ms) /\ AllPlain(ms)
  <1>1. \A s : Plain(RoomState(s)) /\ \A x : Plain(PhaseChange(x, s))
    BY DEF RoomState, PhaseChange, Plain
  <1>2. \A s : /\ Plain(Now("game_start", s)) /\ Plain(Now("clues_submitted", s)) /\ Plain(Now("round_result", s))
               /\ Plain(Now("game_over", s))
    BY DEF Now, Plain
  <1>3. CASE Reopen
    BY <1>1, <1>3 DEF Reopen, AllPlain
  <1>4. CASE StartGame
    BY <1>1, <1>2, <1>4 DEF StartGame, AllPlain
  <1>5. CASE NextRound
    BY <1>1, <1>5 DEF NextRound, AllPlain
  <1>6. CASE BeginGuess
    BY <1>1, <1>2, <1>6 DEF BeginGuess, AllPlain
  <1>7. CASE Finish
    BY <1>2, <1>7 DEF Finish, AllPlain
  <1>8. CASE End
    BY <1>2, <1>8 DEF End, AllPlain
  <1>9. ASSUME NEW a, Answer(a) PROVE \E ms : Tell(ms) /\ AllPlain(ms)
    <2> DEFINE m == [type |-> "timeout", round |-> srv.round, action |-> a]
    <2>1. Tell(<<m>>) \/ Tell(<<>>)
      BY <1>9 DEF Answer
    <2>2. Plain(m)
      BY DEF Plain
    <2> HIDE DEF m
    <2> QED
      BY <2>1, <2>2 DEF AllPlain
  <1>10. ASSUME NEW a, Announce(a) PROVE \E ms : Tell(ms) /\ AllPlain(ms)
    <2> DEFINE m == [type |-> "action_submitted", round |-> srv.round, action |-> a]
    <2>1. Tell(<<m>>) /\ Plain(m)
      BY <1>10 DEF Announce, Plain
    <2> HIDE DEF m
    <2> QED
      BY <2>1 DEF AllPlain
  <1> QED
    BY <1>3, <1>4, <1>5, <1>6, <1>7, <1>8, <1>9, <1>10 DEF GameStep

-----------------------------------------------------------------------------
\* The page at home has nothing of a game

LEMMA HomeNext == PageInv /\ OrderInv /\ [PageNext]_pageVars => (~page.room => AtHome(page))'
  <1> SUFFICES ASSUME PageInv, OrderInv, [PageNext]_pageVars PROVE ~page'.room => AtHome(page')
    OBVIOUS
  <1>a. GoodPage(page) /\ SocketInv /\ WireInv /\ (~page.room => AtHome(page))
    BY DEF PageInv, StoreInv, OrderInv
  <1>b. ASSUME NEW F, page' = With(page, F), DOMAIN F \cap {"room", "phase", "timeouts", "over", "score", "rows"} = {}
        PROVE  ~page'.room => AtHome(page')
    <2>1. \A f \in PageFields : page'[f] = IF f \in DOMAIN F THEN F[f] ELSE page[f]
      BY <1>a, <1>b, FieldsSet
    <2>2. /\ page'.room = page.room /\ page'.phase = page.phase /\ page'.timeouts = page.timeouts
          /\ page'.over = page.over /\ page'.score = page.score /\ page'.rows = page.rows
      BY <1>b, <2>1 DEF PageFields
    <2> QED
      BY <1>a, <2>2 DEF AtHome, Fresh
  <1>c. ASSUME UNCHANGED page PROVE ~page'.room => AtHome(page')
    BY <1>a, <1>c
  <1>d. AtHome(Initial)
    BY InitialFields DEF AtHome
  <1>1. ASSUME NEW elsewhere \in BOOLEAN, PageConnect(elsewhere) PROVE ~page'.room => AtHome(page')
    <2> DEFINE F == [room |-> TRUE, token |-> TRUE, recovering |-> TRUE]
    <2>1. page' = page \/ page' = With(page, F)
      BY <1>1 DEF PageConnect
    <2>2. "room" \in DOMAIN F /\ F["room"] = TRUE
      OBVIOUS
    <2> HIDE DEF F
    <2>3. With(page, F).room = TRUE
      BY <1>a, <2>2, FieldsSet DEF PageFields
    <2> QED
      BY <1>c, <2>1, <2>3
  <1>2. ASSUME NEW l \in Lines, Open(l) PROVE ~page'.room => AtHome(page')
    <2> DEFINE F == [connected |-> TRUE, recovering |-> (ws = l /\ page.room /\ page.token) \/ page.recovering]
    <2>1. page' = page \/ page' = With(page, F)
      BY <1>2 DEF Open
    <2>2. DOMAIN F \cap {"room", "phase", "timeouts", "over", "score", "rows"} = {}
      OBVIOUS
    <2> HIDE DEF F
    <2> QED
      BY <1>b, <1>c, <2>1, <2>2
  <1>3. ASSUME NEW l \in Lines, Close(l) PROVE ~page'.room => AtHome(page')
    <2> DEFINE F == [change |-> NoChange, connected |-> FALSE, recovering |-> TRUE]
               G == [change |-> NoChange, connected |-> FALSE]
    <2>1. page' \in {page, Initial, With(page, F), With(page, G)}
      BY <1>3 DEF Close, OnDisconnected
    <2>2. /\ DOMAIN F \cap {"room", "phase", "timeouts", "over", "score", "rows"} = {}
          /\ DOMAIN G \cap {"room", "phase", "timeouts", "over", "score", "rows"} = {}
      OBVIOUS
    <2> HIDE DEF F, G
    <2> QED
      BY <1>b, <1>c, <1>d, <2>1, <2>2
  <1>4. ASSUME NEW l \in Lines, Receive(l) PROVE ~page'.room => AtHome(page')
    <2>1. PICK w : w = wire[l]
      OBVIOUS
    <2>2. l = ws /\ line[ws] = "open" /\ w # <<>> /\ page' = OnMessage(page, Head(w))
      BY <1>4, <1>a, <2>1 DEF Receive, SocketInv, OneLine, Live
    <2>3. Mail(w) /\ \A i \in 1 .. Len(w) : Clean(w[i])
      BY <2>1 DEF PageInv, WireInv, OrderInv, LinesInv
    <2>4. Head(w) = w[1] /\ GoodMessage(w[1]) /\ Len(w) \in Nat /\ Len(w) # 0
      BY <2>2, <2>3, MailIs
    <2>5. Moves(page, w[1], page')
      BY <1>a, <2>2, <2>3, <2>4, MessageMoves
    <2>6. HereInv
      BY <2>2 DEF OrderInv, Here
    <2>7. CASE w[1].type = "resume_expired"
      BY <2>5, <2>7 DEF Moves, AtHome
    <2>8. CASE w[1].type # "resume_expired"
      <3>1. attached = ws
        BY <2>1, <2>2, <2>4, <2>6, <2>8 DEF HereInv, NoSeatMail
      <3>2. SeatMail(page, w)
        BY <2>1, <2>2, <2>6, <3>1 DEF HereInv
      <3>3. page'.room
        BY <2>5, <2>8, <3>2 DEF SeatMail, Moves
      <3> QED
        BY <3>3
    <2> QED
      BY <2>7, <2>8
  <1>5. CASE Return
    <2> DEFINE F == [pendingLobby |-> TRUE]
    <2>1. page' = With(page, F)
      BY <1>5 DEF Return
    <2>2. DOMAIN F \cap {"room", "phase", "timeouts", "over", "score", "rows"} = {}
      OBVIOUS
    <2> HIDE DEF F
    <2> QED
      BY <1>b, <2>1, <2>2
  <1>6. CASE Disconnect \/ Reset \/ Reload
    <2>1. page' = Initial
      BY <1>6 DEF Disconnect, Reset, Reload
    <2> QED
      BY <1>d, <2>1
  <1>7. CASE \/ Retry \/ PageEnter \/ SendSync \/ Reopen \/ Expire \/ GameStep
             \/ UNCHANGED pageVars \/ (\E l \in Lines : Fail(l) \/ Handle(l))
    <2>1. UNCHANGED page
      BY <1>7 DEF Retry, Redial, PageEnter, SendSync, Reopen, Expire, GameStep, StartGame,
                  NextRound, BeginGuess, Finish, End, Answer, Announce, Tell, pageVars,
                  storeVars, Fail, Failed, Handle, HandleEnter, HandleResume, HandleReopen
    <2> QED
      BY <1>c, <2>1
  <1> QED
    BY <1>1, <1>2, <1>3, <1>4, <1>5, <1>6, <1>7 DEF PageNext

-----------------------------------------------------------------------------
\* The order of what is on its way

\* Where the page's socket is
LEMMA OpenIsOurs == ASSUME SocketInv, NEW l \in Lines, line[l] = "open" PROVE l = ws /\ Here
  BY DEF SocketInv, OneLine, Live, Here

\* Something is put in the queues of a socket that is open
LEMMA LinesSent ==
    ASSUME LinesInv, WireInv, NEW k \in Lines, line[k] \in {"open", "closing"}, UNCHANGED line,
           NEW x, AllClean(x), wire' = [wire EXCEPT ![k] = x],
           DOMAIN asks' = Lines, \A l \in Lines : l # k => asks'[l] = asks[l],
           attached' \in {attached, k}, syncing' # NoView => attached' # NoLine /\ CleanView(syncing'.view)
    PROVE  LinesInv'
  <1>1. /\ DOMAIN asks' = Lines /\ DOMAIN wire' = Lines
        /\ \A l \in Lines : l # k => asks'[l] = asks[l] /\ wire'[l] = wire[l]
        /\ wire'[k] = x
    BY DEF LinesInv, WireInv
  <1>2. attached' # NoLine => line'[attached'] \in {"open", "closing"}
    BY DEF LinesInv
  <1>3. ASSUME NEW l \in Lines, line'[l] \in {"unborn", "connecting"} PROVE asks'[l] = <<>> /\ wire'[l] = <<>>
    BY <1>1, <1>3 DEF LinesInv
  <1>4. ASSUME NEW l \in Lines, NEW i \in 1 .. Len(wire'[l]) PROVE Clean(wire'[l][i])
    BY <1>1, <1>4 DEF LinesInv, AllClean
  <1> QED
    BY <1>1, <1>2, <1>3, <1>4 DEF LinesInv

\* The game and the room tell the page something
LEMMA TellKeeps ==
    ASSUME PageInv, OrderInv, NEW ms, Tell(ms), AllPlain(ms)
    PROVE  LinesInv' /\ (Here' => HereInv')
  <1>1. /\ wire' = IF Reached THEN [wire EXCEPT ![attached] = @ \o ms] ELSE wire
        /\ UNCHANGED <<line, ws, page, attached, syncing, asks>>
    BY DEF Tell, socketVars, storeVars
  <1>2. LinesInv /\ WireInv /\ SocketInv
    BY DEF OrderInv, PageInv
  <1>3. CASE ~Reached
    <2>1. UNCHANGED wire
      BY <1>1, <1>3
    <2>2. LinesInv'
      BY <1>1, <1>2, <2>1 DEF LinesInv, Lines
    <2>3. Here' => HereInv'
      BY <1>1, <2>1 DEF OrderInv, Here, HereInv, Lines
    <2> QED
      BY <2>2, <2>3
  <1>4. CASE Reached
    <2>1. attached \in Lines /\ line[attached] = "open"
      BY <1>2, <1>4 DEF Reached, WireInv
    <2>2. attached = ws /\ Here
      BY <1>2, <2>1, OpenIsOurs
    <2>3. PICK w : w = wire[ws]
      OBVIOUS
    <2>4. Mail(w) /\ AllClean(w)
      BY <1>2, <2>1, <2>2, <2>3 DEF WireInv, LinesInv, AllClean
    <2>5. PICK x : x = w \o ms
      OBVIOUS
    <2>6. AllClean(x) /\ \A p : SeatMail(p, w) => SeatMail(p, x)
      BY <2>4, <2>5, PlainAdds
    <2>7. wire' = [wire EXCEPT ![ws] = x]
      BY <1>1, <1>4, <2>2, <2>3, <2>5
    <2>8. DOMAIN asks' = Lines /\ \A l \in Lines : l # ws => asks'[l] = asks[l]
      BY <1>1, <1>2 DEF LinesInv
    <2>9. syncing' # NoView => attached' # NoLine /\ CleanView(syncing'.view)
      BY <1>1, <1>2 DEF LinesInv
    <2>10. LinesInv'
      BY <1>1, <1>2, <2>1, <2>2, <2>6, <2>7, <2>8, <2>9, LinesSent
    <2>11. wire'[ws] = x
      BY <1>2, <2>1, <2>2, <2>7 DEF WireInv
    <2>12. HereInv'
      BY <1>1, <2>2, <2>3, <2>6, <2>11 DEF OrderInv, HereInv
    <2> QED
      BY <2>10, <2>12
  <1> QED
    BY <1>3, <1>4

\* A line is dialled when there is none
LEMMA DialIsNew ==
    ASSUME SocketInv, ws = NoLine, Dial
    PROVE  \E l \in Lines : line[l] = "unborn" /\ line' = [line EXCEPT ![l] = "connecting"] /\ ws' = l
  BY NoLineNotALine DEF Dial, Up

LEMMA DialKeeps ==
    ASSUME PageInv, OrderInv, ws = NoLine, Dial, UNCHANGED <<attached, syncing, asks, wire>>
    PROVE  LinesInv' /\ ~Here'
  <1>1. PICK l \in Lines : line[l] = "unborn" /\ line' = [line EXCEPT ![l] = "connecting"] /\ ws' = l
    BY DialIsNew DEF PageInv
  <1>2. DOMAIN line = Lines /\ LinesInv /\ attached \in Lines \cup {NoLine}
    BY DEF PageInv, SocketInv, SocketTypeOK, OrderInv, WireInv
  <1>3. line'[l] = "connecting" /\ \A k \in Lines : k # l => line'[k] = line[k]
    BY <1>1, <1>2
  <1>4. ~Here'
    BY <1>1, <1>3 DEF Here
  <1>5. LinesInv'
    BY <1>1, <1>2, <1>3 DEF LinesInv, Lines
  <1> QED
    BY <1>4, <1>5

\* The page's socket opens, fails, closes, and is dropped
LEMMA SocketsKeep ==
    ASSUME PageInv, OrderInv,
           \/ \E elsewhere \in BOOLEAN : PageConnect(elsewhere)
           \/ \E l \in Lines : Open(l) \/ Fail(l) \/ Close(l)
           \/ Retry \/ Disconnect \/ Reset \/ Reload
    PROVE  LinesInv' /\ (Here' => HereInv')
  <1>a. /\ SocketInv /\ WireInv /\ LinesInv /\ DOMAIN line = Lines /\ GoodPage(page)
        /\ attached \in Lines \cup {NoLine} /\ ws \in Lines \cup {NoLine}
    BY DEF PageInv, SocketInv, SocketTypeOK, OrderInv, WireInv, StoreInv
  <1>1. ASSUME NEW elsewhere \in BOOLEAN, PageConnect(elsewhere) PROVE LinesInv' /\ ~Here'
    <2>1. ws = NoLine /\ Dial /\ UNCHANGED <<attached, syncing, asks, wire>>
      BY <1>1, <1>a DEF PageConnect, NewService, srvVars, SocketInv, NeverStranded
    <2> QED
      BY <2>1, DialKeeps
  <1>2. CASE Retry
    <2>1. ws = NoLine /\ Dial /\ UNCHANGED <<attached, syncing, asks, wire>>
      BY <1>2, <1>a DEF Retry, Redial, srvVars, SocketInv, NeverStranded
    <2> QED
      BY <2>1, DialKeeps
  <1>3. ASSUME NEW l \in Lines, Open(l) PROVE LinesInv' /\ (Here' => HereInv')
    <2> DEFINE F == [connected |-> TRUE, recovering |-> (ws = l /\ page.room /\ page.token) \/ page.recovering]
               back == ws = l /\ page.room /\ page.token
    <2>1. /\ line[l] = "connecting" /\ line' = [line EXCEPT ![l] = "open"]
          /\ UNCHANGED <<ws, attached, syncing, wire>>
          /\ page' = IF ws = l THEN With(page, F) ELSE page
          /\ asks' = IF back THEN [asks EXCEPT ![l] = Append(@, "resume")] ELSE asks
      BY <1>3 DEF Open, Opened, srvVars
    <2>2. l = ws /\ asks[l] = <<>> /\ wire[l] = <<>> /\ attached # l
      <3>1. l = ws
        BY <1>a, <2>1 DEF SocketInv, OneLine, Live
      <3> QED
        BY <1>a, <2>1, <3>1, NoLineNotALine DEF LinesInv
    <2>3. DOMAIN F = {"connected", "recovering"}
      OBVIOUS
    <2> HIDE DEF F
    <2>4. page'.room = page.room
      BY <1>a, <2>1, <2>2, <2>3, FieldsSet DEF PageFields
    <2>5. /\ DOMAIN asks' = Lines /\ asks'[l] = (IF back THEN <<"resume">> ELSE <<>>)
          /\ \A k \in Lines : k # l => asks'[k] = asks[k] /\ line'[k] = line[k]
          /\ line'[l] = "open"
      BY <1>a, <2>1, <2>2 DEF LinesInv
    <2>6. LinesInv'
      BY <1>a, <2>1, <2>2, <2>5 DEF LinesInv, Lines
    <2>7. HereInv'
      <3>1. Len(wire'[ws']) = 0
        BY <2>1, <2>2
      <3>2. asks'[ws'] \in Queue /\ attached' # ws' /\ asks'[ws'] # <<"enter">>
        BY <2>1, <2>2, <2>5 DEF Queue
      <3>3. asks'[ws'] = <<"resume">> => page'.room
        BY <2>1, <2>2, <2>4, <2>5
      <3> QED
        BY <3>1, <3>2, <3>3 DEF HereInv, NoSeatMail
    <2> QED
      BY <2>6, <2>7
  <1>4. ASSUME NEW l \in Lines, Fail(l) PROVE LinesInv' /\ ~Here'
    <2>1. /\ line[l] \in Live /\ line' = [line EXCEPT ![l] = "closing"]
          /\ UNCHANGED <<ws, attached, syncing, wire, asks>>
      BY <1>4 DEF Fail, Failed, srvVars
    <2>2. l = ws
      BY <1>a, <2>1 DEF SocketInv, OneLine
    <2>3. line'[l] = "closing" /\ \A k \in Lines : k # l => line'[k] = line[k]
      BY <1>a, <2>1
    <2>4. LinesInv'
      BY <1>a, <2>1, <2>3 DEF LinesInv, Lines
    <2> QED
      BY <2>1, <2>2, <2>3, <2>4 DEF Here
  <1>5. ASSUME NEW l \in Lines, Close(l) PROVE LinesInv' /\ (Here' => HereInv')
    <2>1. /\ line' = [line EXCEPT ![l] = "closed"] /\ ws' = (IF ws = l THEN NoLine ELSE ws)
          /\ page' = IF ws = l /\ ~leaving THEN OnDisconnected(page) ELSE page
          /\ wire' = [wire EXCEPT ![l] = <<>>] /\ asks' = [asks EXCEPT ![l] = <<>>]
          /\ attached' = (IF attached = l THEN NoLine ELSE attached)
          /\ syncing' = (IF attached = l THEN NoView ELSE syncing)
      BY <1>5 DEF Close, Closed
    <2>2. /\ line'[l] = "closed" /\ wire'[l] = <<>> /\ asks'[l] = <<>> /\ DOMAIN asks' = Lines
          /\ \A k \in Lines : k # l => line'[k] = line[k] /\ wire'[k] = wire[k] /\ asks'[k] = asks[k]
      BY <1>a, <2>1 DEF LinesInv, WireInv
    <2>3. attached' # NoLine => line'[attached'] \in {"open", "closing"}
      BY <1>a, <2>1, <2>2 DEF LinesInv
    <2>4. syncing' # NoView => attached' # NoLine /\ CleanView(syncing'.view)
      BY <1>a, <2>1 DEF LinesInv
    <2>5. Len(<<>>) = 0
      OBVIOUS
    <2>6. \A k \in Lines : \A i \in 1 .. Len(wire'[k]) : Clean(wire'[k][i])
      BY <1>a, <2>2, <2>5 DEF LinesInv
    <2>7. LinesInv'
      BY <1>a, <2>2, <2>3, <2>4, <2>6 DEF LinesInv, Lines
    <2>8. CASE ws = l
      BY <2>1, <2>7, <2>8, NoLineNotALine DEF Here, Lines
    <2>9. CASE ws # l
      <3>1. ASSUME Here' PROVE HereInv'
        <4>1. ws' = ws /\ page' = page /\ ws \in Lines
          BY <2>1, <2>9, <3>1 DEF Here, Lines
        <4>2. line'[ws] = line[ws] /\ wire'[ws] = wire[ws] /\ asks'[ws] = asks[ws]
          BY <2>2, <2>9, <4>1
        <4>3. Here
          BY <3>1, <4>1, <4>2 DEF Here
        <4>4. attached' = ws <=> attached = ws
          BY <2>1, <2>9, <4>1, NoLineNotALine
        <4> QED
          BY <4>1, <4>2, <4>3, <4>4 DEF OrderInv, HereInv
      <3> QED
        BY <2>7, <3>1
    <2> QED
      BY <2>8, <2>9
  <1>6. CASE Disconnect \/ Reset
    <2>1. /\ line' = [l \in Lines |-> IF l = ws /\ line[l] \in Live THEN "closing" ELSE line[l]]
          /\ ws' = NoLine /\ UNCHANGED <<attached, syncing, asks, wire>>
      BY <1>6 DEF Disconnect, Reset, SocketHangUp, srvVars
    <2>2. LinesInv'
      BY <1>a, <2>1 DEF LinesInv, Lines, Live
    <2>3. ~Here'
      BY <2>1, NoLineNotALine DEF Here, Lines
    <2> QED
      BY <2>2, <2>3
  <1>7. CASE Reload
    <2>1. /\ ws' = NoLine /\ attached' = NoLine /\ syncing' = NoView
          /\ wire' = [l \in Lines |-> <<>>] /\ asks' = [l \in Lines |-> <<>>]
      BY <1>7 DEF Reload, Unloaded
    <2>2. Len(<<>>) = 0
      OBVIOUS
    <2>3. LinesInv'
      BY <2>1, <2>2 DEF LinesInv, Lines
    <2>4. ~Here'
      BY <2>1, NoLineNotALine DEF Here, Lines
    <2> QED
      BY <2>3, <2>4
  <1> QED
    BY <1>1, <1>2, <1>3, <1>4, <1>5, <1>6, <1>7

\* A request that is handled is the only one
LEMMA TakenIs ==
    ASSUME PageInv, OrderInv, NEW l \in Lines, NEW what, Take(l, what)
    PROVE  /\ l = ws /\ Here /\ HereInv /\ asks[ws] = <<what>> /\ syncing = NoView
           /\ DOMAIN asks' = Lines /\ asks'[ws] = <<>>
           /\ \A k \in Lines : k # ws => asks'[k] = asks[k]
  <1>1. /\ asks[l] # <<>> /\ Head(asks[l]) = what /\ syncing = NoView /\ line[l] = "open"
        /\ asks' = [asks EXCEPT ![l] = Tail(asks[l])]
    BY DEF Take
  <1>2. l = ws /\ Here
    BY <1>1, OpenIsOurs DEF PageInv
  <1>3. HereInv /\ DOMAIN asks = Lines
    BY <1>2 DEF OrderInv, LinesInv
  <1>4. asks[l] \in {<<"resume">>, <<"enter">>, <<"reopen">>}
    BY <1>1, <1>2, <1>3 DEF HereInv, Queue
  <1>5. asks[l] = <<what>> /\ Tail(asks[l]) = <<>>
    <2>1. \A x : Head(<<x>>) = x /\ Tail(<<x>>) = <<>>
      OBVIOUS
    <2> QED
      BY <1>1, <1>4, <2>1
  <1> QED
    BY <1>1, <1>2, <1>3, <1>5

LEMMA ReadKeeps ==
    ASSUME PageInv, OrderInv, NEW l \in Lines, Receive(l)
    PROVE  LinesInv' /\ (Here' => HereInv')
  <1>a. SocketInv /\ WireInv /\ LinesInv /\ GoodPage(page)
    BY DEF PageInv, OrderInv, StoreInv
  <1>1. PICK w : w = wire[l]
    OBVIOUS
  <1>2. PICK m : m = Head(w)
    OBVIOUS
  <1>3. /\ line[l] = "open" /\ w # <<>> /\ wire' = [wire EXCEPT ![l] = Tail(w)]
        /\ page' = IF ws = l THEN OnMessage(page, m) ELSE page
        /\ UNCHANGED <<line, ws, attached, syncing, asks>>
    BY <1>1, <1>2 DEF Receive, socketVars, srvVars
  <1>4. l = ws /\ Here /\ HereInv
    BY <1>a, <1>3, OpenIsOurs DEF OrderInv
  <1>5. Mail(w) /\ AllClean(w)
    BY <1>a, <1>1 DEF WireInv, LinesInv, AllClean
  <1>6. PICK x : x = Tail(w)
    OBVIOUS
  <1>7. /\ Len(w) \in Nat /\ Len(w) # 0 /\ m = w[1] /\ GoodMessage(m) /\ Len(x) = Len(w) - 1
        /\ \A i \in 1 .. Len(x) : x[i] = w[i + 1] /\ i + 1 \in 1 .. Len(w)
    BY <1>2, <1>3, <1>5, <1>6, MailIs
  <1>8. Clean(m)
    BY <1>5, <1>7 DEF AllClean
  <1>9. Moves(page, m, page')
    BY <1>a, <1>3, <1>4, <1>7, <1>8, MessageMoves
  <1>10. AllClean(x)
    BY <1>5, <1>7 DEF AllClean
  <1>11. LinesInv'
    <2>1. DOMAIN asks' = Lines /\ \A k \in Lines : k # ws => asks'[k] = asks[k]
      BY <1>a, <1>3 DEF LinesInv
    <2>2. syncing' # NoView => attached' # NoLine /\ CleanView(syncing'.view)
      BY <1>a, <1>3 DEF LinesInv
    <2> QED
      BY <1>a, <1>3, <1>4, <1>6, <1>10, <2>1, <2>2, LinesSent
  <1>12. wire'[ws] = x
    BY <1>a, <1>3, <1>4, <1>6 DEF WireInv
  <1>13. CASE attached = ws
    <2>1. SeatMail(page, w)
      BY <1>1, <1>4, <1>13 DEF HereInv
    <2>2. m.type # "resume_expired"
      BY <1>7, <2>1 DEF SeatMail
    <2>3. page'.room
      BY <1>7, <1>9, <2>1, <2>2 DEF SeatMail, Moves
    <2>4. \A i \in 1 .. Len(x) : x[i].type # "resume_expired" /\ x[i].type # "room_created"
      BY <1>7, <2>1 DEF SeatMail
    <2>5. SeatMail(page', x)
      BY <2>3, <2>4 DEF SeatMail
    <2> QED
      BY <1>3, <1>4, <1>11, <1>12, <1>13, <2>5 DEF HereInv
  <1>14. CASE attached # ws
    <2>1. Len(w) = 1 /\ asks[ws] # <<"resume">> /\ asks[ws] # <<"enter">>
      BY <1>1, <1>4, <1>7, <1>14 DEF HereInv, NoSeatMail
    <2>2. Len(x) = 0
      BY <1>7, <2>1
    <2> QED
      BY <1>3, <1>4, <1>11, <1>12, <1>14, <2>1, <2>2 DEF HereInv, NoSeatMail
  <1> QED
    BY <1>13, <1>14

LEMMA AsksKeep ==
    ASSUME PageInv, OrderInv, PageEnter \/ Return
    PROVE  LinesInv' /\ (Here' => HereInv')
  <1>a. SocketInv /\ WireInv /\ LinesInv /\ GoodPage(page)
    BY DEF PageInv, OrderInv, StoreInv
  <1>1. PICK what : /\ what \in {"enter", "reopen"} /\ (what = "enter" => ~page.room)
                    /\ (ws # NoLine => asks[ws] = <<>>) /\ (Ask(ws, what) \/ UNCHANGED asks)
                    /\ UNCHANGED <<line, ws, attached, syncing, wire>>
    <2>1. CASE PageEnter
      BY <2>1 DEF PageEnter, socketVars, srvVars
    <2>2. CASE Return
      BY <2>2 DEF Return, socketVars, srvVars
    <2> QED
      BY <2>1, <2>2
  <1>2. page'.room = page.room
    <2>1. CASE UNCHANGED page
      BY <2>1
    <2>2. CASE Return
      <3> DEFINE F == [pendingLobby |-> TRUE]
      <3>1. page' = With(page, F)
        BY <2>2 DEF Return
      <3>2. DOMAIN F = {"pendingLobby"}
        OBVIOUS
      <3> HIDE DEF F
      <3> QED
        BY <1>a, <3>1, <3>2, FieldsSet DEF PageFields
    <2> QED
      BY <2>1, <2>2 DEF PageEnter, storeVars
  <1>3. DOMAIN asks' = Lines /\ \A l \in Lines : l # ws => asks'[l] = asks[l]
    BY <1>a, <1>1 DEF LinesInv, Ask
  <1>4. ASSUME NEW l \in Lines, line'[l] \in {"unborn", "connecting"} PROVE asks'[l] = <<>> /\ wire'[l] = <<>>
    <2>1. asks[l] = <<>> /\ wire[l] = <<>> /\ line[l] # "open"
      BY <1>a, <1>1, <1>4 DEF LinesInv
    <2> QED
      BY <1>1, <1>3, <2>1 DEF Ask
  <1>5. LinesInv'
    BY <1>a, <1>1, <1>3, <1>4 DEF LinesInv, Lines
  <1>6. ASSUME Here' PROVE HereInv'
    <2>1. Here /\ HereInv /\ asks[ws] = <<>> /\ ws \in Lines
      BY <1>1, <1>6, NoLineNotALine DEF Here, OrderInv, Lines
    <2>2. asks'[ws] \in {<<>>, <<what>>}
      BY <1>a, <1>1, <2>1 DEF Ask, LinesInv
    <2>3. asks'[ws] \in Queue /\ asks'[ws] # <<"resume">>
      BY <1>1, <2>2 DEF Queue
    <2>4. \A w : /\ SeatMail(page, w) => SeatMail(page', w)
                 /\ NoSeatMail(page, w) => NoSeatMail(page', w)
      BY <1>2 DEF SeatMail, NoSeatMail
    <2>5. ASSUME attached # ws, asks'[ws] = <<"enter">> PROVE Len(wire[ws]) = 0 /\ ~page'.room
      <3>1. ~page.room
        BY <1>1, <2>2, <2>5
      <3> QED
        BY <1>2, <2>1, <2>5, <3>1 DEF HereInv, NoSeatMail
    <2> QED
      BY <1>1, <2>1, <2>3, <2>4, <2>5 DEF HereInv
  <1> QED
    BY <1>5, <1>6

\* Two messages to a page that had none on its way
LEMMA TwoAlone ==
    ASSUME NEW m, Clean(m), NEW n, Clean(n)
    PROVE  /\ AllClean(<<m, n>>)
           /\ \A p : /\ m.type \in {"room_created", "room_resumed"} /\ n.type = "room_state"
                     /\ m.type = "room_created" => ~p.room
                     => SeatMail(p, <<m, n>>)
  <1>1. PICK x : x = <<m, n>>
    OBVIOUS
  <1>2. Len(x) = 2 /\ x[1] = m /\ x[2] = n /\ \A i \in 1 .. 2 : i = 1 \/ i = 2
    BY <1>1
  <1> QED
    BY <1>1, <1>2 DEF AllClean, SeatMail

LEMMA HandleKeeps ==
    ASSUME PageInv, OrderInv, NEW l \in Lines, Handle(l)
    PROVE  LinesInv' /\ (Here' => HereInv')
  <1>a. SocketInv /\ WireInv /\ LinesInv /\ GoodPage(page)
    BY DEF PageInv, OrderInv, StoreInv
  <1>b. PICK what : Take(l, what) /\ what \in {"enter", "resume", "reopen"}
                    /\ (HandleEnter(l) => what = "enter") /\ (HandleResume(l) => what = "resume")
                    /\ (HandleReopen(l) => what = "reopen")
    <2>1. \A x : Take(l, x) => x = Head(asks[l])
      BY DEF Take
    <2>2. HandleEnter(l) => Take(l, "enter")
      BY DEF HandleEnter
    <2>3. HandleResume(l) => Take(l, "resume")
      BY DEF HandleResume
    <2>4. HandleReopen(l) => Take(l, "reopen")
      BY DEF HandleReopen
    <2> QED
      BY <2>1, <2>2, <2>3, <2>4 DEF Handle
  <1>c. /\ l = ws /\ Here /\ HereInv /\ asks[ws] = <<what>> /\ syncing = NoView
        /\ DOMAIN asks' = Lines /\ asks'[ws] = <<>>
        /\ \A k \in Lines : k # ws => asks'[k] = asks[k]
    BY <1>b, TakenIs
  <1>d. UNCHANGED <<line, ws, page>>
    BY DEF Handle, HandleEnter, HandleResume, HandleReopen, socketVars, storeVars
  <1>e. <<>> \in Queue /\ <<>> # <<"resume">> /\ <<>> # <<"enter">>
    BY DEF Queue
  <1>f. Here' /\ line[ws] = "open" /\ ws \in Lines
    BY <1>c, <1>d DEF Here, Lines
  <1>g. Mail(wire[ws]) /\ AllClean(wire[ws])
    BY <1>a, <1>f DEF WireInv, LinesInv, AllClean
  <1>1. ASSUME UNCHANGED <<attached, syncing, wire>> PROVE LinesInv' /\ HereInv'
    <2>1. LinesInv'
      BY <1>a, <1>c, <1>d, <1>1, <1>f DEF LinesInv, Lines
    <2>2. HereInv'
      BY <1>c, <1>d, <1>e, <1>1 DEF HereInv
    <2> QED
      BY <2>1, <2>2
  <1>2. ASSUME NEW x, AllClean(x), wire' = [wire EXCEPT ![l] = x], attached' \in {attached, l},
               syncing' # NoView => attached' # NoLine /\ CleanView(syncing'.view),
               attached' = l => SeatMail(page, x), attached' # l => NoSeatMail(page, x)
        PROVE  LinesInv' /\ HereInv'
    <2>1. LinesInv'
      BY <1>a, <1>c, <1>d, <1>2, <1>f, LinesSent
    <2>2. wire'[ws] = x
      BY <1>a, <1>c, <1>2 DEF WireInv
    <2>3. HereInv'
      BY <1>c, <1>d, <1>e, <1>2, <2>2 DEF HereInv
    <2> QED
      BY <2>1, <2>3
  <1>3. CASE HandleEnter(l)
    <2> DEFINE m == [type |-> "room_created"]
    <2>1. /\ UNCHANGED syncing
          /\ \/ UNCHANGED <<attached, wire>>
             \/ attached # l /\ attached' = l /\ wire' = [wire EXCEPT ![l] = wire[l] \o <<m, RoomState(srv)>>]
      BY <1>3 DEF HandleEnter
    <2>2. m.type = "room_created" /\ RoomState(srv).type = "room_state"
      BY DEF RoomState
    <2> HIDE DEF m
    <2>3. CASE attached # l /\ attached' = l /\ wire' = [wire EXCEPT ![l] = wire[l] \o <<m, RoomState(srv)>>]
      <3>1. ~page.room /\ Len(wire[ws]) = 0
        BY <1>3, <1>b, <1>c, <2>3 DEF HereInv
      <3>2. wire[ws] = <<>>
        BY <1>g, <3>1, MailIs
      <3>3. wire' = [wire EXCEPT ![l] = <<m, RoomState(srv)>>]
        BY <1>c, <2>3, <3>2
      <3>4. AllClean(<<m, RoomState(srv)>>) /\ SeatMail(page, <<m, RoomState(srv)>>)
        BY <2>2, <3>1, TwoAlone DEF Clean
      <3>5. syncing' = NoView
        BY <1>c, <2>1
      <3>6. LinesInv' /\ HereInv'
        BY <1>2, <2>3, <3>3, <3>4, <3>5
      <3> QED
        BY <3>6
    <2> QED
      BY <1>1, <2>1, <2>3
  <1>4. CASE HandleResume(l)
    <2> DEFINE m == [type |-> "room_resumed"]
               n == [type |-> "resume_expired"]
               v == [phase |-> "taken", view |-> View(srv)]
    <2>1. \/ /\ attached' = l /\ wire' = [wire EXCEPT ![l] = wire[l] \o <<m, RoomState(srv)>>]
             /\ syncing' = v
          \/ /\ wire' = [wire EXCEPT ![l] = Append(wire[l], n)]
             /\ UNCHANGED <<attached, syncing>>
      BY <1>4 DEF HandleResume
    <2>2. m.type = "room_resumed" /\ n.type = "resume_expired" /\ RoomState(srv).type = "room_state" /\ v.view = View(srv)
      BY DEF RoomState
    <2> HIDE DEF m, n, v
    <2>3. attached # ws /\ Len(wire[ws]) = 0 /\ page.room
      BY <1>4, <1>b, <1>c DEF HereInv
    <2>4. wire[ws] = <<>>
      BY <1>g, <2>3, MailIs
    <2>5. CASE /\ attached' = l /\ wire' = [wire EXCEPT ![l] = wire[l] \o <<m, RoomState(srv)>>]
               /\ syncing' = v
      <3>1. wire' = [wire EXCEPT ![l] = <<m, RoomState(srv)>>]
        <4>1. <<>> \o <<m, RoomState(srv)>> = <<m, RoomState(srv)>> /\ wire[l] = <<>>
          BY <1>c, <2>4
        <4> QED
          BY <2>5, <4>1
      <3>2. AllClean(<<m, RoomState(srv)>>) /\ SeatMail(page, <<m, RoomState(srv)>>)
        BY <2>2, TwoAlone DEF Clean
      <3>3. attached' # NoLine /\ CleanView(syncing'.view)
        BY <2>2, <2>5, ViewIsClean, NoLineNotALine
      <3>4. LinesInv' /\ HereInv'
        BY <1>2, <2>5, <3>1, <3>2, <3>3
      <3> QED
        BY <3>4
    <2>6. CASE wire' = [wire EXCEPT ![l] = Append(wire[l], n)] /\ UNCHANGED <<attached, syncing>>
      <3>1. wire' = [wire EXCEPT ![l] = <<n>>]
        <4>1. Append(<<>>, n) = <<n>> /\ wire[l] = <<>>
          BY <1>c, <2>4
        <4> QED
          BY <2>6, <4>1
      <3>2. AllClean(<<n>>) /\ NoSeatMail(page, <<n>>)
        BY <2>2, <2>3 DEF AllClean, Clean, NoSeatMail
      <3>3. syncing' = NoView
        BY <1>c, <2>6
      <3>4. LinesInv' /\ HereInv'
        BY <1>2, <1>c, <2>3, <2>6, <3>1, <3>2, <3>3
      <3> QED
        BY <3>4
    <2> QED
      BY <2>1, <2>5, <2>6
  <1>5. CASE HandleReopen(l)
    <2>1. PICK m : m = RoomState(srv')
      OBVIOUS
    <2>2. /\ UNCHANGED <<attached, syncing>>
          /\ \/ UNCHANGED wire
             \/ attached = l /\ wire' = [wire EXCEPT ![l] = Append(wire[l], m)]
      BY <1>5, <2>1 DEF HandleReopen
    <2>3. m.type = "room_state" /\ Clean(m)
      BY <2>1 DEF RoomState, Clean
    <2>4. CASE attached = l /\ wire' = [wire EXCEPT ![l] = Append(wire[l], m)]
      <3>1. PICK x : x = wire[ws] \o <<m>>
        OBVIOUS
      <3>2. Adds(x, wire[ws], m) /\ wire' = [wire EXCEPT ![l] = x]
        BY <1>c, <1>g, <2>4, <3>1, Longer
      <3>3. AllClean(x) /\ SeatMail(page, x)
        BY <1>c, <1>g, <2>3, <2>4, <3>2, MailAdds DEF HereInv
      <3>4. LinesInv' /\ HereInv'
        BY <1>2, <1>c, <2>2, <2>4, <3>2, <3>3
      <3> QED
        BY <3>4
    <2> QED
      BY <1>1, <2>2, <2>4
  <1> QED
    BY <1>3, <1>4, <1>5 DEF Handle

LEMMA SyncKeeps ==
    ASSUME PageInv, OrderInv, SendSync
    PROVE  LinesInv' /\ (Here' => HereInv')
  <1>a. SocketInv /\ WireInv /\ LinesInv /\ GoodPage(page)
    BY DEF PageInv, OrderInv, StoreInv
  <1>1. PICK m : m = [type |-> "full_sync", view |-> syncing.view]
    OBVIOUS
  <1>2. /\ syncing # NoView /\ syncing' = NoView /\ UNCHANGED <<line, ws, page, attached, asks>>
        /\ wire' = IF Reached THEN [wire EXCEPT ![attached] = Append(wire[attached], m)] ELSE wire
    BY <1>1 DEF SendSync, socketVars, storeVars
  <1>3. m.type = "full_sync" /\ Clean(m)
    BY <1>a, <1>1, <1>2 DEF Clean, LinesInv
  <1>4. CASE ~Reached
    <2>1. UNCHANGED wire
      BY <1>2, <1>4
    <2>2. LinesInv'
      BY <1>a, <1>2, <2>1 DEF LinesInv, Lines
    <2>3. Here' => HereInv'
      BY <1>2, <2>1 DEF OrderInv, Here, HereInv, Lines
    <2> QED
      BY <2>2, <2>3
  <1>5. CASE Reached
    <2>1. attached \in Lines /\ line[attached] = "open"
      BY <1>a, <1>5 DEF Reached, WireInv
    <2>2. attached = ws /\ Here /\ HereInv
      BY <1>a, <2>1, OpenIsOurs DEF OrderInv
    <2>3. PICK x : x = wire[ws] \o <<m>>
      OBVIOUS
    <2>4. Mail(wire[ws]) /\ AllClean(wire[ws])
      BY <1>a, <2>1, <2>2 DEF WireInv, LinesInv, AllClean
    <2>5. Adds(x, wire[ws], m) /\ wire' = [wire EXCEPT ![ws] = x]
      BY <1>2, <1>5, <2>2, <2>3, <2>4, Longer
    <2>6. AllClean(x) /\ SeatMail(page, x)
      BY <1>3, <2>2, <2>4, <2>5, MailAdds DEF HereInv
    <2>7. DOMAIN asks' = Lines /\ \A k \in Lines : k # ws => asks'[k] = asks[k]
      BY <1>a, <1>2 DEF LinesInv
    <2>8. LinesInv'
      BY <1>a, <1>2, <2>1, <2>2, <2>5, <2>6, <2>7, LinesSent
    <2>9. wire'[ws] = x
      BY <1>a, <2>1, <2>2, <2>5 DEF WireInv
    <2>10. HereInv'
      BY <1>2, <2>2, <2>6, <2>9 DEF HereInv
    <2> QED
      BY <2>8, <2>10
  <1> QED
    BY <1>4, <1>5

LEMMA OrderInit == PageInit => OrderInv
  <1> SUFFICES ASSUME PageInit PROVE OrderInv
    OBVIOUS
  <1>1. Len(<<>>) = 0
    OBVIOUS
  <1>2. LinesInv
    <2>1. /\ DOMAIN asks = Lines /\ attached = NoLine /\ syncing = NoView
          /\ \A l \in Lines : asks[l] = <<>> /\ wire[l] = <<>>
      BY DEF PageInit
    <2>2. \A l \in Lines : \A i \in 1 .. Len(wire[l]) : Clean(wire[l][i])
      BY <1>1, <2>1
    <2> QED
      BY <2>1, <2>2 DEF LinesInv
  <1>3. AtHome(page)
    BY InitialFields DEF PageInit, AtHome
  <1>4. ~Here
    BY NoLineNotALine DEF PageInit, SocketInit, Here
  <1> QED
    BY <1>2, <1>3, <1>4 DEF OrderInv

LEMMA OrderNext == PageInv /\ OrderInv /\ [PageNext]_pageVars => OrderInv'
  <1> SUFFICES ASSUME PageInv, OrderInv, [PageNext]_pageVars PROVE LinesInv' /\ (Here' => HereInv')
    BY HomeNext DEF OrderInv
  <1>1. CASE Expire \/ UNCHANGED pageVars
    <2>1. UNCHANGED <<line, ws, page, attached, syncing, asks, wire>>
      BY <1>1 DEF Expire, pageVars, socketVars, storeVars, srvVars
    <2> QED
      BY <2>1 DEF OrderInv, LinesInv, Here, HereInv, Lines
  <1>2. CASE GameStep \/ Reopen
    BY <1>2, GameTells, TellKeeps
  <1>3. CASE SendSync
    BY <1>3, SyncKeeps
  <1>4. CASE PageEnter \/ Return
    BY <1>4, AsksKeep
  <1>5. ASSUME NEW l \in Lines, Handle(l) PROVE LinesInv' /\ (Here' => HereInv')
    BY <1>5, HandleKeeps
  <1>6. ASSUME NEW l \in Lines, Receive(l) PROVE LinesInv' /\ (Here' => HereInv')
    BY <1>6, ReadKeeps
  <1>7. CASE \/ \E elsewhere \in BOOLEAN : PageConnect(elsewhere)
             \/ \E l \in Lines : Open(l) \/ Fail(l) \/ Close(l)
             \/ Retry \/ Disconnect \/ Reset \/ Reload
    BY <1>7, SocketsKeep
  <1> QED
    BY <1>1, <1>2, <1>3, <1>4, <1>5, <1>6, <1>7 DEF PageNext

-----------------------------------------------------------------------------
(* The page follows the server *)

\* Once a page that holds its seat has received all that is on its way, and the
\* snapshot that is still to be sent, it shows what the server has; and unless
\* the wish is on its way, it does not wait on the final screen of a game that
\* is gone
FollowsNow ==
    /\ EventsFit(page, wire[ws])
    /\ syncing # NoView => syncing.view = View(srv) /\ EndsGood(page, wire[ws])
    /\ syncing = NoView => /\ EndsAgree(seat, page, wire[ws], srv)
                           /\ ~Running(srv) /\ asks[ws] # <<"reopen">> => Waits(page, wire[ws])

FollowInv == Here /\ attached = ws /\ ~overtaken => FollowsNow

AllInv == PageInv /\ SrvPlays /\ OrderInv /\ FollowInv

\* The game tells what it does
LEMMA GameFollows ==
    ASSUME AllInv, NEW ms, Tell(ms), Running(srv') \/ \A w, p : Mail(w) /\ EndsGood(p, w) => Waits(p, w \o ms),
           \A w : Mail(w) /\ EndsAgree(seat, page, w, srv) /\ EventsFit(page, w)
                  => EndsAgree(seat, page, w \o ms, srv') /\ EventsFit(page, w \o ms)
    PROVE  FollowInv'
  <1> SUFFICES ASSUME Here', attached' = ws', ~overtaken' PROVE FollowsNow'
    BY DEF FollowInv
  <1>1. /\ wire' = IF Reached THEN [wire EXCEPT ![attached] = @ \o ms] ELSE wire
        /\ overtaken' = (overtaken \/ syncing # NoView)
        /\ UNCHANGED <<line, ws, page, seat, attached, syncing, asks>>
    BY DEF Tell, socketVars, storeVars
  <1>2. Here /\ attached = ws /\ ~overtaken /\ syncing = NoView /\ ws \in Lines
    BY <1>1 DEF Here, Lines
  <1>3. Reached
    BY <1>2, NoLineNotALine DEF Here, Reached
  <1>4. PICK w : w = wire[ws]
    OBVIOUS
  <1>5. Mail(w) /\ wire'[ws] = w \o ms
    BY <1>1, <1>2, <1>3, <1>4 DEF AllInv, PageInv, WireInv
  <1>6. FollowsNow
    BY <1>2 DEF AllInv, FollowInv
  <1>7. EventsFit(page, w) /\ EndsAgree(seat, page, w, srv)
    BY <1>2, <1>4, <1>6 DEF FollowsNow
  <1>8. EndsAgree(seat, page, w \o ms, srv') /\ EventsFit(page, w \o ms)
    BY <1>5, <1>7
  <1>9. ~Running(srv') => Waits(page, w \o ms)
    BY <1>5, <1>7, AgreeIsGood
  <1> QED
    BY <1>1, <1>2, <1>5, <1>8, <1>9 DEF FollowsNow

\* A message that brings a page from what the server had to what it has
LEMMA OneFollows ==
    ASSUME AllInv, NEW m, Tell(<<m>>), Running(srv'),
           \A q : Agrees(seat, q, srv) => \A r \in Bumps(OnMessage(q, m)) : Agrees(seat, r, srv'),
           m.type = "round_result" => \A q : Agrees(seat, q, srv) => OneStep(q, m)
    PROVE  FollowInv'
  <1>1. \A w : Mail(w) /\ EndsAgree(seat, page, w, srv) /\ EventsFit(page, w)
               => EndsAgree(seat, page, w \o <<m>>, srv') /\ EventsFit(page, w \o <<m>>)
    BY Told
  <1> QED
    BY <1>1, GameFollows

LEMMA TwoFollow ==
    ASSUME AllInv, NEW m, NEW n, Tell(<<m, n>>), Running(srv'), m.type # "round_result", n.type # "round_result",
           \A q : Agrees(seat, q, srv) =>
              \A r \in Bumps(OnMessage(q, m)) : \A u \in Bumps(OnMessage(r, n)) : Agrees(seat, u, srv')
    PROVE  FollowInv'
  <1>1. \A w : Mail(w) /\ EndsAgree(seat, page, w, srv) /\ EventsFit(page, w)
               => EndsAgree(seat, page, w \o <<m, n>>, srv') /\ EventsFit(page, w \o <<m, n>>)
    BY ToldTwo
  <1> QED
    BY <1>1, GameFollows

LEMMA GamePlays == AllInv /\ GameStep /\ SrvPlays' => FollowInv'
  <1> SUFFICES ASSUME AllInv, GameStep, SrvPlays' PROVE FollowInv'
    OBVIOUS
  <1>a. SrvInv /\ SrvPlays
    BY DEF AllInv, PageInv
  <1>b. /\ DOMAIN srv = SrvFields
        /\ IF Running(srv) THEN srv.phase \in GamePhases ELSE srv.phase = ""
    BY <1>a DEF SrvInv
  <1>c. \A s : /\ Now("game_start", s).type = "game_start" /\ Now("clues_submitted", s).type = "clues_submitted"
               /\ Now("round_result", s).type = "round_result" /\ Now("game_over", s).type = "game_over"
               /\ \A x : PhaseChange(x, s).type = "phase_change"
    BY DEF Now, PhaseChange
  <1>1. CASE StartGame
    <2>1. PICK m : m = Now("game_start", srv')
      OBVIOUS
    <2>2. PICK n : n = PhaseChange("encrypting", srv')
      OBVIOUS
    <2>3. Tell(<<m, n>>) /\ Running(srv')
      BY <1>1, <1>b, <2>1, <2>2 DEF StartGame, PageRound, SrvFields, Running
    <2>4. \A q : Agrees(seat, q, srv) =>
             \A r \in Bumps(OnMessage(q, m)) : \A u \in Bumps(OnMessage(r, n)) : Agrees(seat, u, srv')
      BY <1>1, <1>a, <2>1, <2>2, StartTold
    <2>5. m.type # "round_result" /\ n.type # "round_result"
      BY <1>c, <2>1, <2>2
    <2> QED
      BY <2>3, <2>4, <2>5, TwoFollow
  <1>2. CASE NextRound
    <2>1. PICK m : m = PhaseChange("new_round", srv')
      OBVIOUS
    <2>2. PICK n : n = PhaseChange("encrypting", srv')
      OBVIOUS
    <2>3. Tell(<<m, n>>) /\ Running(srv')
      BY <1>2, <1>b, <2>1, <2>2 DEF NextRound, PageRound, SrvFields, Running
    <2>4. \A q : Agrees(seat, q, srv) =>
             \A r \in Bumps(OnMessage(q, m)) : \A u \in Bumps(OnMessage(r, n)) : Agrees(seat, u, srv')
      BY <1>2, <1>a, <2>1, <2>2, RoundTold
    <2>5. m.type # "round_result" /\ n.type # "round_result"
      BY <1>c, <2>1, <2>2
    <2> QED
      BY <2>3, <2>4, <2>5, TwoFollow
  <1>3. CASE BeginGuess
    <2>1. PICK m : m = Now("clues_submitted", srv)
      OBVIOUS
    <2>2. PICK n : n = PhaseChange("guess", srv')
      OBVIOUS
    <2>3. Tell(<<m, n>>) /\ Running(srv')
      BY <1>3, <1>b, <2>1, <2>2 DEF BeginGuess, SrvFields, Running
    <2>4. \A q : Agrees(seat, q, srv) =>
             \A r \in Bumps(OnMessage(q, m)) : \A u \in Bumps(OnMessage(r, n)) : Agrees(seat, u, srv')
      BY <1>3, <1>a, <2>1, <2>2, GuessTold
    <2>5. m.type # "round_result" /\ n.type # "round_result"
      BY <1>c, <2>1, <2>2
    <2> QED
      BY <2>3, <2>4, <2>5, TwoFollow
  <1>4. CASE Finish
    <2>1. PICK m : m = Now("round_result", srv')
      OBVIOUS
    <2>2. Tell(<<m>>) /\ Running(srv')
      BY <1>4, <1>b, <2>1 DEF Finish, SrvFields, Running
    <2>3. \A q : Agrees(seat, q, srv) => \A r \in Bumps(OnMessage(q, m)) : Agrees(seat, r, srv')
      BY <1>4, <1>a, <2>1, FinishTold
    <2>4. \A q : Agrees(seat, q, srv) => OneStep(q, m)
      BY <1>4, <1>a, <2>1, FinishTold
    <2> QED
      BY <2>2, <2>3, <2>4, OneFollows
  <1>5. CASE End
    <2>1. PICK m : m = Now("game_over", srv')
      OBVIOUS
    <2>2. Tell(<<m>>) /\ Running(srv')
      BY <1>5, <1>b, <2>1 DEF End, SrvFields, Running
    <2>3. \A q : Agrees(seat, q, srv) => \A r \in Bumps(OnMessage(q, m)) : Agrees(seat, r, srv')
      BY <1>5, <1>a, <2>1, OverTold
    <2>4. m.type # "round_result"
      BY <1>c, <2>1
    <2> QED
      BY <2>2, <2>3, <2>4, OneFollows
  <1>6. ASSUME NEW a, Answer(a) PROVE FollowInv'
    <2>1. PICK m : m = [type |-> "timeout", round |-> srv.round, action |-> a]
      OBVIOUS
    <2>2. Running(srv')
      BY <1>6, <1>b, PhaseActions DEF Answer, SrvFields, Running
    <2>3. CASE a \in This.late
      <3>1. Tell(<<m>>) /\ m.type # "round_result"
        BY <1>6, <2>1, <2>3 DEF Answer
      <3>2. \A q : Agrees(seat, q, srv) => \A r \in Bumps(OnMessage(q, m)) : Agrees(seat, r, srv')
        BY <1>6, <1>a, <2>1, <2>3, AnswerTold
      <3> QED
        BY <2>2, <3>1, <3>2, OneFollows
    <2>4. CASE a \notin This.late
      <3>1. Tell(<<>>)
        BY <1>6, <2>4 DEF Answer
      <3>2. \A q : Agrees(seat, q, srv) => Agrees(seat, q, srv')
        BY <1>6, <1>a, <2>4, AnswerTold
      <3>3. ASSUME NEW w, Mail(w), EndsAgree(seat, page, w, srv), EventsFit(page, w)
            PROVE  EndsAgree(seat, page, w \o <<>>, srv') /\ EventsFit(page, w \o <<>>)
        <4>1. w \o <<>> = w
          <5>1. PICK S : w \in Seq(S)
            BY <3>3 DEF Mail
          <5> QED
            BY <5>1
        <4>2. EndsAgree(seat, page, w, srv')
          BY <3>2, <3>3 DEF EndsAgree
        <4> QED
          BY <3>3, <4>1, <4>2
      <3> QED
        BY <2>2, <3>1, <3>3, GameFollows
    <2> QED
      BY <2>3, <2>4
  <1>7. ASSUME NEW a, Announce(a) PROVE FollowInv'
    <2>1. PICK m : m = [type |-> "action_submitted", round |-> srv.round, action |-> a]
      OBVIOUS
    <2>2. Tell(<<m>>) /\ Running(srv') /\ m.type # "round_result"
      BY <1>7, <1>b, <2>1 DEF Announce, SrvFields, Running
    <2>3. \A q : Agrees(seat, q, srv) => \A r \in Bumps(OnMessage(q, m)) : Agrees(seat, r, srv')
      BY <1>7, <1>a, <2>1, AnnounceTold
    <2> QED
      BY <2>2, <2>3, OneFollows
  <1> QED
    BY <1>1, <1>2, <1>3, <1>4, <1>5, <1>6, <1>7 DEF GameStep

\* The room goes back to its lobby
LEMMA ReopenFollows == AllInv /\ Reopen => FollowInv'
  <1> SUFFICES ASSUME AllInv, Reopen PROVE FollowInv'
    OBVIOUS
  <1>1. PICK m : m = RoomState(srv')
    OBVIOUS
  <1>2. Tell(<<m>>) /\ srv.stage = "over" /\ srv' = Lobby(srv)
    BY <1>1 DEF Reopen
  <1>3. SrvInv /\ SrvPlays
    BY DEF AllInv, PageInv
  <1>4. ~Running(srv')
    BY <1>2, <1>3 DEF SrvInv, SrvFields, Lobby, Running
  <1>5. m.type = "room_state" /\ ~m.started
    BY <1>1, <1>4 DEF RoomState
  <1>6. \A q : Agrees(seat, q, srv) => \A r \in Bumps(OnMessage(q, m)) : Agrees(seat, r, srv')
    BY <1>1, <1>2, <1>3, RestTold
  <1>7. \A w : Mail(w) /\ EndsAgree(seat, page, w, srv) /\ EventsFit(page, w)
               => EndsAgree(seat, page, w \o <<m>>, srv') /\ EventsFit(page, w \o <<m>>)
    BY <1>5, <1>6, Told
  <1>8. \A q : GoodPage(q) => (OnMessage(q, m).phase = "game_over" => ~OnMessage(q, m).pendingLobby)
    BY <1>5, LobbyWaits
  <1>9. \A w, p : Mail(w) /\ EndsGood(p, w) => Waits(p, w \o <<m>>)
    BY <1>8, WaitsTold
  <1> QED
    BY <1>2, <1>7, <1>9, GameFollows

\* The line is dialled, opened, closed or dropped
LEMMA LinesFollow ==
    ASSUME AllInv,
           \/ \E elsewhere \in BOOLEAN : PageConnect(elsewhere)
           \/ \E l \in Lines : Open(l) \/ Fail(l) \/ Close(l)
           \/ Retry \/ Disconnect \/ Reset \/ Reload
    PROVE  FollowInv'
  <1>a. SocketInv /\ OrderInv /\ LinesInv /\ WireInv /\ FollowInv /\ PageInv
    BY DEF AllInv, PageInv, OrderInv
  <1>b. ~Here' => FollowInv'
    BY DEF FollowInv
  <1>1. CASE \E elsewhere \in BOOLEAN : PageConnect(elsewhere)
    <2>1. ws = NoLine /\ Dial /\ UNCHANGED <<attached, syncing, asks, wire>>
      BY <1>1, <1>a DEF PageConnect, NewService, srvVars, SocketInv, NeverStranded
    <2> QED
      BY <1>a, <1>b, <2>1, DialKeeps
  <1>2. CASE Retry
    <2>1. ws = NoLine /\ Dial /\ UNCHANGED <<attached, syncing, asks, wire>>
      BY <1>2, <1>a DEF Retry, Redial, srvVars, SocketInv, NeverStranded
    <2> QED
      BY <1>a, <1>b, <2>1, DialKeeps
  <1>3. ASSUME NEW l \in Lines, Open(l) PROVE FollowInv'
    <2>1. line[l] = "connecting" /\ UNCHANGED <<ws, attached>>
      BY <1>3 DEF Open, Opened, srvVars
    <2>2. ws = l
      BY <1>a, <2>1 DEF SocketInv, OneLine, Live
    <2>3. attached' # ws'
      BY <1>a, <2>1, <2>2, NoLineNotALine DEF LinesInv
    <2> QED
      BY <2>3 DEF FollowInv
  <1>4. ASSUME NEW l \in Lines, Fail(l) PROVE FollowInv'
    <2>1. line[l] \in Live /\ line' = [line EXCEPT ![l] = "closing"] /\ UNCHANGED ws
      BY <1>4 DEF Fail, Failed
    <2>2. l = ws /\ line \in [Lines -> SocketStates]
      BY <1>a, <2>1 DEF SocketInv, OneLine, SocketTypeOK
    <2> QED
      BY <1>b, <2>1, <2>2 DEF Here
  <1>5. ASSUME NEW l \in Lines, Close(l) PROVE FollowInv'
    <2>1. /\ line' = [line EXCEPT ![l] = "closed"] /\ ws' = (IF ws = l THEN NoLine ELSE ws)
          /\ page' = IF ws = l /\ ~leaving THEN OnDisconnected(page) ELSE page
          /\ wire' = [wire EXCEPT ![l] = <<>>] /\ asks' = [asks EXCEPT ![l] = <<>>]
          /\ attached' = (IF attached = l THEN NoLine ELSE attached)
          /\ syncing' = (IF attached = l THEN NoView ELSE syncing)
          /\ UNCHANGED <<seat, srv, overtaken>>
      BY <1>5 DEF Close, Closed
    <2>2. CASE ws = l
      BY <1>b, <2>1, <2>2, NoLineNotALine DEF Here, Lines
    <2>3. CASE ws # l
      <3> SUFFICES ASSUME Here', attached' = ws', ~overtaken' PROVE FollowsNow'
        BY DEF FollowInv
      <3>1. ws' = ws /\ page' = page /\ ws \in Lines
        BY <2>1, <2>3 DEF Here, Lines
      <3>2. attached = ws /\ syncing' = syncing
        BY <2>1, <2>3, <3>1, NoLineNotALine
      <3>3. line \in [Lines -> SocketStates] /\ DOMAIN wire = Lines /\ DOMAIN asks = Lines
        BY <1>a DEF SocketInv, SocketTypeOK, WireInv, LinesInv
      <3>4. line'[ws] = line[ws] /\ wire'[ws] = wire[ws] /\ asks'[ws] = asks[ws]
        BY <2>1, <2>3, <3>1, <3>3
      <3>5. FollowsNow
        BY <1>a, <2>1, <3>1, <3>2, <3>4 DEF FollowInv, Here
      <3>6. UNCHANGED View(srv) /\ UNCHANGED Running(srv)
        BY <2>1 DEF View, Running
      <3> QED
        BY <2>1, <3>1, <3>2, <3>4, <3>5, <3>6 DEF FollowsNow
    <2> QED
      BY <2>2, <2>3
  <1>6. CASE Disconnect \/ Reset \/ Reload
    BY <1>b, <1>6, NoLineNotALine DEF Disconnect, Reset, Reload, Unloaded, SocketHangUp, Here, Lines
  <1> QED
    BY <1>1, <1>2, <1>3, <1>4, <1>5, <1>6

\* The page receives a message, or its player asks for something
LEMMA PageFollowsOn ==
    ASSUME AllInv, PageEnter \/ Return \/ \E l \in Lines : Receive(l)
    PROVE  FollowInv'
  <1> SUFFICES ASSUME Here', attached' = ws', ~overtaken' PROVE FollowsNow'
    BY DEF FollowInv
  <1>a. SocketInv /\ OrderInv /\ LinesInv /\ WireInv /\ FollowInv /\ PageInv /\ GoodPage(page)
    BY DEF AllInv, PageInv, OrderInv, StoreInv
  <1>b. UNCHANGED <<line, ws, seat, srv, attached, syncing, overtaken>>
    BY DEF PageEnter, Return, Receive, socketVars, srvVars
  <1>c. FollowsNow /\ Here /\ ws \in Lines /\ HereInv /\ attached = ws
    BY <1>a, <1>b DEF FollowInv, Here, Lines, OrderInv
  <1>d. UNCHANGED View(srv) /\ UNCHANGED Running(srv)
    BY <1>b DEF View, Running
  <1>1. ASSUME NEW l \in Lines, Receive(l) PROVE FollowsNow'
    <2>1. PICK w : w = wire[ws]
      OBVIOUS
    <2>2. l = ws
      BY <1>a, <1>1, OpenIsOurs DEF Receive
    <2>3. w # <<>> /\ Mail(w) /\ wire'[ws] = Tail(w) /\ page' = OnMessage(page, Head(w)) /\ UNCHANGED asks
      BY <1>a, <1>1, <2>1, <2>2 DEF Receive, WireInv
    <2>4. /\ EndsAgree(seat, page, w, srv) => EndsAgree(seat, page', Tail(w), srv)
          /\ EndsGood(page, w) => EndsGood(page', Tail(w))
          /\ EventsFit(page, w) => EventsFit(page', Tail(w))
          /\ Waits(page, w) => Waits(page', Tail(w))
      BY <2>3, Received
    <2> QED
      BY <1>b, <1>c, <1>d, <2>1, <2>3, <2>4 DEF FollowsNow
  <1>2. CASE PageEnter
    <2>1. UNCHANGED <<page, wire>> /\ asks[ws] = <<>> /\ asks' = [asks EXCEPT ![ws] = Append(@, "enter")]
      BY <1>2, <1>c DEF PageEnter, storeVars, Ask, Here
    <2>2. asks[ws] # <<"reopen">>
      BY <2>1
    <2> QED
      BY <1>b, <1>c, <1>d, <2>1, <2>2 DEF FollowsNow
  <1>3. CASE Return
    <2>1. /\ UNCHANGED wire /\ asks[ws] = <<>> /\ asks' = [asks EXCEPT ![ws] = Append(@, "reopen")]
          /\ page.phase = "game_over" /\ page' = With(page, [pendingLobby |-> TRUE])
      BY <1>3, <1>c, NoLineNotALine DEF Return, Ask, Here
    <2>2. asks'[ws] = <<"reopen">>
      <3>1. ws \in DOMAIN asks
        BY <1>a, <1>c DEF LinesInv
      <3> QED
        BY <2>1, <3>1
    <2>3. PICK w : w = wire[ws]
      OBVIOUS
    <2>4. /\ EndsAgree(seat, page, w, srv) => EndsAgree(seat, page', w, srv)
          /\ EndsGood(page, w) => EndsGood(page', w)
          /\ EventsFit(page, w) => EventsFit(page', w)
      BY <1>a, <2>1, WishKeeps
    <2> QED
      BY <1>b, <1>c, <1>d, <2>1, <2>2, <2>3, <2>4 DEF FollowsNow
  <1> QED
    BY <1>1, <1>2, <1>3

\* A request is handled by the one that brings it
LEMMA HandleIs ==
    ASSUME AllInv, NEW l \in Lines, NEW what, Take(l, what), Here', attached' = ws', ~overtaken',
           UNCHANGED <<line, ws, page, seat>>
    PROVE  /\ l = ws /\ ws \in Lines /\ Here /\ HereInv /\ asks[ws] = <<what>> /\ syncing = NoView /\ asks'[ws] = <<>>
           /\ attached' = ws /\ Mail(wire[ws]) /\ DOMAIN wire = Lines
  <1>a. PageInv /\ OrderInv /\ WireInv
    BY DEF AllInv, PageInv
  <1>1. l = ws /\ Here /\ HereInv /\ asks[ws] = <<what>> /\ syncing = NoView /\ asks'[ws] = <<>>
    BY <1>a, TakenIs
  <1> QED
    BY <1>a, <1>1 DEF WireInv

LEMMA EnterFollows == ASSUME AllInv, NEW l \in Lines, HandleEnter(l) PROVE FollowInv'
  <1> SUFFICES ASSUME Here', attached' = ws', ~overtaken' PROVE FollowsNow'
    BY DEF FollowInv
  <1> DEFINE m == [type |-> "room_created"]
             n == RoomState(srv)
  <1>1. /\ Take(l, "enter") /\ UNCHANGED <<line, ws, page, seat, syncing, overtaken>>
        /\ \/ /\ attached # l /\ srv.stage = "lobby" /\ srv' = [srv EXCEPT !.joined = TRUE]
              /\ wire' = [wire EXCEPT ![l] = wire[l] \o <<m, n>>]
           \/ UNCHANGED <<attached, srv, wire>>
    BY DEF HandleEnter, socketVars, storeVars
  <1>2. m.type = "room_created" /\ n.type = "room_state" /\ n.started = Running(srv)
    BY DEF RoomState
  <1> HIDE DEF m, n
  <1>3. /\ l = ws /\ ws \in Lines /\ Here /\ HereInv /\ asks[ws] = <<"enter">> /\ syncing = NoView /\ asks'[ws] = <<>>
        /\ attached' = ws /\ Mail(wire[ws]) /\ DOMAIN wire = Lines
    BY <1>1, HandleIs
  <1>a. SrvInv /\ FollowInv /\ GoodPage(page) /\ (~page.room => AtHome(page))
    BY DEF AllInv, PageInv, StoreInv, OrderInv
  <1>4. CASE /\ attached # l /\ srv.stage = "lobby" /\ srv' = [srv EXCEPT !.joined = TRUE]
             /\ wire' = [wire EXCEPT ![l] = wire[l] \o <<m, n>>]
    <2>1. Len(wire[ws]) = 0 /\ AtHome(page)
      BY <1>a, <1>3, <1>4 DEF HereInv
    <2>2. wire'[ws] = <<m, n>>
      <3>1. wire[ws] = <<>>
        BY <1>3, <2>1, MailIs
      <3>2. <<>> \o <<m, n>> = <<m, n>>
        OBVIOUS
      <3> QED
        BY <1>3, <1>4, <3>1, <3>2
    <2>3. ~Running(srv) /\ ~Running(srv')
      BY <1>a, <1>4 DEF Running, SrvInv, SrvFields
    <2>4. ~n.started
      BY <1>2, <2>3
    <2>5. \A r \in Bumps(page) : \A q \in Bumps(OnMessage(r, m)) : \A u \in Bumps(OnMessage(q, n)) : Agrees(seat, u, srv')
      BY <1>a, <1>2, <2>1, <2>3, <2>4, EnterTold DEF AtHome
    <2>6. EndsAgree(seat, page, <<m, n>>, srv') /\ EventsFit(page, <<m, n>>)
      <3>1. m.type # "round_result" /\ n.type # "round_result"
        BY <1>2
      <3> QED
        BY <2>5, <3>1, TwoFrom
    <2>7. Waits(page, <<m, n>>)
      <3>1. PICK x : x = <<m, n>>
        OBVIOUS
      <3>2. Len(x) = 2 /\ x[1] = m /\ x[2] = n
        BY <3>1
      <3>3. ASSUME NEW tr, IsPath(tr, page, x) PROVE tr[2].phase = "game_over" => ~tr[2].pendingLobby
        <4>1. tr[0] = page /\ \A i \in 1 .. 2 : tr[i] = OnMessage(tr[i - 1], x[i])
          BY <3>2, <3>3 DEF IsPath
        <4>2. 1 \in 1 .. 2 /\ 2 \in 1 .. 2 /\ 1 - 1 = 0 /\ 2 - 1 = 1
          OBVIOUS
        <4>3. tr[1] = OnMessage(page, m) /\ tr[2] = OnMessage(tr[1], n)
          BY <3>2, <4>1, <4>2
        <4>4. GoodPage(tr[1])
          BY <1>a, <1>2, <4>3, MessageHandled DEF GoodMessage
        <4> QED
          BY <1>2, <2>4, <4>3, <4>4, LobbyWaits
      <3> QED
        BY <3>1, <3>2, <3>3 DEF Waits
    <2> QED
      BY <1>1, <1>3, <2>2, <2>6, <2>7 DEF FollowsNow
  <1>5. CASE UNCHANGED <<attached, srv, wire>>
    <2>1. FollowsNow /\ asks[ws] # <<"reopen">>
      BY <1>1, <1>3, <1>5, <1>a DEF FollowInv, Here
    <2>2. UNCHANGED Running(srv)
      BY <1>5 DEF Running
    <2> QED
      BY <1>1, <1>3, <1>5, <2>1, <2>2 DEF FollowsNow
  <1> QED
    BY <1>1, <1>4, <1>5

\* A page that comes back: what it is told of the room, and the snapshot to come
LEMMA ResumeFollows == ASSUME AllInv, NEW l \in Lines, HandleResume(l) PROVE FollowInv'
  <1> SUFFICES ASSUME Here', attached' = ws', ~overtaken' PROVE FollowsNow'
    BY DEF FollowInv
  <1> DEFINE m == [type |-> "room_resumed"]
             n == RoomState(srv)
             v == [phase |-> "taken", view |-> View(srv)]
  <1>1. /\ Take(l, "resume") /\ UNCHANGED <<line, ws, page, seat, srv>>
        /\ \/ /\ attached' = l /\ overtaken' = FALSE
              /\ wire' = [wire EXCEPT ![l] = wire[l] \o <<m, n>>]
              /\ syncing' = v
           \/ UNCHANGED attached
    BY DEF HandleResume, socketVars, storeVars
  <1>2. m.type = "room_resumed" /\ n.type = "room_state" /\ v.view = View(srv) /\ v # NoView
    BY DEF RoomState, NoView
  <1> HIDE DEF m, n, v
  <1>3. /\ l = ws /\ ws \in Lines /\ Here /\ HereInv /\ asks[ws] = <<"resume">> /\ syncing = NoView /\ asks'[ws] = <<>>
        /\ attached' = ws /\ Mail(wire[ws]) /\ DOMAIN wire = Lines
    BY <1>1, HandleIs
  <1>4. GoodPage(page) /\ attached # ws /\ Len(wire[ws]) = 0
    BY <1>3 DEF AllInv, PageInv, StoreInv, HereInv
  <1>5. wire'[ws] = <<m, n>> /\ syncing' = v
    <2>1. wire[ws] = <<>>
      BY <1>3, <1>4, MailIs
    <2>2. <<>> \o <<m, n>> = <<m, n>>
      OBVIOUS
    <2> QED
      BY <1>1, <1>3, <1>4, <2>1, <2>2
  <1>6. EndsGood(page, <<m, n>>) /\ EventsFit(page, <<m, n>>)
    <2>1. GoodMessage(m) /\ GoodMessage(n) /\ m.type # "round_result" /\ n.type # "round_result"
      BY <1>2 DEF GoodMessage
    <2> QED
      BY <1>4, <2>1, TwoFrom
  <1>7. UNCHANGED View(srv)
    BY <1>1 DEF View
  <1> QED
    BY <1>1, <1>2, <1>3, <1>5, <1>6, <1>7 DEF FollowsNow

\* The wish to go back reaches the server
LEMMA WishFollows == ASSUME AllInv, NEW l \in Lines, HandleReopen(l) PROVE FollowInv'
  <1> SUFFICES ASSUME Here', attached' = ws', ~overtaken' PROVE FollowsNow'
    BY DEF FollowInv
  <1>0. PICK m : m = RoomState(srv')
    OBVIOUS
  <1>1. /\ Take(l, "reopen") /\ UNCHANGED <<line, ws, page, seat, attached, syncing, overtaken>>
        /\ \/ /\ srv.stage \in {"over", "lobby"} /\ srv' = Lobby(srv)
              /\ wire' = [wire EXCEPT ![l] = Append(wire[l], m)]
           \/ ~(attached = l /\ srv.stage \in {"over", "lobby"}) /\ UNCHANGED <<srv, wire>>
    BY <1>0 DEF HandleReopen, socketVars, storeVars
  <1>2. /\ l = ws /\ ws \in Lines /\ Here /\ HereInv /\ asks[ws] = <<"reopen">> /\ syncing = NoView /\ asks'[ws] = <<>>
        /\ attached' = ws /\ Mail(wire[ws]) /\ DOMAIN wire = Lines
    BY <1>1, HandleIs
  <1>a. SrvInv /\ SrvPlays /\ FollowInv /\ attached = ws /\ ~overtaken
    BY <1>1, <1>2 DEF AllInv, PageInv
  <1>3. FollowsNow
    BY <1>2, <1>a DEF FollowInv
  <1>4. CASE /\ srv.stage \in {"over", "lobby"} /\ srv' = Lobby(srv)
             /\ wire' = [wire EXCEPT ![l] = Append(wire[l], m)]
    <2>1. PICK w : w = wire[ws]
      OBVIOUS
    <2>2. wire'[ws] = w \o <<m>> /\ Mail(w)
      BY <1>2, <1>4, <2>1, Longer
    <2>3. ~Running(srv')
      BY <1>a, <1>4 DEF SrvInv, SrvFields, Lobby, Running
    <2>4. m.type = "room_state" /\ ~m.started
      BY <1>0, <2>3 DEF RoomState
    <2>5. EndsAgree(seat, page, w, srv) /\ EventsFit(page, w)
      BY <1>2, <1>3, <2>1 DEF FollowsNow
    <2>6. \A q : Agrees(seat, q, srv) => \A r \in Bumps(OnMessage(q, m)) : Agrees(seat, r, srv')
      BY <1>0, <1>a, <1>4, RestTold
    <2>7. EndsAgree(seat, page, w \o <<m>>, srv') /\ EventsFit(page, w \o <<m>>)
      BY <2>2, <2>4, <2>5, <2>6, Told
    <2>8. Waits(page, w \o <<m>>)
      <3>1. \A q : GoodPage(q) => (OnMessage(q, m).phase = "game_over" => ~OnMessage(q, m).pendingLobby)
        BY <2>4, LobbyWaits
      <3> QED
        BY <2>2, <2>5, <3>1, AgreeIsGood, WaitsTold
    <2> QED
      BY <1>1, <1>2, <2>2, <2>7, <2>8 DEF FollowsNow
  <1>5. CASE ~(attached = l /\ srv.stage \in {"over", "lobby"}) /\ UNCHANGED <<srv, wire>>
    <2>1. srv.stage = "playing"
      BY <1>2, <1>a, <1>5, NoLineNotALine DEF SrvPlays
    <2>2. Running(srv')
      BY <1>5, <2>1 DEF Running
    <2> QED
      BY <1>1, <1>2, <1>3, <1>5, <2>2 DEF FollowsNow
  <1> QED
    BY <1>1, <1>4, <1>5

LEMMA SyncFollows == AllInv /\ SendSync => FollowInv'
  <1> SUFFICES ASSUME AllInv, SendSync, Here', attached' = ws', ~overtaken' PROVE FollowsNow'
    BY DEF FollowInv
  <1>0. PICK m : m = [type |-> "full_sync", view |-> syncing.view]
    OBVIOUS
  <1>1. /\ syncing # NoView /\ syncing' = NoView /\ UNCHANGED <<line, ws, page, seat, srv, attached, overtaken, asks>>
        /\ wire' = IF Reached THEN [wire EXCEPT ![attached] = Append(wire[attached], m)] ELSE wire
    BY <1>0 DEF SendSync, socketVars, storeVars
  <1>2. Here /\ attached = ws /\ ~overtaken /\ ws \in Lines /\ Reached
    BY <1>1, NoLineNotALine DEF Here, Reached, Lines
  <1>a. SrvInv /\ SrvPlays /\ WireInv /\ FollowInv
    BY DEF AllInv, PageInv
  <1>3. FollowsNow
    BY <1>2, <1>a DEF FollowInv
  <1>4. PICK w : w = wire[ws]
    OBVIOUS
  <1>5. Mail(w) /\ wire'[ws] = w \o <<m>>
    BY <1>1, <1>2, <1>4, <1>a, Longer DEF WireInv
  <1>6. m.type = "full_sync" /\ m.view = View(srv) /\ EventsFit(page, w) /\ EndsGood(page, w)
    BY <1>0, <1>1, <1>3, <1>4 DEF FollowsNow
  <1>7. EndsAgree(seat, page, w \o <<m>>, srv)
    <2>1. \A q : GoodPage(q) => \A r \in Bumps(OnMessage(q, m)) : Agrees(seat, r, srv)
      BY <1>6, <1>a, SyncTold
    <2> QED
      BY <1>5, <1>6, <2>1, SyncEnds
  <1>8. EventsFit(page, w \o <<m>>)
    BY <1>5, <1>6, FitTold
  <1>9. ~Running(srv) => Waits(page, w \o <<m>>)
    <2> SUFFICES ASSUME ~Running(srv) PROVE Waits(page, w \o <<m>>)
      OBVIOUS
    <2>1. m.view = NoView
      BY <1>6, NoGameView
    <2>2. \A q : GoodPage(q) => OnMessage(q, m).phase = "room"
      BY <1>6, <2>1, SyncSets
    <2>3. \A q : GoodPage(q) => (OnMessage(q, m).phase = "game_over" => ~OnMessage(q, m).pendingLobby)
      BY <2>2
    <2> QED
      BY <1>5, <1>6, <2>3, WaitsTold
  <1>10. UNCHANGED Running(srv)
    BY <1>1 DEF Running
  <1> QED
    BY <1>1, <1>2, <1>5, <1>7, <1>8, <1>9, <1>10 DEF FollowsNow

-----------------------------------------------------------------------------
LEMMA AllInit == PageInit => AllInv
  <1> SUFFICES ASSUME PageInit PROVE AllInv
    OBVIOUS
  <1>1. PageInv /\ SrvPlays /\ OrderInv
    BY PageInitInv, SrvPlaysInit, OrderInit
  <1>2. ~Here
    BY NoLineNotALine DEF PageInit, SocketInit, Here
  <1> QED
    BY <1>1, <1>2 DEF AllInv, FollowInv

LEMMA AllNext == AllInv /\ [PageNext]_pageVars => AllInv'
  <1> SUFFICES ASSUME AllInv, [PageNext]_pageVars PROVE AllInv'
    OBVIOUS
  <1>1. PageInv' /\ SrvPlays' /\ OrderInv'
    BY StepOfSocket, SocketNextInv, StoreNext, SrvNext, WireNext, SrvPlaysNext, OrderNext DEF AllInv, PageInv
  <1>2. FollowInv'
    <2>1. CASE UNCHANGED pageVars \/ Expire
      <3>1. CASE UNCHANGED pageVars
        BY <3>1 DEF pageVars, socketVars, storeVars, srvVars, AllInv, FollowInv, FollowsNow, Here, Running, View,
                    EndsAgree, Agrees, EndsGood, EventsFit, Waits, Lines
      <3>2. CASE Expire
        BY <3>2, NoLineNotALine DEF Expire, socketVars, FollowInv, Here
      <3> QED
        BY <2>1, <3>1, <3>2
    <2>2. CASE \/ \E elsewhere \in BOOLEAN : PageConnect(elsewhere)
               \/ \E l \in Lines : Open(l) \/ Fail(l) \/ Close(l)
               \/ Retry \/ Disconnect \/ Reset \/ Reload
      BY <2>2, LinesFollow
    <2>3. CASE PageEnter \/ Return \/ \E l \in Lines : Receive(l)
      BY <2>3, PageFollowsOn
    <2>4. CASE \E l \in Lines : Handle(l)
      BY <2>4, EnterFollows, ResumeFollows, WishFollows DEF Handle
    <2>5. CASE SendSync \/ Reopen
      BY <2>5, SyncFollows, ReopenFollows
    <2>6. CASE GameStep
      BY <1>1, <2>6, GamePlays
    <2> QED
      BY <2>1, <2>2, <2>3, <2>4, <2>5, <2>6 DEF PageNext
  <1> QED
    BY <1>1, <1>2 DEF AllInv

-----------------------------------------------------------------------------
\* Nothing but a message changes what is announced, or shows the room again
LEMMA ScreenStands ==
    ASSUME PageInv, [PageNext]_pageVars, ~ \E l \in Lines : Receive(l)
    PROVE  page'.change \in {page.change, NoChange} /\ page'.phase \in {page.phase, "home"}
  <1>a. GoodPage(page)
    BY DEF PageInv, StoreInv
  <1>b. ASSUME NEW F, page' = With(page, F), "phase" \notin DOMAIN F, "change" \in DOMAIN F => F["change"] = NoChange
        PROVE  page'.change \in {page.change, NoChange} /\ page'.phase \in {page.phase, "home"}
    <2>1. \A f \in PageFields : page'[f] = IF f \in DOMAIN F THEN F[f] ELSE page[f]
      BY <1>a, <1>b, FieldsSet
    <2> QED
      BY <1>b, <2>1 DEF PageFields
  <1>c. Initial.change = NoChange /\ Initial.phase = "home"
    BY DEF Initial
  <1>1. ASSUME NEW elsewhere \in BOOLEAN, PageConnect(elsewhere)
        PROVE  page'.change \in {page.change, NoChange} /\ page'.phase \in {page.phase, "home"}
    <2> DEFINE F == [room |-> TRUE, token |-> TRUE, recovering |-> TRUE]
    <2>1. page' = page \/ page' = With(page, F)
      BY <1>1 DEF PageConnect
    <2>2. DOMAIN F \cap {"phase", "change"} = {}
      OBVIOUS
    <2> HIDE DEF F
    <2> QED
      BY <1>b, <2>1, <2>2
  <1>2. ASSUME NEW l \in Lines, Open(l)
        PROVE  page'.change \in {page.change, NoChange} /\ page'.phase \in {page.phase, "home"}
    <2> DEFINE F == [connected |-> TRUE, recovering |-> (ws = l /\ page.room /\ page.token) \/ page.recovering]
    <2>1. page' = page \/ page' = With(page, F)
      BY <1>2 DEF Open
    <2>2. DOMAIN F \cap {"phase", "change"} = {}
      OBVIOUS
    <2> HIDE DEF F
    <2> QED
      BY <1>b, <2>1, <2>2
  <1>3. ASSUME NEW l \in Lines, Close(l)
        PROVE  page'.change \in {page.change, NoChange} /\ page'.phase \in {page.phase, "home"}
    <2> DEFINE F == [change |-> NoChange, connected |-> FALSE, recovering |-> TRUE]
               G == [change |-> NoChange, connected |-> FALSE]
    <2>1. page' \in {page, Initial, With(page, F), With(page, G)}
      BY <1>3 DEF Close, OnDisconnected
    <2>2. "phase" \notin DOMAIN F /\ "phase" \notin DOMAIN G /\ F["change"] = NoChange /\ G["change"] = NoChange
      OBVIOUS
    <2> HIDE DEF F, G
    <2> QED
      BY <1>b, <1>c, <2>1, <2>2
  <1>4. CASE Return
    <2> DEFINE F == [pendingLobby |-> TRUE]
    <2>1. page' = With(page, F)
      BY <1>4 DEF Return
    <2>2. DOMAIN F \cap {"phase", "change"} = {}
      OBVIOUS
    <2> HIDE DEF F
    <2> QED
      BY <1>b, <2>1, <2>2
  <1>5. CASE Disconnect \/ Reset \/ Reload
    <2>1. page' = Initial
      BY <1>5 DEF Disconnect, Reset, Reload
    <2> QED
      BY <1>c, <2>1
  <1>6. CASE \/ Retry \/ PageEnter \/ SendSync \/ Reopen \/ Expire \/ GameStep
             \/ UNCHANGED pageVars \/ (\E l \in Lines : Fail(l) \/ Handle(l))
    <2>1. UNCHANGED page
      BY <1>6 DEF Retry, Redial, PageEnter, SendSync, Reopen, Expire, GameStep, StartGame,
                  NextRound, BeginGuess, Finish, End, Answer, Announce, Tell, pageVars,
                  storeVars, Fail, Failed, Handle, HandleEnter, HandleResume, HandleReopen
    <2> QED
      BY <2>1
  <1> QED
    BY <1>1, <1>2, <1>3, <1>4, <1>5, <1>6 DEF PageNext

\* What a message may do
LEMMA ReceivedMoves ==
    ASSUME AllInv, NEW l \in Lines, Receive(l), NEW w, w = wire[l]
    PROVE  /\ l = ws /\ Here /\ HereInv /\ w # <<>> /\ Head(w) = w[1] /\ Len(w) \in Nat \ {0}
           /\ Moves(page, w[1], page') /\ (~page.room => AtHome(page))
  <1>a. GoodPage(page) /\ SocketInv /\ WireInv /\ LinesInv /\ (~page.room => AtHome(page))
    BY DEF AllInv, PageInv, StoreInv, OrderInv
  <1>1. l = ws /\ Here
    BY <1>a, OpenIsOurs DEF Receive
  <1>2. w # <<>> /\ page' = OnMessage(page, Head(w)) /\ HereInv
    BY <1>1 DEF Receive, AllInv, OrderInv
  <1>3. Mail(w) /\ \A i \in 1 .. Len(w) : Clean(w[i])
    BY <1>a DEF WireInv, LinesInv
  <1>4. Head(w) = w[1] /\ GoodMessage(w[1]) /\ Len(w) \in Nat /\ Len(w) # 0
    BY <1>2, <1>3, MailIs
  <1>5. Moves(page, w[1], page')
    BY <1>a, <1>2, <1>3, <1>4, MessageMoves
  <1> QED
    BY <1>a, <1>1, <1>2, <1>4, <1>5

LEMMA EventIsOneStep ==
    ASSUME AllInv, [PageNext]_pageVars, page'.change # page.change, page'.change # NoChange, ~overtaken,
           NEW c \in page'.change.changes
    PROVE  IF c.kind = "failure"
           THEN c.team = Sending(page.round) /\ c.total = page.score[c.team].failures + 1
           ELSE c.team # Sending(page.round) /\ c.total = page.score[c.team].interceptions + 1
  <1>1. PICK l \in Lines : Receive(l)
    BY ScreenStands DEF AllInv
  <1>2. PICK w : w = wire[l]
    OBVIOUS
  <1>3. /\ l = ws /\ Here /\ HereInv /\ Len(w) \in Nat \ {0} /\ Moves(page, w[1], page')
    BY <1>1, <1>2, ReceivedMoves
  <1>4. /\ w[1].type = "round_result" /\ page.connected /\ ~page.recovering /\ page.room
        /\ page'.change.changes = Changes(page.score, w[1].view.score, w[1].view.result)
    BY <1>3 DEF Moves
  <1>5. attached = ws
    BY <1>2, <1>3, <1>4 DEF HereInv, NoSeatMail
  <1>6. EventsFit(page, w)
    BY <1>2, <1>3, <1>5 DEF AllInv, FollowInv, FollowsNow
  <1>7. PICK tr : tr = [i \in {0} |-> page]
    OBVIOUS
  <1>8. tr[0] = page /\ IsTrailTo(tr, page, w, 1 - 1)
    BY <1>7 DEF IsTrailTo, Bumps
  <1>9. OneStep(page, w[1])
    BY <1>3, <1>4, <1>6, <1>8 DEF EventsFit
  <1> QED
    BY <1>4, <1>9 DEF OneStep

LEMMA FinalScreenLeft ==
    ASSUME AllInv, [PageNext]_pageVars, page.phase = "game_over", page'.phase = "room"
    PROVE  page.pendingLobby \/ \E l \in Lines : wire[l] # <<>> /\ Head(wire[l]).type = "full_sync"
  <1>1. PICK l \in Lines : Receive(l)
    BY ScreenStands DEF AllInv
  <1>2. PICK w : w = wire[l]
    OBVIOUS
  <1>3. /\ l = ws /\ Here /\ HereInv /\ w # <<>> /\ Head(w) = w[1] /\ Len(w) \in Nat \ {0}
        /\ Moves(page, w[1], page') /\ (~page.room => AtHome(page))
    BY <1>1, <1>2, ReceivedMoves
  <1>4. w[1].type \in {"room_created", "full_sync"} \/ page.pendingLobby
    BY <1>3 DEF Moves
  <1>5. w[1].type # "room_created"
    <2>1. page.room
      BY <1>3 DEF AtHome
    <2>2. CASE attached = ws
      BY <1>2, <1>3, <2>1, <2>2 DEF HereInv, SeatMail
    <2>3. CASE attached # ws
      BY <1>2, <1>3, <2>3 DEF HereInv, NoSeatMail
    <2> QED
      BY <2>2, <2>3
  <1> QED
    BY <1>2, <1>3, <1>4, <1>5

\* When nothing is on its way
LEMMA SettledAgrees == AllInv => PageAgrees /\ ScoresAgreeUnlessStayed
  <1> SUFFICES ASSUME AllInv, Settled, ~overtaken
               PROVE  /\ ~page.recovering
                      /\ IF Running(srv)
                         THEN LET v == View(srv) IN
                              /\ \A f \in {"phase", "round", "role", "words", "secret", "clues", "timed",
                                           "timeouts", "result"} : page[f] = v[f]
                              /\ SameActions
                              /\ page.submitted => v.submitted
                         ELSE page.phase = "room" \/ (page.phase = "game_over" /\ ~page.pendingLobby)
                      /\ (page.over /\ page.phase # "game_over")
                         \/ (Running(srv) => LET v == View(srv) IN \A f \in {"score", "rows", "over"} : page[f] = v[f])
    BY DEF PageAgrees, ScoresAgreeUnlessStayed, ScoresAgree
  <1>1. attached = ws /\ Here /\ wire[ws] = <<>> /\ asks[ws] = <<>> /\ syncing = NoView /\ GoodPage(page)
    BY NoLineNotALine DEF Settled, Reached, AllInv, PageInv, WireInv, StoreInv, Here
  <1>2. asks[ws] # <<"reopen">>
    BY <1>1
  <1>3. Agrees(seat, page, srv) /\ (~Running(srv) => (page.phase = "game_over" => ~page.pendingLobby))
    BY <1>1, <1>2, NoTrail DEF AllInv, FollowInv, FollowsNow
  <1>4. CASE Running(srv)
    <2>1. PICK v : v = View(srv)
      OBVIOUS
    <2>2. /\ v.phase = srv.phase /\ v.round = srv.round /\ v.role = Role(seat, srv.round)
          /\ v.words = WordsOf(seat, srv.game) /\ v.rows = srv.rows
          /\ v.score = srv.score /\ v.timeouts = srv.timeouts /\ v.result = srv.result
          /\ v.over = IsOver(srv) /\ v.clues = CluesTold(srv.phase) /\ v.secret = CodeOf(seat, srv.round)
          /\ v.timed = Timed(srv.phase, srv.round)
          /\ v.submitted = Acted(seat, srv.phase, srv.round, srv.accepted)
      BY <1>4, <2>1, ViewIs
    <2>3. page.recovering = FALSE /\ SameGame(seat, page, srv) /\ Answered(page, srv) /\ ScoreFits(page, srv)
      BY <1>3, <1>4, InGame
    <2>4. \A f \in {"phase", "round", "role", "words", "secret", "clues", "timed", "timeouts", "result"} : page[f] = v[f]
      BY <2>2, <2>3 DEF SameGame
    <2>5. page.submitted => v.submitted
      BY <2>2, <2>3 DEF SameGame
    <2>6. SameActions
      BY <2>3 DEF Answered, SameActions
    <2>7. (page.over /\ page.phase # "game_over") \/ \A f \in {"score", "rows", "over"} : page[f] = v[f]
      BY <2>2, <2>3 DEF ScoreFits
    <2> QED
      BY <1>4, <2>1, <2>3, <2>4, <2>5, <2>6, <2>7
  <1>5. CASE ~Running(srv)
    BY <1>3, <1>5 DEF Agrees, Rests
  <1> QED
    BY <1>4, <1>5

\* Once nothing is on its way a page shows what the server has, however often it
\* lost its socket and came back and whatever mix of live messages and snapshots
\* it was brought; it announces a score change once and as it happens, and its
\* final screen stands until the player moves on (onMessage, sendSync).
THEOREM PageFollowsServer == PageSpec => PageFollows
  <1>1. AllInv => PageAgrees /\ ScoresAgreeUnlessStayed
    BY SettledAgrees
  <1>2. AllInv /\ [PageNext]_pageVars =>
          [page'.change # page.change /\ page'.change # NoChange /\ ~overtaken =>
             \A c \in page'.change.changes :
                IF c.kind = "failure"
                THEN c.team = Sending(page.round) /\ c.total = page.score[c.team].failures + 1
                ELSE c.team # Sending(page.round) /\ c.total = page.score[c.team].interceptions + 1]_pageVars
    BY EventIsOneStep
  <1>3. AllInv /\ [PageNext]_pageVars =>
          [page.phase = "game_over" /\ page'.phase = "room" =>
             page.pendingLobby \/ \E l \in Lines : wire[l] # <<>> /\ Head(wire[l]).type = "full_sync"]_pageVars
    BY FinalScreenLeft
  <1> QED
    BY <1>1, <1>2, <1>3, AllInit, AllNext, PTL DEF PageSpec, PageFollows, OneStepEvents, FinalScreenStands
=============================================================================
