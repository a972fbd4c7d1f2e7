-------------------------------- MODULE Page --------------------------------
(***************************************************************************)
(* What a page knows of its room (store/gameStore.ts): the store, the      *)
(* handler of every server message, the seat kept for a reload, and the    *)
(* requests the page sends.  The other side of the connection is the       *)
(* server as this page meets it (server/handler.go, game/bridge.go): one   *)
(* room, the games played in it, and for this page's seat the view that    *)
(* phase_change and full_sync are cut from.  Messages of one socket arrive *)
(* in order; what is on the way when it closes is lost.                    *)
(***************************************************************************)
EXTENDS Socket, Sequences

CONSTANTS
    MySeats,    \* the seats this page may have: <<team, member>>, <<"", 0>> watches
    Matches,    \* the games a room may play, one after the other: for every round
                \* of a game its verdicts and the actions that run out of time
    Wire        \* messages that may be on the way to the page: a bound

\* A game has more than one round: it takes two tokens of a kind to end it, and a
\* team gets one of a kind in a round (reveal). One that is cut to a single round
\* stands for it as long as nothing in it was late.
Verdicts == [right : BOOLEAN, hit : BOOLEAN, late : SUBSET {"encrypt", "decrypt", "intercept"}]

ASSUME PageAssumption ==
    \A m \in Matches : /\ m \in Seq(Seq(Verdicts))
                       /\ \A g \in DOMAIN m : Len(m[g]) = 1 => m[g][1].late = {}

VARIABLES
    page,       \* the store
    kept,       \* sessionStorage holds the room code and the resume token
    seat,       \* this page's place at the table
    srv,        \* the room and its game, on the server
    attached,   \* the socket that holds the seat (Handler.active)
    match,      \* the games this room plays
    syncing,    \* the view a resume took and has not sent (sendSync)
    overtaken,  \* ghost: a message was sent since that view was taken
    asks,       \* requests on their way to the server, by socket
    wire        \* messages on their way to the page, by socket

storeVars == <<page, kept>>
srvVars == <<seat, match, srv, attached, syncing, overtaken>>
pageVars == <<socketVars, storeVars, srvVars, asks, wire>>

PageTeams == {"A", "B"}
Guesses == {"decrypt", "intercept"}
NoView == [phase |-> "none"]
NoResult == [decrypt |-> "none", intercept |-> "none"]
NoChange == [round |-> 0, changes |-> {}]
Zero == [t \in PageTeams |-> [interceptions |-> 0, failures |-> 0]]

-----------------------------------------------------------------------------
\* THE SERVER, AS THIS SEAT SEES IT

Sending(r) == IF r % 2 = 1 THEN "A" ELSE "B"
OtherTeam(t) == IF t = "A" THEN "B" ELSE "A"

Role(s, r) ==
    IF s[1] = "" THEN "observer"
    ELSE IF s = <<Sending(r), ((r - 1) \div 2) % 2>> THEN "encryptor"
    ELSE IF s[1] = Sending(r) THEN "teammate" ELSE "opponent"

\* The action a seat takes in a phase; the page and the server have the same rule
SeatAction(phase, role, round) ==
    CASE phase = "encrypting" /\ role = "encryptor" -> "encrypt"
      [] phase = "guess" /\ role = "teammate" -> "decrypt"
      [] phase = "guess" /\ role = "opponent" /\ round > 2 -> "intercept"
      [] OTHER -> ""

\* The actions of a phase, of which some have been answered
Actions(phase, round) ==
    CASE phase = "encrypting" -> {"encrypt"}
      [] phase = "guess" -> IF round > 2 THEN Guesses ELSE {"decrypt"}
      [] OTHER -> {}

\* What every seat sees of the actions: their names, and whether they are answered
Public(phase, round, done) == [a \in Actions(phase, round) |-> a \in done]

NoActions == Public("", 0, {})

Running(s) == s.stage \in {"playing", "over"}

\* The view of this page's seat: NoView outside a game
View(s) ==
    LET role == Role(seat, s.round)
        mine == SeatAction(s.phase, role, s.round)
    IN IF ~Running(s) THEN NoView
       ELSE [phase |-> s.phase, round |-> s.round, role |-> role,
             words |-> IF seat[1] = "" THEN 0 ELSE s.game, rows |-> s.rows,
             score |-> s.score, timeouts |-> s.timeouts, result |-> s.result,
             over |-> s.stage = "over",
             clues |-> s.phase \in {"guess", "round_result", "game_over"},
             secret |-> IF role = "encryptor" THEN s.round ELSE 0,
             actions |-> Public(s.phase, s.round, s.accepted),
             timed |-> Actions(s.phase, s.round) # {},
             submitted |-> mine \in s.accepted,
             waiting |-> mine \notin Actions(s.phase, s.round) \ s.accepted]

-----------------------------------------------------------------------------
\* THE STORE

Initial ==
    [phase |-> "home", room |-> FALSE, token |-> FALSE, connected |-> FALSE,
     recovering |-> FALSE, pendingLobby |-> FALSE, change |-> NoChange,
     round |-> 0, role |-> "", words |-> 0, secret |-> 0, clues |-> FALSE,
     rows |-> 0, score |-> Zero, result |-> NoResult, over |-> FALSE, waiting |-> FALSE,
     submitted |-> FALSE, timed |-> FALSE, timeouts |-> {}, actions |-> NoActions]

GameFields == {"timed", "submitted", "round", "role", "words", "secret", "clues", "rows",
               "waiting", "score", "result", "over", "timeouts", "actions", "change"}

\* The store with some fields set
With(p, fields) == [f \in DOMAIN p |-> IF f \in DOMAIN fields THEN fields[f] ELSE p[f]]

Cleared == [f \in GameFields |-> Initial[f]]

\* What survives the loss of the room: the connection
Home(p) == With(Initial, [connected |-> p.connected])

OnDisconnected(p) ==
    CASE p.token -> With(p, [change |-> NoChange, connected |-> FALSE, recovering |-> TRUE])
      [] p.room /\ ~p.token -> Initial
      [] OTHER -> With(p, [change |-> NoChange, connected |-> FALSE])

OnRoomState(p, m) ==
    LET lobby == ~m.started /\ (p.phase # "game_over" \/ p.pendingLobby)
        back == lobby /\ p.phase \notin {"room", "home"}
        q == IF back THEN With(With(p, Cleared), [pendingLobby |-> FALSE]) ELSE p
    IN With(q, [room |-> TRUE, phase |-> IF lobby THEN "room" ELSE p.phase])

OnGameStart(p, m) == With(p, [round |-> m.view.round, role |-> m.view.role, words |-> m.view.words])

\* An empty list is left out of the message, and the page keeps what it has
OnPhaseChange(p, m) ==
    LET v == m.view IN
    With(p, [phase |-> IF m.phase = "new_round" THEN "encrypting" ELSE m.phase,
             timed |-> v.timed, submitted |-> v.submitted, recovering |-> FALSE,
             actions |-> v.actions, round |-> v.round, role |-> v.role, secret |-> v.secret,
             timeouts |-> IF \E t \in p.timeouts : t[1] # v.round THEN {} ELSE p.timeouts,
             clues |-> m.phase = "guess",
             rows |-> IF v.rows = 0 THEN p.rows ELSE v.rows,
             waiting |-> v.waiting, result |-> NoResult])

OnActionSubmitted(p, m) ==
    IF m.round # p.round \/ p.phase # "guess" \/ m.action \notin DOMAIN p.actions THEN p
    ELSE LET q == [p EXCEPT !.actions[m.action] = TRUE] IN
         IF SeatAction(p.phase, p.role, p.round) = m.action
         THEN With(q, [submitted |-> TRUE, waiting |-> TRUE]) ELSE q

OnCluesSubmitted(p, m) ==
    With(p, [clues |-> TRUE, rows |-> IF m.view.rows = 0 THEN p.rows ELSE m.view.rows])

\* The totals that rose with this round's verdicts
Changes(before, after, result) ==
    {[team |-> t, kind |-> "intercept", total |-> after[t].interceptions] :
        t \in {u \in PageTeams : /\ result.intercept = "yes"
                                  /\ after[u].interceptions > before[u].interceptions}}
    \cup
    {[team |-> t, kind |-> "failure", total |-> after[t].failures] :
        t \in {u \in PageTeams : /\ result.decrypt = "no"
                                  /\ after[u].failures > before[u].failures}}

OnRoundResult(p, m) ==
    LET v == m.view
        changes == IF p.connected /\ ~p.recovering /\ p.room
                   THEN Changes(p.score, v.score, v.result) ELSE {}
    IN With(p, [timed |-> FALSE, rows |-> v.rows, result |-> v.result, actions |-> NoActions,
                submitted |-> FALSE, waiting |-> TRUE, score |-> v.score, phase |-> "round_result",
                change |-> IF changes # {} THEN [round |-> p.round, changes |-> changes] ELSE p.change])

OnGameOver(p, m) ==
    With(p, [timed |-> FALSE, round |-> m.view.round, rows |-> m.view.rows, over |-> TRUE,
             score |-> m.view.score, phase |-> "game_over"])

\* Broken variant: a snapshot does not end the recovery
OnFullSyncRecovering(p, m) ==
    LET q == With(p, [change |-> NoChange, room |-> TRUE])
        v == m.view
    IN IF v = NoView THEN With(With(q, Cleared), [phase |-> "room", pendingLobby |-> FALSE])
       ELSE With(q, [f \in DOMAIN v |-> v[f]])

\* Broken variant: a snapshot leaves the score to the live results
OnFullSyncKeepsScore(p, m) ==
    LET q == With(p, [recovering |-> FALSE, change |-> NoChange, room |-> TRUE])
        v == m.view
    IN IF v = NoView THEN With(With(q, Cleared), [phase |-> "room", pendingLobby |-> FALSE])
       ELSE With(q, [f \in DOMAIN v \ {"score"} |-> v[f]])

OnFullSync(p, m) ==
    LET q == With(p, [recovering |-> FALSE, change |-> NoChange, room |-> TRUE])
        v == m.view
    IN IF v = NoView THEN With(With(q, Cleared), [phase |-> "room", pendingLobby |-> FALSE])
       ELSE With(q, [f \in DOMAIN v |-> v[f]])

\* Two actions may run out in one phase: one notice for each, of this round
OnTimeout(p, m) ==
    With(p, [timeouts |-> {t \in p.timeouts : t[1] = m.round /\ t[2] # m.action}
                          \cup {<<m.round, m.action>>}])

OnRoomCreated(p) == With(p, [token |-> TRUE, recovering |-> FALSE, room |-> TRUE, phase |-> "room"])

OnMessage(p, m) ==
    CASE m.type = "room_created" -> OnRoomCreated(p)
      [] m.type = "room_resumed" -> With(p, [room |-> TRUE])
      [] m.type = "room_state" -> OnRoomState(p, m)
      [] m.type = "game_start" -> OnGameStart(p, m)
      [] m.type = "phase_change" -> OnPhaseChange(p, m)
      [] m.type = "action_submitted" -> OnActionSubmitted(p, m)
      [] m.type = "clues_submitted" -> OnCluesSubmitted(p, m)
      [] m.type = "round_result" -> OnRoundResult(p, m)
      [] m.type = "game_over" -> OnGameOver(p, m)
      [] m.type = "full_sync" -> OnFullSync(p, m)
      [] m.type = "timeout" -> OnTimeout(p, m)
      [] m.type = "resume_expired" -> Home(p)

-----------------------------------------------------------------------------
\* THE PAGE'S STEPS

Ask(l, what) == IF line[l] = "open" THEN asks' = [asks EXCEPT ![l] = Append(@, what)]
                                    ELSE UNCHANGED asks

\* connect(): the seat this tab kept is asked for again, unless the page was
\* opened by an invitation to another room
PageConnect(elsewhere) ==
    /\ NewService
    /\ kept' = (kept /\ ~elsewhere)
    /\ page' = IF ~page.token /\ kept'
               THEN With(page, [room |-> TRUE, token |-> TRUE, recovering |-> TRUE]) ELSE page
    /\ UNCHANGED <<srvVars, asks, wire>>

\* "_connected": a page that has a seat asks for it
Open(l) ==
    /\ Opened(l)
    /\ LET back == ws = l /\ page.room /\ page.token IN
       /\ page' = IF ws = l THEN With(page, [connected |-> TRUE, recovering |-> back \/ page.recovering])
                 ELSE page
       /\ asks' = IF back THEN [asks EXCEPT ![l] = Append(@, "resume")] ELSE asks
    /\ UNCHANGED <<kept, srvVars, wire>>

\* The network fails as long as a socket is left to go on with: a bound
MayFail == \E l \in Lines : line[l] = "unborn"

Fail(l) ==
    /\ MayFail
    /\ Failed(l)
    /\ UNCHANGED <<storeVars, srvVars, asks, wire>>

\* The socket closes: what was on its way is lost
Close(l) ==
    /\ line[l] = "closing" \/ MayFail
    /\ Closed(l)
    /\ page' = IF ws = l /\ ~leaving THEN OnDisconnected(page) ELSE page
    /\ wire' = [wire EXCEPT ![l] = <<>>] /\ asks' = [asks EXCEPT ![l] = <<>>]
    /\ attached' = IF attached = l THEN NoLine ELSE attached
    /\ syncing' = IF attached = l THEN NoView ELSE syncing
    /\ UNCHANGED <<kept, seat, match, srv, overtaken>>

Retry ==
    /\ Redial
    /\ UNCHANGED <<storeVars, srvVars, asks, wire>>

\* onmessage
Receive(l) ==
    /\ line[l] = "open" /\ wire[l] # <<>>
    /\ wire' = [wire EXCEPT ![l] = Tail(@)]
    /\ LET m == Head(wire[l]) IN
       /\ page' = IF ws = l THEN OnMessage(page, m) ELSE page
       /\ kept' = IF ws # l THEN kept
                  ELSE (kept \/ m.type = "room_created") /\ m.type # "resume_expired"
    /\ UNCHANGED <<socketVars, srvVars, asks>>

\* createRoom, joinRoom
PageEnter ==
    /\ page.phase = "home" /\ page.connected /\ ~page.room
    /\ asks[ws] = <<>>
    /\ Ask(ws, "enter")
    /\ UNCHANGED <<socketVars, storeVars, srvVars, wire>>

\* returnToRoom: the wish is kept even when the request cannot be sent
Return ==
    /\ page.phase = "game_over"
    /\ ws # NoLine => asks[ws] = <<>>
    /\ page' = With(page, [pendingLobby |-> TRUE])
    /\ IF ws # NoLine THEN Ask(ws, "reopen") ELSE UNCHANGED asks
    /\ UNCHANGED <<socketVars, kept, srvVars, wire>>

\* disconnect(): the seat is kept for the next time
Disconnect ==
    /\ SocketHangUp
    /\ page' = Initial
    /\ UNCHANGED <<kept, srvVars, asks, wire>>

\* reset()
Reset ==
    /\ SocketHangUp
    /\ page' = Initial /\ kept' = FALSE
    /\ UNCHANGED <<srvVars, asks, wire>>

\* The tab is loaded again
Reload ==
    /\ service
    /\ Unloaded
    /\ page' = Initial
    /\ wire' = [l \in Lines |-> <<>>] /\ asks' = [l \in Lines |-> <<>>]
    /\ attached' = NoLine /\ syncing' = NoView
    /\ UNCHANGED <<kept, seat, match, srv, overtaken>>

-----------------------------------------------------------------------------
\* THE SERVER'S STEPS

Reached == attached # NoLine /\ line[attached] = "open"

\* Messages to this page, if it is there; the game's own goroutine sends its
\* own while a resume holds a view it has not sent
Tell(ms) ==
    /\ Reached => Len(wire[attached]) < Wire
    /\ wire' = IF Reached THEN [wire EXCEPT ![attached] = @ \o ms] ELSE wire
    /\ overtaken' = (overtaken \/ syncing # NoView)
    /\ UNCHANGED <<socketVars, storeVars, seat, match, attached, syncing, asks>>

RoomState(s) == [type |-> "room_state", started |-> Running(s)]
Now(type, s) == [type |-> type, view |-> View(s)]
PhaseChange(phase, s) ==
    [type |-> "phase_change", phase |-> phase, view |-> View([s EXCEPT !.phase = phase])]

\* A request is handled under Handler.mu: never while a resume is
Take(l, what) ==
    /\ asks[l] # <<>> /\ Head(asks[l]) = what
    /\ syncing = NoView
    /\ line[l] = "open" /\ Len(wire[l]) < Wire
    /\ asks' = [asks EXCEPT ![l] = Tail(@)]

HandleEnter(l) ==
    /\ Take(l, "enter")
    /\ IF srv.stage = "lobby" /\ attached # l
       THEN /\ attached' = l /\ srv' = [srv EXCEPT !.joined = TRUE]
            /\ wire' = [wire EXCEPT ![l] = @ \o <<[type |-> "room_created"], RoomState(srv)>>]
       ELSE UNCHANGED <<attached, srv, wire>>
    /\ UNCHANGED <<socketVars, storeVars, seat, match, syncing, overtaken>>

\* attach takes the view that sendSync is about to send
HandleResume(l) ==
    /\ Take(l, "resume")
    /\ IF srv.stage # "gone" /\ srv.joined
       THEN /\ attached' = l /\ overtaken' = FALSE
            /\ wire' = [wire EXCEPT ![l] = @ \o <<[type |-> "room_resumed"], RoomState(srv)>>]
            /\ syncing' = [phase |-> "taken", view |-> View(srv)]
       ELSE /\ wire' = [wire EXCEPT ![l] = Append(@, [type |-> "resume_expired"])]
            /\ UNCHANGED <<attached, overtaken, syncing>>
    /\ UNCHANGED <<socketVars, storeVars, seat, match, srv>>

SendSync ==
    /\ syncing # NoView
    /\ Reached => Len(wire[attached]) < Wire
    /\ wire' = IF Reached
               THEN [wire EXCEPT ![attached] = Append(@, [type |-> "full_sync", view |-> syncing.view])]
               ELSE wire
    /\ syncing' = NoView
    /\ UNCHANGED <<socketVars, storeVars, seat, match, srv, attached, overtaken, asks>>

Lobby(s) == [s EXCEPT !.stage = "lobby", !.phase = ""]

HandleReopen(l) ==
    /\ Take(l, "reopen")
    /\ IF attached = l /\ srv.stage \in {"over", "lobby"}
       THEN /\ srv' = Lobby(srv)
            /\ wire' = [wire EXCEPT ![l] = Append(@, RoomState(srv'))]
       ELSE UNCHANGED <<srv, wire>>
    /\ UNCHANGED <<socketVars, storeVars, seat, match, attached, syncing, overtaken>>

\* Another player reopens the room
Reopen ==
    /\ srv.stage = "over" /\ syncing = NoView
    /\ srv' = Lobby(srv)
    /\ Tell(<<RoomState(srv')>>)

\* The seat is given up, or the room closed
Expire ==
    /\ attached = NoLine /\ srv.stage = "lobby" /\ srv.joined
    /\ srv' = [srv EXCEPT !.stage = "gone"]
    /\ UNCHANGED <<socketVars, storeVars, seat, match, attached, syncing, overtaken, asks, wire>>

PageRound(s, r) ==
    [s EXCEPT !.round = r, !.phase = "encrypting", !.accepted = {}, !.announced = {},
              !.timeouts = {}, !.result = NoResult]

\* start_game; round 1 is announced by game_start, the others by new_round
StartGame ==
    /\ srv.stage = "lobby" /\ srv.joined /\ srv.game < Len(match)
    /\ syncing = NoView
    /\ srv' = PageRound([srv EXCEPT !.stage = "playing", !.game = @ + 1, !.rows = 0, !.score = Zero], 1)
    /\ Tell(<<Now("game_start", srv'), PhaseChange("encrypting", srv')>>)

NextRound ==
    /\ srv.phase = "round_result" /\ srv.round < Len(match[srv.game])
    /\ srv' = PageRound(srv, srv.round + 1)
    /\ Tell(<<PhaseChange("new_round", srv'), PhaseChange("encrypting", srv')>>)

This == match[srv.game][srv.round]

\* An action is answered, by a player or by its deadline
Answer(a) ==
    /\ a \in Actions(srv.phase, srv.round) \ srv.accepted
    /\ LET late == a \in This.late IN
       /\ srv' = [srv EXCEPT !.accepted = @ \cup {a},
                             !.timeouts = IF late THEN @ \cup {<<srv.round, a>>} ELSE @]
       /\ Tell(IF late THEN <<[type |-> "timeout", round |-> srv.round, action |-> a]>> ELSE <<>>)

\* The game takes the clues and goes on
BeginGuess ==
    /\ srv.phase = "encrypting" /\ "encrypt" \in srv.accepted
    /\ srv' = [srv EXCEPT !.phase = "guess", !.accepted = {}]
    /\ Tell(<<Now("clues_submitted", srv), PhaseChange("guess", srv')>>)

\* The game takes a guess
Announce(a) ==
    /\ srv.phase = "guess" /\ a \in srv.accepted \ srv.announced
    /\ srv' = [srv EXCEPT !.announced = @ \cup {a}]
    /\ Tell(<<[type |-> "action_submitted", round |-> srv.round, action |-> a]>>)

\* A failure of the team that sends, an interception of the other
Scored(score, t, wrong, hit) ==
    [score EXCEPT ![t].failures = @ + (IF wrong THEN 1 ELSE 0),
                  ![OtherTeam(t)].interceptions = @ + (IF hit THEN 1 ELSE 0)]

Finish ==
    LET t == Sending(srv.round)
        heard == "intercept" \in srv.announced
        hit == heard /\ This.hit
    IN /\ srv.phase = "guess" /\ srv.announced = Actions("guess", srv.round)
       /\ srv' = [srv EXCEPT !.phase = "round_result", !.accepted = {}, !.rows = srv.round,
                     !.result = [decrypt |-> IF This.right THEN "yes" ELSE "no",
                                 intercept |-> IF ~heard THEN "none" ELSE IF hit THEN "yes" ELSE "no"],
                     !.score = Scored(@, t, ~This.right, hit)]
       /\ Tell(<<Now("round_result", srv')>>)

End ==
    /\ srv.phase = "round_result" /\ srv.round = Len(match[srv.game])
    /\ srv' = [srv EXCEPT !.phase = "game_over", !.stage = "over"]
    /\ Tell(<<Now("game_over", srv')>>)

-----------------------------------------------------------------------------
PageInit ==
    /\ SocketInit
    /\ page = Initial /\ kept = FALSE
    /\ seat \in MySeats /\ match \in Matches
    /\ srv = [stage |-> "lobby", joined |-> FALSE, game |-> 0, round |-> 0, phase |-> "",
              accepted |-> {}, announced |-> {}, rows |-> 0, score |-> Zero,
              timeouts |-> {}, result |-> NoResult]
    /\ attached = NoLine /\ syncing = NoView /\ overtaken = FALSE
    /\ asks = [l \in Lines |-> <<>>] /\ wire = [l \in Lines |-> <<>>]

Handle(l) == HandleEnter(l) \/ HandleResume(l) \/ HandleReopen(l)

GameStep ==
    \/ StartGame \/ NextRound \/ BeginGuess \/ Finish \/ End
    \/ \E a \in Guesses \cup {"encrypt"} : Answer(a)
    \/ \E a \in Guesses : Announce(a)

PageNext ==
    \/ \E elsewhere \in BOOLEAN : PageConnect(elsewhere)
    \/ \E l \in Lines : Open(l) \/ Fail(l) \/ Close(l) \/ Receive(l) \/ Handle(l)
    \/ Retry \/ PageEnter \/ Return \/ Disconnect \/ Reset \/ Reload
    \/ SendSync \/ Reopen \/ Expire \/ GameStep

PageSpec == PageInit /\ [][PageNext]_pageVars

\* The browser delivers its events and fires its timer, the network in the end
\* lets a socket stay, and the server handles what it receives
PageMoves ==
    \/ \E l \in Lines : Open(l) \/ Receive(l) \/ Handle(l) \/ (line[l] = "closing" /\ Close(l))
    \/ Retry \/ SendSync

PageFairness == WF_pageVars(PageMoves)

PageFairSpec == PageSpec /\ PageFairness

-----------------------------------------------------------------------------
\* PROPERTIES

PageTypeOK ==
    /\ SocketTypeOK
    /\ DOMAIN page = DOMAIN Initial
    /\ page.phase \in {"home", "room", "encrypting", "guess", "round_result", "game_over"}
    /\ page.role \in {"", "encryptor", "teammate", "opponent", "observer"}
    /\ kept \in BOOLEAN /\ attached \in Lines \cup {NoLine} /\ overtaken \in BOOLEAN

\* A tab that is in use and holds a seat has stored it, and forgets the stored
\* one with it: a reload finds the seat the page had, never one that was left or
\* that expired (saveSession, savedSession, reset, "resume_expired").
ReloadFindsSeat == service => page.token = kept

\* Nothing is on its way, either way
Settled ==
    /\ Reached /\ attached = ws /\ wire[ws] = <<>> /\ asks[ws] = <<>> /\ syncing = NoView
    /\ page.token

SameActions ==
    /\ DOMAIN page.actions = Actions(srv.phase, srv.round)
    /\ \A a \in DOMAIN page.actions : /\ a \in srv.announced => page.actions[a]
                                      /\ page.actions[a] => a \in srv.accepted

\* However often the page lost its socket and came back, whatever mix of live
\* messages and snapshots built its store: once nothing is on its way the page
\* is in the server's phase and round, with this seat's role, words and code,
\* the round's verdicts and timeouts, and has the answers the table was told
\* of.  The one exception is a snapshot that live messages overtook between
\* sendSync taking and sending it, and the lobby while the final screen stands.
PageAgrees ==
    Settled /\ ~overtaken =>
        /\ ~page.recovering
        /\ IF Running(srv)
           THEN LET v == View(srv) IN
                /\ \A f \in {"phase", "round", "role", "words", "secret", "clues", "timed",
                             "timeouts", "result"} : page[f] = v[f]
                /\ SameActions
                /\ page.submitted => v.submitted
           ELSE page.phase = "room" \/ (page.phase = "game_over" /\ ~page.pendingLobby)

\* The same of the score, the record and the final verdict.
ScoresAgree ==
    Settled /\ ~overtaken /\ Running(srv) =>
        LET v == View(srv) IN \A f \in {"score", "rows", "over"} : page[f] = v[f]

\* Only a page that stayed on the final screen while others began the next game
\* shows a score that is not this game's.
ScoresAgreeUnlessStayed ==
    (page.over /\ page.phase # "game_over") \/ ScoresAgree

\* A score change is announced once, as it happens: a failure of the team that
\* sends or an interception of the other, one more than the page showed until
\* then, whatever results were missed while the page was away ("round_result",
\* "full_sync").
OneStepEvents ==
    [][page'.change # page.change /\ page'.change # NoChange /\ ~overtaken =>
          \A c \in page'.change.changes :
             IF c.kind = "failure"
             THEN c.team = Sending(page.round) /\ c.total = page.score[c.team].failures + 1
             ELSE c.team # Sending(page.round) /\ c.total = page.score[c.team].interceptions + 1
      ]_pageVars

\* The final screen stands until its player moves on: nothing but the wish to go
\* back, a new game, a snapshot of the lobby or the loss of the room takes it
\* away ("room_state", returnToRoom).
FinalScreenStands ==
    [][page.phase = "game_over" /\ page'.phase = "room" =>
          page.pendingLobby \/ \E l \in Lines : wire[l] # <<>> /\ Head(wire[l]).type = "full_sync"]_pageVars

\* A page that lost its connection gets its seat back, or learns that it is gone,
\* once the network lets it.
Recovers == []<>(~page.recovering)

\* However often the line is cut, hung up or replaced, and whatever timer or
\* event of an earlier socket comes late: the tab has one line at most, is never
\* left without one nor without a timer for the next, and a reload finds the
\* seat it had (websocket.ts, gameStore.ts).
KeepsItsSeat == PageTypeOK /\ OneLine /\ NeverStranded /\ ReloadFindsSeat

\* Once nothing is on its way a page shows what the server has, and on the way
\* there it announces a score as it happens and leaves the final screen only
\* when its player moves on (onMessage).
PageFollows == [](PageAgrees /\ ScoresAgreeUnlessStayed) /\ OneStepEvents /\ FinalScreenStands
=============================================================================
