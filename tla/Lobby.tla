------------------------------- MODULE Lobby -------------------------------
(***************************************************************************)
(* A room and its server: internal/server/handler.go and persist.go, with  *)
(* the store they write to.  Messages, disconnections and timer callbacks  *)
(* run one at a time under h.mu, so each is an action; a message that      *)
(* writes the store twice is two, because the process may be killed in     *)
(* between.  A timer that fires only starts a goroutine: its callback has  *)
(* still to get h.mu, and Stop no longer reaches it.                       *)
(*                                                                         *)
(* The room's code is used once.  Of the game (module Bridge) only what    *)
(* the handler sees is kept: which game it is, who plays, whether it is    *)
(* over.                                                                   *)
(***************************************************************************)
EXTENDS Room

CONSTANTS
    Conns,        \* the sockets a player can have open at the same time
    NoConn,
    RoomTimer,    \* the key of the room's own timer, beside those of the seats
    NoRoom, NoGame, NoState,
    MaxGames,     \* bounds: games started,
    MaxTimers,    \* callbacks and forgotten timers of one key at a time,
    MaxFailures,  \* failed writes,
    MaxCrashes    \* and kills of the process

ASSUME LobbyAssumption ==
    /\ NoConn \notin Conns /\ RoomTimer \notin Humans
    /\ MaxGames \in Nat /\ MaxTimers \in Nat \ {0}
    /\ MaxFailures \in Nat /\ MaxCrashes \in Nat

Keys == Humans \cup {RoomTimer}

VARIABLES
    at,         \* the handler: "empty" before the room, "idle" with h.mu free,
                \* "starting" or "forgetting" between the two writes of a
                \* message, "down", and "gone" once the room is removed
    room,       \* the room the manager holds
    game,       \* the registered bridge, as far as the handler knows it
    played,     \* how many games the room has started
    active,     \* h.active: the client that speaks for a player
    open,       \* the sockets whose _disconnect has not been handled
    entry,      \* h.release and h.expiry: "none", a timer that is "armed", or
                \* one that has "fired"
    loose,      \* running timers that are in neither map
    due,        \* timer callbacks that wait for h.mu
    stored,     \* the row of the room: whether it is open, and both its states
    cache,      \* h.stored: the room state last written
    failures, crashes

clientVars == <<active, open>>
timerVars == <<entry, loose, due>>
storeVars == <<stored, cache, failures>>
vars == <<at, room, game, played, clientVars, timerVars, storeVars, crashes>>

-----------------------------------------------------------------------------
(* The store *)

\* A write may fail, and the room is played on
Fails ==
    /\ failures < MaxFailures
    /\ failures' = failures + 1

\* Broken variant: what could not be written counts as stored
SaveRoomOnce(old, r) ==
    IF SavedState(r) = old \/ ~stored.open
    THEN cache' = old /\ UNCHANGED <<stored, failures>>
    ELSE /\ cache' = SavedState(r)
         /\ \/ stored' = [stored EXCEPT !.room = SavedState(r)] /\ UNCHANGED failures
            \/ Fails /\ UNCHANGED stored

\* saveRoom, where old is h.stored[r.ID]: only a difference is written, and
\* an attempt that failed leaves h.stored as it was
SaveRoom(old, r) ==
    IF SavedState(r) = old \/ ~stored.open
    THEN cache' = old /\ UNCHANGED <<stored, failures>>
    ELSE \/ /\ stored' = [stored EXCEPT !.room = SavedState(r)]
            /\ cache' = SavedState(r)
            /\ UNCHANGED failures
         \/ Fails /\ cache' = old /\ UNCHANGED stored

\* saveGame
SaveGame(g) ==
    /\ IF ~stored.open \/ stored.game = g
       THEN UNCHANGED <<stored, failures>>
       ELSE \/ stored' = [stored EXCEPT !.game = g] /\ UNCHANGED failures
            \/ Fails /\ UNCHANGED stored
    /\ UNCHANGED cache

\* closeStored
CloseStored ==
    /\ cache' = NoState
    /\ \/ stored' = [open |-> FALSE, room |-> NoState, game |-> NoGame] /\ UNCHANGED failures
       \/ stored.open /\ Fails /\ UNCHANGED stored

-----------------------------------------------------------------------------
(* Timers *)

\* Stop and delete: a callback that is already due cannot be stopped
Disarmed(K) == [k \in Keys |-> IF k \in K THEN "none" ELSE entry[k]]
Armed(K) == [k \in Keys |-> IF k \in K THEN "armed" ELSE entry[k]]

\* A timer runs out: its callback has now to wait for h.mu
Fire(k) ==
    /\ entry[k] = "armed"
    /\ due[k] + loose[k] < MaxTimers
    /\ entry' = [entry EXCEPT ![k] = "fired"]
    /\ due' = [due EXCEPT ![k] = @ + 1]
    /\ UNCHANGED <<at, room, game, played, clientVars, loose, storeVars, crashes>>

\* The same for a timer that is in no map any more
FireLoose(k) ==
    /\ loose[k] > 0
    /\ loose' = [loose EXCEPT ![k] = @ - 1]
    /\ due' = [due EXCEPT ![k] = @ + 1]
    /\ UNCHANGED <<at, room, game, played, clientVars, entry, storeVars, crashes>>

\* A callback runs and deletes its key, whichever timer is there by now: if it
\* is a later one it goes on running, and nobody can stop it
Run(k) ==
    /\ due[k] > 0
    /\ due' = [due EXCEPT ![k] = @ - 1]

Forget(k) ==
    /\ entry' = Disarmed({k})
    /\ loose' = [loose EXCEPT ![k] = IF entry[k] = "armed" THEN @ + 1 ELSE @]

\* Broken variant: a new host alone is not worth storing
SeatChanged(before, after) == before.teams # after.teams

\* What Release reports: a seat was freed, or the host was gone
ReleaseChanged(before, after) == before # after

\* holdSeat's callback: Release, stored and shown if it changed anything
ReleaseSeat(p) ==
    /\ at = "idle"
    /\ Run(p) /\ Forget(p)
    /\ room' \in Releases(room, p)
    /\ IF ReleaseChanged(room, room') THEN SaveRoom(cache, room') ELSE UNCHANGED storeVars
    /\ UNCHANGED <<at, game, played, clientVars, crashes>>

\* expireLater's callback: a room with nobody online is closed, its game stopped
ExpireRoom ==
    /\ at = "idle"
    /\ Run(RoomTimer)
    /\ IF room.online # {}
       THEN UNCHANGED <<at, room, game, entry, loose, storeVars>>
       ELSE /\ Forget(RoomTimer)
            /\ at' = "gone" /\ room' = NoRoom /\ game' = NoGame
            /\ CloseStored
    /\ UNCHANGED <<played, clientVars, crashes>>

-----------------------------------------------------------------------------
(* Clients *)

\* Broken variant: a client that was replaced is still listened to
SpeaksAlways(p, c) == TRUE

\* HandleMessage ignores every client but the last one of its player
Speaks(p, c) == active[p] = c

Speaking(p) == at = "idle" /\ active[p] # NoConn

\* attach stops the timers of the seat and of the room
Stops(p) == {p, RoomTimer}

\* attach: the new client speaks for the player, an old one is closed
Attach(p, c) ==
    /\ <<p, c>> \notin open
    /\ active' = [active EXCEPT ![p] = c]
    /\ open' = open \cup {<<p, c>>}
    /\ entry' = Disarmed(Stops(p))
    /\ UNCHANGED <<loose, due>>

\* create_room: recordCreated, and attach, which finds nothing to write unless
\* the room was not stored: then it never will be
Create(p, c) ==
    /\ at = "empty" /\ at' = "idle"
    /\ room' = NewRoom(p)
    /\ \/ /\ stored' = [open |-> TRUE, room |-> SavedState(room'), game |-> NoGame]
          /\ cache' = SavedState(room')
          /\ UNCHANGED failures
       \/ Fails /\ UNCHANGED <<stored, cache>>
    /\ Attach(p, c)
    /\ UNCHANGED <<game, played, crashes>>

\* join_room
JoinRoom(p, c) ==
    /\ at = "idle" /\ MayJoin(room, p)
    /\ room' = Join(room, p)
    /\ Attach(p, c)
    /\ SaveRoom(cache, room')
    /\ UNCHANGED <<at, game, played, crashes>>

\* resume_room: whoever shows the member's token; a restored game begins
ResumeRoom(p, c) ==
    /\ at = "idle" /\ p \in room.members
    /\ room' = Resume(room, p)
    /\ Attach(p, c)
    /\ SaveRoom(cache, room')
    /\ game' = IF game = NoGame THEN NoGame ELSE [game EXCEPT !.begun = TRUE]
    /\ UNCHANGED <<at, played, crashes>>

\* Broken variant: the room's timer is not started by the last one to leave
LeftToExpire(p, online) == {p}

\* The timers a disconnection arms: the seat's, and for the last one the room's
LeftTimers(p, online) == IF online = {} THEN {p, RoomTimer} ELSE {p}

\* _disconnect, which the hub sends once for every socket
Leave(p, c) ==
    /\ at = "idle" /\ <<p, c>> \in open
    /\ open' = open \ {<<p, c>>}
    /\ IF Speaks(p, c)
       THEN /\ active' = [active EXCEPT ![p] = NoConn]
            /\ room' = Disconnect(room, p)
            /\ SaveRoom(cache, room')
            /\ entry' = Armed(LeftTimers(p, room'.online))
            /\ UNCHANGED <<loose, due>>
       ELSE UNCHANGED <<active, room, timerVars, storeVars>>
    /\ UNCHANGED <<at, game, played, crashes>>

-----------------------------------------------------------------------------
(* The lobby *)

\* roomChanged for the messages that only move players: r is the room after
Changed(r) ==
    /\ room' = r
    /\ SaveRoom(cache, r)
    /\ UNCHANGED <<at, game, played, clientVars, timerVars, crashes>>

\* select_team
SelectTeam(p, t) ==
    /\ Speaking(p) /\ ~room.started
    /\ \/ OnTeam(room, p, t) /\ Changed(room)
       \/ ~OnTeam(room, p, t) /\ HasRoom(room, t) /\ Changed(AddToTeam(room, p, t))

\* leave_team
QuitTeam(p) ==
    /\ Speaking(p) /\ ~room.started
    /\ Changed(LeaveTeam(room, p))

IsHost(p) == Speaking(p) /\ room.owner = p

\* add_ai
AddAI(p, t) ==
    /\ IsHost(p) /\ ~room.started /\ HasRoom(room, t)
    /\ \E a \in FreeNames(room, t) : Changed(Sit(room, a, t))

\* remove_ai
RemoveAI(p, t) ==
    /\ IsHost(p) /\ ~room.started
    /\ \E i \in DOMAIN room.teams[t] :
          /\ room.teams[t][i] \in AIs
          /\ Changed([room EXCEPT !.teams[t] = RemoveAt(@, i)])

-----------------------------------------------------------------------------
(* The game *)

\* Bridge.Start stores the game before its goroutine runs
FirstSave(g) == SaveGame(g)

\* start_game: NewBridge and Start.  If the hands cannot be dealt AbortStart
\* undoes BeginGame, and nothing has changed.
StartGame(p) ==
    /\ IsHost(p) /\ CanStart(room) /\ played < MaxGames
    /\ at' = "starting" /\ played' = played + 1
    /\ room' = BeginGame(room)
    /\ game' = [num |-> played', teams |-> room.teams, begun |-> TRUE, over |-> FALSE]
    /\ FirstSave([num |-> played', teams |-> room.teams, over |-> FALSE])
    /\ UNCHANGED <<clientVars, timerVars, crashes>>

\* The second write of start_game: the room says that it began
SaveStarted ==
    /\ at = "starting" /\ at' = "idle"
    /\ SaveRoom(cache, room)
    /\ UNCHANGED <<room, game, played, clientVars, timerVars, crashes>>

Snapshot(g) == [num |-> g.num, teams |-> g.teams, over |-> g.over]

\* The game goroutine moves on, and stores where it is (Bridge.saveLocked)
PlayOn ==
    /\ game # NoGame /\ game.begun /\ ~game.over
    /\ \E over \in BOOLEAN :
          /\ game' = [game EXCEPT !.over = over]
          /\ SaveGame(Snapshot(game'))
    /\ UNCHANGED <<at, room, played, clientVars, timerVars, crashes>>

\* reopen_room: any player, once the game is over
ReopenRoom(p) ==
    /\ Speaking(p) /\ (game # NoGame => game.over)
    /\ IF room.started
       THEN /\ at' = "forgetting"
            /\ room' = Reopen(room) /\ game' = NoGame
            /\ SaveRoom(cache, room')
            /\ UNCHANGED <<played, clientVars, timerVars, crashes>>
       ELSE Changed(room)

\* The second write of reopen_room, and of a restart: saveGame(r, nil)
ForgetGame ==
    /\ at = "forgetting" /\ at' = "idle"
    /\ SaveGame(NoGame)
    /\ UNCHANGED <<room, game, played, clientVars, timerVars, crashes>>

-----------------------------------------------------------------------------
(* Kill and restart *)

Crash ==
    /\ at \notin {"empty", "down"} /\ crashes < MaxCrashes
    /\ crashes' = crashes + 1
    /\ at' = "down" /\ room' = NoRoom /\ game' = NoGame /\ cache' = NoState
    /\ active' = [p \in Humans |-> NoConn] /\ open' = {}
    /\ entry' = [k \in Keys |-> "none"]
    /\ loose' = [k \in Keys |-> 0] /\ due' = [k \in Keys |-> 0]
    /\ UNCHANGED <<played, stored, failures>>

\* Broken variant: only the room's timer is started, no seat is held
HoldsRoomOnly(members) == {RoomTimer}

\* Handler.Restore holds every human's seat, and the room
Holds(members) == members \cup {RoomTimer}

\* game.Restore takes the game of a started room with the same roster
Playable(s) == s.room.started /\ s.game # NoGame /\ s.game.teams = s.room.teams

\* Handler.Restore: a room that is refused is closed; a started room without
\* a game it can go on with returns to its lobby, and its game is forgotten
Restart ==
    /\ at = "down"
    /\ \/ /\ stored.open /\ Restorable(stored.room)
          /\ LET r == Restored(stored.room) IN
             IF Playable(stored)
             THEN /\ at' = "idle" /\ room' = r
                  /\ game' = [num |-> stored.game.num, teams |-> stored.game.teams,
                              begun |-> FALSE, over |-> stored.game.over]
                  /\ cache' = stored.room
                  /\ UNCHANGED <<stored, failures>>
             ELSE /\ at' = IF stored.game = NoGame THEN "idle" ELSE "forgetting"
                  /\ room' = AbortStart(r) /\ game' = NoGame
                  /\ SaveRoom(stored.room, room')
          /\ entry' = Armed(Holds(stored.room.members))
       \/ /\ ~(stored.open /\ Restorable(stored.room))
          /\ at' = "gone"
          /\ IF stored.open THEN CloseStored ELSE UNCHANGED storeVars
          /\ UNCHANGED <<room, game, entry>>
    /\ UNCHANGED <<played, clientVars, loose, due, crashes>>

-----------------------------------------------------------------------------
Init ==
    /\ at = "empty" /\ room = NoRoom /\ game = NoGame /\ played = 0
    /\ active = [p \in Humans |-> NoConn] /\ open = {}
    /\ entry = [k \in Keys |-> "none"]
    /\ loose = [k \in Keys |-> 0] /\ due = [k \in Keys |-> 0]
    /\ stored = [open |-> FALSE, room |-> NoState, game |-> NoGame]
    /\ cache = NoState /\ failures = 0 /\ crashes = 0

Next ==
    \/ \E p \in Humans, c \in Conns : \/ Create(p, c) \/ JoinRoom(p, c)
                                      \/ ResumeRoom(p, c) \/ Leave(p, c)
    \/ \E p \in Humans, t \in Sides : SelectTeam(p, t) \/ AddAI(p, t) \/ RemoveAI(p, t)
    \/ \E p \in Humans : \/ QuitTeam(p) \/ StartGame(p) \/ ReopenRoom(p)
                         \/ ReleaseSeat(p)
    \/ \E k \in Keys : Fire(k) \/ FireLoose(k)
    \/ SaveStarted \/ PlayOn \/ ForgetGame \/ ExpireRoom \/ Crash \/ Restart

Spec == Init /\ [][Next]_vars

\* Timers fire, their callbacks get h.mu, a message is handled to its end, and
\* a killed process is started again; players need not do anything
Fairness ==
    /\ \A k \in Keys : WF_vars(Fire(k)) /\ WF_vars(FireLoose(k))
    /\ \A p \in Humans : WF_vars(ReleaseSeat(p))
    /\ WF_vars(ExpireRoom) /\ WF_vars(SaveStarted) /\ WF_vars(ForgetGame)
    /\ WF_vars(Restart)

FairSpec == Spec /\ Fairness

-----------------------------------------------------------------------------
(* Properties *)

Live == at \in {"idle", "starting", "forgetting"}

GameType == [num : 1..MaxGames, teams : [Sides -> Seq(Humans \cup AIs)],
             begun : BOOLEAN, over : BOOLEAN]
SnapshotType == [num : 1..MaxGames, teams : [Sides -> Seq(Humans \cup AIs)],
                 over : BOOLEAN]

\* nil is no game and no state
ASSUME NothingAssumption ==
    /\ NoGame \notin GameType \cup SnapshotType /\ NoState \notin StateType

\* The room, its game, the two timer maps and the row are what their types say;
\* a room in memory is one that room.Restore would accept
LobbyTypeOK ==
    /\ at \in {"empty", "idle", "starting", "forgetting", "down", "gone"}
    /\ IF Live THEN room \in RoomType /\ Restorable(room) ELSE room = NoRoom
    /\ game \in GameType \cup {NoGame} /\ played \in 0..MaxGames
    /\ active \in [Humans -> Conns \cup {NoConn}] /\ open \subseteq Humans \X Conns
    /\ entry \in [Keys -> {"none", "armed", "fired"}]
    /\ loose \in [Keys -> 0..MaxTimers] /\ due \in [Keys -> 0..MaxTimers]
    /\ stored.open \in BOOLEAN
    /\ stored.room \in IF stored.open THEN StateType ELSE {NoState}
    /\ stored.game \in SnapshotType \cup {NoGame}
    /\ cache \in StateType \cup {NoState}
    /\ failures \in 0..MaxFailures /\ crashes \in 0..MaxCrashes

\* A player is online exactly while a client speaks for them, and that client has
\* not been reported closed: whoever is offline can be released, and whoever is
\* not is reached (HandleMessage, attach).
OnlineIsConnected ==
    Live => \A p \in Humans :
               /\ p \in room.online <=> active[p] # NoConn
               /\ active[p] # NoConn => <<p, active[p]>> \in open

\* A player goes offline only when the last client that spoke for them has left:
\* the late _disconnect of a client that was replaced changes nothing, nor does
\* anything else in a room that goes on (HandleMessage's check of h.active).
OnlyTheLastLeaves ==
    [][\A p \in Humans :
          Live /\ Live' /\ p \in room.online /\ p \notin room'.online
             => <<p, active[p]>> \notin open']_vars

Pending(k) == entry[k] = "armed" \/ loose[k] > 0 \/ due[k] > 0

\* No seat of the lobby, and no host role, stays with somebody who is gone: as
\* long as they are offline a timer or a callback is on its way to take it
\* (holdSeat, attach), whatever was reopened, aborted or restarted meanwhile.
AbsentAreReleased ==
    Live => \A p \in room.members \ room.online :
               room.owner = p \/ (~room.started /\ Seated(room, p)) => Pending(p)

\* A room whose players are all gone is always about to be closed (expireLater).
EmptyRoomExpires == Live /\ room.online = {} => Pending(RoomTimer)

\* Only an empty room has no host: whoever comes first takes the role, and a
\* host who leaves hands it to somebody who is there (Join, Resume, Release).
HostOrNobody == Live /\ room.owner = NoOwner => room.online = {}

\* While a game is registered the room seats the very players it began with, in
\* their order, and it has a game just when it says so (BeginGame, Reopen,
\* Release, game.Restore).
RosterFrozen ==
    at = "idle" => IF game = NoGame THEN ~room.started
                   ELSE room.started /\ game.teams = room.teams

\* Everything the room writes, Restore accepts (State, room.Restore).
StoredIsRestorable == stored.open => Restorable(stored.room)

\* "Every change is stored as it happens, so stopping loses nothing"
\* (cmd/server/main.go:80): as long as no write failed, whenever no message is
\* being handled the row holds this room and this game.
StoppingLosesNothing ==
    at = "idle" /\ failures = 0 =>
       /\ stored.open /\ stored.room = SavedState(room)
       /\ stored.game = IF game = NoGame THEN NoGame ELSE Snapshot(game)

\* A restart finds "a lobby, never a game that is missing" (handler.go:288): at
\* every moment, between the two writes of a message too, a room stored as
\* started has its own last game beside it.
NeverMissing ==
    failures = 0 /\ stored.open /\ stored.room.started =>
       Playable(stored) /\ stored.game.num = played

\* What h.stored says was written is what the row holds, so that a write that
\* failed is made up for by the next message (saveRoom).
CacheIsStored == cache # NoState => stored.open /\ stored.room = cache

\* A host who stays away loses the role as long as anybody is there to take it.
HostHandedOver ==
    (Live /\ room.owner \in room.members \ room.online)
       ~> (Live => room.owner = NoOwner \/ room.owner \in room.online)

\* A room nobody comes back to is closed, across restarts too.
AbandonedRoomCloses == (Live /\ room.online = {}) ~> (at = "gone" \/ (Live /\ room.online # {}))

\* "SeatGrace is how long an offline player keeps their seat" (handler.go:27):
\* a lobby seat is not taken while the timer of its player's absence runs.
LobbySeatKept ==
    [][\A p \in Humans :
          (/\ Live /\ Live' /\ ~room.started /\ Seated(room, p)
           /\ p \notin room.online /\ entry[p] = "armed")
             => Seated(room', p)]_vars

\* A room keeps its order whoever comes, leaves, resumes or is released: somebody
\* present is its host, and its game is played by those it began with.
RoomKeepsOrder == HostOrNobody /\ RosterFrozen

\* Killed between any two steps, even between the two writes of a message, the
\* server finds this room and this game again, or the lobby (persist.go).
RestartFindsAll == StoppingLosesNothing /\ NeverMissing
=============================================================================
