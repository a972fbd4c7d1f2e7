-------------------------------- MODULE Hub --------------------------------
(***************************************************************************)
(* The connections: internal/ws/hub.go and client.go, with what            *)
(* internal/server does for a client that comes or goes.  Every socket has *)
(* a goroutine that reads it (ReadPump); the hub's own goroutine (Run)     *)
(* takes registrations and unregistrations from two channels, in any order *)
(* of the two.  The messages themselves go past Run, straight to the       *)
(* handler.  One room, and the players in it.                              *)
(***************************************************************************)
EXTENDS Integers, Sequences, FiniteSets

CONSTANTS
    Clients,    \* the sockets, each opened at most once
    NoClient,
    Players,
    NoPlayer,   \* the identity of a client that entered no room yet
    Slots       \* the capacity of the channels register and unregister, 16

ASSUME HubAssumption ==
    /\ NoClient \notin Clients /\ NoPlayer \notin Players
    /\ Slots \in Nat \ {0}

VARIABLES
    pump,        \* per socket: "none", "upgraded" in ServeWS, "reading" in
                 \* ReadPump, "leaving" in its defer, "ended"
    register, unregister,   \* the two channels
    clients,     \* h.clients
    group,       \* h.rooms[roomCode]
    closed,      \* the clients that were told to close
    identity,    \* client.identity.PlayerID
    active,      \* Handler.active
    run          \* the client whose _disconnect Run is about to hand over

hubVars == <<register, unregister, clients, run>>
vars == <<pump, hubVars, group, closed, identity, active>>

-----------------------------------------------------------------------------
Free(q) == Len(q) < Slots

\* ServeWS upgrades the request and makes the client
Connect(c) ==
    /\ pump[c] = "none"
    /\ pump' = [pump EXCEPT ![c] = "upgraded"]
    /\ UNCHANGED <<hubVars, group, closed, identity, active>>

\* It waits for a slot of the channel, then starts the pumps
Register(c) ==
    /\ pump[c] = "upgraded" /\ Free(register)
    /\ register' = Append(register, c)
    /\ pump' = [pump EXCEPT ![c] = "reading"]
    /\ UNCHANGED <<unregister, clients, run, group, closed, identity, active>>

\* The socket's first message enters the room: attach closes the client the
\* player had, and JoinRoom puts the new one into the broadcast group
Enter(c, p) ==
    /\ pump[c] = "reading" /\ identity[c] = NoPlayer
    /\ closed' = IF active[p] = NoClient THEN closed ELSE closed \cup {active[p]}
    /\ identity' = [identity EXCEPT ![c] = p]
    /\ active' = [active EXCEPT ![p] = c]
    /\ group' = group \cup {c}
    /\ UNCHANGED <<pump, hubVars>>

\* ReadMessage fails: the page is gone, or the client was closed
HangUp(c) ==
    /\ pump[c] = "reading"
    /\ pump' = [pump EXCEPT ![c] = "leaving"]
    /\ UNCHANGED <<hubVars, group, closed, identity, active>>

\* ReadPump's defer
Unregister(c) ==
    /\ pump[c] = "leaving" /\ Free(unregister)
    /\ unregister' = Append(unregister, c)
    /\ pump' = [pump EXCEPT ![c] = "ended"]
    /\ UNCHANGED <<register, clients, run, group, closed, identity, active>>

\* Run's select takes either channel
RunRegister ==
    /\ run = NoClient /\ register # <<>>
    /\ clients' = clients \cup {Head(register)}
    /\ register' = Tail(register)
    /\ UNCHANGED <<pump, unregister, run, group, closed, identity, active>>

\* Broken variant: the room is left by the player, not by the client
RemovedPlayer(c) == {d \in Clients : identity[d] = identity[c]}

\* What is deleted from the room
Removed(c) == {c}

\* Broken variant: a client that was never registered is not reported
ReportedIfKnown(c) == IF c \in clients THEN c ELSE NoClient

\* The handler hears of every client that leaves
Reported(c) == c

RunUnregister ==
    /\ run = NoClient /\ unregister # <<>>
    /\ LET c == Head(unregister) IN
       /\ IF c \in clients
          THEN /\ clients' = clients \ {c}
               /\ closed' = closed \cup {c}
               /\ group' = group \ Removed(c)
          ELSE UNCHANGED <<clients, closed, group>>
       /\ run' = Reported(c)
    /\ unregister' = Tail(unregister)
    /\ UNCHANGED <<pump, register, identity, active>>

\* The handler takes the player offline, unless another client speaks for them
Notify ==
    /\ run # NoClient
    /\ active' = [p \in Players |-> IF active[p] = run THEN NoClient ELSE active[p]]
    /\ run' = NoClient
    /\ UNCHANGED <<pump, register, unregister, clients, group, closed, identity>>

-----------------------------------------------------------------------------
Init ==
    /\ pump = [c \in Clients |-> "none"]
    /\ register = <<>> /\ unregister = <<>>
    /\ clients = {} /\ group = {} /\ closed = {}
    /\ identity = [c \in Clients |-> NoPlayer]
    /\ active = [p \in Players |-> NoClient]
    /\ run = NoClient

Next ==
    \/ \E c \in Clients : Connect(c) \/ Register(c) \/ HangUp(c) \/ Unregister(c)
    \/ \E c \in Clients, p \in Players : Enter(c, p)
    \/ RunRegister \/ RunUnregister \/ Notify

Spec == Init /\ [][Next]_vars

\* Go does not leave every goroutine that can go on waiting for ever, and reading
\* from a closed socket fails; which of them goes first is not assumed
HubMoves ==
    \/ \E c \in Clients : Register(c) \/ Unregister(c) \/ (c \in closed /\ HangUp(c))
    \/ RunRegister \/ RunUnregister \/ Notify

Fairness == WF_vars(HubMoves)

FairSpec == Spec /\ Fairness

-----------------------------------------------------------------------------
(* Properties *)

HubTypeOK ==
    /\ pump \in [Clients -> {"none", "upgraded", "reading", "leaving", "ended"}]
    /\ register \in Seq(Clients) /\ Len(register) <= Slots
    /\ unregister \in Seq(Clients) /\ Len(unregister) <= Slots
    /\ clients \subseteq Clients /\ group \subseteq Clients /\ closed \subseteq Clients
    /\ identity \in [Clients -> Players \cup {NoPlayer}]
    /\ active \in [Players -> Clients \cup {NoClient}]
    /\ run \in Clients \cup {NoClient}

\* The client that speaks for a player is in the room's broadcast group under
\* the player's name until the hub has begun to report it gone, however many
\* clients of the player are closed meanwhile (JoinRoom, Run).
ActiveIsReached ==
    \A p \in Players : active[p] # NoClient =>
        /\ identity[active[p]] = p
        /\ active[p] \in group \/ run = active[p]

\* The player of every socket that closes is taken offline, or another client
\* speaks for them (ReadPump's defer, Run).
GoneIsNoticed ==
    \A c \in Clients : []<>(pump[c] \in {"leaving", "ended"} => \A p \in Players : active[p] # c)

\* "Remove from room if the client was in one" (hub.go:55): a socket that was
\* closed leaves the broadcast group in the end.
ClosedLeaveTheRoom ==
    \A c \in Clients : pump[c] = "ended" ~> c \notin group

\* A player is reached by the client that speaks for them, over channels that
\* never hold more than they have room for (JoinRoom, Run).
PlayersAreReached == HubTypeOK /\ ActiveIsReached
=============================================================================
