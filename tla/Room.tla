-------------------------------- MODULE Room --------------------------------
(***************************************************************************)
(* One room: server/internal/room.  A room seats its players on two teams  *)
(* and knows who is online and who is host.  Every operation takes r.mu    *)
(* and leaves at once, so it is a function here, from a room to a room;    *)
(* module Lobby says when the handler calls it.                            *)
(***************************************************************************)
EXTENDS Integers, Sequences, FiniteSets

CONSTANTS
    Humans,     \* the players who may enter the room: every join is a new ID
    AINames,    \* per side, the codenames AddAI draws from (aiNamesA, aiNamesB)
    NoOwner,    \* OwnerID = ""
    MaxTeam,    \* maxTeamSize, 4
    MaxMembers  \* 32

Sides == {"A", "B"}
AIs == AINames["A"] \cup AINames["B"]

ASSUME RoomAssumption ==
    /\ IsFiniteSet(Humans) /\ IsFiniteSet(AIs) /\ Humans \cap AIs = {}
    /\ AINames["A"] \cap AINames["B"] = {}
    /\ NoOwner \notin Humans
    /\ MaxTeam \in Nat \ {0} /\ MaxMembers \in Nat \ {0}

\* Room and its members; online holds the members that are not Disconnected
RoomType == [owner   : Humans \cup {NoOwner},
             started : BOOLEAN,
             teams   : [Sides -> Seq(Humans \cup AIs)],
             members : SUBSET Humans,
             online  : SUBSET Humans]

\* State: what is kept across a restart, connections left out
StateType == [owner   : Humans \cup {NoOwner},
              started : BOOLEAN,
              teams   : [Sides -> Seq(Humans \cup AIs)],
              members : SUBSET Humans]

-----------------------------------------------------------------------------
OnTeam(r, p, t) == \E i \in DOMAIN r.teams[t] : r.teams[t][i] = p
Seated(r, p) == \E t \in Sides : OnTeam(r, p, t)
HasRoom(r, t) == Len(r.teams[t]) < MaxTeam

\* The players of a team that are among P, in their order
Kept(team, P) ==
    LET places == {i \in DOMAIN team : team[i] \in P}
        Rank(i) == Cardinality({j \in places : j <= i})
    IN  [n \in 1..Cardinality(places) |-> team[CHOOSE i \in places : Rank(i) = n]]

Players(team) == {team[i] : i \in DOMAIN team}

\* removeByID
Without(team, p) == Kept(team, Players(team) \ {p})

LeaveTeam(r, p) == [r EXCEPT !.teams = [t \in Sides |-> Without(r.teams[t], p)]]

Sit(r, p, t) == [r EXCEPT !.teams[t] = Append(@, p)]

NewRoom(p) ==
    [owner |-> p, started |-> FALSE,
     teams |-> [t \in Sides |-> IF t = "A" THEN <<p>> ELSE <<>>],
     members |-> {p}, online |-> {p}]

\* Broken variant: the old seat is kept when a player changes sides
SitOnly(r, p, t) == Sit(r, p, t)

AddToTeam(r, p, t) == Sit(LeaveTeam(r, p), p, t)

\* AutoSeat: the smaller team, team A when they are equal, if there is room
AutoSeat(r, p) ==
    IF Len(r.teams["B"]) < Len(r.teams["A"]) /\ HasRoom(r, "B") THEN Sit(r, p, "B")
    ELSE IF HasRoom(r, "A") THEN Sit(r, p, "A")
    ELSE IF HasRoom(r, "B") THEN Sit(r, p, "B") ELSE r

MayJoin(r, p) ==
    /\ ~r.started
    /\ Cardinality(r.members) < MaxMembers
    /\ p \notin r.members

\* Join and Resume give a room without a host to whoever comes
Hosted(r, p) == [r EXCEPT !.owner = IF @ = NoOwner THEN p ELSE @]

Join(r, p) ==
    AutoSeat([Hosted(r, p) EXCEPT !.members = @ \cup {p}, !.online = @ \cup {p}], p)

Resume(r, p) == [Hosted(r, p) EXCEPT !.online = @ \cup {p}]

\* Broken variant: the players of a running game stay online
DisconnectLobby(r, p) == IF r.started THEN r ELSE [r EXCEPT !.online = @ \ {p}]

\* The seat and the host role are kept, in the lobby and in a game
Disconnect(r, p) == [r EXCEPT !.online = @ \ {p}]

\* The candidates for host: the first online human in the order of the seats,
\* or any of those without a seat (they are sorted by their random IDs)
Heirs(r) ==
    LET seated == Kept(r.teams["A"] \o r.teams["B"], r.online) IN
    IF seated # <<>> THEN {Head(seated)}
    ELSE IF r.online # {} THEN r.online ELSE {NoOwner}

\* Broken variant: a release takes the seat of a running game too
FreedAnyway(r, p) == LeaveTeam(r, p)

\* The roster of a game is frozen
Freed(r, p) == IF r.started THEN r ELSE LeaveTeam(r, p)

\* Release: what can become of the room when p's seat is freed
Releases(r, p) ==
    IF p \in r.online THEN {r}
    ELSE IF r.owner # p THEN {Freed(r, p)}
    ELSE {[Freed(r, p) EXCEPT !.owner = h] : h \in Heirs(Freed(r, p))}

FreeNames(r, t) == {a \in AINames[t] : ~Seated(r, a)}

\* RemoveAI takes the seat at index i of a team, if an AI player sits there
RemoveAt(team, i) == SubSeq(team, 1, i - 1) \o SubSeq(team, i + 1, Len(team))

CanStart(r) ==
    /\ ~r.started
    /\ \A t \in Sides :
          /\ Len(r.teams[t]) >= 2
          /\ \A i \in DOMAIN r.teams[t] : r.teams[t][i] \in AIs \cup r.online

BeginGame(r) == [r EXCEPT !.started = TRUE]
AbortStart(r) == [r EXCEPT !.started = FALSE]

\* Broken variant: a reopened room keeps the seats of those who left
ReopenFull(r) == AbortStart(r)

\* Reopen: those who are offline give up their seats
Reopen(r) ==
    [r EXCEPT !.started = FALSE,
              !.teams = [t \in Sides |-> Kept(r.teams[t], AIs \cup r.online)]]

\* Room.State
SavedState(r) == [owner |-> r.owner, started |-> r.started,
                  teams |-> r.teams, members |-> r.members]

\* What room.Restore asks of a stored state: no team too large, no seat taken
\* twice, no human without a token, no host from outside
Restorable(s) ==
    /\ \A t \in Sides : Len(s.teams[t]) <= MaxTeam
    /\ \A t, u \in Sides : \A i \in DOMAIN s.teams[t], j \in DOMAIN s.teams[u] :
          s.teams[t][i] = s.teams[u][j] => t = u /\ i = j
    /\ \A t \in Sides : \A i \in DOMAIN s.teams[t] :
          s.teams[t][i] \in AIs \cup s.members
    /\ s.owner \in s.members \cup {NoOwner}

Restored(s) == [owner |-> s.owner, started |-> s.started, teams |-> s.teams,
                members |-> s.members, online |-> {}]
=============================================================================
