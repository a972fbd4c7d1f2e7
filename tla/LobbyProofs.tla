---------------------------- MODULE LobbyProofs ----------------------------
(***************************************************************************)
(* The room and its handler, for any players, sockets, team sizes and      *)
(* bounds.  First what the operations of module Room return: every one of  *)
(* them turns a room that room.Restore accepts into one that it accepts.   *)
(* Then module Lobby: what the handler remembers of the store and what a   *)
(* restart finds in it, who is online, who is host, and that absent        *)
(* players and empty rooms are on their way out.                           *)
(***************************************************************************)
EXTENDS Lobby, FiniteSetTheorems, SequenceTheorems, TLAPS

-----------------------------------------------------------------------------
\* The operations of module Room

\* Kept picks places of the team, each once and in their order, and only of
\* players that are to be kept.
LEMMA KeptPlaces ==
    ASSUME NEW T, NEW s \in Seq(T), NEW P
    PROVE  /\ Kept(s, P) \in Seq(T) /\ Len(Kept(s, P)) <= Len(s)
           /\ \E f \in [DOMAIN Kept(s, P) -> DOMAIN s] :
                 /\ \A n \in DOMAIN Kept(s, P) : Kept(s, P)[n] = s[f[n]] /\ s[f[n]] \in P
                 /\ \A n, m \in DOMAIN Kept(s, P) : n < m => f[n] < f[m]
  <1> DEFINE places == {i \in DOMAIN s : s[i] \in P}
             upto(i) == {j \in places : j <= i}
             size == Cardinality(places)
             rank == [i \in places |-> Cardinality(upto(i))]
             f == [n \in 1..size |-> CHOOSE i \in places : Cardinality(upto(i)) = n]
  <1>1. DOMAIN s = 1..Len(s) /\ Len(s) \in Nat
    OBVIOUS
  <1>2. IsFiniteSet(places) /\ size \in Nat /\ size <= Len(s) /\ places \subseteq Nat
    <2>1. IsFiniteSet(1..Len(s)) /\ Cardinality(1..Len(s)) = Len(s)
      BY <1>1, FS_Interval
    <2>2. places \in SUBSET (1..Len(s))
      BY <1>1
    <2>3. IsFiniteSet(places) /\ size <= Len(s)
      BY <2>1, <2>2, FS_Subset
    <2> QED
      BY <1>1, <2>2, <2>3, FS_CardinalityType
  <1>3. \A i \in places : /\ IsFiniteSet(upto(i)) /\ i \in upto(i)
                          /\ Cardinality(upto(i)) \in 1..size
    <2> SUFFICES ASSUME NEW i \in places
                 PROVE  IsFiniteSet(upto(i)) /\ i \in upto(i) /\ Cardinality(upto(i)) \in 1..size
      OBVIOUS
    <2>1. upto(i) \in SUBSET places /\ i \in upto(i)
      BY <1>2
    <2>2. IsFiniteSet(upto(i)) /\ Cardinality(upto(i)) <= size
      BY <1>2, <2>1, FS_Subset
    <2>3. Cardinality(upto(i)) \in Nat /\ Cardinality(upto(i)) # 0
      BY <2>1, <2>2, FS_CardinalityType, FS_EmptySet
    <2> QED
      BY <1>2, <2>1, <2>2, <2>3
  <1>4. \A i, j \in places : i < j => /\ upto(i) \in SUBSET upto(j)
                                      /\ j \notin upto(i) /\ j \in upto(j)
    BY <1>2
  <1>5. \A i \in places : i \in DOMAIN s /\ s[i] \in P /\ s[i] \in T
    BY <1>1
  <1>6. Kept(s, P) = [n \in 1..size |-> s[f[n]]]
    BY DEF Kept
  <1> HIDE DEF places, upto
  <1>7. \A i, j \in places : i < j => Cardinality(upto(i)) < Cardinality(upto(j))
    <2> SUFFICES ASSUME NEW i \in places, NEW j \in places, i < j
                 PROVE  Cardinality(upto(i)) < Cardinality(upto(j))
      OBVIOUS
    <2>1. upto(i) # upto(j)
      BY <1>4
    <2>2. Cardinality(upto(i)) <= Cardinality(upto(j)) /\ Cardinality(upto(i)) # Cardinality(upto(j))
      BY <1>3, <1>4, <2>1, FS_Subset
    <2>3. Cardinality(upto(i)) \in Nat /\ Cardinality(upto(j)) \in Nat
      BY <1>2, <1>3
    <2> QED
      BY <2>2, <2>3
  <1>8. \A i, j \in places : Cardinality(upto(i)) = Cardinality(upto(j)) => i = j
    <2> SUFFICES ASSUME NEW i \in places, NEW j \in places,
                        Cardinality(upto(i)) = Cardinality(upto(j))
                 PROVE  i = j
      OBVIOUS
    <2>1. Cardinality(upto(i)) \in Nat /\ i \in Nat /\ j \in Nat
      BY <1>2, <1>3
    <2>2. ~(i < j) /\ ~(j < i)
      BY <1>7, <2>1
    <2> QED
      BY <2>1, <2>2
  <1>9. \A n \in 1..size : \E i \in places : Cardinality(upto(i)) = n
    <2>1. rank \in [places -> 1..size]
      BY <1>3
    <2>2. rank \in Injection(places, 1..size)
      BY <1>8, <2>1 DEF Injection, IsInjective
    <2>3. IsFiniteSet(1..size) /\ Cardinality(1..size) = size
      BY <1>2, FS_Interval
    <2>4. rank \in Surjection(places, 1..size)
      BY <2>2, <2>3, FS_Injection
    <2> QED
      BY <2>4 DEF Surjection
  <1>10. \A n \in 1..size : f[n] \in places /\ Cardinality(upto(f[n])) = n
    BY <1>9
  <1>11. f \in [1..size -> DOMAIN s]
    BY <1>5, <1>10
  <1> HIDE DEF f, size
  <1>12. \A n \in 1..size : s[f[n]] \in T /\ s[f[n]] \in P
    BY <1>5, <1>10
  <1>13. Kept(s, P) \in Seq(T) /\ Len(Kept(s, P)) = size /\ DOMAIN Kept(s, P) = 1..size
    <2>1. Kept(s, P) \in [1..size -> T]
      BY <1>6, <1>12
    <2>2. Kept(s, P) \in Seq(T)
      BY <1>2, <2>1, SeqDef
    <2> QED
      BY <1>2, <1>6, <2>2, LenProperties
  <1>14. \A n, m \in 1..size : n < m => f[n] < f[m]
    <2> SUFFICES ASSUME NEW n \in 1..size, NEW m \in 1..size, n < m PROVE f[n] < f[m]
      OBVIOUS
    <2>a. f[n] \in places /\ f[m] \in places
      BY <1>10
    <2>b. size \in Nat /\ places \subseteq Nat
      BY <1>2
    <2>c. n \in Nat /\ m \in Nat
      BY <2>b
    <2>1. n \in Nat /\ m \in Nat /\ f[n] \in Nat /\ f[m] \in Nat
      BY <2>a, <2>b, <2>c
    <2>2. f[n] # f[m] /\ ~(f[m] < f[n])
      BY <1>7, <1>10, <2>1
    <2> QED
      BY <2>1, <2>2
  <1> QED
    BY <1>2, <1>6, <1>11, <1>12, <1>13, <1>14

(***************************************************************************)
(* Two teams that room.Restore accepts                                     *)
(***************************************************************************)

\* Who is seated in the teams T
Sits(T, p) == \E t \in Sides : \E i \in DOMAIN T[t] : T[t][i] = p

SoundTeams(T, M) ==
    /\ T \in [Sides -> Seq(Humans \cup AIs)]
    /\ \A t \in Sides : Len(T[t]) <= MaxTeam
    /\ \A t, u \in Sides : \A i \in DOMAIN T[t], j \in DOMAIN T[u] :
          T[t][i] = T[u][j] => t = u /\ i = j
    /\ \A p : Sits(T, p) => p \in AIs \cup M

\* A seat is added for somebody who has none.
LEMMA SitTeams ==
    ASSUME NEW T, NEW M, SoundTeams(T, M), NEW t \in Sides, Len(T[t]) < MaxTeam,
           NEW p \in Humans \cup AIs, p \in AIs \cup M, ~Sits(T, p)
    PROVE  /\ SoundTeams([T EXCEPT ![t] = Append(@, p)], M)
           /\ \A q : Sits([T EXCEPT ![t] = Append(@, p)], q) => q = p \/ Sits(T, q)
  <1> DEFINE U == [T EXCEPT ![t] = Append(@, p)]
  <1>1. \A u \in Sides : T[u] \in Seq(Humans \cup AIs) /\ Len(T[u]) \in Nat /\ DOMAIN T[u] = 1..Len(T[u])
    BY DEF SoundTeams
  <1>2. /\ U \in [Sides -> Seq(Humans \cup AIs)] /\ U[t] = Append(T[t], p)
        /\ \A u \in Sides : u # t => U[u] = T[u]
    BY <1>1 DEF SoundTeams
  <1>3. /\ Len(U[t]) = Len(T[t]) + 1 /\ DOMAIN U[t] = 1..(Len(T[t]) + 1)
        /\ \A i \in DOMAIN T[t] : U[t][i] = T[t][i]
        /\ U[t][Len(T[t]) + 1] = p
    BY <1>1, <1>2
  <1> HIDE DEF U
  <1>4. \A u \in Sides : \A i \in DOMAIN U[u] :
           (i \in DOMAIN T[u] /\ U[u][i] = T[u][i]) \/ (u = t /\ i = Len(T[t]) + 1 /\ U[u][i] = p)
    BY <1>1, <1>2, <1>3
  <1>5. \A u \in Sides : Len(U[u]) <= MaxTeam
    <2>1. Len(U[t]) <= MaxTeam
      BY <1>1, <1>3, RoomAssumption
    <2> QED
      BY <1>2, <2>1 DEF SoundTeams
  <1>6. \A u, v \in Sides : \A i \in DOMAIN U[u], j \in DOMAIN U[v] :
           U[u][i] = U[v][j] => u = v /\ i = j
    BY <1>4 DEF SoundTeams, Sits
  <1>7. \A q : Sits(U, q) => q = p \/ Sits(T, q)
    BY <1>4 DEF Sits
  <1>8. \A q : Sits(U, q) => q \in AIs \cup M
    BY <1>7 DEF SoundTeams
  <1>9. SoundTeams(U, M)
    BY <1>2, <1>5, <1>6, <1>8 DEF SoundTeams
  <1> QED
    BY <1>7, <1>9 DEF U

\* Seats are given up.
LEMMA KeptTeams ==
    ASSUME NEW T, NEW M, SoundTeams(T, M), NEW P, NEW U, U = [t \in Sides |-> Kept(T[t], P[t])]
    PROVE  /\ SoundTeams(U, M)
           /\ \A t \in Sides : Len(U[t]) <= Len(T[t])
           /\ \A t \in Sides : \A i \in DOMAIN U[t] :
                 U[t][i] \in P[t] /\ \E j \in DOMAIN T[t] : T[t][j] = U[t][i]
           /\ \A q : Sits(U, q) => Sits(T, q)
  <1> DEFINE
             Place(f, t) ==
                 /\ f \in [DOMAIN U[t] -> DOMAIN T[t]]
                 /\ \A n \in DOMAIN U[t] : U[t][n] = T[t][f[n]] /\ T[t][f[n]] \in P[t]
                 /\ \A n, m \in DOMAIN U[t] : n < m => f[n] < f[m]
  <1>1. \A t \in Sides : T[t] \in Seq(Humans \cup AIs) /\ U[t] = Kept(T[t], P[t])
    BY DEF SoundTeams
  <1>2. \A t \in Sides : /\ U[t] \in Seq(Humans \cup AIs) /\ Len(U[t]) <= Len(T[t])
                         /\ \E f : Place(f, t)
    <2> SUFFICES ASSUME NEW t \in Sides
                 PROVE  U[t] \in Seq(Humans \cup AIs) /\ Len(U[t]) <= Len(T[t]) /\ \E f : Place(f, t)
      OBVIOUS
    <2>1. /\ Kept(T[t], P[t]) \in Seq(Humans \cup AIs) /\ Len(Kept(T[t], P[t])) <= Len(T[t])
          /\ \E f \in [DOMAIN Kept(T[t], P[t]) -> DOMAIN T[t]] :
                /\ \A n \in DOMAIN Kept(T[t], P[t]) :
                      Kept(T[t], P[t])[n] = T[t][f[n]] /\ T[t][f[n]] \in P[t]
                /\ \A n, m \in DOMAIN Kept(T[t], P[t]) : n < m => f[n] < f[m]
      BY <1>1, KeptPlaces
    <2> QED
      BY <1>1, <2>1, Zenon
  <1>3. U \in [Sides -> Seq(Humans \cup AIs)]
    BY <1>2
  <1>4. \A t \in Sides : /\ Len(U[t]) \in Nat /\ DOMAIN U[t] = 1..Len(U[t])
                         /\ Len(T[t]) \in Nat /\ DOMAIN T[t] = 1..Len(T[t])
    BY <1>1, <1>2
  <1>5. \A t \in Sides : Len(U[t]) <= MaxTeam
    BY <1>2, <1>4, RoomAssumption DEF SoundTeams
  <1>6. \A t \in Sides : \A i \in DOMAIN U[t] :
           U[t][i] \in P[t] /\ \E j \in DOMAIN T[t] : T[t][j] = U[t][i]
    BY <1>2
  <1>7. \A q : Sits(U, q) => Sits(T, q)
    BY <1>6 DEF Sits
  <1>8. ASSUME NEW t \in Sides, NEW u \in Sides, NEW i \in DOMAIN U[t], NEW j \in DOMAIN U[u],
               U[t][i] = U[u][j]
        PROVE  t = u /\ i = j
    <2>1. PICK f : Place(f, t)
      BY <1>2
    <2>2. PICK g : Place(g, u)
      BY <1>2
    <2>3. t = u
      BY <1>8, <2>1, <2>2 DEF SoundTeams
    <2>4. f[i] = f[j] /\ f[i] \in Nat
      BY <1>4, <1>8, <2>1, <2>3 DEF SoundTeams
    <2>5. i \in Nat /\ j \in Nat /\ ~(i < j) /\ ~(j < i)
      BY <1>4, <2>1, <2>3, <2>4
    <2> QED
      BY <2>3, <2>5
  <1>9. SoundTeams(U, M)
    BY <1>3, <1>5, <1>7, <1>8 DEF SoundTeams
  <1> QED
    BY <1>2, <1>6, <1>7, <1>9

\* One seat is taken out.
LEMMA RemoveTeams ==
    ASSUME NEW T, NEW M, SoundTeams(T, M), NEW t \in Sides, NEW k \in DOMAIN T[t]
    PROVE  /\ SoundTeams([T EXCEPT ![t] = RemoveAt(@, k)], M)
           /\ \A q : Sits([T EXCEPT ![t] = RemoveAt(@, k)], q) => Sits(T, q)
  <1> DEFINE s == T[t]
             r == RemoveAt(s, k)
             U == [T EXCEPT ![t] = r]
  <1>1. s \in Seq(Humans \cup AIs) /\ Len(s) \in Nat /\ k \in 1..Len(s) /\ Len(s) <= MaxTeam
    BY DEF SoundTeams
  <1>2. /\ r \in Seq(Humans \cup AIs) /\ Len(r) = Len(s) - 1
        /\ \A i \in 1..Len(r) : r[i] = IF i < k THEN s[i] ELSE s[i + 1]
    <2> DEFINE a == SubSeq(s, 1, k - 1)
               b == SubSeq(s, k + 1, Len(s))
    <2> HIDE DEF s
    <2>1. /\ a \in Seq(Humans \cup AIs) /\ Len(a) = k - 1
          /\ \A i \in 1..(k - 1) : a[i] = s[i]
      BY <1>1
    <2>2. /\ b \in Seq(Humans \cup AIs) /\ Len(b) = Len(s) - k
          /\ \A i \in 1..(Len(s) - k) : b[i] = s[k + i]
      BY <1>1
    <2>3. r = a \o b
      BY DEF RemoveAt
    <2> HIDE DEF a, b, r
    <2>4. /\ r \in Seq(Humans \cup AIs) /\ Len(r) = Len(a) + Len(b)
          /\ \A i \in 1..(Len(a) + Len(b)) : r[i] = IF i <= Len(a) THEN a[i] ELSE b[i - Len(a)]
      BY <2>1, <2>2, <2>3, ConcatProperties
    <2>5. k \in Nat /\ Len(a) + Len(b) = Len(s) - 1 /\ Len(r) = Len(s) - 1
      BY <1>1, <2>1, <2>2, <2>4
    <2>6. ASSUME NEW i \in 1..Len(r) PROVE r[i] = IF i < k THEN s[i] ELSE s[i + 1]
      <3>1. CASE i < k
        <4>1. i \in 1..(k - 1) /\ i <= Len(a) /\ i \in 1..(Len(a) + Len(b))
          BY <1>1, <2>1, <2>4, <2>5, <3>1
        <4>2. r[i] = a[i]
          BY ONLY <2>4, <4>1
        <4> QED
          BY ONLY <2>1, <3>1, <4>1, <4>2
      <3>2. CASE ~(i < k)
        <4>1. r[i] = b[i - (k - 1)] /\ i - (k - 1) \in 1..(Len(s) - k)
          BY <1>1, <2>1, <2>4, <2>5, <3>2
        <4>2. b[i - (k - 1)] = s[k + (i - (k - 1))] /\ k + (i - (k - 1)) = i + 1
          BY <1>1, <2>2, <2>5, <4>1
        <4> QED
          BY <3>2, <4>1, <4>2
      <3> QED
        BY <3>1, <3>2
    <2> QED
      BY <2>4, <2>5, <2>6
  <1> HIDE DEF s, r
  <1>3. U \in [Sides -> Seq(Humans \cup AIs)] /\ U[t] = r /\ \A u \in Sides : u # t => U[u] = T[u]
    BY <1>2 DEF SoundTeams
  <1>4. \A u \in Sides : Len(U[u]) <= MaxTeam
    BY <1>1, <1>2, <1>3, RoomAssumption DEF SoundTeams
  <1>5. \A i \in DOMAIN r : r[i] = s[IF i < k THEN i ELSE i + 1] /\ (IF i < k THEN i ELSE i + 1) \in DOMAIN s
    BY <1>1, <1>2
  <1> HIDE DEF U
  <1>6. \A u \in Sides : \A i \in DOMAIN U[u] : \E j \in DOMAIN T[u] : T[u][j] = U[u][i]
    BY <1>3, <1>5 DEF s
  <1>7. \A q : Sits(U, q) => Sits(T, q)
    BY <1>6 DEF Sits
  <1>8. ASSUME NEW u \in Sides, NEW v \in Sides, NEW i \in DOMAIN U[u], NEW j \in DOMAIN U[v],
               U[u][i] = U[v][j]
        PROVE  u = v /\ i = j
    <2>1. u = v
      BY <1>6, <1>8 DEF SoundTeams
    <2>2. CASE u # t
      BY <1>3, <1>8, <2>1, <2>2 DEF SoundTeams
    <2>3. CASE u = t
      <3>1. i \in DOMAIN r /\ j \in DOMAIN r /\ r[i] = r[j] /\ i \in Nat /\ j \in Nat
        BY <1>2, <1>3, <1>8, <2>1, <2>3
      <3>2. (IF i < k THEN i ELSE i + 1) = (IF j < k THEN j ELSE j + 1)
        BY <1>5, <3>1 DEF SoundTeams, s
      <3> QED
        BY <1>1, <2>1, <3>1, <3>2
    <2> QED
      BY <2>2, <2>3
  <1>9. SoundTeams(U, M)
    BY <1>3, <1>4, <1>7, <1>8 DEF SoundTeams
  <1> QED
    BY <1>7, <1>9 DEF U, r, s

(***************************************************************************)
(* Rooms                                                                   *)
(***************************************************************************)

\* A room of the manager: Restore would accept it, and whoever is online is one
\* of its members.
SoundRoom(r) == r \in RoomType /\ Restorable(r) /\ r.online \subseteq r.members

RoomOf(o, s, T, M, on) == [owner |-> o, started |-> s, teams |-> T, members |-> M, online |-> on]

LEMMA SoundParts ==
    ASSUME NEW o, NEW s, NEW T, NEW M, NEW on
    PROVE  SoundRoom(RoomOf(o, s, T, M, on)) <=>
              /\ o \in M \cup {NoOwner} /\ s \in BOOLEAN /\ M \subseteq Humans
              /\ on \subseteq M /\ SoundTeams(T, M)
  <1> DEFINE r == RoomOf(o, s, T, M, on)
  <1>1. r.owner = o /\ r.started = s /\ r.teams = T /\ r.members = M /\ r.online = on
    BY DEF RoomOf
  <1>2. r \in RoomType <=> /\ o \in Humans \cup {NoOwner} /\ s \in BOOLEAN
                           /\ T \in [Sides -> Seq(Humans \cup AIs)]
                           /\ M \subseteq Humans /\ on \subseteq Humans
    BY DEF RoomOf, RoomType
  <1> HIDE DEF r
  <1>3. (\A p : Sits(T, p) => p \in AIs \cup M)
           <=> \A t \in Sides : \A i \in DOMAIN T[t] : T[t][i] \in AIs \cup M
    BY DEF Sits
  <1>4. Restorable(r) <=>
           /\ \A t \in Sides : Len(T[t]) <= MaxTeam
           /\ \A t, u \in Sides : \A i \in DOMAIN T[t], j \in DOMAIN T[u] :
                 T[t][i] = T[u][j] => t = u /\ i = j
           /\ \A t \in Sides : \A i \in DOMAIN T[t] : T[t][i] \in AIs \cup M
           /\ o \in M \cup {NoOwner}
    BY <1>1 DEF Restorable
  <1>5. SoundRoom(r) <=> r \in RoomType /\ Restorable(r) /\ on \subseteq M
    BY <1>1 DEF SoundRoom
  <1>6. SoundTeams(T, M) <=>
           /\ T \in [Sides -> Seq(Humans \cup AIs)]
           /\ \A t \in Sides : Len(T[t]) <= MaxTeam
           /\ \A t, u \in Sides : \A i \in DOMAIN T[t], j \in DOMAIN T[u] :
                 T[t][i] = T[u][j] => t = u /\ i = j
           /\ \A t \in Sides : \A i \in DOMAIN T[t] : T[t][i] \in AIs \cup M
    BY <1>3, Zenon DEF SoundTeams
  <1>7. o \in M \cup {NoOwner} /\ M \subseteq Humans => o \in Humans \cup {NoOwner}
    OBVIOUS
  <1>8. on \subseteq M /\ M \subseteq Humans => on \subseteq Humans
    OBVIOUS
  <1> QED
    BY <1>2, <1>4, <1>5, <1>6, <1>7, <1>8, Zenon DEF r

\* A room is the record of its parts, and so is each of its changes.
LEMMA RoomParts ==
    ASSUME NEW r \in RoomType
    PROVE  /\ r = RoomOf(r.owner, r.started, r.teams, r.members, r.online)
           /\ \A x : /\ [r EXCEPT !.owner = x] = RoomOf(x, r.started, r.teams, r.members, r.online)
                     /\ [r EXCEPT !.started = x] = RoomOf(r.owner, x, r.teams, r.members, r.online)
                     /\ [r EXCEPT !.teams = x] = RoomOf(r.owner, r.started, x, r.members, r.online)
                     /\ [r EXCEPT !.online = x] = RoomOf(r.owner, r.started, r.teams, r.members, x)
  BY DEF RoomType, RoomOf

LEMMA RoomFields ==
    ASSUME NEW o, NEW s, NEW T, NEW M, NEW on
    PROVE  LET r == RoomOf(o, s, T, M, on) IN
           r.owner = o /\ r.started = s /\ r.teams = T /\ r.members = M /\ r.online = on
  BY DEF RoomOf

LEMMA SeatedSits ==
    ASSUME NEW r, NEW p PROVE Seated(r, p) <=> Sits(r.teams, p)
  BY DEF Seated, OnTeam, Sits

LEMMA NewRoomSound ==
    ASSUME NEW p \in Humans
    PROVE  SoundRoom(NewRoom(p))
  <1> DEFINE T == [t \in Sides |-> IF t = "A" THEN <<p>> ELSE <<>>]
  <1>1. NewRoom(p) = RoomOf(p, FALSE, T, {p}, {p})
    BY DEF NewRoom, RoomOf
  <1>2. T \in [Sides -> Seq(Humans \cup AIs)]
    BY DEF Sides
  <1>3. T["A"] = <<p>> /\ T["B"] = <<>> /\ Len(<<p>>) = 1 /\ Len(<<>>) = 0
    BY DEF Sides
  <1> HIDE DEF T
  <1>4. \A t \in Sides : Len(T[t]) <= MaxTeam
    <2>1. 1 <= MaxTeam /\ 0 <= MaxTeam
      BY RoomAssumption
    <2> QED
      BY <1>3, <2>1 DEF Sides
  <1>5. \A t \in Sides : \A i \in DOMAIN T[t] : t = "A" /\ i = 1 /\ T[t][i] = p
    BY <1>3 DEF Sides
  <1>6. SoundTeams(T, {p})
    BY <1>2, <1>4, <1>5 DEF SoundTeams, Sits
  <1>7. p \in {p} \cup {NoOwner} /\ FALSE \in BOOLEAN /\ {p} \subseteq Humans /\ {p} \subseteq {p}
    OBVIOUS
  <1>8. SoundRoom(RoomOf(p, FALSE, T, {p}, {p}))
    BY <1>6, <1>7, SoundParts
  <1> QED
    BY <1>1, <1>8

\* Sit, for a player of the room without a seat
LEMMA SitSound ==
    ASSUME NEW r, SoundRoom(r), NEW t \in Sides, HasRoom(r, t),
           NEW p \in Humans \cup AIs, p \in AIs \cup r.members, ~Seated(r, p)
    PROVE  /\ SoundRoom(Sit(r, p, t))
           /\ Sit(r, p, t) = [r EXCEPT !.teams = Sit(r, p, t).teams]
           /\ \A q : Seated(Sit(r, p, t), q) => q = p \/ Seated(r, q)
  <1> DEFINE U == [r.teams EXCEPT ![t] = Append(@, p)]
  <1>1. r \in RoomType /\ r = RoomOf(r.owner, r.started, r.teams, r.members, r.online)
    BY RoomParts DEF SoundRoom
  <1>2. /\ r.owner \in r.members \cup {NoOwner} /\ r.started \in BOOLEAN /\ r.members \subseteq Humans
        /\ r.online \subseteq r.members /\ SoundTeams(r.teams, r.members)
    BY <1>1, SoundParts
  <1>3. SoundTeams(U, r.members) /\ \A q : Sits(U, q) => q = p \/ Sits(r.teams, q)
    BY <1>2, SitTeams, SeatedSits DEF HasRoom
  <1>4. Sit(r, p, t) = [r EXCEPT !.teams = U]
    BY <1>1 DEF Sit, RoomType
  <1>5. Sit(r, p, t) = RoomOf(r.owner, r.started, U, r.members, r.online)
    BY <1>1, <1>4, RoomParts
  <1>6. Sit(r, p, t).teams = U
    BY <1>5, RoomFields
  <1>7. SoundRoom(Sit(r, p, t))
    BY <1>2, <1>3, <1>5, SoundParts
  <1>8. \A q : Seated(Sit(r, p, t), q) => q = p \/ Seated(r, q)
    BY <1>3, <1>6, SeatedSits
  <1> QED
    BY <1>4, <1>6, <1>7, <1>8

\* LeaveTeam: only p's seat is gone, the teams are no larger
LEMMA LeaveSound ==
    ASSUME NEW r, SoundRoom(r), NEW p
    PROVE  /\ SoundRoom(LeaveTeam(r, p))
           /\ LeaveTeam(r, p) = [r EXCEPT !.teams = LeaveTeam(r, p).teams]
           /\ \A q : Seated(LeaveTeam(r, p), q) => q # p /\ Seated(r, q)
           /\ \A t \in Sides : HasRoom(r, t) => HasRoom(LeaveTeam(r, p), t)
  <1> DEFINE P == [t \in Sides |-> Players(r.teams[t]) \ {p}]
             U == [t \in Sides |-> Kept(r.teams[t], P[t])]
  <1>1. r \in RoomType /\ r = RoomOf(r.owner, r.started, r.teams, r.members, r.online)
    BY RoomParts DEF SoundRoom
  <1>2. /\ r.owner \in r.members \cup {NoOwner} /\ r.started \in BOOLEAN /\ r.members \subseteq Humans
        /\ r.online \subseteq r.members /\ SoundTeams(r.teams, r.members)
    BY <1>1, SoundParts
  <1>3. LeaveTeam(r, p) = [r EXCEPT !.teams = U]
    BY DEF LeaveTeam, Without
  <1>4. \A t \in Sides : P[t] = Players(r.teams[t]) \ {p}
    OBVIOUS
  <1> HIDE DEF P
  <1>5. /\ SoundTeams(U, r.members)
        /\ \A t \in Sides : Len(U[t]) <= Len(r.teams[t])
        /\ \A t \in Sides : \A i \in DOMAIN U[t] : U[t][i] \in P[t]
        /\ \A q : Sits(U, q) => Sits(r.teams, q)
    <2>1. SoundTeams(r.teams, r.members) /\ U = [t \in Sides |-> Kept(r.teams[t], P[t])]
      BY <1>2
    <2> HIDE DEF U
    <2> QED
      BY ONLY <2>1, KeptTeams
  <1> HIDE DEF U
  <1>6. LeaveTeam(r, p) = RoomOf(r.owner, r.started, U, r.members, r.online)
    BY <1>1, <1>3, RoomParts
  <1>7. LeaveTeam(r, p).teams = U
    BY <1>6, RoomFields
  <1>8. \A q : Sits(U, q) => q # p
    BY <1>4, <1>5 DEF Sits
  <1>9. \A t \in Sides : HasRoom(r, t) => Len(U[t]) < MaxTeam
    <2> SUFFICES ASSUME NEW t \in Sides, Len(r.teams[t]) < MaxTeam PROVE Len(U[t]) < MaxTeam
      BY DEF HasRoom
    <2>1. Len(U[t]) \in Nat /\ Len(r.teams[t]) \in Nat /\ Len(U[t]) <= Len(r.teams[t])
      BY <1>2, <1>5 DEF SoundTeams
    <2> QED
      BY <2>1, RoomAssumption
  <1>10. SoundRoom(LeaveTeam(r, p))
    BY <1>2, <1>5, <1>6, SoundParts
  <1>11. \A q : Seated(LeaveTeam(r, p), q) => q # p /\ Seated(r, q)
    BY <1>5, <1>7, <1>8, SeatedSits
  <1>12. \A t \in Sides : HasRoom(r, t) => HasRoom(LeaveTeam(r, p), t)
    BY <1>7, <1>9 DEF HasRoom
  <1> QED
    BY <1>3, <1>7, <1>10, <1>11, <1>12

\* Two fields set at once are set one after the other.
LEMMA SetStartedTeams ==
    ASSUME NEW r, NEW S, NEW T
    PROVE  [r EXCEPT !.started = S, !.teams = T]
             = [[r EXCEPT !.started = S] EXCEPT !.teams = T]
  OBVIOUS

LEMMA SetMembersOnline ==
    ASSUME NEW r, NEW M, NEW O
    PROVE  [r EXCEPT !.members = M, !.online = O]
             = [[r EXCEPT !.members = M] EXCEPT !.online = O]
  OBVIOUS

\* The parts of a room that its teams leave alone.
SameButTeams(r, s) ==
    s.owner = r.owner /\ s.started = r.started /\ s.members = r.members /\ s.online = r.online

LEMMA SoundFields ==
    ASSUME NEW r, SoundRoom(r)
    PROVE  /\ r \in RoomType /\ r.owner \in r.members \cup {NoOwner} /\ r.started \in BOOLEAN
           /\ r.members \subseteq Humans /\ r.online \subseteq r.members
           /\ SoundTeams(r.teams, r.members)
           /\ r = RoomOf(r.owner, r.started, r.teams, r.members, r.online)
  BY RoomParts, SoundParts DEF SoundRoom

LEMMA TeamsOnly ==
    ASSUME NEW r \in RoomType, NEW T
    PROVE  SameButTeams(r, [r EXCEPT !.teams = T]) /\ [r EXCEPT !.teams = T].teams = T
  BY DEF RoomType, SameButTeams

\* AddToTeam, for a member of the room
LEMMA AddSound ==
    ASSUME NEW r, SoundRoom(r), NEW p \in r.members, NEW t \in Sides, HasRoom(r, t)
    PROVE  /\ SoundRoom(AddToTeam(r, p, t)) /\ SameButTeams(r, AddToTeam(r, p, t))
           /\ \A q : Seated(AddToTeam(r, p, t), q) => q = p \/ Seated(r, q)
  <1> DEFINE s == LeaveTeam(r, p)
  <1>1. /\ SoundRoom(s) /\ s = [r EXCEPT !.teams = s.teams]
        /\ \A q : Seated(s, q) => q # p /\ Seated(r, q)
        /\ HasRoom(s, t)
    BY LeaveSound
  <1>2. SameButTeams(r, s)
    BY <1>1, TeamsOnly, SoundFields
  <1> HIDE DEF s
  <1>3. p \in Humans \cup AIs /\ p \in AIs \cup s.members /\ ~Seated(s, p)
    BY <1>1, <1>2, SoundFields DEF SameButTeams
  <1>4. /\ SoundRoom(Sit(s, p, t)) /\ Sit(s, p, t) = [s EXCEPT !.teams = Sit(s, p, t).teams]
        /\ \A q : Seated(Sit(s, p, t), q) => q = p \/ Seated(s, q)
    BY <1>1, <1>3, SitSound
  <1>5. SameButTeams(s, Sit(s, p, t))
    BY <1>1, <1>4, TeamsOnly, SoundFields
  <1> QED
    BY <1>1, <1>2, <1>4, <1>5 DEF AddToTeam, SameButTeams, s

LEMMA SitFields ==
    ASSUME NEW r, SoundRoom(r), NEW t \in Sides, HasRoom(r, t),
           NEW p \in Humans \cup AIs, p \in AIs \cup r.members, ~Seated(r, p)
    PROVE  SoundRoom(Sit(r, p, t)) /\ SameButTeams(r, Sit(r, p, t))
  BY SitSound, TeamsOnly, SoundFields

\* AutoSeat, for a member without a seat
LEMMA AutoSeatSound ==
    ASSUME NEW r, SoundRoom(r), NEW p \in r.members, ~Seated(r, p)
    PROVE  /\ SoundRoom(AutoSeat(r, p)) /\ SameButTeams(r, AutoSeat(r, p))
           /\ \A q : Seated(AutoSeat(r, p), q) => q = p \/ Seated(r, q)
  <1>1. p \in Humans \cup AIs /\ p \in AIs \cup r.members
    BY SoundFields
  <1>2. \A t \in Sides : HasRoom(r, t) =>
           /\ SoundRoom(Sit(r, p, t)) /\ SameButTeams(r, Sit(r, p, t))
           /\ \A q : Seated(Sit(r, p, t), q) => q = p \/ Seated(r, q)
    BY <1>1, SitFields, SitSound
  <1>3. \/ \E t \in Sides : HasRoom(r, t) /\ AutoSeat(r, p) = Sit(r, p, t)
        \/ AutoSeat(r, p) = r
    BY DEF AutoSeat, Sides
  <1> QED
    BY <1>2, <1>3 DEF SameButTeams

\* Hosted, with whatever else changes the members and those who are online
LEMMA HostedParts ==
    ASSUME NEW r \in RoomType, NEW p, NEW M, NEW on
    PROVE  [Hosted(r, p) EXCEPT !.members = M, !.online = on]
             = RoomOf(IF r.owner = NoOwner THEN p ELSE r.owner, r.started, r.teams, M, on)
  <1>1. Hosted(r, p) = RoomOf(IF r.owner = NoOwner THEN p ELSE r.owner,
                              r.started, r.teams, r.members, r.online)
    BY RoomParts DEF Hosted
  <1> DEFINE h == Hosted(r, p)
             o == IF r.owner = NoOwner THEN p ELSE r.owner
  <1>2. [h EXCEPT !.members = M, !.online = on] = [[h EXCEPT !.members = M] EXCEPT !.online = on]
    BY SetMembersOnline, Zenon
  <1>3. h = RoomOf(o, r.started, r.teams, r.members, r.online)
    BY <1>1
  <1> HIDE DEF h, o
  <1> DEFINE g == [h EXCEPT !.members = M]
  <1>4. g = RoomOf(o, r.started, r.teams, M, r.online)
    BY <1>3 DEF RoomOf
  <1> HIDE DEF g
  <1>5. [g EXCEPT !.online = on] = RoomOf(o, r.started, r.teams, M, on)
    BY <1>4 DEF RoomOf
  <1> QED
    BY <1>2, <1>5 DEF h, o, g

\* Join
LEMMA JoinSound ==
    ASSUME NEW r, SoundRoom(r), NEW p \in Humans, MayJoin(r, p)
    PROVE  /\ SoundRoom(Join(r, p))
           /\ Join(r, p).owner = IF r.owner = NoOwner THEN p ELSE r.owner
           /\ Join(r, p).started = r.started
           /\ Join(r, p).members = r.members \cup {p}
           /\ Join(r, p).online = r.online \cup {p}
           /\ \A q : Seated(Join(r, p), q) => q = p \/ Seated(r, q)
  <1> DEFINE M == r.members \cup {p}
             on == r.online \cup {p}
             o == IF r.owner = NoOwner THEN p ELSE r.owner
             s == RoomOf(o, r.started, r.teams, M, on)
  <1>1. /\ r \in RoomType /\ r.owner \in r.members \cup {NoOwner} /\ r.started \in BOOLEAN
        /\ r.members \subseteq Humans /\ r.online \subseteq r.members
        /\ SoundTeams(r.teams, r.members)
    BY SoundFields
  <1>2. p \notin AIs /\ p \notin r.members
    BY RoomAssumption DEF MayJoin
  <1>3. ~Seated(r, p)
    BY <1>1, <1>2, SeatedSits DEF SoundTeams
  <1>4. /\ Hosted(r, p).members = r.members /\ Hosted(r, p).online = r.online
    BY <1>1 DEF Hosted, RoomType
  <1>5. Join(r, p) = AutoSeat(s, p)
    <2> DEFINE h == Hosted(r, p)
    <2>1. [h EXCEPT !.members = h.members \cup {p}, !.online = h.online \cup {p}]
            = [h EXCEPT !.members = M, !.online = on]
      BY <1>4
    <2>2. \A A, B : [h EXCEPT !.members = A, !.online = B] = RoomOf(o, r.started, r.teams, A, B)
      BY <1>1, HostedParts, Zenon
    <2> HIDE DEF h
    <2> QED
      BY <2>1, <2>2, Zenon DEF Join, h
  <1>6. SoundTeams(r.teams, M)
    BY <1>1 DEF SoundTeams
  <1>7. o \in M \cup {NoOwner} /\ M \subseteq Humans /\ on \subseteq M /\ p \in M
    BY <1>1
  <1>8. SoundRoom(s)
    BY <1>1, <1>6, <1>7, SoundParts
  <1>9. s.owner = o /\ s.started = r.started /\ s.teams = r.teams /\ s.members = M /\ s.online = on
    BY RoomFields
  <1> HIDE DEF s, o, M, on
  <1>10. p \in s.members /\ ~Seated(s, p) /\ \A q : Seated(s, q) <=> Seated(r, q)
    BY <1>3, <1>7, <1>9, SeatedSits
  <1>11. /\ SoundRoom(AutoSeat(s, p)) /\ SameButTeams(s, AutoSeat(s, p))
         /\ \A q : Seated(AutoSeat(s, p), q) => q = p \/ Seated(s, q)
    BY <1>8, <1>10, AutoSeatSound
  <1> QED
    BY <1>5, <1>9, <1>10, <1>11 DEF SameButTeams, o, M, on

\* Resume and Disconnect
LEMMA ResumeSound ==
    ASSUME NEW r, SoundRoom(r), NEW p \in r.members
    PROVE  /\ SoundRoom(Resume(r, p))
           /\ Resume(r, p).owner = IF r.owner = NoOwner THEN p ELSE r.owner
           /\ Resume(r, p).started = r.started /\ Resume(r, p).teams = r.teams
           /\ Resume(r, p).members = r.members
           /\ Resume(r, p).online = r.online \cup {p}
  <1> DEFINE o == IF r.owner = NoOwner THEN p ELSE r.owner
             on == r.online \cup {p}
  <1>1. /\ r \in RoomType /\ r.owner \in r.members \cup {NoOwner} /\ r.started \in BOOLEAN
        /\ r.members \subseteq Humans /\ r.online \subseteq r.members
        /\ SoundTeams(r.teams, r.members)
    BY SoundFields
  <1>2. Hosted(r, p) = RoomOf(o, r.started, r.teams, r.members, r.online)
    BY <1>1, RoomParts DEF Hosted
  <1>3. Resume(r, p) = RoomOf(o, r.started, r.teams, r.members, on)
    BY <1>2 DEF Resume, RoomOf
  <1>4. o \in r.members \cup {NoOwner} /\ on \subseteq r.members
    BY <1>1
  <1> HIDE DEF o, on
  <1>5. SoundRoom(Resume(r, p))
    BY <1>1, <1>3, <1>4, SoundParts
  <1> QED
    BY <1>3, <1>5, RoomFields DEF o, on

LEMMA DisconnectSound ==
    ASSUME NEW r, SoundRoom(r), NEW p
    PROVE  /\ SoundRoom(Disconnect(r, p))
           /\ Disconnect(r, p).owner = r.owner /\ Disconnect(r, p).started = r.started
           /\ Disconnect(r, p).teams = r.teams /\ Disconnect(r, p).members = r.members
           /\ Disconnect(r, p).online = r.online \ {p}
  <1> DEFINE on == r.online \ {p}
  <1>1. /\ r \in RoomType /\ r.owner \in r.members \cup {NoOwner} /\ r.started \in BOOLEAN
        /\ r.members \subseteq Humans /\ on \subseteq r.members
        /\ SoundTeams(r.teams, r.members)
    BY SoundFields
  <1>2. Disconnect(r, p) = RoomOf(r.owner, r.started, r.teams, r.members, on)
    BY <1>1, RoomParts DEF Disconnect
  <1> HIDE DEF on
  <1>3. SoundRoom(Disconnect(r, p))
    BY <1>1, <1>2, SoundParts
  <1> QED
    BY <1>2, <1>3, RoomFields DEF on

\* The role of the host goes to somebody who is there, and to nobody only if
\* the room is empty.
LEMMA HeirsPresent ==
    ASSUME NEW r, SoundRoom(r), NEW h \in Heirs(r)
    PROVE  h \in r.online \/ (h = NoOwner /\ r.online = {})
  <1> DEFINE all == r.teams["A"] \o r.teams["B"]
             seated == Kept(all, r.online)
  <1>1. all \in Seq(Humans \cup AIs)
    BY SoundFields, ConcatProperties DEF SoundTeams, Sides
  <1>2. /\ seated \in Seq(Humans \cup AIs)
        /\ \A n \in DOMAIN seated : seated[n] \in r.online
    <2> HIDE DEF all
    <2> QED
      BY <1>1, KeptPlaces
  <1>3. Heirs(r) = IF seated # <<>> THEN {Head(seated)}
                   ELSE IF r.online # {} THEN r.online ELSE {NoOwner}
    BY DEF Heirs
  <1> HIDE DEF seated
  <1>4. seated # <<>> => Head(seated) = seated[1] /\ 1 \in DOMAIN seated
    BY <1>2
  <1> QED
    BY <1>2, <1>3, <1>4

\* Release: the seat of an absent player is freed in a lobby, and their role
\* handed on; a player who came back loses nothing.
LEMMA ReleaseSound ==
    ASSUME NEW r, SoundRoom(r), NEW p \in Humans, NEW s \in Releases(r, p)
    PROVE  /\ SoundRoom(s) /\ s.started = r.started /\ s.members = r.members /\ s.online = r.online
           /\ s.started => s.teams = r.teams
           /\ \A q : Seated(s, q) => Seated(r, q)
           /\ p \notin r.online /\ ~r.started => ~Seated(s, p)
           /\ p \notin r.online => s.owner # p
           /\ s.owner = r.owner \/ s.owner \in r.online \/ (s.owner = NoOwner /\ r.online = {})
  <1> DEFINE f == Freed(r, p)
  <1>0. \A q : SameButTeams(r, q) <=>
                  q.owner = r.owner /\ q.started = r.started /\ q.members = r.members /\ q.online = r.online
    BY DEF SameButTeams
  <1>1. /\ SoundRoom(f) /\ SameButTeams(r, f) /\ (r.started => f.teams = r.teams)
        /\ \A q : Seated(f, q) => Seated(r, q)
        /\ ~r.started => ~Seated(f, p)
    <2>1. CASE r.started
      BY <2>1 DEF Freed, SameButTeams
    <2>2. CASE ~r.started
      BY <2>2, LeaveSound, TeamsOnly, SoundFields DEF Freed
    <2> QED
      BY <2>1, <2>2
  <1> HIDE DEF f
  <1>2. CASE s = r /\ p \in r.online
    BY <1>2
  <1>3. CASE s = f /\ r.owner # p
    BY <1>1, <1>3 DEF SameButTeams
  <1>4. ASSUME NEW h \in Heirs(f), s = [f EXCEPT !.owner = h], p \notin r.online
        PROVE  /\ SoundRoom(s) /\ s.started = r.started /\ s.members = r.members /\ s.online = r.online
               /\ s.teams = f.teams /\ s.owner = h
               /\ h # p /\ (h \in r.online \/ (h = NoOwner /\ r.online = {}))
    <2>1. h \in f.online \/ (h = NoOwner /\ f.online = {})
      BY <1>1, HeirsPresent
    <2>2. /\ f \in RoomType /\ f.started \in BOOLEAN /\ f.members \subseteq Humans
          /\ f.online \subseteq f.members /\ SoundTeams(f.teams, f.members)
      BY <1>1, SoundFields
    <2>3. s = RoomOf(h, f.started, f.teams, f.members, f.online)
      BY <1>4, <2>2, RoomParts
    <2>4. h \in f.members \cup {NoOwner}
      BY <2>1, <2>2
    <2>5. SoundRoom(s)
      BY <2>2, <2>3, <2>4, SoundParts
    <2>6. h # p
      BY <1>0, <1>1, <1>4, <2>1, RoomAssumption
    <2> QED
      BY <1>0, <1>1, <2>1, <2>3, <2>5, <2>6, RoomFields
  <1>5. \/ s = r /\ p \in r.online
        \/ s = f /\ r.owner # p
        \/ p \notin r.online /\ \E h \in Heirs(f) : s = [f EXCEPT !.owner = h]
    BY DEF Releases, f
  <1>6. CASE p \notin r.online /\ \E h \in Heirs(f) : s = [f EXCEPT !.owner = h]
    BY <1>1, <1>4, <1>6, SeatedSits
  <1> QED
    BY <1>2, <1>3, <1>5, <1>6

\* RemoveAI
LEMMA RemoveSound ==
    ASSUME NEW r, SoundRoom(r), NEW t \in Sides, NEW i \in DOMAIN r.teams[t]
    PROVE  LET s == [r EXCEPT !.teams[t] = RemoveAt(@, i)] IN
           /\ SoundRoom(s) /\ SameButTeams(r, s)
           /\ \A q : Seated(s, q) => Seated(r, q)
  <1> DEFINE U == [r.teams EXCEPT ![t] = RemoveAt(@, i)]
             s == [r EXCEPT !.teams[t] = RemoveAt(@, i)]
  <1>1. /\ r \in RoomType /\ r.owner \in r.members \cup {NoOwner} /\ r.started \in BOOLEAN
        /\ r.members \subseteq Humans /\ r.online \subseteq r.members
        /\ SoundTeams(r.teams, r.members)
    BY SoundFields
  <1>2. SoundTeams(U, r.members) /\ \A q : Sits(U, q) => Sits(r.teams, q)
    BY <1>1, RemoveTeams
  <1>3. s = [r EXCEPT !.teams = U]
    BY <1>1 DEF RoomType
  <1> HIDE DEF U, s
  <1>4. s = RoomOf(r.owner, r.started, U, r.members, r.online)
    BY <1>1, <1>3, RoomParts
  <1>5. SoundRoom(s)
    BY <1>1, <1>2, <1>4, SoundParts
  <1>6. SameButTeams(r, s) /\ s.teams = U
    BY <1>4, RoomFields DEF SameButTeams
  <1>7. \A q : Seated(s, q) => Seated(r, q)
    BY <1>2, <1>6, SeatedSits
  <1> QED
    BY <1>5, <1>6, <1>7 DEF s

\* BeginGame and AbortStart
LEMMA StartedSound ==
    ASSUME NEW r, SoundRoom(r), NEW S \in BOOLEAN
    PROVE  LET s == [r EXCEPT !.started = S] IN
           /\ SoundRoom(s) /\ s.started = S
           /\ s.owner = r.owner /\ s.teams = r.teams /\ s.members = r.members /\ s.online = r.online
  <1> DEFINE s == [r EXCEPT !.started = S]
  <1>1. /\ r \in RoomType /\ r.owner \in r.members \cup {NoOwner}
        /\ r.members \subseteq Humans /\ r.online \subseteq r.members
        /\ SoundTeams(r.teams, r.members)
    BY SoundFields
  <1>2. s = RoomOf(r.owner, S, r.teams, r.members, r.online)
    BY <1>1, RoomParts
  <1> HIDE DEF s
  <1> QED
    BY <1>1, <1>2, SoundParts, RoomFields DEF s

\* Reopen: whoever has a seat afterwards is there, or an AI player
LEMMA ReopenSound ==
    ASSUME NEW r, SoundRoom(r)
    PROVE  /\ SoundRoom(Reopen(r)) /\ ~Reopen(r).started
           /\ Reopen(r).owner = r.owner /\ Reopen(r).members = r.members
           /\ Reopen(r).online = r.online
           /\ \A q : Seated(Reopen(r), q) => q \in AIs \cup r.online
  <1> DEFINE P == [t \in Sides |-> AIs \cup r.online]
             U == [t \in Sides |-> Kept(r.teams[t], P[t])]
             a == [r EXCEPT !.started = FALSE]
  <1>1. SoundRoom(a) /\ a.started = FALSE
        /\ a.owner = r.owner /\ a.teams = r.teams /\ a.members = r.members /\ a.online = r.online
    BY StartedSound
  <1>2. Reopen(r) = [r EXCEPT !.started = FALSE, !.teams = U]
    BY DEF Reopen
  <1>3. [r EXCEPT !.started = FALSE, !.teams = U] = [a EXCEPT !.teams = U]
    BY SetStartedTeams, Zenon
  <1>4. \A t \in Sides : P[t] = AIs \cup r.online
    OBVIOUS
  <1> HIDE DEF a, P
  <1>5. /\ a \in RoomType /\ a.owner \in a.members \cup {NoOwner} /\ a.started \in BOOLEAN
        /\ a.members \subseteq Humans /\ a.online \subseteq a.members
        /\ SoundTeams(a.teams, a.members)
    BY <1>1, SoundFields
  <1>6. /\ SoundTeams(U, a.members)
        /\ \A t \in Sides : \A i \in DOMAIN U[t] : U[t][i] \in P[t]
    <2>1. SoundTeams(a.teams, a.members) /\ U = [t \in Sides |-> Kept(a.teams[t], P[t])]
      BY <1>1, <1>5
    <2> HIDE DEF U
    <2> QED
      BY ONLY <2>1, KeptTeams
  <1> HIDE DEF U
  <1>7. Reopen(r) = RoomOf(a.owner, a.started, U, a.members, a.online)
    BY <1>2, <1>3, <1>5, RoomParts
  <1>8. SoundRoom(Reopen(r))
    BY <1>5, <1>6, <1>7, SoundParts
  <1>9. \A q : Sits(U, q) => q \in AIs \cup r.online
    BY <1>4, <1>6 DEF Sits
  <1> QED
    BY <1>1, <1>7, <1>8, <1>9, RoomFields, SeatedSits

\* What is stored of a room is accepted as the room is, and gives it back with
\* nobody online.
LEMMA SavedSound ==
    ASSUME NEW r, SoundRoom(r)
    PROVE  /\ SavedState(r) \in StateType /\ Restorable(SavedState(r))
           /\ SavedState(r).owner = r.owner /\ SavedState(r).started = r.started
           /\ SavedState(r).teams = r.teams /\ SavedState(r).members = r.members
  BY DEF SavedState, SoundRoom, RoomType, StateType, Restorable

LEMMA RestoredSound ==
    ASSUME NEW s \in StateType, Restorable(s)
    PROVE  /\ SoundRoom(Restored(s)) /\ SavedState(Restored(s)) = s
           /\ Restored(s).owner = s.owner /\ Restored(s).started = s.started
           /\ Restored(s).teams = s.teams /\ Restored(s).members = s.members
           /\ Restored(s).online = {}
  <1>1. /\ Restored(s).owner = s.owner /\ Restored(s).started = s.started
        /\ Restored(s).teams = s.teams /\ Restored(s).members = s.members
        /\ Restored(s).online = {}
    BY DEF Restored
  <1>2. Restored(s) \in RoomType
    BY DEF Restored, StateType, RoomType
  <1>3. Restorable(Restored(s))
    BY <1>1 DEF Restorable
  <1>4. SavedState(Restored(s)) = s
    BY <1>1 DEF SavedState, StateType
  <1> QED
    BY <1>1, <1>2, <1>3, <1>4 DEF SoundRoom

-----------------------------------------------------------------------------
\* The handler: module Lobby

\* A record with the fields of a room: what is in them matters to no proof here.
Shaped(r) == r = [owner |-> r.owner, started |-> r.started, teams |-> r.teams,
                  members |-> r.members, online |-> r.online]

\* r1 is a room with the same players online as in r0
Keeps(r0, r1) == Shaped(r1) /\ r1.online = r0.online

RowShaped == stored = [open |-> stored.open, room |-> stored.room, game |-> stored.game]

LEMMA KeepsSit == ASSUME NEW r, Shaped(r), NEW p, NEW t PROVE Keeps(r, Sit(r, p, t))
  BY DEF Shaped, Keeps, Sit

LEMMA KeepsLeave == ASSUME NEW r, Shaped(r), NEW p PROVE Keeps(r, LeaveTeam(r, p))
  BY DEF Shaped, Keeps, LeaveTeam

LEMMA KeepsAdd == ASSUME NEW r, Shaped(r), NEW p, NEW t PROVE Keeps(r, AddToTeam(r, p, t))
  BY KeepsLeave, KeepsSit DEF Keeps, AddToTeam

LEMMA KeepsSeat == ASSUME NEW r, Shaped(r), NEW p PROVE Keeps(r, AutoSeat(r, p))
  BY KeepsSit DEF Keeps, AutoSeat

LEMMA KeepsHosted == ASSUME NEW r, Shaped(r), NEW p PROVE Keeps(r, Hosted(r, p))
  BY DEF Shaped, Keeps, Hosted

LEMMA KeepsStarted ==
    ASSUME NEW r, Shaped(r)
    PROVE  Keeps(r, BeginGame(r)) /\ Keeps(r, AbortStart(r)) /\ Keeps(r, Reopen(r))
  <1>a. ASSUME NEW S PROVE Keeps(r, [r EXCEPT !.started = S])
    BY DEF Shaped, Keeps
  <1>b. ASSUME NEW q, Shaped(q), NEW T PROVE Keeps(q, [q EXCEPT !.teams = T])
    BY <1>b DEF Shaped, Keeps
  <1>1. ASSUME NEW S, NEW T PROVE Keeps(r, [r EXCEPT !.started = S, !.teams = T])
    <2>1. [r EXCEPT !.started = S, !.teams = T] = [[r EXCEPT !.started = S] EXCEPT !.teams = T]
      BY SetStartedTeams
    <2> DEFINE q == [r EXCEPT !.started = S]
    <2>2. Keeps(r, q)
      BY <1>a
    <2> HIDE DEF q
    <2>3. Keeps(q, [q EXCEPT !.teams = T])
      BY <1>b, <2>2 DEF Keeps
    <2>4. Keeps(r, [q EXCEPT !.teams = T])
      BY ONLY <2>2, <2>3 DEF Keeps
    <2> QED
      BY <2>1, <2>4 DEF q
  <1>2. Keeps(r, Reopen(r))
    BY <1>1, Zenon DEF Reopen
  <1>3. Keeps(r, BeginGame(r)) /\ Keeps(r, AbortStart(r))
    BY <1>a, Zenon DEF BeginGame, AbortStart
  <1> QED
    BY <1>2, <1>3

LEMMA KeepsRemoved ==
    ASSUME NEW r, Shaped(r), NEW t, NEW i
    PROVE  Keeps(r, [r EXCEPT !.teams[t] = RemoveAt(@, i)])
  BY DEF Shaped, Keeps

\* A release changes seats and the host, never who is online.
LEMMA KeepsRelease ==
    ASSUME NEW r, Shaped(r), NEW p, NEW s \in Releases(r, p)
    PROVE  Keeps(r, s)
  <1>1. Keeps(r, Freed(r, p))
    BY KeepsLeave DEF Freed, Keeps
  <1>2. \A h : Keeps(r, [Freed(r, p) EXCEPT !.owner = h])
    BY <1>1 DEF Keeps, Shaped
  <1> QED
    BY <1>1, <1>2 DEF Releases, Keeps

LEMMA JoinOnline ==
    ASSUME NEW r, Shaped(r), NEW p
    PROVE  Shaped(Join(r, p)) /\ Join(r, p).online = r.online \cup {p}
  <1> DEFINE s == [Hosted(r, p) EXCEPT !.members = @ \cup {p}, !.online = @ \cup {p}]
  <1>a. Keeps(r, Hosted(r, p))
    BY KeepsHosted
  <1> DEFINE h == Hosted(r, p)
             O1 == h.online \cup {p}
             M1 == h.members \cup {p}
  <1>b. s = [[h EXCEPT !.members = M1] EXCEPT !.online = O1]
    BY SetMembersOnline, Zenon
  <1>c. \A q, M : Shaped(q) => Keeps(q, [q EXCEPT !.members = M])
    BY DEF Shaped, Keeps
  <1>d. \A q, O : Shaped(q) => Shaped([q EXCEPT !.online = O]) /\ [q EXCEPT !.online = O].online = O
    BY DEF Shaped
  <1>1. Shaped(s) /\ s.online = r.online \cup {p}
    <2> HIDE DEF s, h
    <2>1. Shaped([h EXCEPT !.members = M1])
      BY <1>a, <1>c DEF Keeps, h
    <2> HIDE DEF M1, O1
    <2>2. Shaped(s) /\ s.online = O1
      BY <2>1, <1>b, <1>d
    <2> QED
      BY <2>2, <1>a DEF O1, h, Keeps
  <1> HIDE DEF s
  <1>2. Keeps(s, AutoSeat(s, p))
    BY <1>1, KeepsSeat
  <1> QED
    BY <1>1, <1>2 DEF Join, Keeps, s

LEMMA ComeAndGo ==
    ASSUME NEW r, Shaped(r), NEW p
    PROVE  /\ Shaped(Resume(r, p)) /\ Resume(r, p).online = r.online \cup {p}
           /\ Shaped(Disconnect(r, p)) /\ Disconnect(r, p).online = r.online \ {p}
  BY KeepsHosted DEF Keeps, Shaped, Resume, Disconnect

(***************************************************************************)
(* What h.stored says was written                                          *)
(***************************************************************************)

\* A write of the room leaves h.stored and the row equal, or both as they were.
LEMMA SaveRoomAgrees ==
    ASSUME NEW old, NEW r, SaveRoom(old, r), RowShaped,
           old # NoState => stored.open /\ stored.room = old
    PROVE  RowShaped' /\ CacheIsStored'
  BY DEF SaveRoom, RowShaped, CacheIsStored, Fails

\* A write of the game touches neither.
LEMMA SaveGameAgrees ==
    ASSUME NEW g, SaveGame(g), RowShaped, CacheIsStored
    PROVE  RowShaped' /\ CacheIsStored'
  BY DEF SaveGame, RowShaped, CacheIsStored, Fails

LEMMA CloseAgrees ==
    ASSUME CloseStored, RowShaped
    PROVE  RowShaped' /\ CacheIsStored'
  BY DEF CloseStored, RowShaped, CacheIsStored, Fails

LEMMA CacheInit == Init => RowShaped /\ CacheIsStored
  BY DEF Init, RowShaped, CacheIsStored

LEMMA CacheNext == RowShaped /\ CacheIsStored /\ [Next]_vars => (RowShaped /\ CacheIsStored)'
  <1> SUFFICES ASSUME RowShaped, CacheIsStored, [Next]_vars
               PROVE  RowShaped' /\ CacheIsStored'
    OBVIOUS
  <1>a. \A r : SaveRoom(cache, r) => RowShaped' /\ CacheIsStored'
    BY SaveRoomAgrees DEF CacheIsStored
  <1>b. \A g : SaveGame(g) => RowShaped' /\ CacheIsStored'
    BY SaveGameAgrees
  <1>c. UNCHANGED storeVars => RowShaped' /\ CacheIsStored'
    BY DEF storeVars, RowShaped, CacheIsStored
  <1>1. ASSUME NEW p \in Humans, NEW c \in Conns, Create(p, c)
        PROVE  RowShaped' /\ CacheIsStored'
    BY <1>1 DEF Create, Fails, RowShaped, CacheIsStored
  <1>2. ASSUME NEW p \in Humans, NEW c \in Conns,
               JoinRoom(p, c) \/ ResumeRoom(p, c) \/ Leave(p, c)
        PROVE  RowShaped' /\ CacheIsStored'
    BY <1>2, <1>a, <1>c DEF JoinRoom, ResumeRoom, Leave
  <1>3. ASSUME NEW p \in Humans, NEW t \in Sides,
               SelectTeam(p, t) \/ AddAI(p, t) \/ RemoveAI(p, t)
        PROVE  RowShaped' /\ CacheIsStored'
    BY <1>3, <1>a DEF SelectTeam, AddAI, RemoveAI, Changed
  <1>4. ASSUME NEW p \in Humans,
               QuitTeam(p) \/ StartGame(p) \/ ReopenRoom(p) \/ ReleaseSeat(p)
        PROVE  RowShaped' /\ CacheIsStored'
    BY <1>4, <1>a, <1>b, <1>c DEF QuitTeam, StartGame, FirstSave, ReopenRoom, ReleaseSeat, Changed
  <1>5. ASSUME NEW k \in Keys, Fire(k) \/ FireLoose(k)
        PROVE  RowShaped' /\ CacheIsStored'
    BY <1>5, <1>c DEF Fire, FireLoose
  <1>6. ASSUME SaveStarted \/ PlayOn \/ ForgetGame
        PROVE  RowShaped' /\ CacheIsStored'
    BY <1>6, <1>a, <1>b DEF SaveStarted, PlayOn, ForgetGame
  <1>7. CASE ExpireRoom
    BY <1>7, <1>c, CloseAgrees DEF ExpireRoom
  <1>8. CASE Crash
    BY <1>8 DEF Crash, RowShaped, CacheIsStored
  <1>9. CASE Restart
    <2>1. CASE stored.open /\ Restorable(stored.room) /\ Playable(stored)
      BY <1>9, <2>1 DEF Restart, RowShaped, CacheIsStored
    <2>2. CASE stored.open /\ Restorable(stored.room) /\ ~Playable(stored)
      BY <1>9, <2>2, SaveRoomAgrees DEF Restart
    <2>3. CASE ~(stored.open /\ Restorable(stored.room))
      BY <1>9, <2>3, <1>c, CloseAgrees DEF Restart
    <2> QED
      BY <2>1, <2>2, <2>3
  <1>10. CASE UNCHANGED vars
    BY <1>10, <1>c DEF vars
  <1> QED
    BY <1>1, <1>2, <1>3, <1>4, <1>5, <1>6, <1>7, <1>8, <1>9, <1>10 DEF Next

\* Whatever writes failed, and whenever the process was killed: what the handler
\* takes for written is what the row holds, so that the next change of the room
\* makes up for a write that was lost.
THEOREM LobbyCacheIsStored == Spec => []CacheIsStored
  BY CacheInit, CacheNext, PTL DEF Spec

(***************************************************************************)
(* Who is online                                                           *)
(***************************************************************************)

\* Besides the property: a room in memory is a record, active is a function,
\* and nobody speaks for a player before there is a room or while the process
\* is down.
Connected ==
    /\ active \in [Humans -> Conns \cup {NoConn}]
    /\ Live => Shaped(room)
    /\ at \in {"empty", "down"} => active = [p \in Humans |-> NoConn]
    /\ OnlineIsConnected

LEMMA ConnectedInit == Init => Connected
  BY DEF Init, Connected, OnlineIsConnected, Live

\* Steps that leave the clients and those who are online alone.
LEMMA ConnectedKept ==
    ASSUME Connected, Live, Live', Keeps(room, room'), UNCHANGED clientVars
    PROVE  Connected'
  BY DEF Connected, Keeps, OnlineIsConnected, clientVars, Live

\* A client that comes: only its own player goes online.
LEMMA ConnectedAttach ==
    ASSUME Connected, Live, Live', NEW p \in Humans, NEW c \in Conns, Attach(p, c),
           Shaped(room'), room'.online = room.online \cup {p}
    PROVE  Connected'
  <1>1. active' = [active EXCEPT ![p] = c] /\ open' = open \cup {<<p, c>>}
    BY DEF Attach
  <1>2. active' \in [Humans -> Conns \cup {NoConn}] /\ c # NoConn
    BY <1>1, LobbyAssumption DEF Connected
  <1>3. \A q \in Humans : /\ q \in room'.online <=> active'[q] # NoConn
                          /\ active'[q] # NoConn => <<q, active'[q]>> \in open'
    BY <1>1, <1>2 DEF Connected, OnlineIsConnected
  <1> QED
    BY <1>2, <1>3 DEF Connected, OnlineIsConnected, Live

\* A client that goes: its player goes offline if it still speaks for them, and
\* no other player's client is closed with it.
LEMMA ConnectedLeave ==
    ASSUME Connected, NEW p \in Humans, NEW c \in Conns, Leave(p, c)
    PROVE  Connected'
  <1>0. Live /\ Live' /\ at' = at /\ open' = open \ {<<p, c>>}
    BY DEF Leave, Live
  <1>1. CASE active[p] = c
    <2>1. active' = [active EXCEPT ![p] = NoConn] /\ room' = Disconnect(room, p)
      BY <1>1 DEF Leave, Speaks
    <2>2. Shaped(room') /\ room'.online = room.online \ {p}
      BY <1>0, <2>1, ComeAndGo DEF Connected
    <2>3. active' \in [Humans -> Conns \cup {NoConn}]
      BY <2>1 DEF Connected
    <2>4. \A q \in Humans : /\ q \in room'.online <=> active'[q] # NoConn
                            /\ active'[q] # NoConn => <<q, active'[q]>> \in open'
      BY <1>0, <2>1, <2>2 DEF Connected, OnlineIsConnected
    <2> QED
      BY <1>0, <2>2, <2>3, <2>4 DEF Connected, OnlineIsConnected, Live
  <1>2. CASE active[p] # c
    <2>1. active' = active /\ room' = room
      BY <1>2 DEF Leave, Speaks
    <2> QED
      BY <1>0, <1>2, <2>1 DEF Connected, OnlineIsConnected, Live
  <1> QED
    BY <1>1, <1>2

LEMMA ConnectedNext == Connected /\ [Next]_vars => Connected'
  <1> SUFFICES ASSUME Connected, [Next]_vars PROVE Connected'
    OBVIOUS
  <1>s. Live => Shaped(room)
    BY DEF Connected
  <1>1. ASSUME NEW p \in Humans, NEW c \in Conns, Create(p, c) PROVE Connected'
    <2>1. /\ active = [q \in Humans |-> NoConn] /\ active' = [active EXCEPT ![p] = c]
          /\ open' = open \cup {<<p, c>>} /\ at' = "idle"
      BY <1>1 DEF Create, Attach, Connected
    <2>2. Shaped(room') /\ room'.online = {p}
      BY <1>1 DEF Create, NewRoom, Shaped
    <2>3. active' \in [Humans -> Conns \cup {NoConn}] /\ c # NoConn
      BY <2>1, LobbyAssumption
    <2> QED
      BY <2>1, <2>2, <2>3 DEF Connected, OnlineIsConnected, Live
  <1>2. ASSUME NEW p \in Humans, NEW c \in Conns, JoinRoom(p, c) PROVE Connected'
    BY <1>2, <1>s, JoinOnline, ConnectedAttach DEF JoinRoom, Live
  <1>3. ASSUME NEW p \in Humans, NEW c \in Conns, ResumeRoom(p, c) PROVE Connected'
    BY <1>3, <1>s, ComeAndGo, ConnectedAttach DEF ResumeRoom, Live
  <1>4. ASSUME NEW p \in Humans, NEW c \in Conns, Leave(p, c) PROVE Connected'
    BY <1>4, ConnectedLeave
  <1>k. Live /\ Live' /\ Keeps(room, room') /\ UNCHANGED clientVars => Connected'
    BY ConnectedKept
  <1>5. ASSUME NEW p \in Humans, NEW t \in Sides, SelectTeam(p, t) PROVE Connected'
    BY <1>5, <1>s, <1>k, KeepsAdd DEF SelectTeam, Speaking, Changed, Keeps, Live
  <1>6. ASSUME NEW p \in Humans, NEW t \in Sides, AddAI(p, t) PROVE Connected'
    BY <1>6, <1>s, <1>k, KeepsSit DEF AddAI, IsHost, Speaking, Changed, Live
  <1>7. ASSUME NEW p \in Humans, NEW t \in Sides, RemoveAI(p, t) PROVE Connected'
    BY <1>7, <1>s, <1>k, KeepsRemoved DEF RemoveAI, IsHost, Speaking, Changed, Live
  <1>8. ASSUME NEW p \in Humans, QuitTeam(p) PROVE Connected'
    BY <1>8, <1>s, <1>k, KeepsLeave DEF QuitTeam, Speaking, Changed, Live
  <1>9. ASSUME NEW p \in Humans, StartGame(p) PROVE Connected'
    BY <1>9, <1>s, <1>k, KeepsStarted DEF StartGame, IsHost, Speaking, Live
  <1>10. ASSUME NEW p \in Humans, ReopenRoom(p) PROVE Connected'
    BY <1>10, <1>s, <1>k, KeepsStarted DEF ReopenRoom, Speaking, Changed, Keeps, Live
  <1>11. ASSUME NEW p \in Humans, ReleaseSeat(p) PROVE Connected'
    BY <1>11, <1>s, <1>k, KeepsRelease DEF ReleaseSeat, Live
  <1>12. ASSUME NEW k \in Keys, Fire(k) \/ FireLoose(k) PROVE Connected'
    BY <1>12 DEF Fire, FireLoose, clientVars, Connected, OnlineIsConnected, Live
  <1>13. ASSUME SaveStarted \/ PlayOn \/ ForgetGame PROVE Connected'
    BY <1>13 DEF SaveStarted, PlayOn, ForgetGame, clientVars, Connected, OnlineIsConnected, Live
  <1>14. CASE ExpireRoom
    BY <1>14 DEF ExpireRoom, clientVars, Connected, OnlineIsConnected, Live
  <1>15. CASE Crash
    BY <1>15 DEF Crash, Connected, OnlineIsConnected, Live
  <1>16. CASE Restart
    <2>1. /\ active = [p \in Humans |-> NoConn] /\ active' = active
          /\ at' \in {"idle", "forgetting", "gone"}
      BY <1>16 DEF Restart, clientVars, Connected
    <2>2. Shaped(Restored(stored.room)) /\ Restored(stored.room).online = {}
      BY DEF Restored, Shaped
    <2>3. at' # "gone" => Shaped(room') /\ room'.online = {}
      BY <1>16, <2>2, KeepsStarted DEF Restart, Keeps
    <2> QED
      BY <2>1, <2>3 DEF Connected, OnlineIsConnected, Live
  <1>17. CASE UNCHANGED vars
    BY <1>17 DEF vars, clientVars, Connected, OnlineIsConnected, Live
  <1> QED
    BY <1>1, <1>2, <1>3, <1>4, <1>5, <1>6, <1>7, <1>8, <1>9, <1>10, <1>11,
       <1>12, <1>13, <1>14, <1>15, <1>16, <1>17 DEF Next

\* A player is online exactly while the last client that spoke for them is
\* there, however clients replace each other and whatever order they close in.
THEOREM LobbyOnlineIsConnected == Spec => []OnlineIsConnected
  <1>1. Connected => OnlineIsConnected
    BY DEF Connected
  <1> QED
    BY <1>1, ConnectedInit, ConnectedNext, PTL DEF Spec

\* Of all steps in a room that goes on, only the leaving of a player's present
\* client makes those online fewer.
LEMMA OnlyLastNext ==
    Connected /\ [Next]_vars =>
        \A p \in Humans : Live /\ Live' /\ p \in room.online /\ p \notin room'.online
                             => <<p, active[p]>> \notin open'
  <1> DEFINE Harmless ==
                \A p \in Humans : Live /\ Live' /\ p \in room.online /\ p \notin room'.online
                                     => <<p, active[p]>> \notin open'
  <1> SUFFICES ASSUME Connected, [Next]_vars, Live, Live' PROVE Harmless
    OBVIOUS
  <1>s. Shaped(room)
    BY DEF Connected
  <1>n. room.online \subseteq room'.online => Harmless
    OBVIOUS
  <1>1. ASSUME NEW q \in Humans, NEW c \in Conns, Leave(q, c) PROVE Harmless
    <2>1. CASE active[q] = c
      <3>1. room'.online = room.online \ {q}
        BY <1>1, <2>1, <1>s, ComeAndGo DEF Leave, Speaks
      <3>2. <<q, active[q]>> \notin open'
        BY <1>1, <2>1 DEF Leave
      <3> QED
        BY <3>1, <3>2
    <2>2. CASE active[q] # c
      BY <1>1, <2>2, <1>n DEF Leave, Speaks
    <2> QED
      BY <2>1, <2>2
  <1>2. ASSUME NEW q \in Humans, NEW c \in Conns,
               Create(q, c) \/ JoinRoom(q, c) \/ ResumeRoom(q, c)
        PROVE  room.online \subseteq room'.online
    BY <1>2, <1>s, JoinOnline, ComeAndGo DEF Create, JoinRoom, ResumeRoom, Live
  <1>3. ASSUME NEW q \in Humans, NEW t \in Sides,
               SelectTeam(q, t) \/ AddAI(q, t) \/ RemoveAI(q, t)
        PROVE  room.online \subseteq room'.online
    <2>1. CASE SelectTeam(q, t)
      BY <2>1, <1>s, KeepsAdd DEF SelectTeam, Changed, Keeps
    <2>2. CASE AddAI(q, t)
      BY <2>2, <1>s, KeepsSit DEF AddAI, Changed, Keeps
    <2>3. CASE RemoveAI(q, t)
      BY <2>3, <1>s, KeepsRemoved DEF RemoveAI, Changed, Keeps
    <2> QED
      BY <1>3, <2>1, <2>2, <2>3
  <1>4. ASSUME NEW q \in Humans,
               QuitTeam(q) \/ StartGame(q) \/ ReopenRoom(q) \/ ReleaseSeat(q)
        PROVE  room.online \subseteq room'.online
    <2>1. CASE QuitTeam(q)
      BY <2>1, <1>s, KeepsLeave DEF QuitTeam, Changed, Keeps
    <2>2. CASE StartGame(q)
      BY <2>2, <1>s, KeepsStarted DEF StartGame, Keeps
    <2>3. CASE ReopenRoom(q)
      BY <2>3, <1>s, KeepsStarted DEF ReopenRoom, Changed, Keeps
    <2>4. CASE ReleaseSeat(q)
      BY <2>4, <1>s, KeepsRelease DEF ReleaseSeat, Keeps
    <2> QED
      BY <1>4, <2>1, <2>2, <2>3, <2>4
  <1>5. CASE room' = room
    BY <1>5
  <1>6. ~Crash /\ ~Restart
    BY DEF Crash, Restart, Live
  <1>7. ExpireRoom => room' = room
    BY DEF ExpireRoom, Live
  <1> QED
    BY <1>n, <1>1, <1>2, <1>3, <1>4, <1>5, <1>6, <1>7
    DEF Next, Fire, FireLoose, SaveStarted, PlayOn, ForgetGame, vars

\* In a room that goes on nobody is taken offline but by the leaving of the last
\* client that spoke for them: the late report of a client that was replaced,
\* timers and other players' messages cannot do it.
THEOREM LobbyOnlyTheLastLeaves == Spec => OnlyTheLastLeaves
  BY ConnectedInit, ConnectedNext, OnlyLastNext, PTL DEF Spec, OnlyTheLastLeaves

(***************************************************************************)
(* A room without anybody in it                                            *)
(***************************************************************************)

\* Besides the property: the maps of timers have an entry for every key.
Timed ==
    /\ entry \in [Keys -> {"none", "armed", "fired"}]
    /\ loose \in [Keys -> Nat] /\ due \in [Keys -> Nat]
    /\ EmptyRoomExpires

LEMMA TimedInit == Init => Timed
  BY DEF Init, Timed, EmptyRoomExpires, Live

\* Steps that leave the timers and those who are online alone.
LEMMA TimedKept ==
    ASSUME Timed, Live, Keeps(room, room'), UNCHANGED timerVars
    PROVE  Timed'
  BY DEF Timed, Keeps, EmptyRoomExpires, Pending, timerVars

\* A client that comes stops the timer, and the room is not empty.
LEMMA TimedAttach ==
    ASSUME Timed, NEW p \in Humans, NEW c \in Conns, Attach(p, c), p \in room'.online
    PROVE  Timed'
  BY DEF Timed, EmptyRoomExpires, Attach, Disarmed

\* Of the disconnections only the last one leaves an empty room, and it arms
\* the room's timer.
LEMMA TimedLeave ==
    ASSUME Timed, NEW p \in Humans, NEW c \in Conns, Leave(p, c)
    PROVE  Timed'
  <1>0. RoomTimer \in Keys /\ at' = at
    BY DEF Keys, Leave
  <1>1. CASE active[p] = c
    <2>1. entry' = Armed(LeftTimers(p, room'.online)) /\ loose' = loose /\ due' = due
      BY <1>1 DEF Leave, Speaks
    <2>2. room'.online = {} => entry'[RoomTimer] = "armed"
      BY <1>0, <2>1 DEF Armed, LeftTimers
    <2>3. entry' \in [Keys -> {"none", "armed", "fired"}]
      BY <2>1 DEF Armed, Timed
    <2> QED
      BY <2>1, <2>2, <2>3 DEF Timed, EmptyRoomExpires, Pending
  <1>2. CASE active[p] # c
    BY <1>0, <1>2 DEF Leave, Speaks, timerVars, Timed, EmptyRoomExpires, Pending, Live
  <1> QED
    BY <1>1, <1>2

\* A timer that runs out leaves its callback waiting for h.mu.
LEMMA TimedFire ==
    ASSUME Timed, NEW k \in Keys, Fire(k) \/ FireLoose(k)
    PROVE  Timed'
  <1>0. RoomTimer \in Keys /\ UNCHANGED <<at, room>>
    BY DEF Keys, Fire, FireLoose
  <1>1. CASE Fire(k)
    <2>1. entry' = [entry EXCEPT ![k] = "fired"] /\ due' = [due EXCEPT ![k] = @ + 1] /\ loose' = loose
      BY <1>1 DEF Fire
    <2> QED
      BY <1>0, <2>1 DEF Timed, EmptyRoomExpires, Pending, Live
  <1>2. CASE FireLoose(k)
    <2>1. /\ entry' = entry /\ loose[k] > 0
          /\ due' = [due EXCEPT ![k] = @ + 1] /\ loose' = [loose EXCEPT ![k] = @ - 1]
      BY <1>2 DEF FireLoose
    <2> QED
      BY <1>0, <2>1 DEF Timed, EmptyRoomExpires, Pending, Live
  <1> QED
    BY <1>1, <1>2

\* The callback of a seat touches no timer but its own.
LEMMA TimedRelease ==
    ASSUME Timed, Live => Shaped(room), NEW p \in Humans, ReleaseSeat(p)
    PROVE  Timed'
  <1>1. /\ RoomTimer \in Keys /\ p \in Keys /\ p # RoomTimer
    BY LobbyAssumption DEF Keys
  <1>2. /\ due[p] > 0 /\ due' = [due EXCEPT ![p] = @ - 1]
        /\ entry' = Disarmed({p})
        /\ loose' = [loose EXCEPT ![p] = IF entry[p] = "armed" THEN @ + 1 ELSE @]
    BY DEF ReleaseSeat, Run, Forget
  <1>3. /\ entry' \in [Keys -> {"none", "armed", "fired"}]
        /\ loose' \in [Keys -> Nat] /\ due' \in [Keys -> Nat]
    BY <1>1, <1>2 DEF Timed, Disarmed
  <1>4. /\ entry'[RoomTimer] = entry[RoomTimer]
        /\ loose'[RoomTimer] = loose[RoomTimer] /\ due'[RoomTimer] = due[RoomTimer]
    BY <1>1, <1>2 DEF Timed, Disarmed
  <1>5. Live /\ room'.online = room.online
    BY KeepsRelease DEF ReleaseSeat, Keeps, Live
  <1> QED
    BY <1>3, <1>4, <1>5 DEF Timed, EmptyRoomExpires, Pending

\* The room's own callback closes the room, or finds somebody in it.
LEMMA TimedExpire ==
    ASSUME Timed, ExpireRoom
    PROVE  Timed'
  <1>1. RoomTimer \in Keys
    BY DEF Keys
  <1>2. due[RoomTimer] > 0 /\ due' = [due EXCEPT ![RoomTimer] = @ - 1]
    BY DEF ExpireRoom, Run
  <1>3. due' \in [Keys -> Nat]
    BY <1>1, <1>2 DEF Timed
  <1>4. CASE room.online # {}
    BY <1>3, <1>4 DEF ExpireRoom, Timed, EmptyRoomExpires
  <1>5. CASE room.online = {}
    <2>1. /\ at' = "gone" /\ entry' = Disarmed({RoomTimer})
          /\ loose' = [loose EXCEPT ![RoomTimer] = IF entry[RoomTimer] = "armed" THEN @ + 1 ELSE @]
      BY <1>5 DEF ExpireRoom, Forget
    <2>2. entry' \in [Keys -> {"none", "armed", "fired"}] /\ loose' \in [Keys -> Nat]
      BY <1>1, <2>1 DEF Timed, Disarmed
    <2> QED
      BY <1>3, <2>1, <2>2 DEF Timed, EmptyRoomExpires, Live
  <1> QED
    BY <1>4, <1>5

LEMMA TimedNext == Connected /\ Timed /\ [Next]_vars => Timed'
  <1> SUFFICES ASSUME Connected, Timed, [Next]_vars PROVE Timed'
    OBVIOUS
  <1>s. Live => Shaped(room)
    BY DEF Connected
  <1>1. ASSUME NEW p \in Humans, NEW c \in Conns, Create(p, c) PROVE Timed'
    BY <1>1, TimedAttach DEF Create, NewRoom
  <1>2. ASSUME NEW p \in Humans, NEW c \in Conns, JoinRoom(p, c) PROVE Timed'
    BY <1>2, <1>s, JoinOnline, TimedAttach DEF JoinRoom, Live
  <1>3. ASSUME NEW p \in Humans, NEW c \in Conns, ResumeRoom(p, c) PROVE Timed'
    BY <1>3, <1>s, ComeAndGo, TimedAttach DEF ResumeRoom, Live
  <1>4. ASSUME NEW p \in Humans, NEW c \in Conns, Leave(p, c) PROVE Timed'
    BY <1>4, TimedLeave
  <1>k. Live /\ Keeps(room, room') /\ UNCHANGED timerVars => Timed'
    BY TimedKept
  <1>5. ASSUME NEW p \in Humans, NEW t \in Sides, SelectTeam(p, t) PROVE Timed'
    BY <1>5, <1>s, <1>k, KeepsAdd DEF SelectTeam, Speaking, Changed, Keeps, Live
  <1>6. ASSUME NEW p \in Humans, NEW t \in Sides, AddAI(p, t) PROVE Timed'
    BY <1>6, <1>s, <1>k, KeepsSit DEF AddAI, IsHost, Speaking, Changed, Live
  <1>7. ASSUME NEW p \in Humans, NEW t \in Sides, RemoveAI(p, t) PROVE Timed'
    BY <1>7, <1>s, <1>k, KeepsRemoved DEF RemoveAI, IsHost, Speaking, Changed, Live
  <1>8. ASSUME NEW p \in Humans, QuitTeam(p) PROVE Timed'
    BY <1>8, <1>s, <1>k, KeepsLeave DEF QuitTeam, Speaking, Changed, Live
  <1>9. ASSUME NEW p \in Humans, StartGame(p) PROVE Timed'
    BY <1>9, <1>s, <1>k, KeepsStarted DEF StartGame, IsHost, Speaking, Live
  <1>10. ASSUME NEW p \in Humans, ReopenRoom(p) PROVE Timed'
    BY <1>10, <1>s, <1>k, KeepsStarted DEF ReopenRoom, Speaking, Changed, Keeps, Live
  <1>11. ASSUME NEW p \in Humans, ReleaseSeat(p) PROVE Timed'
    BY <1>11, <1>s, TimedRelease
  <1>12. ASSUME NEW k \in Keys, Fire(k) \/ FireLoose(k) PROVE Timed'
    BY <1>12, TimedFire
  <1>13. ASSUME SaveStarted \/ PlayOn \/ ForgetGame PROVE Timed'
    BY <1>13 DEF SaveStarted, PlayOn, ForgetGame, timerVars, Timed, EmptyRoomExpires, Pending, Live
  <1>14. CASE ExpireRoom
    BY <1>14, TimedExpire
  <1>15. CASE Crash
    BY <1>15 DEF Crash, Timed, EmptyRoomExpires, Live
  <1>16. CASE Restart
    <2>1. CASE stored.open /\ Restorable(stored.room)
      <3>1. entry' = Armed(Holds(stored.room.members)) /\ UNCHANGED <<loose, due>>
        BY <1>16, <2>1 DEF Restart
      <3>2. RoomTimer \in Keys /\ RoomTimer \in Holds(stored.room.members)
        BY DEF Keys, Holds
      <3> QED
        BY <3>1, <3>2 DEF Armed, Timed, EmptyRoomExpires, Pending
    <2>2. CASE ~(stored.open /\ Restorable(stored.room))
      BY <1>16, <2>2 DEF Restart, Timed, EmptyRoomExpires, Live
    <2> QED
      BY <2>1, <2>2
  <1>17. CASE UNCHANGED vars
    BY <1>17 DEF vars, timerVars, Timed, EmptyRoomExpires, Pending, Live
  <1> QED
    BY <1>1, <1>2, <1>3, <1>4, <1>5, <1>6, <1>7, <1>8, <1>9, <1>10, <1>11,
       <1>12, <1>13, <1>14, <1>15, <1>16, <1>17 DEF Next

\* A room whose players are all gone has a timer that runs, or a callback that
\* waits, to close it: no order of visits, callbacks and restarts leaves one
\* that nobody will ever close.
THEOREM LobbyEmptyRoomExpires == Spec => []EmptyRoomExpires
  <1>1. Init => Connected /\ Timed
    BY ConnectedInit, TimedInit
  <1>2. (Connected /\ Timed) /\ [Next]_vars => (Connected /\ Timed)'
    BY ConnectedNext, TimedNext
  <1>3. Connected /\ Timed => EmptyRoomExpires
    BY DEF Timed
  <1> QED
    BY <1>1, <1>2, <1>3, PTL DEF Spec

(***************************************************************************)
(* The room in memory and the row of the store                             *)
(***************************************************************************)

\* The row is open with a room that Restore accepts, or closed.
RowSound ==
    /\ RowShaped /\ stored.open \in BOOLEAN /\ failures \in 0..MaxFailures
    /\ stored.open => stored.room \in StateType /\ Restorable(stored.room)
    /\ ~stored.open => stored.room = NoState

Housed ==
    /\ at \in {"empty", "idle", "starting", "forgetting", "down", "gone"}
    /\ Live => SoundRoom(room)
    /\ ~Live => room = NoRoom
    /\ RowSound /\ crashes \in 0..MaxCrashes

LEMMA HousedInit == Init => Housed
  BY LobbyAssumption DEF Init, Housed, RowSound, RowShaped, Live

LEMMA FailsBounded ==
    ASSUME Fails, failures \in 0..MaxFailures PROVE failures' \in 0..MaxFailures
  BY LobbyAssumption DEF Fails

LEMMA RowOfRoom ==
    ASSUME RowSound, NEW old, NEW r, SoundRoom(r), SaveRoom(old, r)
    PROVE  RowSound'
  BY SavedSound, FailsBounded DEF SaveRoom, RowSound, RowShaped

LEMMA RowOfGame ==
    ASSUME RowSound, NEW g, SaveGame(g)
    PROVE  RowSound' /\ stored'.room = stored.room /\ stored'.open = stored.open
  BY FailsBounded DEF SaveGame, RowSound, RowShaped

LEMMA RowClosed ==
    ASSUME RowSound, CloseStored
    PROVE  RowSound'
  <1>1. CASE stored' = [open |-> FALSE, room |-> NoState, game |-> NoGame] /\ UNCHANGED failures
    BY <1>1 DEF RowSound, RowShaped
  <1>2. CASE Fails /\ UNCHANGED stored
    BY <1>2, FailsBounded DEF RowSound, RowShaped
  <1> QED
    BY <1>1, <1>2 DEF CloseStored

LEMMA RowKept ==
    ASSUME RowSound, UNCHANGED storeVars
    PROVE  RowSound'
  BY DEF storeVars, RowSound, RowShaped

\* Whoever speaks for a player of the room is a member of it.
LEMMA SpeakerIsMember ==
    ASSUME Connected, Housed, NEW p \in Humans, Speaking(p)
    PROVE  Live /\ p \in room.online /\ p \in room.members
  <1>1. Live /\ p \in room.online
    BY DEF Speaking, Live, Connected, OnlineIsConnected
  <1> QED
    BY <1>1, SoundFields DEF Housed

\* A room that is shown as it becomes, with what it is stored as.
LEMMA HousedChanged ==
    ASSUME Housed, Live, Live', at' \in {"idle", "starting", "forgetting"},
           SoundRoom(room'), RowSound', UNCHANGED crashes
    PROVE  Housed'
  BY DEF Housed, Live

LEMMA ChangedSound ==
    ASSUME Housed, at = "idle", NEW r, SoundRoom(r), Changed(r)
    PROVE  Housed'
  <1>1. RowSound'
    BY RowOfRoom DEF Changed, Housed
  <1> QED
    BY <1>1, HousedChanged DEF Changed, Live

LEMMA HousedNext == Connected /\ Housed /\ [Next]_vars => Housed'
  <1> SUFFICES ASSUME Connected, Housed, [Next]_vars PROVE Housed'
    OBVIOUS
  <1>s. Live => SoundRoom(room)
    BY DEF Housed
  <1>r. RowSound /\ crashes \in 0..MaxCrashes
    BY DEF Housed
  <1>k. RowSound' /\ UNCHANGED <<at, room, crashes>> => Housed'
    BY DEF Housed, Live
  <1>u. UNCHANGED storeVars => RowSound'
    BY <1>r, RowKept
  <1>1. ASSUME NEW p \in Humans, NEW c \in Conns, Create(p, c) PROVE Housed'
    <2>1. SoundRoom(NewRoom(p))
      BY NewRoomSound
    <2>2. RowSound'
      <3>1. CASE stored' = [open |-> TRUE, room |-> SavedState(room'), game |-> NoGame] /\ UNCHANGED failures
        <4>1. SavedState(room') \in StateType /\ Restorable(SavedState(room'))
          BY <1>1, <2>1, SavedSound DEF Create
        <4> QED
          BY <1>r, <3>1, <4>1 DEF RowSound, RowShaped
      <3>2. CASE Fails /\ UNCHANGED stored
        BY <1>r, <3>2, FailsBounded DEF RowSound, RowShaped
      <3> QED
        BY <1>1, <3>1, <3>2 DEF Create
    <2> QED
      BY <1>1, <1>r, <2>1, <2>2 DEF Create, Housed, Live
  <1>2. ASSUME NEW p \in Humans, NEW c \in Conns, JoinRoom(p, c) PROVE Housed'
    <2>1. SoundRoom(Join(room, p))
      BY <1>2, <1>s, JoinSound DEF JoinRoom, Live
    <2> QED
      BY <1>2, <1>r, <2>1, RowOfRoom, HousedChanged DEF JoinRoom, Live
  <1>3. ASSUME NEW p \in Humans, NEW c \in Conns, ResumeRoom(p, c) PROVE Housed'
    <2>1. SoundRoom(Resume(room, p))
      BY <1>3, <1>s, ResumeSound DEF ResumeRoom, Live
    <2> QED
      BY <1>3, <1>r, <2>1, RowOfRoom, HousedChanged DEF ResumeRoom, Live
  <1>4. ASSUME NEW p \in Humans, NEW c \in Conns, Leave(p, c) PROVE Housed'
    <2>1. SoundRoom(Disconnect(room, p))
      BY <1>4, <1>s, DisconnectSound DEF Leave, Live
    <2>2. CASE Speaks(p, c)
      BY <1>4, <1>r, <2>1, <2>2, RowOfRoom, HousedChanged DEF Leave, Live
    <2>3. CASE ~Speaks(p, c)
      BY <1>4, <1>k, <1>u, <2>3 DEF Leave
    <2> QED
      BY <2>2, <2>3
  <1>5. ASSUME NEW p \in Humans, NEW t \in Sides, SelectTeam(p, t) PROVE Housed'
    <2>1. at = "idle" /\ Live /\ p \in room.members
      BY <1>5, SpeakerIsMember DEF SelectTeam, Speaking
    <2>2. HasRoom(room, t) => SoundRoom(AddToTeam(room, p, t))
      BY <1>s, <2>1, AddSound
    <2> QED
      BY <1>5, <1>s, <2>1, <2>2, ChangedSound DEF SelectTeam
  <1>6. ASSUME NEW p \in Humans, NEW t \in Sides, AddAI(p, t) PROVE Housed'
    <2>1. at = "idle" /\ SoundRoom(room)
      BY <1>6, <1>s DEF AddAI, IsHost, Speaking, Live
    <2>2. \A a \in FreeNames(room, t) : a \in AIs /\ ~Seated(room, a)
      BY DEF FreeNames, AIs, Sides
    <2>3. \A a \in FreeNames(room, t) : HasRoom(room, t) => SoundRoom(Sit(room, a, t))
      BY <2>1, <2>2, SitFields
    <2> QED
      BY <1>6, <2>1, <2>3, ChangedSound DEF AddAI
  <1>7. ASSUME NEW p \in Humans, NEW t \in Sides, RemoveAI(p, t) PROVE Housed'
    <2>1. at = "idle" /\ SoundRoom(room)
      BY <1>7, <1>s DEF RemoveAI, IsHost, Speaking, Live
    <2>2. \A i \in DOMAIN room.teams[t] : SoundRoom([room EXCEPT !.teams[t] = RemoveAt(@, i)])
      BY <2>1, RemoveSound
    <2> QED
      BY <1>7, <2>1, <2>2, ChangedSound DEF RemoveAI
  <1>8. ASSUME NEW p \in Humans, QuitTeam(p) PROVE Housed'
    BY <1>8, <1>s, LeaveSound, ChangedSound DEF QuitTeam, Speaking, Live
  <1>9. ASSUME NEW p \in Humans, StartGame(p) PROVE Housed'
    <2>1. at = "idle" /\ SoundRoom(BeginGame(room))
      BY <1>9, <1>s, StartedSound DEF StartGame, IsHost, Speaking, Live, BeginGame
    <2>2. RowSound'
      BY <1>9, <1>r, RowOfGame DEF StartGame, FirstSave
    <2> QED
      BY <1>9, <2>1, <2>2, HousedChanged DEF StartGame, Live
  <1>10. ASSUME NEW p \in Humans, ReopenRoom(p) PROVE Housed'
    <2>1. at = "idle" /\ SoundRoom(room) /\ SoundRoom(Reopen(room))
      BY <1>10, <1>s, ReopenSound DEF ReopenRoom, Speaking, Live
    <2>2. CASE room.started
      BY <1>10, <1>r, <2>1, <2>2, RowOfRoom, HousedChanged DEF ReopenRoom, Live
    <2>3. CASE ~room.started
      BY <1>10, <2>1, <2>3, ChangedSound DEF ReopenRoom
    <2> QED
      BY <2>2, <2>3
  <1>11. ASSUME NEW p \in Humans, ReleaseSeat(p) PROVE Housed'
    <2>1. at = "idle" /\ at' = at /\ UNCHANGED crashes /\ SoundRoom(room')
      BY <1>11, <1>s, ReleaseSound DEF ReleaseSeat, Live
    <2>2. RowSound'
      BY <1>11, <1>r, <1>u, <2>1, RowOfRoom DEF ReleaseSeat
    <2> QED
      BY <2>1, <2>2, HousedChanged DEF Live
  <1>12. ASSUME NEW k \in Keys, Fire(k) \/ FireLoose(k) PROVE Housed'
    BY <1>12, <1>k, <1>u DEF Fire, FireLoose
  <1>13. CASE SaveStarted
    <2>1. SoundRoom(room) /\ SaveRoom(cache, room) /\ UNCHANGED <<room, crashes>>
      BY <1>13, <1>s DEF SaveStarted, Live
    <2> QED
      BY <1>13, <1>r, <2>1, RowOfRoom, HousedChanged DEF SaveStarted, Live
  <1>14. CASE PlayOn
    BY <1>14, <1>r, <1>k, RowOfGame DEF PlayOn
  <1>15. CASE ForgetGame
    <2>1. SoundRoom(room) /\ RowSound' /\ UNCHANGED <<room, crashes>>
      BY <1>15, <1>s, <1>r, RowOfGame DEF ForgetGame, Live
    <2> QED
      BY <1>15, <2>1, HousedChanged DEF ForgetGame, Live
  <1>16. CASE ExpireRoom
    <2>1. CASE room.online # {}
      BY <1>16, <1>k, <1>u, <2>1 DEF ExpireRoom, storeVars
    <2>2. CASE room.online = {}
      BY <1>16, <1>r, <2>2, RowClosed DEF ExpireRoom, Housed, Live
    <2> QED
      BY <2>1, <2>2
  <1>17. CASE Crash
    <2>1. crashes' \in 0..MaxCrashes
      BY <1>17, <1>r, LobbyAssumption DEF Crash
    <2>2. RowSound'
      BY <1>17, <1>r DEF Crash, RowSound, RowShaped
    <2> QED
      BY <1>17, <2>1, <2>2 DEF Crash, Housed, Live
  <1>18. CASE Restart
    <2>1. CASE stored.open /\ Restorable(stored.room)
      <3>1. SoundRoom(Restored(stored.room)) /\ SoundRoom(AbortStart(Restored(stored.room)))
        BY <1>r, <2>1, RestoredSound, StartedSound DEF RowSound, AbortStart
      <3>2. CASE Playable(stored)
        <4>1. at' = "idle" /\ room' = Restored(stored.room) /\ UNCHANGED <<stored, failures, crashes>>
          BY <1>18, <2>1, <3>2 DEF Restart
        <4> QED
          BY <1>r, <3>1, <4>1 DEF Housed, RowSound, RowShaped, Live
      <3>3. CASE ~Playable(stored)
        <4>1. /\ at' \in {"idle", "forgetting"} /\ room' = AbortStart(Restored(stored.room))
              /\ SaveRoom(stored.room, room') /\ UNCHANGED crashes
          BY <1>18, <2>1, <3>3 DEF Restart
        <4>2. RowSound'
          BY <1>r, <3>1, <4>1, RowOfRoom
        <4> QED
          BY <1>r, <3>1, <4>1, <4>2 DEF Housed, Live
      <3> QED
        BY <3>2, <3>3
    <2>2. CASE ~(stored.open /\ Restorable(stored.room))
      <3>1. at' = "gone" /\ UNCHANGED <<room, crashes>> /\ room = NoRoom
        BY <1>18, <2>2 DEF Restart, Housed, Live
      <3>2. RowSound'
        BY <1>18, <1>r, <1>u, <2>2, RowClosed DEF Restart
      <3> QED
        BY <1>r, <3>1, <3>2 DEF Housed, Live
    <2> QED
      BY <2>1, <2>2
  <1>19. CASE UNCHANGED vars
    BY <1>19, <1>k, <1>u DEF vars
  <1> QED
    BY <1>1, <1>2, <1>3, <1>4, <1>5, <1>6, <1>7, <1>8, <1>9, <1>10, <1>11, <1>12,
       <1>13, <1>14, <1>15, <1>16, <1>17, <1>18, <1>19 DEF Next

\* Whatever a room goes through, Restore accepts what was written of it: a
\* killed process finds its room again.
THEOREM LobbyStoredIsRestorable == Spec => []StoredIsRestorable
  <1>1. Connected /\ Housed => StoredIsRestorable
    BY DEF Housed, RowSound, StoredIsRestorable
  <1>2. Init => Connected /\ Housed
    BY ConnectedInit, HousedInit
  <1>3. (Connected /\ Housed) /\ [Next]_vars => (Connected /\ Housed)'
    BY ConnectedNext, HousedNext
  <1> QED
    BY <1>1, <1>2, <1>3, PTL DEF Spec

(***************************************************************************)
(* The host, the game and its roster                                       *)
(***************************************************************************)

\* The messages that only move players: what becomes of the room, and that they
\* are for a lobby.
LEMMA MovesSound ==
    ASSUME Connected, Housed, NEW p \in Humans, NEW t \in Sides,
           SelectTeam(p, t) \/ AddAI(p, t) \/ RemoveAI(p, t) \/ QuitTeam(p)
    PROVE  /\ at = "idle" /\ ~room.started
           /\ \E r : /\ Changed(r) /\ SoundRoom(r) /\ SameButTeams(room, r)
                     /\ \A q \in Humans : Seated(r, q) => q \in room.online \/ Seated(room, q)
  <1>1. at = "idle" /\ ~room.started
    BY DEF SelectTeam, AddAI, RemoveAI, QuitTeam, IsHost, Speaking
  <1>2. Live /\ SoundRoom(room) /\ SameButTeams(room, room)
    BY <1>1 DEF Live, Housed, SameButTeams
  <1>3. CASE SelectTeam(p, t)
    <2>1. p \in room.members /\ p \in room.online
      BY <1>3, SpeakerIsMember DEF SelectTeam
    <2>2. HasRoom(room, t) =>
             /\ SoundRoom(AddToTeam(room, p, t)) /\ SameButTeams(room, AddToTeam(room, p, t))
             /\ \A q : Seated(AddToTeam(room, p, t), q) => q = p \/ Seated(room, q)
      BY <1>2, <2>1, AddSound
    <2>3. Changed(room) \/ (HasRoom(room, t) /\ Changed(AddToTeam(room, p, t)))
      BY <1>3 DEF SelectTeam
    <2> QED
      BY <1>1, <1>2, <2>1, <2>2, <2>3
  <1>4. CASE AddAI(p, t)
    <2>1. PICK a \in FreeNames(room, t) : Changed(Sit(room, a, t)) /\ HasRoom(room, t)
      BY <1>4 DEF AddAI
    <2>2. a \in AIs /\ ~Seated(room, a) /\ a \notin Humans
      BY RoomAssumption DEF FreeNames, AIs, Sides
    <2>3. /\ SoundRoom(Sit(room, a, t)) /\ SameButTeams(room, Sit(room, a, t))
          /\ \A q : Seated(Sit(room, a, t), q) => q = a \/ Seated(room, q)
      BY <1>2, <2>1, <2>2, SitFields, SitSound
    <2> QED
      BY <1>1, <2>1, <2>2, <2>3
  <1>5. CASE RemoveAI(p, t)
    <2>1. PICK i \in DOMAIN room.teams[t] : Changed([room EXCEPT !.teams[t] = RemoveAt(@, i)])
      BY <1>5 DEF RemoveAI
    <2> DEFINE r == [room EXCEPT !.teams[t] = RemoveAt(@, i)]
    <2>2. SoundRoom(r) /\ SameButTeams(room, r) /\ \A q : Seated(r, q) => Seated(room, q)
      BY <1>2, RemoveSound
    <2> HIDE DEF r
    <2> QED
      BY <1>1, <2>1, <2>2 DEF r
  <1>6. CASE QuitTeam(p)
    <2> DEFINE r == LeaveTeam(room, p)
    <2>1. /\ SoundRoom(r) /\ r = [room EXCEPT !.teams = r.teams]
          /\ \A q : Seated(r, q) => Seated(room, q)
      BY <1>2, LeaveSound
    <2>2. SameButTeams(room, r)
      BY <1>2, <2>1, TeamsOnly, SoundFields
    <2>3. Changed(r)
      BY <1>6 DEF QuitTeam
    <2> QED
      BY <1>1, <2>1, <2>2, <2>3
  <1> QED
    BY <1>3, <1>4, <1>5, <1>6

\* Besides the property: what the game is between the two writes of a message,
\* and that there is none without a room.
Ordered ==
    /\ HostOrNobody /\ RosterFrozen
    /\ at = "starting" => room.started /\ game # NoGame /\ game.teams = room.teams
    /\ at = "forgetting" => ~room.started /\ game = NoGame
    /\ ~Live => game = NoGame
    /\ game \in GameType \cup {NoGame} /\ played \in 0..MaxGames
    /\ stored.game \in SnapshotType \cup {NoGame}

LEMMA OrderedInit == Init => Ordered
  BY LobbyAssumption DEF Init, Ordered, HostOrNobody, RosterFrozen, Live

\* Steps that write the room, or nothing, leave the stored game alone.
LEMMA RowGameKept ==
    ASSUME RowShaped, NEW old, NEW r, SaveRoom(old, r) PROVE stored'.game = stored.game
  BY DEF SaveRoom, RowShaped

LEMMA RowGameWritten ==
    ASSUME RowShaped, NEW g, SaveGame(g)
    PROVE  stored'.game = stored.game \/ stored'.game = g
  BY DEF SaveGame, RowShaped

LEMMA SnapshotTyped ==
    ASSUME NEW g \in GameType
    PROVE  /\ Snapshot(g) \in SnapshotType /\ g # NoGame /\ Snapshot(g) # NoGame
           /\ Snapshot(g).num = g.num /\ Snapshot(g).teams = g.teams
  BY NothingAssumption DEF Snapshot, GameType, SnapshotType

\* Steps of an open room that leave game and roster as they are.
LEMMA OrderedKept ==
    ASSUME Ordered, at = "idle", at' = "idle", UNCHANGED <<game, played>>,
           stored'.game = stored.game,
           room'.started = room.started,
           game # NoGame => room'.teams = room.teams,
           room'.owner = NoOwner => room'.online = {}
    PROVE  Ordered'
  BY DEF Ordered, HostOrNobody, RosterFrozen, Live

LEMMA OrderedNext == Connected /\ Housed /\ Ordered /\ [Next]_vars => Ordered'
  <1> SUFFICES ASSUME Connected, Housed, Ordered, [Next]_vars PROVE Ordered'
    OBVIOUS
  <1>s. Live => SoundRoom(room)
    BY DEF Housed
  <1>r. RowShaped
    BY DEF Housed, RowSound
  <1>h. Live /\ room.owner = NoOwner => room.online = {}
    BY DEF Ordered, HostOrNobody
  <1>n. \A q \in Humans : q # NoOwner
    BY RoomAssumption
  <1>k. UNCHANGED <<at, room, game, played>> /\ stored'.game = stored.game => Ordered'
    BY DEF Ordered, HostOrNobody, RosterFrozen, Live
  <1>1. ASSUME NEW p \in Humans, NEW c \in Conns, Create(p, c) PROVE Ordered'
    <2>1. at' = "idle" /\ room'.owner = p /\ ~room'.started
      BY <1>1 DEF Create, NewRoom
    <2>2. game' = NoGame /\ played' = played
      BY <1>1 DEF Create, Ordered, Live
    <2>3. stored'.game \in SnapshotType \cup {NoGame}
      BY <1>1 DEF Create, Ordered
    <2> QED
      BY <2>1, <2>2, <2>3, <1>n DEF Ordered, HostOrNobody, RosterFrozen, Live
  <1>2. ASSUME NEW p \in Humans, NEW c \in Conns, JoinRoom(p, c) PROVE Ordered'
    <2>1. /\ at = "idle" /\ at' = "idle" /\ UNCHANGED <<game, played>> /\ MayJoin(room, p)
          /\ room' = Join(room, p) /\ SaveRoom(cache, room')
      BY <1>2 DEF JoinRoom
    <2>2. room'.started = room.started /\ room'.owner # NoOwner
      BY <1>s, <1>n, <2>1, JoinSound DEF Live
    <2>3. game = NoGame
      BY <2>1 DEF MayJoin, Ordered, RosterFrozen
    <2> QED
      BY <1>r, <2>1, <2>2, <2>3, RowGameKept, OrderedKept
  <1>3. ASSUME NEW p \in Humans, NEW c \in Conns, ResumeRoom(p, c) PROVE Ordered'
    <2>1. /\ at = "idle" /\ at' = "idle" /\ UNCHANGED played /\ p \in room.members
          /\ room' = Resume(room, p) /\ SaveRoom(cache, room')
          /\ game' = IF game = NoGame THEN NoGame ELSE [game EXCEPT !.begun = TRUE]
      BY <1>3 DEF ResumeRoom
    <2>2. /\ room'.started = room.started /\ room'.teams = room.teams /\ room'.owner # NoOwner
      BY <1>s, <1>n, <2>1, ResumeSound DEF Live
    <2>3. stored'.game = stored.game
      BY <1>r, <2>1, RowGameKept
    <2>4. CASE game = NoGame
      BY <2>1, <2>2, <2>3, <2>4, OrderedKept
    <2>5. CASE game # NoGame
      <3>1. game \in GameType
        BY <2>5 DEF Ordered
      <3>2. game' \in GameType /\ game'.teams = game.teams
        BY <2>1, <2>5, <3>1 DEF GameType
      <3>3. game' # NoGame
        BY <3>2, NothingAssumption
      <3> QED
        BY <2>1, <2>2, <2>3, <2>5, <3>2, <3>3 DEF Ordered, HostOrNobody, RosterFrozen, Live
    <2> QED
      BY <2>4, <2>5
  <1>4. ASSUME NEW p \in Humans, NEW c \in Conns, Leave(p, c) PROVE Ordered'
    <2>1. at = "idle" /\ at' = "idle" /\ UNCHANGED <<game, played>>
      BY <1>4 DEF Leave
    <2>2. CASE Speaks(p, c)
      <3>1. room' = Disconnect(room, p) /\ SaveRoom(cache, room')
        BY <1>4, <2>2 DEF Leave
      <3>2. /\ room'.started = room.started /\ room'.teams = room.teams
            /\ room'.owner = room.owner /\ room'.online = room.online \ {p}
        BY <1>s, <2>1, <3>1, DisconnectSound DEF Live
      <3> QED
        BY <1>r, <1>h, <2>1, <3>1, <3>2, RowGameKept, OrderedKept DEF Live
    <2>3. CASE ~Speaks(p, c)
      BY <1>4, <1>k, <2>1, <2>3 DEF Leave, storeVars
    <2> QED
      BY <2>2, <2>3
  <1>5. ASSUME NEW p \in Humans, NEW t \in Sides,
               SelectTeam(p, t) \/ AddAI(p, t) \/ RemoveAI(p, t) \/ QuitTeam(p)
        PROVE  Ordered'
    <2>1. at = "idle" /\ ~room.started
      BY <1>5, MovesSound
    <2>2. PICK r : Changed(r) /\ SameButTeams(room, r)
      BY <1>5, MovesSound
    <2>3. /\ at' = "idle" /\ UNCHANGED <<game, played>> /\ room' = r /\ SaveRoom(cache, r)
      BY <2>1, <2>2 DEF Changed
    <2>4. game = NoGame
      BY <2>1 DEF Ordered, RosterFrozen
    <2> QED
      BY <1>r, <1>h, <2>1, <2>2, <2>3, <2>4, RowGameKept, OrderedKept DEF SameButTeams, Live
  <1>6. ASSUME NEW p \in Humans, QuitTeam(p) PROVE Ordered'
    BY <1>5, <1>6 DEF Sides
  <1>7. ASSUME NEW p \in Humans, StartGame(p) PROVE Ordered'
    <2>1. /\ at = "idle" /\ at' = "starting" /\ played < MaxGames /\ played' = played + 1
          /\ room' = BeginGame(room) /\ FirstSave([num |-> played', teams |-> room.teams, over |-> FALSE])
          /\ game' = [num |-> played', teams |-> room.teams, begun |-> TRUE, over |-> FALSE]
      BY <1>7 DEF StartGame, IsHost, Speaking
    <2>2. /\ room'.started = TRUE /\ room'.teams = room.teams /\ room'.owner = room.owner
          /\ room'.online = room.online
      BY <1>s, <2>1, StartedSound DEF BeginGame, Live
    <2>3. played' \in 1..MaxGames
      BY <2>1, LobbyAssumption DEF Ordered
    <2>4. room.teams \in [Sides -> Seq(Humans \cup AIs)]
      BY <1>s, <2>1, SoundFields DEF Live, SoundTeams
    <2>5. game' \in GameType /\ game'.teams = room.teams
      BY <2>1, <2>3, <2>4 DEF GameType
    <2>6. [num |-> played', teams |-> room.teams, over |-> FALSE] \in SnapshotType
      BY <2>3, <2>4 DEF SnapshotType
    <2>7. stored'.game \in SnapshotType \cup {NoGame}
      BY <1>r, <2>1, <2>6, RowGameWritten DEF FirstSave, Ordered
    <2>8. game' # NoGame
      BY <2>5, NothingAssumption
    <2> QED
      BY <1>h, <2>1, <2>2, <2>3, <2>5, <2>7, <2>8, LobbyAssumption
         DEF Ordered, HostOrNobody, RosterFrozen, Live
  <1>8. ASSUME NEW p \in Humans, ReopenRoom(p) PROVE Ordered'
    <2>1. at = "idle"
      BY <1>8 DEF ReopenRoom, Speaking
    <2>2. CASE room.started
      <3>1. /\ at' = "forgetting" /\ room' = Reopen(room) /\ game' = NoGame
            /\ SaveRoom(cache, room') /\ UNCHANGED played
        BY <1>8, <2>2 DEF ReopenRoom
      <3>2. ~room'.started /\ room'.owner = room.owner /\ room'.online = room.online
        BY <1>s, <2>1, <3>1, ReopenSound DEF Live
      <3> QED
        BY <1>r, <1>h, <2>1, <3>1, <3>2, RowGameKept
           DEF Ordered, HostOrNobody, RosterFrozen, Live
    <2>3. CASE ~room.started
      BY <1>8, <1>k, <1>r, <2>3, RowGameKept DEF ReopenRoom, Changed
    <2> QED
      BY <2>2, <2>3
  <1>9. ASSUME NEW p \in Humans, ReleaseSeat(p) PROVE Ordered'
    <2>1. /\ at = "idle" /\ at' = "idle" /\ UNCHANGED <<game, played>> /\ room' \in Releases(room, p)
          /\ SaveRoom(cache, room') \/ UNCHANGED storeVars
      BY <1>9 DEF ReleaseSeat
    <2>2. SoundRoom(room) /\ room.online \subseteq Humans
      BY <1>s, <2>1, SoundFields DEF Live
    <2>3. /\ room'.started = room.started /\ room'.online = room.online
          /\ room'.started => room'.teams = room.teams
          /\ room'.owner = room.owner \/ room'.owner \in room.online
                \/ (room'.owner = NoOwner /\ room.online = {})
      BY <2>1, <2>2, ReleaseSound
    <2>4. stored'.game = stored.game
      BY <1>r, <2>1, RowGameKept DEF storeVars
    <2>5. game # NoGame => room.started
      BY <2>1 DEF Ordered, RosterFrozen
    <2>6. room'.owner = NoOwner => room'.online = {}
      BY <1>h, <1>n, <2>1, <2>2, <2>3 DEF Live
    <2> QED
      BY <2>1, <2>3, <2>4, <2>5, <2>6, OrderedKept
  <1>10. ASSUME NEW k \in Keys, Fire(k) \/ FireLoose(k) PROVE Ordered'
    BY <1>10, <1>k DEF Fire, FireLoose, storeVars
  <1>11. CASE SaveStarted
    BY <1>11, <1>r, RowGameKept DEF SaveStarted, Ordered, HostOrNobody, RosterFrozen, Live
  <1>12. CASE PlayOn
    <2>1. PICK over \in BOOLEAN : game' = [game EXCEPT !.over = over] /\ SaveGame(Snapshot(game'))
      BY <1>12 DEF PlayOn
    <2>2. game \in GameType /\ UNCHANGED <<at, room, played>> /\ game # NoGame
      BY <1>12 DEF PlayOn, Ordered
    <2>3. game' \in GameType /\ game'.teams = game.teams
      BY <2>1, <2>2 DEF GameType
    <2>4. stored'.game \in SnapshotType \cup {NoGame} /\ game' # NoGame
      BY <1>r, <2>1, <2>3, RowGameWritten, SnapshotTyped DEF Ordered
    <2> QED
      BY <2>2, <2>3, <2>4 DEF Ordered, HostOrNobody, RosterFrozen, Live
  <1>13. CASE ForgetGame
    <2>1. stored'.game \in SnapshotType \cup {NoGame}
      BY <1>13, <1>r, RowGameWritten DEF ForgetGame, Ordered
    <2> QED
      BY <1>13, <2>1 DEF ForgetGame, Ordered, HostOrNobody, RosterFrozen, Live
  <1>14. CASE ExpireRoom
    <2>1. CASE room.online # {}
      BY <1>14, <1>k, <2>1 DEF ExpireRoom, storeVars
    <2>2. CASE room.online = {}
      <3>1. at' = "gone" /\ game' = NoGame /\ played' = played /\ CloseStored
        BY <1>14, <2>2 DEF ExpireRoom
      <3>2. stored'.game \in SnapshotType \cup {NoGame}
        BY <3>1 DEF CloseStored, Ordered
      <3> QED
        BY <3>1, <3>2 DEF Ordered, HostOrNobody, RosterFrozen, Live
    <2> QED
      BY <2>1, <2>2
  <1>15. CASE Crash
    BY <1>15 DEF Crash, Ordered, HostOrNobody, RosterFrozen, Live
  <1>16. CASE Restart
    <2>1. CASE stored.open /\ Restorable(stored.room)
      <3> DEFINE r == Restored(stored.room)
      <3>1. r.started = stored.room.started /\ r.teams = stored.room.teams /\ r.online = {}
        BY DEF Restored
      <3>2. SoundRoom(r)
        BY <2>1, RestoredSound DEF Housed, RowSound
      <3>3. CASE Playable(stored)
        <4>1. /\ at' = "idle" /\ room' = r /\ UNCHANGED <<stored, played>>
              /\ game' = [num |-> stored.game.num, teams |-> stored.game.teams,
                          begun |-> FALSE, over |-> stored.game.over]
          BY <1>16, <2>1, <3>3 DEF Restart
        <4>2. stored.game \in SnapshotType /\ stored.room.started /\ stored.game.teams = stored.room.teams
          BY <3>3 DEF Playable, Ordered
        <4>3. game' \in GameType /\ game'.teams = stored.game.teams
          BY <4>1, <4>2 DEF GameType, SnapshotType
        <4>4. game' # NoGame
          BY <4>3, NothingAssumption
        <4> HIDE DEF r
        <4> QED
          BY <3>1, <4>1, <4>2, <4>3, <4>4 DEF Ordered, HostOrNobody, RosterFrozen, Live
      <3>4. CASE ~Playable(stored)
        <4>1. /\ at' \in {"idle", "forgetting"} /\ room' = AbortStart(r) /\ game' = NoGame
              /\ SaveRoom(stored.room, room') /\ UNCHANGED played
          BY <1>16, <2>1, <3>4 DEF Restart
        <4>2. ~AbortStart(r).started /\ AbortStart(r).online = {}
          BY <3>1, <3>2, StartedSound DEF AbortStart
        <4> HIDE DEF r
        <4> QED
          BY <1>r, <4>1, <4>2, RowGameKept DEF Ordered, HostOrNobody, RosterFrozen, Live
      <3> QED
        BY <3>3, <3>4
    <2>2. CASE ~(stored.open /\ Restorable(stored.room))
      <3>1. at' = "gone" /\ UNCHANGED <<game, played>> /\ (CloseStored \/ UNCHANGED storeVars)
        BY <1>16, <2>2 DEF Restart
      <3>2. stored'.game \in SnapshotType \cup {NoGame}
        BY <3>1 DEF CloseStored, storeVars, Ordered
      <3>3. game = NoGame
        BY <1>16 DEF Restart, Ordered, Live
      <3> QED
        BY <3>1, <3>2, <3>3 DEF Ordered, HostOrNobody, RosterFrozen, Live
    <2> QED
      BY <2>1, <2>2
  <1>17. CASE UNCHANGED vars
    BY <1>17, <1>k DEF vars, storeVars
  <1> QED
    BY <1>1, <1>2, <1>3, <1>4, <1>5, <1>6, <1>7, <1>8, <1>9, <1>10, <1>11,
       <1>12, <1>13, <1>14, <1>15, <1>16, <1>17 DEF Next

\* Whoever comes, leaves, resumes, is released or is restored: only an empty
\* room is without a host, and a game is played by the players it began with.
THEOREM LobbyRoomKeepsOrder == Spec => []RoomKeepsOrder
  <1>1. Connected /\ Housed /\ Ordered => RoomKeepsOrder
    BY DEF Ordered, RoomKeepsOrder
  <1>2. Init => Connected /\ Housed /\ Ordered
    BY ConnectedInit, HousedInit, OrderedInit
  <1>3. (Connected /\ Housed /\ Ordered) /\ [Next]_vars => (Connected /\ Housed /\ Ordered)'
    BY ConnectedNext, HousedNext, OrderedNext
  <1> QED
    BY <1>1, <1>2, <1>3, PTL DEF Spec

(***************************************************************************)
(* The timers of those who are gone                                        *)
(***************************************************************************)

Released ==
    /\ \A k \in Keys : loose[k] + due[k] <= MaxTimers
    /\ AbsentAreReleased

LEMMA ReleasedInit == Init => Released
  BY LobbyAssumption DEF Init, Released, AbsentAreReleased, Live

\* Whoever is absent now was absent before, with at least as much to lose, and
\* their timers are where they were: the room they are in may have changed.
LEMMA ReleasedKept ==
    ASSUME Released, Live,
           \A k \in Keys : loose'[k] + due'[k] <= MaxTimers,
           \A q \in Humans : q \in room'.members \ room'.online =>
              \/ Pending(q)'
              \/ /\ q \in room.members \ room.online
                 /\ entry'[q] = entry[q] /\ loose'[q] = loose[q] /\ due'[q] = due[q]
                 /\ room'.owner = q => room.owner = q
                 /\ ~room'.started /\ Seated(room', q) => ~room.started /\ Seated(room, q),
           room'.members \subseteq Humans
    PROVE  Released'
  BY DEF Released, AbsentAreReleased, Pending

LEMMA AttachTimers ==
    ASSUME Timed, NEW p \in Humans, NEW c, Attach(p, c)
    PROVE  /\ UNCHANGED <<loose, due>>
           /\ \A q \in Humans : q # p => entry'[q] = entry[q]
  BY LobbyAssumption DEF Attach, Disarmed, Stops, Keys

LEMMA ReleasedNext == Connected /\ Timed /\ Housed /\ Released /\ [Next]_vars => Released'
  <1> SUFFICES ASSUME Connected, Timed, Housed, Released, [Next]_vars PROVE Released'
    OBVIOUS
  <1>s. Live => SoundRoom(room) /\ room.members \subseteq Humans /\ room.online \subseteq room.members
    BY SoundFields DEF Housed
  <1>n. NoOwner \notin Humans /\ RoomTimer \notin Humans /\ MaxTimers \in Nat \ {0}
    BY RoomAssumption, LobbyAssumption
  <1>t. /\ entry \in [Keys -> {"none", "armed", "fired"}]
        /\ loose \in [Keys -> Nat] /\ due \in [Keys -> Nat]
        /\ \A k \in Keys : loose[k] + due[k] <= MaxTimers
    BY DEF Timed, Released
  <1>k. UNCHANGED <<at, room, timerVars>> => Released'
    BY DEF Released, AbsentAreReleased, Pending, Live, timerVars
  <1>0. Humans \subseteq Keys /\ RoomTimer \in Keys
    BY DEF Keys
  <1>1. ASSUME NEW p \in Humans, NEW c \in Conns, Create(p, c) PROVE Released'
    <2>1. UNCHANGED <<loose, due>>
      BY <1>1, AttachTimers DEF Create
    <2>2. room'.members = {p} /\ room'.online = {p}
      BY <1>1 DEF Create, NewRoom
    <2> QED
      BY <2>1, <2>2 DEF Released, AbsentAreReleased
  <1>2. ASSUME NEW p \in Humans, NEW c \in Conns, JoinRoom(p, c) PROVE Released'
    <2>1. Live /\ SoundRoom(room) /\ room' = Join(room, p) /\ MayJoin(room, p) /\ Attach(p, c)
      BY <1>2, <1>s DEF JoinRoom, Live
    <2>2. /\ UNCHANGED <<loose, due>>
          /\ \A q \in Humans : q # p => entry'[q] = entry[q]
      BY <2>1, AttachTimers
    <2>3. /\ room'.owner = IF room.owner = NoOwner THEN p ELSE room.owner
          /\ room'.started = room.started /\ room'.members = room.members \cup {p}
          /\ room'.online = room.online \cup {p}
          /\ \A q : Seated(room', q) => q = p \/ Seated(room, q)
      BY <2>1, JoinSound
    <2> QED
      BY <1>s, <1>t, <2>1, <2>2, <2>3, ReleasedKept
  <1>3. ASSUME NEW p \in Humans, NEW c \in Conns, ResumeRoom(p, c) PROVE Released'
    <2>1. Live /\ SoundRoom(room) /\ room' = Resume(room, p) /\ p \in room.members /\ Attach(p, c)
      BY <1>3, <1>s DEF ResumeRoom, Live
    <2>2. /\ UNCHANGED <<loose, due>>
          /\ \A q \in Humans : q # p => entry'[q] = entry[q]
      BY <2>1, AttachTimers
    <2>3. /\ room'.owner = IF room.owner = NoOwner THEN p ELSE room.owner
          /\ room'.started = room.started /\ room'.members = room.members
          /\ room'.online = room.online \cup {p} /\ room'.teams = room.teams
      BY <2>1, ResumeSound
    <2>4. \A q : Seated(room', q) <=> Seated(room, q)
      BY <2>3, SeatedSits
    <2> QED
      BY <1>s, <1>t, <2>1, <2>2, <2>3, <2>4, ReleasedKept
  <1>4. ASSUME NEW p \in Humans, NEW c \in Conns, Leave(p, c) PROVE Released'
    <2>1. Live
      BY <1>4 DEF Leave, Live
    <2>2. CASE Speaks(p, c)
      <3>1. /\ room' = Disconnect(room, p) /\ UNCHANGED <<loose, due>>
            /\ entry' = Armed(LeftTimers(p, room'.online))
        BY <1>4, <2>2 DEF Leave
      <3>2. /\ room'.owner = room.owner /\ room'.started = room.started
            /\ room'.members = room.members /\ room'.online = room.online \ {p}
            /\ room'.teams = room.teams
        BY <1>s, <2>1, <3>1, DisconnectSound
      <3>3. \A q : Seated(room', q) <=> Seated(room, q)
        BY <3>2, SeatedSits
      <3>4. /\ entry'[p] = "armed" /\ Pending(p)'
            /\ \A q \in Humans : q # p => entry'[q] = entry[q]
        BY <1>0, <1>n, <3>1 DEF Armed, LeftTimers, Pending
      <3> QED
        BY <1>s, <1>t, <2>1, <3>1, <3>2, <3>3, <3>4, ReleasedKept
    <2>3. CASE ~Speaks(p, c)
      BY <1>4, <1>k, <2>3 DEF Leave
    <2> QED
      BY <2>2, <2>3
  <1>5. ASSUME NEW p \in Humans, NEW t \in Sides,
               SelectTeam(p, t) \/ AddAI(p, t) \/ RemoveAI(p, t) \/ QuitTeam(p)
        PROVE  Released'
    <2>1. at = "idle"
      BY <1>5, MovesSound
    <2>2. PICK r : /\ Changed(r) /\ SameButTeams(room, r)
                   /\ \A q \in Humans : Seated(r, q) => q \in room.online \/ Seated(room, q)
      BY <1>5, MovesSound
    <2>3. UNCHANGED timerVars /\ room' = r
      BY <2>2 DEF Changed
    <2> QED
      BY <1>s, <1>t, <2>1, <2>2, <2>3, ReleasedKept DEF SameButTeams, Live, timerVars
  <1>6. ASSUME NEW p \in Humans, QuitTeam(p) PROVE Released'
    BY <1>5, <1>6 DEF Sides
  <1>7. ASSUME NEW p \in Humans, StartGame(p) PROVE Released'
    <2>1. Live /\ SoundRoom(room) /\ room' = BeginGame(room) /\ UNCHANGED timerVars
      BY <1>7, <1>s DEF StartGame, IsHost, Speaking, Live
    <2>2. /\ room'.started = TRUE /\ room'.owner = room.owner
          /\ room'.members = room.members /\ room'.online = room.online
      BY <2>1, StartedSound DEF BeginGame
    <2> QED
      BY <1>s, <1>t, <2>1, <2>2, ReleasedKept DEF timerVars
  <1>8. ASSUME NEW p \in Humans, ReopenRoom(p) PROVE Released'
    <2>1. Live /\ SoundRoom(room) /\ UNCHANGED timerVars
      BY <1>8, <1>s DEF ReopenRoom, Speaking, Changed, Live
    <2>2. CASE room.started
      <3>1. room' = Reopen(room)
        BY <1>8, <2>2 DEF ReopenRoom
      <3>2. /\ room'.owner = room.owner /\ room'.members = room.members
            /\ room'.online = room.online /\ \A q : Seated(room', q) => q \in AIs \cup room.online
        BY <2>1, <3>1, ReopenSound
      <3>3. \A q \in Humans : q \notin AIs
        BY RoomAssumption
      <3> QED
        BY <1>s, <1>t, <2>1, <3>2, <3>3, ReleasedKept DEF timerVars
    <2>3. CASE ~room.started
      BY <1>8, <1>k, <2>3 DEF ReopenRoom, Changed, Speaking
    <2> QED
      BY <2>2, <2>3
  <1>9. ASSUME NEW p \in Humans, ReleaseSeat(p) PROVE Released'
    <2>1. Live /\ SoundRoom(room) /\ room' \in Releases(room, p)
      BY <1>9, <1>s DEF ReleaseSeat, Live
    <2>2. /\ due[p] > 0 /\ due' = [due EXCEPT ![p] = @ - 1]
          /\ entry' = Disarmed({p})
          /\ loose' = [loose EXCEPT ![p] = IF entry[p] = "armed" THEN @ + 1 ELSE @]
      BY <1>9 DEF ReleaseSeat, Run, Forget
    <2>3. p \in Keys
      BY <1>0
    <2>4. \A q \in Humans : q # p => /\ entry'[q] = entry[q] /\ loose'[q] = loose[q]
                                     /\ due'[q] = due[q]
      BY <1>0, <1>t, <2>2, <2>3 DEF Disarmed
    <2>5. \A k \in Keys : loose'[k] + due'[k] <= MaxTimers
      <3>1. \A k \in Keys : k # p => loose'[k] = loose[k] /\ due'[k] = due[k]
        BY <1>t, <2>2, <2>3
      <3>2. /\ due'[p] = due[p] - 1 /\ (loose'[p] = loose[p] + 1 \/ loose'[p] = loose[p])
            /\ due[p] \in Nat /\ loose[p] \in Nat
        BY <1>t, <2>2, <2>3
      <3> QED
        BY <1>t, <1>n, <3>1, <3>2
    <2>6. /\ room'.started = room.started /\ room'.members = room.members
          /\ room'.online = room.online
          /\ \A q : Seated(room', q) => Seated(room, q)
          /\ p \notin room.online /\ ~room.started => ~Seated(room', p)
          /\ p \notin room.online => room'.owner # p
          /\ \/ room'.owner = room.owner \/ room'.owner \in room.online
             \/ (room'.owner = NoOwner /\ room.online = {})
      BY <2>1, ReleaseSound
    <2>7. ASSUME NEW q \in room'.members \ room'.online,
                 room'.owner = q \/ (~room'.started /\ Seated(room', q))
          PROVE  Pending(q)'
      <3>1. q # p /\ q \in Humans /\ q \in room.members \ room.online
        BY <1>s, <2>1, <2>6, <2>7
      <3>2. room.owner = q \/ (~room.started /\ Seated(room, q))
        BY <1>n, <2>6, <2>7, <3>1
      <3>3. Pending(q)
        BY <2>1, <3>1, <3>2 DEF Released, AbsentAreReleased
      <3> QED
        BY <2>4, <3>1, <3>3 DEF Pending
    <2> QED
      BY <2>5, <2>7 DEF Released, AbsentAreReleased
  <1>10. ASSUME NEW k \in Keys, Fire(k) \/ FireLoose(k) PROVE Released'
    <2>1. UNCHANGED <<at, room>>
      BY <1>10 DEF Fire, FireLoose
    <2>2. \A l \in Keys : Pending(l) => Pending(l)'
      BY <1>10, <1>t DEF Fire, FireLoose, Pending
    <2>3. \A l \in Keys : loose'[l] + due'[l] <= MaxTimers
      <3>1. CASE Fire(k)
        <4>1. /\ due[k] + loose[k] < MaxTimers /\ due'[k] = due[k] + 1 /\ loose'[k] = loose[k]
              /\ due[k] \in Nat /\ loose[k] \in Nat
          BY <3>1, <1>t DEF Fire
        <4>2. \A l \in Keys : l # k => due'[l] = due[l] /\ loose'[l] = loose[l]
          BY <3>1, <1>t DEF Fire
        <4> QED
          BY <4>1, <4>2, <1>t, <1>n
      <3>2. CASE FireLoose(k)
        <4>1. /\ due'[k] = due[k] + 1 /\ loose'[k] = loose[k] - 1
              /\ due[k] \in Nat /\ loose[k] \in Nat
          BY <3>2, <1>t DEF FireLoose
        <4>2. \A l \in Keys : l # k => due'[l] = due[l] /\ loose'[l] = loose[l]
          BY <3>2, <1>t DEF FireLoose
        <4> QED
          BY <4>1, <4>2, <1>t, <1>n
      <3> QED
        BY <1>10, <3>1, <3>2
    <2>4. Live => \A q \in room.members : q \in Keys
      BY <1>s, <1>0
    <2> QED
      BY <2>1, <2>2, <2>3, <2>4 DEF Released, AbsentAreReleased, Live
  <1>11. ASSUME SaveStarted \/ PlayOn \/ ForgetGame PROVE Released'
    BY <1>11 DEF SaveStarted, PlayOn, ForgetGame, Released, AbsentAreReleased, Pending, Live, timerVars
  <1>12. CASE ExpireRoom
    <2>1. /\ due[RoomTimer] > 0 /\ due' = [due EXCEPT ![RoomTimer] = @ - 1]
          /\ \/ UNCHANGED <<at, room, entry, loose>>
             \/ at' = "gone" /\ Forget(RoomTimer)
      BY <1>12 DEF ExpireRoom, Run
    <2>2. \A k \in Keys : loose'[k] + due'[k] <= MaxTimers
      <3>1. \A k \in Keys : k # RoomTimer => loose'[k] = loose[k] /\ due'[k] = due[k]
        BY <1>0, <1>t, <2>1 DEF Forget
      <3>2. /\ due'[RoomTimer] = due[RoomTimer] - 1
            /\ loose'[RoomTimer] = loose[RoomTimer] + 1 \/ loose'[RoomTimer] = loose[RoomTimer]
            /\ due[RoomTimer] \in Nat /\ loose[RoomTimer] \in Nat
        BY <1>0, <1>t, <2>1 DEF Forget
      <3> QED
        BY <1>0, <1>t, <1>n, <3>1, <3>2
    <2>3. CASE at' = "gone"
      BY <2>2, <2>3 DEF Released, AbsentAreReleased, Live
    <2>4. CASE UNCHANGED <<at, room, entry, loose>>
      <3>1. \A q \in Humans : due'[q] = due[q]
        BY <1>0, <1>n, <1>t, <2>1
      <3>2. Live => \A q \in room.members : q \in Humans
        BY <1>s
      <3> QED
        BY <2>2, <2>4, <3>1, <3>2 DEF Released, AbsentAreReleased, Pending, Live
    <2> QED
      BY <2>1, <2>3, <2>4
  <1>13. CASE Crash
    BY <1>13, <1>n DEF Crash, Released, AbsentAreReleased, Live
  <1>14. CASE Restart
    <2>1. CASE stored.open /\ Restorable(stored.room)
      <3> DEFINE r == Restored(stored.room)
      <3>1. /\ entry' = Armed(Holds(stored.room.members)) /\ UNCHANGED <<loose, due>>
            /\ room' = r \/ room' = AbortStart(r)
        BY <1>14, <2>1 DEF Restart
      <3>2. SoundRoom(r) /\ r.members = stored.room.members
        BY <2>1, RestoredSound DEF Housed, RowSound
      <3> HIDE DEF r
      <3>3. room'.members = stored.room.members /\ stored.room.members \subseteq Humans
        <4>1. AbortStart(r).members = r.members
          BY <3>2, StartedSound DEF AbortStart
        <4>2. r.members \subseteq Humans
          BY <3>2, SoundFields
        <4> QED
          BY <3>1, <3>2, <4>1, <4>2
      <3>4. \A q \in room'.members : Pending(q)'
        BY <1>0, <3>1, <3>3 DEF Armed, Holds, Pending
      <3> QED
        BY <3>1, <3>4 DEF Released, AbsentAreReleased
    <2>2. CASE ~(stored.open /\ Restorable(stored.room))
      BY <1>14, <2>2 DEF Restart, Released, AbsentAreReleased, Live
    <2> QED
      BY <2>1, <2>2
  <1>15. CASE UNCHANGED vars
    BY <1>15, <1>k DEF vars
  <1> QED
    BY <1>1, <1>2, <1>3, <1>4, <1>5, <1>6, <1>7, <1>8, <1>9, <1>10, <1>11,
       <1>12, <1>13, <1>14, <1>15 DEF Next

\* However visits, callbacks that could no longer be stopped, reopenings and
\* restarts fall together: a seat of the lobby, or the host's role, is never left
\* with somebody who is gone and whom nothing will ever release.
THEOREM LobbyAbsentAreReleased == Spec => []AbsentAreReleased
  <1> DEFINE I == Connected /\ Timed /\ Housed /\ Released
  <1>1. I => AbsentAreReleased
    BY DEF Released
  <1>2. Init => I
    BY ConnectedInit, TimedInit, HousedInit, ReleasedInit
  <1>3. I /\ [Next]_vars => I'
    BY ConnectedNext, TimedNext, HousedNext, ReleasedNext
  <1> QED
    BY <1>1, <1>2, <1>3, PTL DEF Spec

(***************************************************************************)
(* What a restart finds                                                    *)
(***************************************************************************)

\* What the row holds in each phase of the handler, when no write failed: after
\* the first write of a message the other state is still the old one.
Written ==
    failures = 0 =>
      /\ Live => stored.open /\ cache = stored.room
      /\ at \in {"idle", "forgetting"} => stored.room = SavedState(room)
      /\ at = "idle" => stored.game = IF game = NoGame THEN NoGame ELSE Snapshot(game)
      /\ at = "starting" => /\ ~stored.room.started /\ stored.game = Snapshot(game)
      /\ game # NoGame => game.num = played
      /\ NeverMissing

LEMMA WrittenInit == Init => Written
  BY DEF Init, Written, NeverMissing, Live

\* A failed write is counted, and never forgotten.
LEMMA FailuresGrow ==
    ASSUME Housed, Fails PROVE failures' # 0
  BY DEF Fails, Housed, RowSound

LEMMA RoomIsWritten ==
    ASSUME Housed, NEW r, SaveRoom(stored.room, r), stored.open, failures' = 0
    PROVE  /\ failures = 0 /\ stored'.open /\ stored'.room = SavedState(r)
           /\ cache' = SavedState(r) /\ stored'.game = stored.game
  BY FailuresGrow DEF SaveRoom, Housed, RowSound, RowShaped

LEMMA GameIsWritten ==
    ASSUME Housed, NEW g, SaveGame(g), stored.open, failures' = 0
    PROVE  /\ failures = 0 /\ stored'.open /\ stored'.room = stored.room
           /\ cache' = cache /\ stored'.game = g
  BY FailuresGrow DEF SaveGame, Housed, RowSound, RowShaped

\* An open room with the game it had, and both as they are stored.
LEMMA WrittenKept ==
    ASSUME Housed, Ordered, Written, at = "idle", at' = "idle",
           UNCHANGED <<game, played>>, SoundRoom(room'), Ordered',
           SaveRoom(cache, room') \/ (UNCHANGED storeVars /\ room' = room)
    PROVE  Written'
  <1> SUFFICES ASSUME failures' = 0 PROVE Written'
    BY DEF Written
  <1>1. CASE UNCHANGED storeVars /\ room' = room
    BY <1>1 DEF Written, NeverMissing, Playable, Live, storeVars
  <1>2. CASE SaveRoom(cache, room')
    <2>1. failures = 0
      BY <1>2, FailuresGrow DEF SaveRoom
    <2>2. stored.open /\ cache = stored.room
      BY <2>1 DEF Written, Live
    <2>3. /\ stored'.open /\ stored'.room = SavedState(room')
          /\ cache' = SavedState(room') /\ stored'.game = stored.game
      BY <1>2, <2>2, RoomIsWritten
    <2>4. stored'.game = (IF game = NoGame THEN NoGame ELSE Snapshot(game)) /\ (game # NoGame => game.num = played)
      BY <2>1, <2>3 DEF Written
    <2>5. SavedState(room').started = room'.started /\ SavedState(room').teams = room'.teams
      BY SavedSound
    <2>6. IF game = NoGame THEN ~room'.started ELSE room'.started /\ game.teams = room'.teams
      BY DEF Ordered, RosterFrozen
    <2>7. NeverMissing'
      <3>1. CASE game = NoGame
        BY <2>3, <2>5, <2>6, <3>1 DEF NeverMissing
      <3>2. CASE game # NoGame
        <4>1. game \in GameType
          BY <3>2 DEF Ordered
        <4>2. /\ Snapshot(game) # NoGame /\ Snapshot(game).num = game.num
              /\ Snapshot(game).teams = game.teams
          BY <4>1, SnapshotTyped
        <4> QED
          BY <2>3, <2>4, <2>5, <2>6, <3>2, <4>2 DEF NeverMissing, Playable
      <3> QED
        BY <3>1, <3>2
    <2> QED
      BY <2>3, <2>4, <2>7 DEF Written, Live
  <1> QED
    BY <1>1, <1>2

LEMMA WrittenNext ==
    Connected /\ Housed /\ Ordered /\ Written /\ [Next]_vars => Written'
  <1> SUFFICES ASSUME Connected, Housed, Ordered, Written, [Next]_vars, failures' = 0
               PROVE  Written'
    BY DEF Written
  <1>i. Housed' /\ Ordered'
    BY HousedNext, OrderedNext
  <1>s. Live' => SoundRoom(room')
    BY <1>i DEF Housed
  <1>r. RowShaped
    BY DEF Housed, RowSound
  <1>f. ~Fails
    BY FailuresGrow
  <1>k. UNCHANGED <<at, room, game, played, storeVars>> => Written'
    BY DEF Written, NeverMissing, Playable, Live, storeVars
  <1>w. at = "idle" /\ at' = "idle" /\ UNCHANGED <<game, played>>
          /\ (SaveRoom(cache, room') \/ (UNCHANGED storeVars /\ room' = room)) => Written'
    BY <1>i, <1>s, WrittenKept DEF Live
  <1>1. ASSUME NEW p \in Humans, NEW c \in Conns, Create(p, c) PROVE Written'
    <2>1. /\ at = "empty" /\ at' = "idle" /\ room' = NewRoom(p) /\ UNCHANGED <<game, played>>
          /\ stored' = [open |-> TRUE, room |-> SavedState(room'), game |-> NoGame]
          /\ cache' = SavedState(room')
      BY <1>1, <1>f DEF Create
    <2>2. game' = NoGame
      BY <2>1 DEF Ordered, Live
    <2>3. ~SavedState(room').started
      BY <2>1 DEF SavedState, NewRoom
    <2> QED
      BY <2>1, <2>2, <2>3 DEF Written, NeverMissing, Live
  <1>2. ASSUME NEW p \in Humans, NEW c \in Conns, JoinRoom(p, c) PROVE Written'
    BY <1>2, <1>w DEF JoinRoom
  <1>3. ASSUME NEW p \in Humans, NEW c \in Conns, ResumeRoom(p, c) PROVE Written'
    <2>1. /\ at = "idle" /\ at' = "idle" /\ UNCHANGED played /\ SaveRoom(cache, room')
          /\ game' = IF game = NoGame THEN NoGame ELSE [game EXCEPT !.begun = TRUE]
          /\ room' = Resume(room, p) /\ p \in room.members
      BY <1>3 DEF ResumeRoom
    <2>2. CASE game = NoGame
      BY <2>1, <2>2, <1>w
    <2>3. CASE game # NoGame
      <3>1. game \in GameType
        BY <2>3 DEF Ordered
      <3>2. /\ game' \in GameType /\ Snapshot(game') = Snapshot(game)
            /\ game'.num = game.num /\ game'.teams = game.teams
        BY <2>1, <2>3, <3>1 DEF GameType, Snapshot
      <3>3. /\ game' # NoGame /\ Snapshot(game') # NoGame
            /\ Snapshot(game').num = game'.num /\ Snapshot(game').teams = game'.teams
        BY <3>2, SnapshotTyped
      <3>4. failures = 0
        BY <2>1, FailuresGrow DEF SaveRoom
      <3>5. stored.open /\ cache = stored.room /\ stored.game = Snapshot(game) /\ game.num = played
        BY <2>1, <2>3, <3>4 DEF Written, Live
      <3>6. /\ stored'.open /\ stored'.room = SavedState(room') /\ cache' = SavedState(room')
            /\ stored'.game = Snapshot(game')
        BY <2>1, <3>2, <3>5, RoomIsWritten
      <3>7. room'.started /\ game'.teams = room'.teams
        BY <1>i, <2>1, <3>3 DEF Ordered, RosterFrozen
      <3>8. SavedState(room').started = room'.started /\ SavedState(room').teams = room'.teams
        BY <1>s, <2>1, SavedSound DEF Live
      <3>9. NeverMissing'
        BY <2>1, <3>2, <3>3, <3>5, <3>6, <3>7, <3>8 DEF NeverMissing, Playable
      <3> QED
        BY <2>1, <3>2, <3>3, <3>5, <3>6, <3>9 DEF Written, Live
    <2> QED
      BY <2>2, <2>3
  <1>4. ASSUME NEW p \in Humans, NEW c \in Conns, Leave(p, c) PROVE Written'
    BY <1>4, <1>w DEF Leave
  <1>5. ASSUME NEW p \in Humans, NEW t \in Sides,
               SelectTeam(p, t) \/ AddAI(p, t) \/ RemoveAI(p, t) \/ QuitTeam(p)
        PROVE  Written'
    <2>1. at = "idle"
      BY <1>5, MovesSound
    <2>2. PICK r : Changed(r)
      BY <1>5, MovesSound
    <2> QED
      BY <2>1, <2>2, <1>w DEF Changed
  <1>6. ASSUME NEW p \in Humans, QuitTeam(p) PROVE Written'
    BY <1>5, <1>6 DEF Sides
  <1>7. ASSUME NEW p \in Humans, StartGame(p) PROVE Written'
    <2> DEFINE g == [num |-> played', teams |-> room.teams, begun |-> TRUE, over |-> FALSE]
               h == [num |-> played', teams |-> room.teams, over |-> FALSE]
    <2>1. /\ at = "idle" /\ at' = "starting" /\ ~room.started /\ game' = g /\ SaveGame(h)
      BY <1>7 DEF StartGame, IsHost, Speaking, FirstSave, CanStart
    <2>2. Snapshot(g) = h /\ g.num = played'
      BY DEF Snapshot
    <2>3. failures = 0
      BY <2>1, FailuresGrow DEF SaveGame
    <2>4. stored.open /\ cache = stored.room /\ stored.room = SavedState(room)
      BY <2>1, <2>3 DEF Written, Live
    <2>5. /\ stored'.open /\ stored'.room = stored.room /\ cache' = cache /\ stored'.game = h
      BY <2>1, <2>4, GameIsWritten
    <2>6. ~stored'.room.started
      BY <2>1, <2>4, <2>5 DEF SavedState
    <2> HIDE DEF g, h
    <2> QED
      BY <2>1, <2>2, <2>4, <2>5, <2>6 DEF Written, NeverMissing, Live
  <1>8. ASSUME NEW p \in Humans, ReopenRoom(p) PROVE Written'
    <2>1. at = "idle"
      BY <1>8 DEF ReopenRoom, Speaking
    <2>2. CASE room.started
      <3>1. at' = "forgetting" /\ game' = NoGame /\ SaveRoom(cache, room')
        BY <1>8, <2>2 DEF ReopenRoom
      <3>2. failures = 0
        BY <3>1, FailuresGrow DEF SaveRoom
      <3>3. stored.open /\ cache = stored.room
        BY <2>1, <3>2 DEF Written, Live
      <3>4. /\ stored'.open /\ stored'.room = SavedState(room') /\ cache' = SavedState(room')
        BY <3>1, <3>3, RoomIsWritten
      <3>5. ~SavedState(room').started
        BY <1>i, <3>1 DEF SavedState, Ordered
      <3> QED
        BY <3>1, <3>4, <3>5 DEF Written, NeverMissing, Live
    <2>3. CASE ~room.started
      BY <1>8, <1>w, <2>1, <2>3 DEF ReopenRoom, Changed
    <2> QED
      BY <2>2, <2>3
  <1>9. ASSUME NEW p \in Humans, ReleaseSeat(p) PROVE Written'
    <2>1. ReleaseChanged(room, room') => SaveRoom(cache, room')
      BY <1>9 DEF ReleaseSeat
    <2>2. ~ReleaseChanged(room, room') => UNCHANGED storeVars /\ room' = room
      BY <1>9 DEF ReleaseSeat, ReleaseChanged
    <2> QED
      BY <1>9, <1>w, <2>1, <2>2 DEF ReleaseSeat
  <1>10. ASSUME NEW k \in Keys, Fire(k) \/ FireLoose(k) PROVE Written'
    BY <1>10, <1>k DEF Fire, FireLoose
  <1>11. CASE SaveStarted
    <2>1. /\ at = "starting" /\ at' = "idle" /\ UNCHANGED <<room, game, played>>
          /\ SaveRoom(cache, room')
      BY <1>11 DEF SaveStarted
    <2>2. failures = 0
      BY <2>1, FailuresGrow DEF SaveRoom
    <2>3. stored.open /\ cache = stored.room /\ stored.game = Snapshot(game)
      BY <2>1, <2>2 DEF Written, Live
    <2>4. /\ stored'.open /\ stored'.room = SavedState(room') /\ cache' = SavedState(room')
          /\ stored'.game = stored.game
      BY <2>1, <2>3, RoomIsWritten
    <2>5. game \in GameType /\ game # NoGame /\ game.teams = room.teams /\ room.started
      BY <2>1 DEF Ordered
    <2>6. game.num = played
      BY <2>2, <2>5 DEF Written
    <2>7. /\ Snapshot(game) # NoGame /\ Snapshot(game).num = game.num
          /\ Snapshot(game).teams = game.teams
      BY <2>5, SnapshotTyped
    <2>8. SavedState(room').started = room'.started /\ SavedState(room').teams = room'.teams
      BY <1>s, <2>1, SavedSound DEF Live
    <2>9. NeverMissing'
      BY <2>1, <2>3, <2>4, <2>5, <2>6, <2>7, <2>8 DEF NeverMissing, Playable
    <2> QED
      BY <2>1, <2>3, <2>4, <2>5, <2>6, <2>9 DEF Written, Live
  <1>12. CASE PlayOn
    <2>1. PICK over \in BOOLEAN : game' = [game EXCEPT !.over = over] /\ SaveGame(Snapshot(game'))
      BY <1>12 DEF PlayOn
    <2>2. game \in GameType /\ UNCHANGED <<at, room, played>> /\ game # NoGame
      BY <1>12 DEF PlayOn, Ordered
    <2>3. game' \in GameType /\ game'.teams = game.teams /\ game'.num = game.num
      BY <2>1, <2>2 DEF GameType
    <2>4. /\ game' # NoGame /\ Snapshot(game') # NoGame
          /\ Snapshot(game').num = game.num /\ Snapshot(game').teams = game.teams
      BY <2>3, SnapshotTyped
    <2>5. failures = 0
      BY <2>1, FailuresGrow DEF SaveGame
    <2>6. at \in {"idle", "starting"}
      BY <2>2 DEF Ordered, Live
    <2>7. stored.open /\ cache = stored.room /\ game.num = played
      BY <2>2, <2>5, <2>6 DEF Written, Live
    <2>8. /\ stored'.open /\ stored'.room = stored.room /\ cache' = cache
          /\ stored'.game = Snapshot(game')
      BY <2>1, <2>7, GameIsWritten
    <2>9. CASE at = "idle"
      <3>1. stored.room = SavedState(room) /\ game.teams = room.teams
        BY <2>2, <2>5, <2>9 DEF Written, Ordered, RosterFrozen
      <3>2. NeverMissing'
        BY <2>2, <2>4, <2>7, <2>8, <3>1 DEF NeverMissing, Playable, SavedState
      <3> QED
        BY <2>2, <2>3, <2>4, <2>7, <2>8, <2>9, <3>1, <3>2 DEF Written, Live
    <2>10. CASE at = "starting"
      <3>1. ~stored.room.started
        BY <2>5, <2>10 DEF Written
      <3> QED
        BY <2>2, <2>3, <2>4, <2>7, <2>8, <2>10, <3>1 DEF Written, NeverMissing, Live
    <2> QED
      BY <2>6, <2>9, <2>10
  <1>13. CASE ForgetGame
    <2>1. /\ at = "forgetting" /\ at' = "idle" /\ SaveGame(NoGame)
          /\ UNCHANGED <<room, game, played>>
      BY <1>13 DEF ForgetGame
    <2>2. failures = 0
      BY <2>1, FailuresGrow DEF SaveGame
    <2>3. stored.open /\ cache = stored.room /\ stored.room = SavedState(room)
      BY <2>1, <2>2 DEF Written, Live
    <2>4. /\ stored'.open /\ stored'.room = stored.room /\ cache' = cache
          /\ stored'.game = NoGame
      BY <2>1, <2>3, GameIsWritten
    <2>5. ~room.started /\ game = NoGame
      BY <2>1 DEF Ordered
    <2>6. ~stored'.room.started
      BY <2>3, <2>4, <2>5 DEF SavedState
    <2> QED
      BY <2>1, <2>3, <2>4, <2>5, <2>6 DEF Written, NeverMissing, Live
  <1>14. CASE ExpireRoom
    <2>1. CASE room.online # {}
      BY <1>14, <1>k, <2>1 DEF ExpireRoom
    <2>2. CASE room.online = {}
      <3>1. /\ at' = "gone" /\ game' = NoGame
            /\ stored' = [open |-> FALSE, room |-> NoState, game |-> NoGame]
        BY <1>14, <1>f, <2>2 DEF ExpireRoom, CloseStored
      <3> QED
        BY <3>1 DEF Written, NeverMissing, Live
    <2> QED
      BY <2>1, <2>2
  <1>15. CASE Crash
    BY <1>15 DEF Crash, Written, NeverMissing, Playable, Live
  <1>16. CASE Restart
    <2>1. CASE stored.open /\ Restorable(stored.room)
      <3> DEFINE r == Restored(stored.room)
      <3>1. SoundRoom(r) /\ SavedState(r) = stored.room /\ r.started = stored.room.started
        BY <2>1, RestoredSound DEF Housed, RowSound
      <3>2. CASE Playable(stored)
        <4>1. /\ at' = "idle" /\ room' = r /\ UNCHANGED <<stored, failures, played>>
              /\ cache' = stored.room
              /\ game' = [num |-> stored.game.num, teams |-> stored.game.teams,
                          begun |-> FALSE, over |-> stored.game.over]
          BY <1>16, <2>1, <3>2 DEF Restart
        <4>2. stored.game \in SnapshotType /\ stored.room.started
          BY <3>2 DEF Playable, Ordered
        <4>3. Snapshot(game') = stored.game /\ game'.num = stored.game.num
          BY <4>1, <4>2 DEF Snapshot, SnapshotType
        <4>4. NeverMissing /\ stored.game.num = played
          BY <2>1, <4>1, <4>2 DEF Written, NeverMissing
        <4>5. game' # NoGame
          BY <1>i, <4>1, <4>2, <3>1 DEF Ordered, RosterFrozen
        <4> HIDE DEF r
        <4> QED
          BY <2>1, <3>1, <4>1, <4>3, <4>4, <4>5 DEF Written, NeverMissing, Playable, Live
      <3>3. CASE ~Playable(stored)
        <4>1. /\ at' = IF stored.game = NoGame THEN "idle" ELSE "forgetting"
              /\ room' = AbortStart(r) /\ game' = NoGame
              /\ SaveRoom(stored.room, room')
          BY <1>16, <2>1, <3>3 DEF Restart
        <4>2. failures = 0
          BY <4>1, FailuresGrow DEF SaveRoom
        <4>3. /\ stored'.open /\ stored'.room = SavedState(room') /\ cache' = SavedState(room')
              /\ stored'.game = stored.game
          BY <2>1, <4>1, RoomIsWritten
        <4>4. ~SavedState(room').started
          BY <3>1, <4>1, StartedSound DEF SavedState, AbortStart
        <4> HIDE DEF r
        <4> QED
          BY <4>1, <4>3, <4>4 DEF Written, NeverMissing, Live
      <3> QED
        BY <3>2, <3>3
    <2>2. CASE ~(stored.open /\ Restorable(stored.room))
      <3>1. at' = "gone" /\ UNCHANGED game /\ (CloseStored \/ (~stored.open /\ UNCHANGED storeVars))
        BY <1>16, <2>2 DEF Restart
      <3>2. ~stored'.open
        BY <1>f, <3>1 DEF CloseStored, storeVars
      <3>3. game = NoGame
        BY <1>16 DEF Restart, Ordered, Live
      <3> QED
        BY <3>1, <3>2, <3>3 DEF Written, NeverMissing, Live
    <2> QED
      BY <2>1, <2>2
  <1>17. CASE UNCHANGED vars
    BY <1>17, <1>k DEF vars
  <1> QED
    BY <1>1, <1>2, <1>3, <1>4, <1>5, <1>6, <1>7, <1>8, <1>9, <1>10, <1>11,
       <1>12, <1>13, <1>14, <1>15, <1>16, <1>17 DEF Next

\* Killed between any two steps, the two writes of one message included, the
\* server finds the room and the game it had, or a lobby: a room is never stored
\* as started without its last game beside it.
THEOREM LobbyRestartFindsAll == Spec => []RestartFindsAll
  <1> DEFINE I == Connected /\ Housed /\ Ordered /\ Written
  <1>1. I => RestartFindsAll
    BY DEF Written, RestartFindsAll, StoppingLosesNothing, NeverMissing, Live
  <1>2. Init => I
    BY ConnectedInit, HousedInit, OrderedInit, WrittenInit
  <1>3. I /\ [Next]_vars => I'
    BY ConnectedNext, HousedNext, OrderedNext, WrittenNext
  <1> QED
    BY <1>1, <1>2, <1>3, PTL DEF Spec

(***************************************************************************)
(* Types                                                                   *)
(***************************************************************************)

Typed == open \subseteq Humans \X Conns /\ cache \in StateType \cup {NoState}

LEMMA CacheTyped ==
    ASSUME NEW old \in StateType \cup {NoState}, NEW r, SoundRoom(r), SaveRoom(old, r)
    PROVE  cache' \in StateType \cup {NoState}
  BY SavedSound DEF SaveRoom

LEMMA TypedNext == Connected /\ Housed /\ Typed /\ [Next]_vars => Typed'
  <1> SUFFICES ASSUME Connected, Housed, Typed, [Next]_vars PROVE Typed'
    OBVIOUS
  <1>1. Live' => SoundRoom(room')
    BY HousedNext DEF Housed
  <1>2. \A r : Live' /\ room' = r /\ SaveRoom(cache, r) => cache' \in StateType \cup {NoState}
    BY <1>1, CacheTyped DEF Typed
  <1>3. \A g : SaveGame(g) => UNCHANGED cache
    BY DEF SaveGame
  <1>4. ASSUME NEW p \in Humans, NEW c \in Conns,
               Create(p, c) \/ JoinRoom(p, c) \/ ResumeRoom(p, c)
        PROVE  Typed'
    <2>1. open' = open \cup {<<p, c>>} /\ at' = "idle"
      BY <1>4 DEF Create, JoinRoom, ResumeRoom, Attach
    <2>2. CASE Create(p, c)
      BY <1>1, <2>1, <2>2, SavedSound DEF Create, Typed, Live
    <2>3. CASE JoinRoom(p, c) \/ ResumeRoom(p, c)
      BY <1>2, <2>1, <2>3 DEF JoinRoom, ResumeRoom, Typed, Live
    <2> QED
      BY <1>4, <2>2, <2>3
  <1>5. ASSUME NEW p \in Humans, NEW c \in Conns, Leave(p, c) PROVE Typed'
    BY <1>2, <1>5 DEF Leave, Typed, Live, storeVars
  <1>6. ASSUME NEW p \in Humans, NEW t \in Sides,
               SelectTeam(p, t) \/ AddAI(p, t) \/ RemoveAI(p, t) \/ QuitTeam(p)
        PROVE  Typed'
    BY <1>2, <1>6, MovesSound DEF Changed, Typed, Live, clientVars
  <1>7. ASSUME NEW p \in Humans, QuitTeam(p) PROVE Typed'
    BY <1>6, <1>7 DEF Sides
  <1>8. ASSUME NEW p \in Humans, StartGame(p) \/ ReopenRoom(p) \/ ReleaseSeat(p) PROVE Typed'
    <2>1. CASE StartGame(p)
      BY <1>3, <2>1 DEF StartGame, FirstSave, Typed, clientVars
    <2>2. CASE ReopenRoom(p)
      BY <1>2, <2>2 DEF ReopenRoom, Speaking, Changed, Typed, Live, clientVars
    <2>3. CASE ReleaseSeat(p)
      BY <1>2, <2>3 DEF ReleaseSeat, Typed, Live, clientVars, storeVars
    <2> QED
      BY <1>8, <2>1, <2>2, <2>3
  <1>9. ASSUME NEW k \in Keys, Fire(k) \/ FireLoose(k) PROVE Typed'
    BY <1>9 DEF Fire, FireLoose, Typed, clientVars, storeVars
  <1>10. ASSUME SaveStarted \/ PlayOn \/ ForgetGame PROVE Typed'
    BY <1>2, <1>3, <1>10 DEF SaveStarted, PlayOn, ForgetGame, Typed, Live, clientVars
  <1>11. ASSUME ExpireRoom \/ Crash PROVE Typed'
    BY <1>11 DEF ExpireRoom, Crash, CloseStored, Typed, clientVars, storeVars
  <1>12. CASE Restart
    <2>1. CASE stored.open /\ Restorable(stored.room)
      <3>1. stored.room \in StateType /\ SoundRoom(Restored(stored.room))
        BY <2>1, RestoredSound DEF Housed, RowSound
      <3>2. SoundRoom(AbortStart(Restored(stored.room)))
        BY <3>1, StartedSound DEF AbortStart
      <3>3. UNCHANGED open /\ (cache' = stored.room \/ SaveRoom(stored.room, AbortStart(Restored(stored.room))))
        BY <1>12, <2>1 DEF Restart, clientVars
      <3> QED
        BY <3>1, <3>2, <3>3, CacheTyped DEF Typed
    <2>2. CASE ~(stored.open /\ Restorable(stored.room))
      BY <1>12, <2>2 DEF Restart, CloseStored, Typed, clientVars, storeVars
    <2> QED
      BY <2>1, <2>2
  <1>13. CASE UNCHANGED vars
    BY <1>13 DEF vars, Typed, clientVars, storeVars
  <1> QED
    BY <1>4, <1>5, <1>6, <1>7, <1>8, <1>9, <1>10, <1>11, <1>12, <1>13 DEF Next

\* Everything the handler and the store hold has its type: teams of the allowed
\* size in which nobody sits twice, and no more timers of a key than the bound.
THEOREM LobbyTypes == Spec => []LobbyTypeOK
  <1> DEFINE I == Connected /\ Timed /\ Housed /\ Ordered /\ Released /\ Typed
  <1>1. I => LobbyTypeOK
    <2> SUFFICES ASSUME I PROVE LobbyTypeOK
      OBVIOUS
    <2>1. loose \in [Keys -> 0..MaxTimers] /\ due \in [Keys -> 0..MaxTimers]
      <3>1. /\ loose \in [Keys -> Nat] /\ due \in [Keys -> Nat] /\ MaxTimers \in Nat
            /\ \A k \in Keys : loose[k] + due[k] <= MaxTimers
        BY LobbyAssumption DEF Timed, Released
      <3>2. \A k \in Keys : loose[k] \in 0..MaxTimers /\ due[k] \in 0..MaxTimers
        BY <3>1
      <3> QED
        BY <3>1, <3>2
    <2>2. IF Live THEN room \in RoomType /\ Restorable(room) ELSE room = NoRoom
      BY SoundFields DEF Housed, SoundRoom
    <2>3. stored.room \in IF stored.open THEN StateType ELSE {NoState}
      BY DEF Housed, RowSound
    <2> QED
      BY <2>1, <2>2, <2>3 DEF LobbyTypeOK, Connected, Timed, Housed, RowSound, Ordered, Typed
  <1>2. Init => I
    BY ConnectedInit, TimedInit, HousedInit, OrderedInit, ReleasedInit DEF Init, Typed
  <1>3. I /\ [Next]_vars => I'
    BY ConnectedNext, TimedNext, HousedNext, OrderedNext, ReleasedNext, TypedNext
  <1> QED
    BY <1>1, <1>2, <1>3, PTL DEF Spec

=============================================================================
