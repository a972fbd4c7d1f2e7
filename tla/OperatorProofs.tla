--------------------------- MODULE OperatorProofs ---------------------------
(***************************************************************************)
(* The operator's console for any bounds: desk and keys, the notebook and the *)
(* writing on it.  Of the desk: what it holds is what was written last in  *)
(* this beat, after whatever losses, reloads and recoveries, and what it   *)
(* calls sent was sent.  Of the notebook: ink stays as it was drawn, and a *)
(* note is on the paper.  Of the keypad: a number stands once in a code, an *)
(* answer goes once, whole and under nothing that covers the page, and nobody *)
(* is locked out by a request that is over.                                *)
(***************************************************************************)
EXTENDS MCTerminal, SequenceTheorems, TLAPS

-----------------------------------------------------------------------------
\* What the variables of the desk hold

RequestTypes == {"create", "join", "start", "submit", "progress", "resume"}
TellTypes == {"room_created", "phase_change", "full_sync", "action_submitted", "resume_expired", "error"}
Phases == {"home", "room", "play"}
Requests == [type : RequestTypes, beat : 0 .. MaxBeats, text : 0 .. MaxTexts]
Tells == [type : TellTypes, room : 0 .. MaxRooms, game : 0 .. MaxGames, beat : 0 .. MaxBeats, ok : BOOLEAN]
Hosts == [seat : BOOLEAN, bound : BOOLEAN, room : 0 .. MaxRooms, game : 0 .. MaxGames,
          beat : 0 .. MaxBeats, draft : 0 .. MaxTexts, accepted : 0 .. MaxTexts]
Stores == [phase : Phases, room : 0 .. MaxRooms, game : 0 .. MaxGames, beat : 0 .. MaxBeats, connected : BOOLEAN,
           recovering : BOOLEAN, submitted : BOOLEAN, error : BOOLEAN, token : BOOLEAN]
Desks == [pending : BOOLEAN, submitted : BOOLEAN, draft : 0 .. MaxTexts, stale : 0 .. MaxTexts]
Drawers == [identity : Phases \X (0 .. MaxRooms) \X (0 .. MaxBeats), text : 0 .. MaxTexts]
Throttles == [open : BOOLEAN, trail : 0 .. MaxTexts, beat : 0 .. MaxBeats]
Boxes == [powered : BOOLEAN, cable : BOOLEAN]
Pages == [1 .. MaxRooms -> [1 .. MaxGames -> [1 .. MaxBeats -> 0 .. MaxTexts]]]

Types ==
    /\ up \in BOOLEAN /\ requests \in Seq(Requests) /\ tells \in Seq(Tells)
    /\ Len(requests) <= MaxAsks /\ Len(tells) <= MaxAsks
    /\ host \in Hosts /\ store \in Stores /\ desk \in Desks /\ drawer \in Drawers /\ box \in Boxes
    /\ throttle \in Throttles /\ invite \in BOOLEAN /\ upLink \in BOOLEAN
    /\ cuts \in Nat /\ texts \in 0 .. MaxTexts
    /\ written \in [text : Pages, cut : BOOLEAN]

-----------------------------------------------------------------------------
\* Where a game is: the room, the game in it and the beat; after the last beat
\* the room is open again
Turn(x) == IF x.beat = 0 THEN MaxBeats + 1 ELSE x.beat
Same(x, y) == x.room = y.room /\ x.game = y.game /\ x.beat = y.beat
Before(x, y) ==
    \/ x.room < y.room
    \/ x.room = y.room /\ x.game < y.game
    \/ x.room = y.room /\ x.game = y.game /\ Turn(x) < Turn(y)
NotAfter(x, y) == Before(x, y) \/ Same(x, y)
Spots == [room : 1 .. MaxRooms, game : 1 .. MaxGames, beat : 1 .. MaxBeats]
Place(x) == x.room # 0 /\ (x.beat # 0 => x.game # 0)

\* What carries the place of the game to the page
Mention(m) == m.type \in {"room_created", "phase_change", "full_sync"}
NoMention(a, b) == \A k \in a .. b : ~Mention(tells[k])
ToldAfter(i) == \E j \in 1 .. Len(tells) : j > i /\ tells[j].type = "action_submitted"

\* The parts of the invariant.  The server's seat:
HostOK ==
    /\ host.bound => host.seat /\ up
    /\ host.seat => host.room # 0
    /\ host.beat # 0 => host.seat /\ host.game # 0
    /\ host.accepted # NoText => host.beat # 0

\* the store by itself:
StoreOK ==
    /\ store.connected = up
    /\ store.recovering => store.token
    /\ ~up /\ store.token => store.recovering
    /\ store.phase # "home" => store.token /\ Place(store)
    /\ store.phase # "home" => (store.phase = "play" <=> store.beat # 0)
    /\ store.phase = "home" => store.beat = 0 /\ store.game = 0 /\ ~store.submitted
    /\ store.phase = "home" /\ store.token => store.recovering
    /\ invite => store.phase = "home"

\* a connection: nothing is on its way without one; over a new one a seat is
\* resumed before anything else is said, and an invitation is the first request:
LineOK ==
    /\ ~up => requests = <<>> /\ tells = <<>> /\ ~host.bound
    /\ up /\ store.recovering =>
         \/ Len(requests) = 1 /\ requests[1].type = "resume" /\ tells = <<>> /\ ~host.bound
         \/ requests = <<>> /\ Len(tells) > 0 /\ tells[1].type = "full_sync" /\ host.bound
         \/ requests = <<>> /\ Len(tells) = 1 /\ tells[1].type = "resume_expired" /\ ~host.seat
    /\ up /\ ~store.token =>
         \/ host.bound /\ Len(tells) > 0 /\ tells[1].type = "room_created"
         \/ ~host.bound /\ tells = <<>>
RequestsOK ==
    /\ \A i \in 1 .. Len(requests) : requests[i].type = "resume" => store.recovering
    /\ \A i \in 1 .. Len(requests) : requests[i].type = "submit" => requests[i].text # NoText /\ Writes(requests[i].beat)
    /\ \A i \in 1 .. Len(requests) : requests[i].type \in {"start", "submit", "progress"} => store.token
    /\ \A i \in 1 .. Len(requests) : requests[i].type = "join" => i = 1 /\ ~store.token /\ ~host.bound
    /\ invite /\ up /\ ~store.token => requests = <<>> /\ ~host.bound
TellsOK ==
    \A i \in 1 .. Len(tells) :
        /\ tells[i].type \in {"full_sync", "resume_expired"} => i = 1 /\ store.recovering
        /\ tells[i].type = "room_created" => i = 1 /\ ~store.token /\ tells[i].beat = 0
        /\ tells[i].type \in {"room_created", "phase_change"} => ~tells[i].ok

\* the store runs behind the server and the news are between them in order:
Ordered ==
    /\ \A i \in 1 .. Len(tells) : Mention(tells[i]) =>
          Place(tells[i]) /\ host.bound /\ NotAfter(tells[i], host)
    /\ \A i, j \in 1 .. Len(tells) : i < j /\ Mention(tells[i]) /\ Mention(tells[j]) => Before(tells[i], tells[j])
    /\ store.phase # "home" =>
          /\ \A i \in 1 .. Len(tells) : Mention(tells[i]) =>
                Before(store, tells[i]) \/ (tells[i].type = "full_sync" /\ Same(store, tells[i]))
          /\ host.seat => NotAfter(store, host)
    /\ store.room <= host.room
Differ ==
    /\ \A i, j \in 1 .. Len(tells) :
          i < j /\ Mention(tells[i]) /\ Mention(tells[j]) /\ NoMention(i + 1, j - 1) => tells[i].beat # tells[j].beat
    /\ store.phase # "home" /\ ~store.recovering =>
          \A i \in 1 .. Len(tells) : Mention(tells[i]) /\ NoMention(1, i - 1) => store.beat # tells[i].beat
Synced ==
    /\ \A i \in 1 .. Len(tells) : Mention(tells[i]) /\ NoMention(i + 1, Len(tells)) =>
          /\ Same(tells[i], host)
          /\ host.accepted # NoText <=> (tells[i].ok \/ ToldAfter(i))
    /\ up /\ store.token /\ ~store.recovering /\ NoMention(1, Len(tells)) =>
          /\ host.bound /\ Same(store, host)
          /\ host.accepted # NoText <=> (store.submitted \/ ToldAfter(0))

\* what is shown as sent was sent, is on its way, or is about to be refused:
SubmitOut == \E i \in 1 .. Len(requests) : requests[i].type = "submit" /\ requests[i].beat = store.beat
ErrorOut == \E i \in 1 .. Len(tells) : tells[i].type = "error"
Sent ==
    /\ store.phase = "home" => ~desk.submitted
    /\ desk.submitted /\ ~store.submitted => ~store.error
    /\ desk.submitted /\ ~store.recovering =>
         \/ store.submitted \/ ToldAfter(0) \/ SubmitOut
         \/ ErrorOut /\ (host.accepted # NoText \/ ~Same(store, host))

\* the drawer holds the last text there is, and the desk reads from it:
DeskKept ==
    /\ desk.draft = ReadDraft(Identity(store))
    /\ drawer.text = texts
    /\ drawer.text = NoText => drawer = EmptyDrawer
Uncut == ~written.cut => box.powered /\ box.cable /\ ~store.recovering

\* and the last text was written at p, where the game is or has been; while it
\* is there and the connection held, the text waits, is on its way or is known
TextAt(p) == written.text[p.room][p.game][p.beat]
Latest(p) ==
    /\ TextAt(p) = texts /\ drawer.identity = <<"play", p.room, p.beat>> /\ Writes(p.beat)
    /\ \A q \in Spots : TextAt(q) # NoText => NotAfter(q, p)
Reached(p) ==
    /\ store.phase # "home" => NotAfter(p, store)
    /\ \A i \in 1 .. Len(tells) : Mention(tells[i]) => NotAfter(p, tells[i])
    /\ p.room <= host.room /\ (host.seat => NotAfter(p, host))
Progress(m, p) == m.type = "progress" /\ m.beat = p.beat
NoSubmit(p) == \A i \in 1 .. Len(requests) : requests[i].type = "submit" => requests[i].beat # p.beat
OnItsWay(p) ==
    \E i \in 1 .. Len(requests) :
        /\ Progress(requests[i], p) /\ requests[i].text = texts
        /\ \A j \in 1 .. Len(requests) : j > i => ~Progress(requests[j], p)
Known(p) == host.draft = texts /\ \A i \in 1 .. Len(requests) : ~Progress(requests[i], p)
There(p) == ~written.cut /\ store.phase = "play" /\ Same(store, p) /\ Same(host, p)
Reported(p) ==
    There(p) /\ host.accepted = NoText /\ NoSubmit(p) =>
        \/ throttle.open /\ throttle.beat = p.beat /\ throttle.trail = texts
        \/ throttle.trail = NoText /\ (OnItsWay(p) \/ Known(p))
Wrote ==
    IF texts = 0 THEN \A q \in Spots : TextAt(q) = NoText
    ELSE \E p \in Spots : Latest(p) /\ Reached(p) /\ Reported(p)

DeskInv ==
    /\ Types /\ HostOK /\ StoreOK /\ LineOK /\ RequestsOK /\ TellsOK /\ Ordered /\ Differ /\ Synced
    /\ Sent /\ DeskKept /\ Uncut /\ Wrote

-----------------------------------------------------------------------------
\* Sequences that grow at their end and shrink at their head
Grown(t, s, m) == Len(t) = Len(s) + 1 /\ t[Len(s) + 1] = m /\ \A i \in 1 .. Len(s) : t[i] = s[i]
Shrunk(t, s) == Len(s) = Len(t) + 1 /\ \A i \in 1 .. Len(t) : t[i] = s[i + 1]

LEMMA GrownSeq ==
    ASSUME NEW S, NEW s \in Seq(S), NEW m \in S
    PROVE  /\ Append(s, m) \in Seq(S) /\ Grown(Append(s, m), s, m)
           /\ s \o <<m>> \in Seq(S) /\ Grown(s \o <<m>>, s, m)
  <1>1. Append(s, m) \in Seq(S) /\ Grown(Append(s, m), s, m)
    BY DEF Grown
  <1>2. <<m>> \in Seq(S) /\ Len(<<m>>) = 1 /\ <<m>>[1] = m
    OBVIOUS
  <1>3. /\ s \o <<m>> \in Seq(S) /\ Len(s \o <<m>>) = Len(s) + 1 /\ Len(s) \in Nat
        /\ \A i \in 1 .. Len(s) + 1 : (s \o <<m>>)[i] = IF i <= Len(s) THEN s[i] ELSE <<m>>[i - Len(s)]
    BY <1>2, ConcatProperties, LenProperties
  <1>4. Grown(s \o <<m>>, s, m)
    BY <1>2, <1>3 DEF Grown
  <1> QED
    BY <1>1, <1>3, <1>4

LEMMA ShrunkSeq ==
    ASSUME NEW S, NEW s \in Seq(S), s # <<>>
    PROVE  /\ Tail(s) \in Seq(S) /\ Shrunk(Tail(s), s)
           /\ Head(s) = s[1] /\ s[1] \in S
  BY DEF Shrunk

LEMMA NoneIn == ASSUME NEW S PROVE <<>> \in Seq(S) /\ Len(<<>>) = 0
  OBVIOUS

LEMMA Element == ASSUME NEW S, NEW s \in Seq(S), NEW i \in 1 .. Len(s) PROVE s[i] \in S
  OBVIOUS

LEMMA EmptyLen == ASSUME NEW S, NEW s \in Seq(S) PROVE Len(s) \in Nat /\ (Len(s) = 0 <=> s = <<>>)
  OBVIOUS

\* Places are ordered
LEMMA Order ==
    ASSUME NEW x, NEW y, NEW z,
           x.room \in Nat, x.game \in Nat, x.beat \in Nat, y.room \in Nat, y.game \in Nat, y.beat \in Nat,
           z.room \in Nat, z.game \in Nat, z.beat \in Nat
    PROVE  /\ Before(x, y) /\ Before(y, z) => Before(x, z)
           /\ NotAfter(x, y) /\ Before(y, z) => Before(x, z)
           /\ Before(x, y) /\ NotAfter(y, z) => Before(x, z)
           /\ NotAfter(x, y) /\ NotAfter(y, z) => NotAfter(x, z)
           /\ Before(x, y) => NotAfter(x, y)
           /\ Before(x, y) => ~Same(x, y) /\ ~NotAfter(y, x)
           /\ NotAfter(x, y) => x.room <= y.room
           /\ NotAfter(x, x)
  <1>1. Turn(x) \in Int /\ Turn(y) \in Int /\ Turn(z) \in Int
    BY DeskAssumption DEF Turn
  <1>2. /\ Same(x, y) => Turn(x) = Turn(y)
        /\ Same(y, z) => Turn(y) = Turn(z)
    BY DEF Turn, Same
  <1> QED
    BY <1>1, <1>2 DEF Before, NotAfter, Same

-----------------------------------------------------------------------------
\* What the store's news do to the desk

SubmittedAfter(new) ==
    IF new.error /\ ~store.error THEN FALSE
    ELSE IF (store.submitted = new.submitted /\ store.recovering = new.recovering) \/ new.recovering
         THEN IF Identity(store) = Identity(new) THEN desk.submitted ELSE FALSE
         ELSE new.submitted

\* The drawer is not touched by news: it already holds what the new beat reads.
LEMMA Becomes ==
    ASSUME Types, DeskKept, NEW new \in Stores, NEW people \in BOOLEAN, Become(new, people)
    PROVE  /\ store' = new /\ drawer' = drawer
           /\ desk' \in Desks /\ desk'.submitted = SubmittedAfter(new)
           /\ desk'.draft = ReadDraft(Identity(new))
           /\ invite' = (invite /\ new.phase = "home") /\ upLink' \in BOOLEAN
  <1> DEFINE d1 == NewBeat(store, new, desk)
             d2 == Followed(store, new, d1)
             d3 == Refused(store, new, d2)
  <1>1. ReadDraft(Identity(new)) \in 0 .. MaxTexts
    BY DeskAssumption DEF ReadDraft, Types, Drawers, NoText
  <1>2. /\ d1 \in Desks /\ d1.draft = ReadDraft(Identity(new))
        /\ d1.submitted = IF Identity(store) = Identity(new) THEN desk.submitted ELSE FALSE
    <2>1. CASE Identity(store) = Identity(new)
      <3>1. d1 = desk
        BY <2>1 DEF NewBeat
      <3> QED
        BY <2>1, <3>1 DEF Types, Desks, DeskKept
    <2>2. CASE Identity(store) # Identity(new)
      <3> DEFINE old == IF store.token # new.token THEN NoText
                        ELSE IF ~OnlineWith(new) /\ ~desk.submitted /\ ~store.submitted /\ desk.draft # NoText
                        THEN desk.draft ELSE desk.stale
      <3>1. d1 = [pending |-> FALSE, submitted |-> FALSE, draft |-> ReadDraft(Identity(new)), stale |-> old]
        BY <2>2 DEF NewBeat
      <3>2. old \in 0 .. MaxTexts
        BY DeskAssumption DEF Types, Desks, NoText
      <3> HIDE DEF old, d1
      <3> QED
        BY <1>1, <2>2, <3>1, <3>2 DEF Desks
    <2> QED
      BY <2>1, <2>2
  <1>3. /\ d2 \in Desks /\ d2.draft = d1.draft
        /\ d2.submitted = IF (store.submitted = new.submitted /\ store.recovering = new.recovering) \/ new.recovering
                          THEN d1.submitted ELSE new.submitted
    <2> HIDE DEF d1
    <2> QED
      BY <1>2 DEF Followed, Desks, Stores
  <1>4. /\ d3 \in Desks /\ d3.draft = d2.draft
        /\ d3.submitted = IF new.error /\ ~store.error THEN FALSE ELSE d2.submitted
    <2> HIDE DEF d2
    <2> QED
      BY <1>3 DEF Refused, Desks
  <1>5. desk' = (IF people THEN [d3 EXCEPT !.pending = FALSE] ELSE d3)
    BY DEF Become
  <1>6. desk' \in Desks /\ desk'.draft = d3.draft /\ desk'.submitted = d3.submitted
    <2> HIDE DEF d3
    <2> QED
      BY <1>4, <1>5 DEF Desks
  <1> HIDE DEF d1, d2, d3
  <1>7. desk'.draft = ReadDraft(Identity(new)) /\ desk'.submitted = SubmittedAfter(new)
    BY <1>2, <1>3, <1>4, <1>6 DEF SubmittedAfter
  <1>8. drawer' = drawer
    <2>1. SaveDraft(Identity(new), desk'.draft)
      BY DEF Become
    <2>2. CASE desk'.draft # NoText
      <3>1. drawer.identity = Identity(new) /\ desk'.draft = drawer.text
        BY <1>7, <2>2 DEF ReadDraft
      <3> QED
        BY <2>1, <2>2, <3>1 DEF SaveDraft, Types, Drawers
    <2>3. CASE desk'.draft = NoText
      BY <1>7, <2>1, <2>3 DEF SaveDraft, ReadDraft, DeskKept
    <2> QED
      BY <2>2, <2>3
  <1> QED
    BY <1>6, <1>7, <1>8 DEF Become, Types

-----------------------------------------------------------------------------
LEMMA DeskInitInv == DeskInit => DeskInv
  <1> SUFFICES ASSUME DeskInit PROVE DeskInv
    OBVIOUS
  <1> USE DeskAssumption, NoneIn DEF DeskInit
  <1>0. Len(requests) = 0 /\ Len(tells) = 0
    OBVIOUS
  <1>1. Types
    <2>1. written \in [text : Pages, cut : BOOLEAN]
      BY DEF Pages, NoText
    <2>2. host \in Hosts /\ store \in Stores
      BY DEF NoSeat, Hosts, EmptyStore, Stores, Phases, NoText
    <2>3. desk \in Desks /\ drawer \in Drawers
      BY DEF EmptyDesk, Desks, EmptyDrawer, Drawers, Nowhere, Phases, NoText
    <2>4. box \in Boxes /\ throttle \in Throttles
      BY DEF Boxes, Shut, Throttles, NoText
    <2>5. /\ <<>> \in Seq(Requests) /\ <<>> \in Seq(Tells) /\ 0 <= MaxAsks
      OBVIOUS
    <2>7. /\ up \in BOOLEAN /\ requests \in Seq(Requests) /\ tells \in Seq(Tells)
          /\ Len(requests) <= MaxAsks /\ Len(tells) <= MaxAsks
      BY <1>0, <2>5
    <2>6. invite \in BOOLEAN /\ upLink \in BOOLEAN /\ cuts \in Nat /\ texts \in 0 .. MaxTexts
      OBVIOUS
    <2> QED
      BY ONLY <2>1, <2>2, <2>3, <2>4, <2>6, <2>7 DEF Types
  <1>2. HostOK /\ StoreOK
    BY DEF HostOK, NoSeat, StoreOK, EmptyStore
  <1>6. LineOK /\ RequestsOK /\ TellsOK
    BY <1>0 DEF NoSeat, EmptyStore, LineOK, RequestsOK, TellsOK
  <1>5. Ordered /\ Differ /\ Synced /\ Uncut
    BY <1>0 DEF NoSeat, EmptyStore, Ordered, Differ, Synced, Uncut
  <1>3. Sent /\ DeskKept
    BY DEF Sent, DeskKept, EmptyDesk, EmptyStore, EmptyDrawer, ReadDraft, Identity, Nowhere, NoText
  <1>4. Wrote
    BY DEF Wrote, TextAt, Spots, NoText
  <1> QED
    BY <1>1, <1>2, <1>3, <1>4, <1>5, <1>6 DEF DeskInv

\* What the invariant is for
LEMMA DeskInvKept == DeskInv => DeskIsKept
  <1> SUFFICES ASSUME DeskInv PROVE DeskIsKept
    OBVIOUS
  <1> USE DEF DeskInv
  <1>1. DeskTypeOK
    <2>1. {host.draft, host.accepted} \subseteq 0 .. MaxTexts /\ {desk.draft, desk.stale, drawer.text, throttle.trail} \subseteq 0 .. MaxTexts
      BY DEF Types, Hosts, Desks, Drawers, Throttles
    <2> QED
      BY <2>1 DEF DeskTypeOK, Types, Hosts, Stores, Phases, Desks, HostOK, StoreOK
  <1>2. Quiet => /\ store.token /\ ~store.recovering /\ Same(store, host) /\ ~ToldAfter(0) /\ ~ErrorOut /\ ~SubmitOut
                 /\ (host.accepted # NoText <=> store.submitted)
    BY NoneIn DEF Quiet, Connected, Synced, StoreOK, NoMention, ToldAfter, ErrorOut, SubmitOut, Types
  <1>3. SubmittedIsSent
    BY <1>2 DEF SubmittedIsSent, Sent
  <1>4. ASSUME Acts(store), NEW p \in Spots, Latest(p), Reached(p)
        PROVE  /\ store.room \in 1 .. MaxRooms /\ store.game \in 1 .. MaxGames /\ store.beat \in 1 .. MaxBeats
               /\ Identity(store) = drawer.identity => p.room = store.room /\ p.beat = store.beat /\ p.game <= store.game
               /\ written.text[store.room][store.game][store.beat] # NoText => Same(store, p)
               /\ p.game < store.game /\ p.room = store.room /\ p.beat = store.beat
                    => written.text[store.room][store.game][store.beat] = NoText
    <2>1. store.room \in 1 .. MaxRooms /\ store.game \in 1 .. MaxGames /\ store.beat \in 1 .. MaxBeats
      BY <1>4, DeskAssumption DEF Acts, StoreOK, Place, Types, Stores
    <2>2. NotAfter(p, store)
      BY <1>4 DEF Reached, Acts
    <2>3. ASSUME written.text[store.room][store.game][store.beat] # NoText PROVE Same(store, p)
      <3> DEFINE q == [room |-> store.room, game |-> store.game, beat |-> store.beat]
      <3>1. q \in Spots /\ TextAt(q) # NoText
        BY <2>1, <2>3 DEF Spots, TextAt
      <3>2. NotAfter(q, p)
        BY <1>4, <3>1 DEF Latest
      <3>3. NotAfter(store, p)
        BY <3>2 DEF NotAfter, Before, Same, Turn
      <3> QED
        BY <2>1, <2>2, <3>3, Order DEF Spots, NotAfter
    <2>4. Identity(store) = drawer.identity => p.room = store.room /\ p.beat = store.beat
      BY <1>4 DEF Identity, Latest
    <2>5. p.room = store.room /\ p.beat = store.beat => p.game <= store.game
      BY <2>1, <2>2 DEF Spots, NotAfter, Before, Same, Turn
    <2> QED
      BY <2>1, <2>3, <2>4, <2>5 DEF Same, Spots
  <1>5. DraftIsOfThisBeat
    <2> SUFFICES ASSUME Acts(store)
                 PROVE  \/ desk.draft = written.text[store.room][store.game][store.beat]
                        \/ /\ written.text[store.room][store.game][store.beat] = NoText
                           /\ \E g \in 1 .. store.game : desk.draft = written.text[store.room][g][store.beat]
      BY DEF DraftIsOfThisBeat
    <2>1. CASE texts = 0
      <3>1. store.room \in 1 .. MaxRooms /\ store.game \in 1 .. MaxGames /\ store.beat \in 1 .. MaxBeats
        BY DeskAssumption DEF Acts, StoreOK, Place, Types, Stores
      <3> DEFINE q == [room |-> store.room, game |-> store.game, beat |-> store.beat]
      <3>2. TextAt(q) = NoText
        BY <2>1, <3>1 DEF Wrote, Spots
      <3>3. desk.draft = NoText
        BY <2>1 DEF DeskKept, ReadDraft, NoText
      <3> QED
        BY <3>2, <3>3 DEF TextAt
    <2>2. CASE texts # 0
      <3>1. PICK p \in Spots : Latest(p) /\ Reached(p)
        BY <2>2 DEF Wrote
      <3>2. CASE Identity(store) = drawer.identity
        <4>1. desk.draft = texts /\ texts = written.text[p.room][p.game][p.beat]
          BY <3>1, <3>2 DEF DeskKept, ReadDraft, Latest, TextAt
        <4>2. p.room = store.room /\ p.beat = store.beat /\ p.game \in 1 .. store.game
          BY <1>4, <3>1, <3>2 DEF Spots
        <4>3. CASE p.game = store.game
          BY <4>1, <4>2, <4>3
        <4>4. CASE p.game # store.game
          BY <1>4, <3>1, <4>1, <4>2, <4>4 DEF Spots
        <4> QED
          BY <4>3, <4>4
      <3>3. CASE Identity(store) # drawer.identity
        <4>1. desk.draft = NoText
          BY <3>3 DEF DeskKept, ReadDraft
        <4>2. Same(store, p) => FALSE
          BY <3>1, <3>3 DEF Same, Latest, Identity, Acts
        <4> QED
          BY <1>4, <3>1, <4>1, <4>2
      <3> QED
        BY <3>2, <3>3
    <2> QED
      BY <2>1, <2>2
  <1>6. ServerHasDraft
    <2> SUFFICES ASSUME Quiet, Active, ~throttle.open, ~written.cut,
                        written.text[store.room][store.game][store.beat] # NoText
                 PROVE  host.draft = desk.draft
      BY DEF ServerHasDraft
    <2>1. Acts(store) /\ ~store.submitted
      BY DEF Active
    <2>2. texts # 0
      <3> SUFFICES ASSUME texts = 0 PROVE FALSE
        OBVIOUS
      <3>1. store.room \in 1 .. MaxRooms /\ store.game \in 1 .. MaxGames /\ store.beat \in 1 .. MaxBeats
        BY <2>1, DeskAssumption DEF Acts, StoreOK, Place, Types, Stores
      <3> DEFINE q == [room |-> store.room, game |-> store.game, beat |-> store.beat]
      <3>2. TextAt(q) = NoText
        BY <3>1 DEF Wrote, Spots
      <3> QED
        BY <3>2 DEF TextAt
    <2>3. PICK p \in Spots : Latest(p) /\ Reached(p) /\ Reported(p)
      BY <2>2 DEF Wrote
    <2>4. Same(store, p)
      BY <1>4, <2>1, <2>3
    <2>5. There(p) /\ host.accepted = NoText
      BY <1>2, <2>1, <2>4 DEF There, Same, Acts
    <2>6. NoSubmit(p) /\ ~OnItsWay(p)
      BY NoneIn DEF Quiet, NoSubmit, OnItsWay
    <2>7. host.draft = texts
      BY <2>3, <2>5, <2>6 DEF Reported, Known
    <2>8. desk.draft = texts
      BY <2>1, <2>3, <2>4 DEF DeskKept, ReadDraft, Identity, Latest, Same, Acts
    <2> QED
      BY <2>7, <2>8
  <1>7. SeatComesFirst
    <2>1. DOMAIN requests = 1 .. Len(requests)
      BY DEF Types
    <2> QED
      BY <2>1 DEF SeatComesFirst, RequestsOK
  <1> QED
    BY <1>1, <1>3, <1>5, <1>6, <1>7 DEF DeskIsKept

-----------------------------------------------------------------------------
\* What the console asks for while the news rest

LEMMA Resting ==
    ASSUME Types, HostOK, StoreOK, TellsOK, Ordered, Differ, Synced, UNCHANGED <<up, tells, host>>, invite' => invite,
           store' = store \/ store' = [store EXCEPT !.error = FALSE]
    PROVE  /\ HostOK' /\ StoreOK' /\ TellsOK' /\ Ordered' /\ Differ' /\ Synced'
           /\ store' \in Stores
           /\ Identity(store') = Identity(store)
           /\ \A x \in {"phase", "room", "game", "beat", "connected", "recovering", "submitted", "token"} :
                 store'[x] = store[x]
  <1>1. /\ store'.phase = store.phase /\ store'.room = store.room /\ store'.game = store.game
        /\ store'.beat = store.beat /\ store'.connected = store.connected /\ store'.recovering = store.recovering
        /\ store'.submitted = store.submitted /\ store'.token = store.token /\ store' \in Stores
    BY DEF Types, Stores
  <1>2. HostOK' /\ TellsOK'
    BY <1>1 DEF HostOK, TellsOK
  <1>3. StoreOK'
    BY <1>1 DEF StoreOK, Place
  <1>4. Ordered'
    BY <1>1 DEF Ordered, Mention, Place, NotAfter, Before, Same, Turn
  <1>5. Differ'
    BY <1>1 DEF Differ, Mention, NoMention
  <1>6. Synced'
    BY <1>1 DEF Synced, Mention, NoMention, ToldAfter, Same
  <1> QED
    BY <1>1, <1>2, <1>3, <1>4, <1>5, <1>6 DEF Identity

LEMMA Asked ==
    ASSUME Types, StoreOK, LineOK, RequestsOK, NEW m \in Requests,
           requests' \in Seq(Requests), Grown(requests', requests, m),
           up, ~store.recovering, ~invite', UNCHANGED <<up, tells, host>>,
           store'.recovering = store.recovering, store'.token = store.token,
           m.type # "resume", m.type = "submit" => m.text # NoText /\ Writes(m.beat),
           m.type \in {"start", "submit", "progress"} => store.token,
           m.type = "join" => requests = <<>> /\ ~store.token /\ ~host.bound
    PROVE  LineOK' /\ RequestsOK'
  <1>1. LineOK'
    BY DEF LineOK
  <1>2. Len(requests) \in Nat /\ (requests = <<>> => Len(requests) = 0)
    BY DEF Types
  <1>3. \A i \in 1 .. Len(requests') : (i \in 1 .. Len(requests) /\ requests'[i] = requests[i])
                                       \/ (i = Len(requests) + 1 /\ requests'[i] = m)
    BY <1>2 DEF Grown
  <1>4. RequestsOK'
    BY <1>2, <1>3 DEF RequestsOK
  <1> QED
    BY <1>1, <1>4

\* The desk and the line rest too
LEMMA Unasked ==
    ASSUME LineOK, RequestsOK, UNCHANGED <<up, tells, host, requests>>, invite' => invite,
           store'.recovering = store.recovering, store'.token = store.token
    PROVE  LineOK' /\ RequestsOK'
  BY DEF LineOK, RequestsOK

LEMMA Reporting ==
    ASSUME NEW text, NEW p, Report(text, store, desk) # <<>>
    PROVE  /\ Report(text, store, desk) = <<[type |-> "progress", beat |-> store.beat, text |-> text]>>
           /\ OnlineWith(store) /\ up /\ Acts(store) /\ ~desk.submitted /\ ~store.submitted
  BY DEF Report, SendProgress

LEMMA SpotOfStore ==
    ASSUME Types, StoreOK, Acts(store)
    PROVE  /\ store.room \in 1 .. MaxRooms /\ store.game \in 1 .. MaxGames /\ store.beat \in 1 .. MaxBeats
           /\ [room |-> store.room, game |-> store.game, beat |-> store.beat] \in Spots
  BY DeskAssumption DEF Acts, StoreOK, Place, Types, Stores, Spots

LEMMA Numbers ==
    ASSUME Types
    PROVE  /\ \A p \in Spots : p.room \in Nat /\ p.game \in Nat /\ p.beat \in Nat
           /\ store.room \in Nat /\ store.game \in Nat /\ store.beat \in Nat
           /\ host.room \in Nat /\ host.game \in Nat /\ host.beat \in Nat
           /\ \A i \in 1 .. Len(tells) : tells[i] \in Tells
           /\ \A i \in 1 .. Len(tells) : tells[i].room \in Nat /\ tells[i].game \in Nat /\ tells[i].beat \in Nat
           /\ \A i \in 1 .. Len(requests) : requests[i] \in Requests
           /\ Len(tells) \in Nat /\ Len(requests) \in Nat
           /\ (Len(tells) = 0 <=> tells = <<>>) /\ (Len(requests) = 0 <=> requests = <<>>)
  <1>1. \A p \in Spots : p.room \in Nat /\ p.game \in Nat /\ p.beat \in Nat
    BY DeskAssumption DEF Spots
  <1>2. /\ store.room \in Nat /\ store.game \in Nat /\ store.beat \in Nat
        /\ host.room \in Nat /\ host.game \in Nat /\ host.beat \in Nat
    BY DeskAssumption DEF Types, Stores, Hosts
  <1>3. /\ \A i \in 1 .. Len(tells) : tells[i] \in Tells
        /\ \A i \in 1 .. Len(requests) : requests[i] \in Requests
        /\ Len(tells) \in Nat /\ Len(requests) \in Nat
        /\ (Len(tells) = 0 <=> tells = <<>>) /\ (Len(requests) = 0 <=> requests = <<>>)
    BY Element, EmptyLen DEF Types
  <1>4. \A m \in Tells : m.room \in Nat /\ m.game \in Nat /\ m.beat \in Nat
    BY DeskAssumption DEF Tells
  <1> QED
    BY <1>1, <1>2, <1>3, <1>4

\* One text in the pages of all beats
Inscribed(pages, r, g, b, text) == [pages EXCEPT ![r][g][b] = text]

LEMMA WriteAt ==
    ASSUME NEW pages \in Pages, NEW text \in 0 .. MaxTexts,
           NEW r0 \in 1 .. MaxRooms, NEW g0 \in 1 .. MaxGames, NEW b0 \in 1 .. MaxBeats
    PROVE  /\ Inscribed(pages, r0, g0, b0, text) \in Pages
           /\ \A r \in 1 .. MaxRooms, g \in 1 .. MaxGames, b \in 1 .. MaxBeats :
                 Inscribed(pages, r0, g0, b0, text)[r][g][b] = IF r = r0 /\ g = g0 /\ b = b0 THEN text ELSE pages[r][g][b]
  <1> DEFINE Beats == [1 .. MaxBeats -> 0 .. MaxTexts]
             Games == [1 .. MaxGames -> Beats]
             beats == [pages[r0][g0] EXCEPT ![b0] = text]
             games == [pages[r0] EXCEPT ![g0] = beats]
             rooms == [pages EXCEPT ![r0] = games]
  <1>1. pages[r0] \in Games /\ pages[r0][g0] \in Beats /\ pages \in [1 .. MaxRooms -> Games]
    BY DEF Pages
  <1>2. /\ beats \in Beats
        /\ \A b \in 1 .. MaxBeats : beats[b] = IF b = b0 THEN text ELSE pages[r0][g0][b]
    BY <1>1
  <1> HIDE DEF Beats
  <1>3. /\ games \in Games
        /\ \A g \in 1 .. MaxGames : games[g] = IF g = g0 THEN beats ELSE pages[r0][g]
    <2> HIDE DEF beats
    <2> QED
      BY <1>1, <1>2
  <1> HIDE DEF Games
  <1>4. /\ rooms \in [1 .. MaxRooms -> Games]
        /\ \A r \in 1 .. MaxRooms : rooms[r] = IF r = r0 THEN games ELSE pages[r]
    <2> HIDE DEF games
    <2> QED
      BY <1>1, <1>3
  <1>5. Inscribed(pages, r0, g0, b0, text) = rooms
    BY DEF Inscribed
  <1> HIDE DEF beats, games, rooms
  <1>6. Pages = [1 .. MaxRooms -> Games]
    BY DEF Pages, Games, Beats
  <1>7. \A r \in 1 .. MaxRooms, g \in 1 .. MaxGames, b \in 1 .. MaxBeats :
          rooms[r][g][b] = IF r = r0 /\ g = g0 /\ b = b0 THEN text ELSE pages[r][g][b]
    <2> SUFFICES ASSUME NEW r \in 1 .. MaxRooms, NEW g \in 1 .. MaxGames, NEW b \in 1 .. MaxBeats
                 PROVE  rooms[r][g][b] = IF r = r0 /\ g = g0 /\ b = b0 THEN text ELSE pages[r][g][b]
      OBVIOUS
    <2>1. rooms[r] = IF r = r0 THEN games ELSE pages[r]
      BY <1>4
    <2>2. games[g] = IF g = g0 THEN beats ELSE pages[r0][g]
      BY <1>3
    <2>3. beats[b] = IF b = b0 THEN text ELSE pages[r0][g0][b]
      BY <1>2
    <2> QED
      BY <2>1, <2>2, <2>3
  <1>8. rooms \in Pages
    BY ONLY <1>4, <1>6
  <1> QED
    BY ONLY <1>5, <1>7, <1>8

LEMMA WriteStep == DeskInv /\ Write => DeskInv'
  <1> SUFFICES ASSUME DeskInv, Write PROVE DeskInv'
    OBVIOUS
  <1> USE DEF DeskInv
  <1>0. PICK text, p, m :
           /\ text = texts + 1
           /\ p = [room |-> store.room, game |-> store.game, beat |-> store.beat]
           /\ m = [type |-> "progress", beat |-> store.beat, text |-> text]
    OBVIOUS
  <1>1. /\ OnlineWith(store) /\ Active /\ texts < MaxTexts /\ Len(requests) + 1 <= MaxAsks
        /\ texts' = text /\ desk' = [desk EXCEPT !.draft = text]
        /\ SaveDraft(Identity(store), text)
        /\ written' = [written EXCEPT !.text[store.room][store.game][store.beat] = text, !.cut = FALSE]
        /\ UNCHANGED <<up, tells, host, store, box, invite, upLink, cuts>>
    BY <1>0 DEF Write, RoomFor
  <1>2. /\ up /\ ~store.recovering /\ Acts(store) /\ ~desk.submitted /\ ~store.submitted /\ ~invite /\ store.token
        /\ box.powered /\ box.cable
    BY <1>1 DEF OnlineWith, Connected, Active, StoreOK, Acts
  <1>3. text \in 0 .. MaxTexts /\ text # 0 /\ text # NoText /\ texts \in Nat
    BY <1>0, <1>1, DeskAssumption DEF Types, NoText
  <1>4. p \in Spots /\ p.room = store.room /\ p.game = store.game /\ p.beat = store.beat /\ m \in Requests
    BY <1>0, <1>2, <1>3, SpotOfStore DEF Spots, Requests, RequestTypes, Types, Stores
  <1>5. /\ throttle' = IF throttle.open THEN [open |-> TRUE, trail |-> text, beat |-> store.beat]
                       ELSE [open |-> TRUE, trail |-> NoText, beat |-> store.beat]
        /\ IF throttle.open THEN requests' = requests ELSE requests' = requests \o <<m>>
    <2>1. Report(text, store, desk) = <<m>>
      BY <1>0, <1>1, <1>2 DEF Report, SendProgress
    <2> QED
      BY <1>0, <2>1 DEF Write, AskForRoom
  <1>6. /\ requests' \in Seq(Requests) /\ Len(requests') <= MaxAsks
        /\ ~throttle.open => Grown(requests', requests, m)
    <2>1. requests \o <<m>> \in Seq(Requests) /\ Grown(requests \o <<m>>, requests, m)
      BY <1>4, GrownSeq DEF Types
    <2> QED
      BY <1>1, <1>5, <2>1 DEF Types, Grown
  <1>7. drawer' = [identity |-> Identity(store), text |-> text] /\ drawer' \in Drawers
    BY <1>1, <1>3, <1>4 DEF SaveDraft, Drawers, Identity, Types, Stores
  <1>8. /\ written'.text \in Pages /\ written'.cut = FALSE /\ written' \in [text : Pages, cut : BOOLEAN]
        /\ TextAt(p)' = text
        /\ \A q \in Spots : TextAt(q)' = text \/ TextAt(q)' = TextAt(q)
        /\ \A q \in Spots : TextAt(q)' # TextAt(q) => q = p
    <2> DEFINE pages == written.text
               one == Inscribed(pages, store.room, store.game, store.beat, text)
    <2>1. pages \in Pages /\ written' = [text |-> one, cut |-> FALSE]
      BY <1>1 DEF Types, Inscribed
    <2>2. store.room \in 1 .. MaxRooms /\ store.game \in 1 .. MaxGames /\ store.beat \in 1 .. MaxBeats
      BY <1>2, SpotOfStore
    <2>3. /\ one \in Pages
          /\ \A r \in 1 .. MaxRooms, g \in 1 .. MaxGames, b \in 1 .. MaxBeats :
                one[r][g][b] = IF r = store.room /\ g = store.game /\ b = store.beat THEN text ELSE pages[r][g][b]
      <3>1. pages \in Pages
        BY <2>1
      <3> HIDE DEF pages
      <3> QED
        BY ONLY <1>3, <2>2, <3>1, WriteAt
    <2> HIDE DEF one
    <2>4. \A q \in Spots : /\ q = [room |-> q.room, game |-> q.game, beat |-> q.beat]
                           /\ q.room \in 1 .. MaxRooms /\ q.game \in 1 .. MaxGames /\ q.beat \in 1 .. MaxBeats
      BY DEF Spots
    <2>5. \A q \in Spots : TextAt(q)' = one[q.room][q.game][q.beat] /\ TextAt(q) = pages[q.room][q.game][q.beat]
      BY <2>1 DEF TextAt
    <2> QED
      BY <1>4, <2>1, <2>2, <2>3, <2>4, <2>5
  <1>9. Types'
    <2>1. desk' \in Desks /\ throttle' \in Throttles
      <3>1. desk' \in Desks
        BY <1>1, <1>3 DEF Types, Desks
      <3>2. throttle' \in Throttles
        BY <1>3, <1>4, <1>5, DeskAssumption DEF Throttles, Spots, NoText
      <3> QED
        BY <3>1, <3>2
    <2> QED
      BY <1>1, <1>3, <1>6, <1>7, <1>8, <2>1 DEF Types
  <1>10. HostOK' /\ StoreOK' /\ TellsOK' /\ Ordered' /\ Differ' /\ Synced'
    BY <1>1, Resting
  <1>11. LineOK' /\ RequestsOK'
    <2>1. CASE throttle.open
      BY <1>1, <1>5, <2>1, Unasked
    <2>2. CASE ~throttle.open
      BY <1>1, <1>0, <1>2, <1>4, <1>6, <2>2, Asked
    <2> QED
      BY <2>1, <2>2
  <1>12. Sent' /\ Uncut'
    BY <1>1, <1>2 DEF Sent, Uncut, Types, Desks
  <1>13. DeskKept'
    BY <1>1, <1>3, <1>7 DEF DeskKept, ReadDraft, Types, Desks
  <1>14. Latest(p)'
    <2>1. drawer'.identity = <<"play", p.room, p.beat>>
      BY <1>2, <1>4, <1>7 DEF Identity, Acts
    <2>2. ASSUME NEW q \in Spots, TextAt(q)' # NoText PROVE NotAfter(q, p)
      <3>1. CASE q = p
        BY <3>1, <1>4, Order, Numbers
      <3>2. CASE q # p
        <4>1. TextAt(q) # NoText
          BY <1>8, <2>2, <3>2
        <4>2. texts # 0
          BY <4>1 DEF Wrote
        <4>3. PICK old \in Spots : Latest(old) /\ Reached(old)
          BY <4>2 DEF Wrote
        <4>4. NotAfter(q, old) /\ NotAfter(old, store)
          BY <1>2, <4>1, <4>3 DEF Latest, Reached, Acts
        <4>5. NotAfter(q, store)
          BY <4>4, Order, Numbers
        <4> QED
          BY <1>4, <4>5 DEF NotAfter, Before, Same, Turn
      <3> QED
        BY <3>1, <3>2
    <2> QED
      BY <1>1, <1>2, <1>4, <1>8, <2>1, <2>2 DEF Latest, Acts
  <1>15. Reached(p)'
    <2>1. /\ \A i \in 1 .. Len(tells) : Mention(tells[i]) => Before(store, tells[i])
          /\ host.seat => NotAfter(store, host)
          /\ store.room <= host.room
      BY <1>2 DEF Ordered, TellsOK, Acts
    <2>2. NotAfter(p, store) /\ \A x : Before(store, x) => NotAfter(p, x)
      BY <1>4 DEF NotAfter, Before, Same, Turn
    <2>3. NotAfter(store, host) => NotAfter(p, host)
      BY <1>4 DEF NotAfter, Before, Same, Turn
    <2> QED
      BY <1>1, <1>4, <2>1, <2>2, <2>3 DEF Reached
  <1>16. Reported(p)'
    <2>1. CASE throttle.open
      BY <1>1, <1>4, <1>5, <2>1 DEF Reported
    <2>2. CASE ~throttle.open
      <3>1. OnItsWay(p)'
        <4>1. Len(requests) + 1 \in 1 .. Len(requests') /\ requests'[Len(requests) + 1] = m
              /\ Len(requests') = Len(requests) + 1
          BY <1>6, <2>2, Numbers DEF Grown
        <4>2. Progress(m, p) /\ m.text = texts'
          BY <1>0, <1>1, <1>4 DEF Progress
        <4> QED
          BY <4>1, <4>2, Numbers DEF OnItsWay
      <3> QED
        BY <1>5, <2>2, <3>1 DEF Reported
    <2> QED
      BY <2>1, <2>2
  <1>17. Wrote'
    BY <1>1, <1>3, <1>4, <1>14, <1>15, <1>16 DEF Wrote
  <1> HIDE DEF DeskInv
  <1> QED
    BY <1>9, <1>10, <1>11, <1>12, <1>13, <1>17 DEF DeskInv

\* The last text stays where it is; what has to be shown of it
LEMMA WroteKept ==
    ASSUME Types, Wrote, UNCHANGED <<texts, drawer>>, written'.text = written.text,
           \A p \in Spots : texts # 0 /\ Latest(p) /\ Reached(p) /\ Reported(p) => Reached(p)' /\ Reported(p)'
    PROVE  Wrote'
  <1>1. \A p \in Spots : TextAt(p)' = TextAt(p) /\ (Latest(p) => Latest(p)')
    BY DEF TextAt, Latest
  <1>2. CASE texts = 0
    BY <1>1, <1>2 DEF Wrote
  <1>3. CASE texts # 0
    <2>1. PICK p \in Spots : Latest(p) /\ Reached(p) /\ Reported(p)
      BY <1>3 DEF Wrote
    <2>2. Latest(p)' /\ Reached(p)' /\ Reported(p)'
      BY <1>1, <1>3, <2>1
    <2> QED
      BY <1>3, <2>1, <2>2 DEF Wrote
  <1> QED
    BY <1>2, <1>3

LEMMA ReachedRests ==
    ASSUME UNCHANGED <<tells, host>>, NEW p,
           store'.phase = store.phase, store'.room = store.room, store'.game = store.game, store'.beat = store.beat
    PROVE  Reached(p) => Reached(p)'
  BY DEF Reached, Mention, NotAfter, Before, Same, Turn

\* Where the last text was written in this very beat, and the connection held,
\* the store has heard everything the server said.
LEMMA CaughtUp ==
    ASSUME DeskInv, NEW p \in Spots, There(p)
    PROVE  /\ up /\ store.token /\ ~store.recovering /\ OnlineWith(store)
           /\ \A i \in 1 .. Len(tells) : ~Mention(tells[i])
           /\ host.bound /\ Same(store, host)
           /\ host.accepted # NoText <=> (store.submitted \/ ToldAfter(0))
           /\ host.accepted = NoText /\ NoSubmit(p) => ~store.submitted /\ ~desk.submitted
  <1> USE DEF DeskInv
  <1>1. up /\ store.token /\ ~store.recovering /\ OnlineWith(store) /\ store.phase = "play"
    BY DEF There, Uncut, StoreOK, OnlineWith, Connected, Types, Boxes, Stores
  <1>2. Same(store, host)
    BY DEF There, Same
  <1>3. ASSUME NEW i \in 1 .. Len(tells), Mention(tells[i]) PROVE FALSE
    <2>1. Before(store, tells[i]) /\ NotAfter(tells[i], host)
      BY <1>1, <1>3 DEF Ordered, TellsOK
    <2>2. Before(store, host)
      BY <1>3, <2>1, Order, Numbers
    <2> QED
      BY <1>2, <2>2, Order, Numbers
  <1>4. NoMention(1, Len(tells))
    BY <1>3 DEF NoMention
  <1>5. host.bound /\ (host.accepted # NoText <=> (store.submitted \/ ToldAfter(0)))
    BY <1>1, <1>4 DEF Synced
  <1>6. ASSUME host.accepted = NoText, NoSubmit(p), desk.submitted PROVE FALSE
    <2>1. SubmitOut
      BY <1>1, <1>2, <1>5, <1>6 DEF Sent
    <2> QED
      BY <1>6, <2>1 DEF SubmitOut, NoSubmit, There, Same
  <1> QED
    BY <1>1, <1>2, <1>3, <1>5, <1>6

LEMMA WindowStep == DeskInv /\ WindowCloses => DeskInv'
  <1> SUFFICES ASSUME DeskInv, WindowCloses PROVE DeskInv'
    OBVIOUS
  <1> USE DEF DeskInv
  <1>1. /\ throttle.open /\ Len(requests) + 1 <= MaxAsks
        /\ UNCHANGED <<up, tells, host, store, desk, drawer, box, invite, upLink, cuts, texts, written>>
    BY DEF WindowCloses, RoomFor
  <1>2. HostOK' /\ StoreOK' /\ TellsOK' /\ Ordered' /\ Differ' /\ Synced' /\ DeskKept' /\ Uncut'
    <2>1. DeskKept' /\ Uncut'
      BY <1>1 DEF DeskKept, Uncut, ReadDraft
    <2> QED
      BY <1>1, <2>1, Resting
  <1>3. CASE throttle.trail = NoText
    <2>1. throttle' = Shut /\ requests' = requests
      BY <1>3 DEF WindowCloses
    <2>2. Types'
      BY <1>1, <2>1, DeskAssumption DEF Types, Shut, Throttles, NoText
    <2>3. LineOK' /\ RequestsOK' /\ Sent'
      <3>1. Sent'
        BY <1>1, <2>1 DEF Sent, SubmitOut, ErrorOut, ToldAfter, Same
      <3> QED
        BY <1>1, <2>1, <3>1, Unasked
    <2>4. ASSUME NEW p \in Spots, texts # 0, Reached(p), Reported(p) PROVE Reached(p)' /\ Reported(p)'
      <3>1. Reached(p)'
        BY <1>1, <2>4, ReachedRests
      <3>2. throttle'.trail = NoText /\ throttle.trail # texts
        BY <1>3, <2>1, <2>4 DEF Shut, NoText
      <3>3. /\ There(p)' <=> There(p)
            /\ NoSubmit(p)' <=> NoSubmit(p)
            /\ OnItsWay(p)' <=> OnItsWay(p)
            /\ Known(p)' <=> Known(p)
        BY <1>1, <2>1 DEF There, NoSubmit, OnItsWay, Known, Same, Progress
      <3> QED
        BY <1>1, <2>4, <3>1, <3>2, <3>3 DEF Reported
    <2>5. Wrote'
      BY <1>1, <2>4, WroteKept
    <2> HIDE DEF DeskInv
    <2> QED
      BY <1>2, <2>2, <2>3, <2>5 DEF DeskInv
  <1>4. CASE throttle.trail # NoText
    <2>1. PICK text : /\ text = IF throttle.beat = store.beat THEN throttle.trail ELSE NoText
                      /\ requests' = requests \o Report(text, store, desk)
                      /\ throttle' = [throttle EXCEPT !.trail = NoText]
      BY <1>4 DEF WindowCloses, AskForRoom
    <2>2. PICK m : m = [type |-> "progress", beat |-> store.beat, text |-> text]
      OBVIOUS
    <2>3. text \in 0 .. MaxTexts /\ m \in Requests
      BY <2>1, <2>2, DeskAssumption DEF Types, Throttles, Stores, Requests, RequestTypes, NoText
    <2>4. \/ requests' = requests
          \/ /\ requests' \in Seq(Requests) /\ Grown(requests', requests, m)
             /\ Report(text, store, desk) # <<>>
      <3>1. CASE Report(text, store, desk) = <<>>
        <4>1. requests \o <<>> = requests
          BY ConcatEmptySeq DEF Types
        <4> QED
          BY <2>1, <3>1, <4>1
      <3>2. CASE Report(text, store, desk) # <<>>
        <4>1. Report(text, store, desk) = <<m>>
          BY <2>2, <3>2, Reporting
        <4>2. requests \o <<m>> \in Seq(Requests) /\ Grown(requests \o <<m>>, requests, m)
          BY <2>3, GrownSeq DEF Types
        <4> QED
          BY <2>1, <3>2, <4>1, <4>2
      <3> QED
        BY <3>1, <3>2
    <2>5. Types'
      <3>1. throttle' \in Throttles /\ requests' \in Seq(Requests) /\ Len(requests') <= MaxAsks
        <4>1. throttle' \in Throttles
          <5>1. throttle \in Throttles /\ throttle' = [throttle EXCEPT !.trail = 0] /\ 0 \in 0 .. MaxTexts
            BY <2>1, DeskAssumption DEF Types, NoText
          <5> QED
            BY ONLY <5>1 DEF Throttles
        <4>2. requests' \in Seq(Requests) /\ Len(requests') <= MaxAsks
          BY <1>1, <2>4 DEF Types, Grown
        <4> QED
          BY <4>1, <4>2
      <3> QED
        BY <1>1, <3>1 DEF Types
    <2>6. LineOK' /\ RequestsOK'
      <3>1. CASE requests' = requests
        BY <1>1, <3>1, Unasked
      <3>2. CASE requests' # requests
        <4>1. up /\ ~store.recovering /\ ~invite /\ store.token
          BY <2>4, <3>2, Reporting DEF OnlineWith, Connected, Acts, StoreOK
        <4> QED
          BY <1>1, <2>2, <2>3, <2>4, <3>2, <4>1, Asked
      <3> QED
        BY <3>1, <3>2
    <2>7. Sent'
      <3>1. SubmitOut => SubmitOut'
        BY <1>1, <2>4, Numbers DEF SubmitOut, Grown
      <3>2. /\ ToldAfter(0)' <=> ToldAfter(0)
            /\ ErrorOut' <=> ErrorOut
            /\ Same(store, host)' <=> Same(store, host)
        BY <1>1 DEF ToldAfter, ErrorOut, Same
      <3> QED
        BY <1>1, <3>1, <3>2 DEF Sent
    <2>8. ASSUME NEW p \in Spots, texts # 0, Latest(p), Reached(p), Reported(p) PROVE Reached(p)' /\ Reported(p)'
      <3>1. Reached(p)'
        BY <1>1, <2>8, ReachedRests
      <3>2. ASSUME There(p)', host'.accepted = NoText, NoSubmit(p)' PROVE throttle'.trail = NoText /\ OnItsWay(p)'
        <4>1. There(p) /\ host.accepted = NoText
          BY <1>1, <3>2 DEF There, Same
        <4>2. NoSubmit(p)
          <5>1. \A i \in 1 .. Len(requests) : i \in 1 .. Len(requests') /\ requests'[i] = requests[i]
            BY <2>4, Numbers DEF Grown
          <5> QED
            BY <3>2, <5>1 DEF NoSubmit
        <4>3. throttle.beat = p.beat /\ throttle.trail = texts /\ store.beat = p.beat
          BY <1>4, <2>8, <4>1, <4>2 DEF Reported, There, Same
        <4>4. OnlineWith(store) /\ up /\ ~store.submitted /\ ~desk.submitted /\ Acts(store)
          <5>1. Acts(store)
            BY <2>8, <4>1 DEF Acts, There, Same, Latest
          <5> QED
            BY <4>1, <4>2, <5>1, CaughtUp
        <4>5. Report(text, store, desk) # <<>>
          BY <4>4 DEF Report, SendProgress
        <4>6. m.text = texts /\ Progress(m, p)
          BY <2>1, <2>2, <4>3 DEF Progress
        <4>7. Grown(requests', requests, m)
          <5>1. Report(text, store, desk) = <<m>>
            BY <2>2, <4>5, Reporting
          <5>2. Grown(requests \o <<m>>, requests, m)
            BY <2>3, GrownSeq DEF Types
          <5> QED
            BY <2>1, <5>1, <5>2
        <4>8. Len(requests) + 1 \in 1 .. Len(requests') /\ requests'[Len(requests) + 1] = m
              /\ Len(requests') = Len(requests) + 1
          BY <4>7, Numbers DEF Grown
        <4>9. OnItsWay(p)'
          BY <1>1, <4>6, <4>8, Numbers DEF OnItsWay
        <4> QED
          BY <2>1, <4>9 DEF Types, Throttles
      <3> QED
        BY <3>1, <3>2 DEF Reported
    <2>9. Wrote'
      BY <1>1, <2>8, WroteKept
    <2> HIDE DEF DeskInv
    <2> QED
      BY <1>2, <2>5, <2>6, <2>7, <2>9 DEF DeskInv
  <1> QED
    BY <1>3, <1>4

\* Whatever leaves the place of the last text and does not come back to it
LEMMA ElsewhereKept ==
    ASSUME Types, Wrote, UNCHANGED <<texts, drawer>>, written'.text = written.text,
           \A p \in Spots : texts # 0 /\ Latest(p) /\ Reached(p) => Reached(p)' /\ ~There(p)'
    PROVE  Wrote'
  BY WroteKept DEF Reported

\* One request of the console, at home, in the room or with the answer
LEMMA RequestStep ==
    ASSUME DeskInv, NEW m \in Requests, invite' = FALSE, m.type \in {"create", "join", "start", "submit"},
           m.type = "submit" => m.beat = store.beat /\ m.text # NoText /\ desk'.submitted /\ Acts(store),
           m.type # "submit" => store.phase # "play" /\ desk'.submitted = desk.submitted,
           m.type = "join" => requests = <<>> /\ ~store.token /\ ~host.bound, m.type = "start" => store.phase = "room",
           up, ~store.recovering, Len(requests) + 1 <= MaxAsks, requests' = requests \o <<m>>,
           store' = [store EXCEPT !.error = FALSE] \/ (store' = store /\ ~store.error),
           desk' \in Desks, desk'.draft = desk.draft,
           UNCHANGED <<up, tells, host, drawer, box, throttle, upLink, cuts, texts, written>>
    PROVE  DeskInv'
  <1> USE DEF DeskInv
  <1>1. /\ HostOK' /\ StoreOK' /\ TellsOK' /\ Ordered' /\ Differ' /\ Synced'
        /\ store' \in Stores /\ Identity(store') = Identity(store)
        /\ store'.phase = store.phase /\ store'.room = store.room /\ store'.game = store.game /\ store'.beat = store.beat
        /\ store'.recovering = store.recovering /\ store'.submitted = store.submitted /\ store'.token = store.token
    BY Resting
  <1>2. /\ requests' \in Seq(Requests) /\ Grown(requests', requests, m)
        /\ Len(requests') <= MaxAsks
    BY GrownSeq DEF Types, Grown
  <1>3. LineOK' /\ RequestsOK'
    <2>1. m.type \in {"start", "submit", "progress"} => store.token
      BY DEF StoreOK, Acts
    <2>2. m.type = "submit" => Writes(m.beat)
      BY DEF Acts
    <2> QED
      BY <1>1, <1>2, <2>1, <2>2, Asked
  <1>4. Types'
    BY <1>1, <1>2 DEF Types
  <1>5. DeskKept' /\ Uncut'
    BY <1>1 DEF DeskKept, Uncut, ReadDraft
  <1>6. Sent'
    <2>1. store'.error = FALSE
      BY DEF Types, Stores
    <2>2. /\ ToldAfter(0)' <=> ToldAfter(0)
          /\ ErrorOut' <=> ErrorOut
          /\ Same(store, host)' <=> Same(store, host)
          /\ host' = host
      BY <1>1 DEF ToldAfter, ErrorOut, Same
    <2>3. SubmitOut => SubmitOut'
      BY <1>1, <1>2, Numbers DEF SubmitOut, Grown
    <2>4. m.type = "submit" => SubmitOut'
      <3>1. Len(requests) + 1 \in 1 .. Len(requests') /\ requests'[Len(requests) + 1] = m
        BY <1>2, Numbers DEF Grown
      <3> QED
        BY <1>1, <3>1 DEF SubmitOut
    <2>5. CASE m.type = "submit"
      BY <1>1, <2>1, <2>4, <2>5 DEF Sent, Acts
    <2>6. CASE m.type # "submit"
      BY <1>1, <2>1, <2>2, <2>3, <2>6 DEF Sent
    <2> QED
      BY <2>5, <2>6
  <1>7. Wrote'
    <2>1. ASSUME NEW p \in Spots, texts # 0, Reached(p), Reported(p) PROVE Reached(p)' /\ Reported(p)'
      <3>1. Reached(p)'
        BY <1>1, <2>1, ReachedRests
      <3>2. CASE m.type # "submit"
        BY <1>1, <3>1, <3>2 DEF Reported, There
      <3>3. CASE m.type = "submit"
        <4>1. Len(requests) + 1 \in 1 .. Len(requests') /\ requests'[Len(requests) + 1] = m
          BY <1>2, Numbers DEF Grown
        <4>2. There(p)' => ~NoSubmit(p)'
          BY <1>1, <3>3, <4>1 DEF NoSubmit, There, Same
        <4> QED
          BY <3>1, <4>2 DEF Reported
      <3> QED
        BY <3>2, <3>3
    <2> QED
      BY <2>1, WroteKept
  <1> HIDE DEF DeskInv
  <1> QED
    BY <1>1, <1>3, <1>4, <1>5, <1>6, <1>7 DEF DeskInv

\* The console, the plugs and the store's error, with nothing sent
LEMMA ConsoleStep ==
    ASSUME DeskInv, invite' \in BOOLEAN, invite' => invite, store' = store \/ store' = [store EXCEPT !.error = FALSE],
           desk' \in Desks, desk'.draft = desk.draft, desk'.submitted = desk.submitted,
           box' \in Boxes, written'.cut \in BOOLEAN, written'.text = written.text, written' = [text |-> written.text, cut |-> written'.cut],
           ~written'.cut => ~written.cut /\ box'.powered /\ box'.cable,
           UNCHANGED <<up, requests, tells, host, drawer, throttle, upLink, cuts, texts>>
    PROVE  DeskInv'
  <1> USE DEF DeskInv
  <1>1. /\ HostOK' /\ StoreOK' /\ TellsOK' /\ Ordered' /\ Differ' /\ Synced'
        /\ store' \in Stores /\ Identity(store') = Identity(store)
        /\ store'.phase = store.phase /\ store'.room = store.room /\ store'.game = store.game /\ store'.beat = store.beat
        /\ store'.recovering = store.recovering /\ store'.submitted = store.submitted /\ store'.token = store.token
        /\ store'.error => store.error
    BY Resting DEF Types, Stores
  <1>2. LineOK' /\ RequestsOK'
    BY <1>1, Unasked
  <1>3. Types'
    BY <1>1 DEF Types
  <1>4. DeskKept' /\ Uncut'
    BY <1>1 DEF DeskKept, Uncut, ReadDraft
  <1>5. Sent'
    BY <1>1 DEF Sent, ToldAfter, ErrorOut, SubmitOut, Same
  <1>6. Wrote'
    <2>1. ASSUME NEW p \in Spots, Reached(p), Reported(p) PROVE Reached(p)' /\ Reported(p)'
      <3>1. Reached(p)'
        BY <1>1, <2>1, ReachedRests
      <3>2. /\ There(p)' => There(p)
            /\ NoSubmit(p)' <=> NoSubmit(p)
            /\ OnItsWay(p)' <=> OnItsWay(p)
            /\ Known(p)' <=> Known(p)
        BY <1>1 DEF There, NoSubmit, OnItsWay, Known, Same, Progress
      <3> QED
        BY <2>1, <3>1, <3>2 DEF Reported
    <2> QED
      BY <2>1, WroteKept
  <1> HIDE DEF DeskInv
  <1> QED
    BY <1>1, <1>2, <1>3, <1>4, <1>5, <1>6 DEF DeskInv

LEMMA TransmitStep == DeskInv /\ Transmit => DeskInv'
  <1> SUFFICES ASSUME DeskInv, Transmit PROVE DeskInv'
    OBVIOUS
  <1>0. Types /\ StoreOK
    BY DEF DeskInv
  <1>1. /\ OnlineWith(store) /\ Len(requests) + 1 <= MaxAsks
        /\ store' = [store EXCEPT !.error = FALSE]
        /\ UNCHANGED <<up, tells, host, drawer, box, throttle, upLink, cuts, texts, written>>
    <2>1. Len(requests) + 2 <= MaxAsks /\ Len(requests) \in Nat
      BY <1>0, Numbers DEF Transmit, RoomFor
    <2>2. Len(requests) + 1 <= MaxAsks
      BY <2>1, DeskAssumption
    <2> QED
      BY <2>2 DEF Transmit
  <1>2. up /\ ~store.recovering
    BY <1>0, <1>1 DEF OnlineWith, Connected, StoreOK
  <1>3. CASE store.phase = "home" /\ desk' = [desk EXCEPT !.pending = TRUE]
             /\ AskForRoom(<<[type |-> "create", beat |-> 0, text |-> NoText]>>) /\ invite' = FALSE
    <2>1. PICK m : m = [type |-> "create", beat |-> 0, text |-> NoText]
      OBVIOUS
    <2>2. m \in Requests
      BY <2>1, DeskAssumption DEF Requests, RequestTypes, NoText
    <2>3. desk' \in Desks /\ desk'.draft = desk.draft /\ desk'.submitted = desk.submitted /\ requests' = requests \o <<m>>
      BY <1>0, <1>3, <2>1 DEF Types, Desks, AskForRoom
    <2> QED
      BY <1>1, <1>2, <1>3, <2>1, <2>2, <2>3, RequestStep
  <1>4. CASE store.phase = "room" /\ desk' = [desk EXCEPT !.pending = TRUE]
             /\ AskForRoom(StartGame) /\ UNCHANGED invite
    <2>1. PICK m : m = [type |-> "start", beat |-> 0, text |-> NoText]
      OBVIOUS
    <2>2. m \in Requests
      BY <2>1, DeskAssumption DEF Requests, RequestTypes, NoText
    <2>3. desk' \in Desks /\ desk'.draft = desk.draft /\ desk'.submitted = desk.submitted /\ requests' = requests \o <<m>>
      BY <1>0, <1>4, <2>1 DEF Types, Desks, AskForRoom, StartGame
    <2>4. invite' = FALSE
      BY <1>0, <1>4 DEF StoreOK, Types
    <2> QED
      BY <1>1, <1>2, <1>4, <2>1, <2>2, <2>3, <2>4, RequestStep
  <1>5. CASE Active /\ desk.draft # NoText /\ desk' = [desk EXCEPT !.pending = TRUE, !.submitted = TRUE]
             /\ AskForRoom(SubmitAnswer(store, desk)) /\ UNCHANGED invite
    <2>1. PICK m : m = [type |-> "submit", beat |-> store.beat, text |-> desk.draft]
      OBVIOUS
    <2>2. m \in Requests
      BY <1>0, <2>1, DeskAssumption DEF Requests, RequestTypes, Types, Stores, Desks
    <2>3. desk' \in Desks /\ desk'.draft = desk.draft /\ desk'.submitted /\ requests' = requests \o <<m>>
      BY <1>0, <1>5, <2>1 DEF Types, Desks, AskForRoom, SubmitAnswer
    <2>4. invite' = FALSE /\ Acts(store)
      BY <1>0, <1>5 DEF StoreOK, Active, Acts, Types
    <2> QED
      BY <1>1, <1>2, <1>5, <2>1, <2>2, <2>3, <2>4, RequestStep
  <1> QED
    BY <1>3, <1>4, <1>5 DEF Transmit

LEMMA AutoJoinStep == DeskInv /\ AutoJoin => DeskInv'
  <1> SUFFICES ASSUME DeskInv, AutoJoin PROVE DeskInv'
    OBVIOUS
  <1>0. Types /\ StoreOK /\ RequestsOK
    BY DEF DeskInv
  <1>1. /\ invite /\ Len(requests) + 1 <= MaxAsks /\ store.phase = "home" /\ OnlineWith(store) /\ ~store.token
        /\ UNCHANGED <<up, tells, host, drawer, box, throttle, upLink, cuts, texts, written>>
    BY DEF AutoJoin, RoomFor
  <1>2. up /\ ~store.recovering /\ requests = <<>> /\ ~host.bound
    BY <1>0, <1>1 DEF OnlineWith, Connected, StoreOK, RequestsOK
  <1>3. CASE store.error
    <2>1. store' = [store EXCEPT !.error = FALSE] /\ UNCHANGED <<desk, requests, invite>>
      BY <1>3 DEF AutoJoin
    <2>2. desk' \in Desks /\ box' \in Boxes /\ written' = [text |-> written.text, cut |-> written'.cut]
          /\ written'.cut \in BOOLEAN /\ invite' \in BOOLEAN /\ (~written'.cut => box'.powered /\ box'.cable)
      BY <1>0, <1>1, <2>1 DEF Types, DeskInv, Uncut
    <2> QED
      BY <1>1, <2>1, <2>2, ConsoleStep
  <1>4. CASE ~store.error
    <2>1. PICK m : m = [type |-> "join", beat |-> 0, text |-> NoText]
      OBVIOUS
    <2>2. m \in Requests
      BY <2>1, DeskAssumption DEF Requests, RequestTypes, NoText
    <2>3. invite' = FALSE /\ store' = store /\ desk' = [desk EXCEPT !.pending = TRUE] /\ requests' = requests \o <<m>>
      BY <1>4, <2>1 DEF AutoJoin, AskForRoom
    <2>4. desk' \in Desks /\ desk'.draft = desk.draft /\ desk'.submitted = desk.submitted
      BY <1>0, <2>3 DEF Types, Desks
    <2> QED
      BY <1>1, <1>2, <1>4, <2>1, <2>2, <2>3, <2>4, RequestStep
  <1> QED
    BY <1>3, <1>4

LEMMA ChoosesStep == DeskInv /\ (Chooses \/ Plug) => DeskInv'
  <1> SUFFICES ASSUME DeskInv, Chooses \/ Plug PROVE DeskInv'
    OBVIOUS
  <1>0. Types /\ Uncut
    BY DEF DeskInv
  <1>1. CASE Chooses
    <2>1. /\ desk' = [desk EXCEPT !.pending = FALSE] /\ invite' = FALSE
          /\ UNCHANGED <<up, requests, tells, host, store, drawer, box, throttle, upLink, cuts, texts, written>>
      BY <1>1 DEF Chooses
    <2>2. /\ desk' \in Desks /\ desk'.draft = desk.draft /\ desk'.submitted = desk.submitted /\ box' \in Boxes
          /\ written' = [text |-> written.text, cut |-> written'.cut] /\ written'.cut \in BOOLEAN
          /\ (~written'.cut => box'.powered /\ box'.cable)
      BY <1>0, <2>1 DEF Types, Desks, Uncut
    <2> QED
      BY <2>1, <2>2, ConsoleStep
  <1>2. CASE Plug
    <2>1. PICK b \in Boxes :
             /\ box' = b /\ written' = [written EXCEPT !.cut = @ \/ ~(b.powered /\ b.cable)]
             /\ UNCHANGED <<up, requests, tells, host, store, desk, drawer, throttle, invite, upLink, cuts, texts>>
      BY <1>2 DEF Plug, Boxes
    <2>2. /\ written'.text = written.text /\ written' = [text |-> written.text, cut |-> written'.cut]
          /\ written'.cut \in BOOLEAN /\ (~written'.cut => ~written.cut /\ box'.powered /\ box'.cable)
      BY <1>0, <2>1 DEF Types
    <2>3. desk' \in Desks /\ invite' \in BOOLEAN
      BY <1>0, <2>1 DEF Types
    <2> QED
      BY <2>1, <2>2, <2>3, ConsoleStep
  <1> QED
    BY <1>1, <1>2

-----------------------------------------------------------------------------
\* The connection is lost, left or found again

LEMMA LineFalls ==
    ASSUME Types, HostOK, Ordered, up' = FALSE, requests' = <<>>, tells' = <<>>,
           host' = [host EXCEPT !.bound = FALSE], store'.room \in {store.room, 0},
           \/ store'.phase = "home"
           \/ store'.phase = store.phase /\ store'.room = store.room /\ store'.game = store.game /\ store'.beat = store.beat
    PROVE  /\ HostOK' /\ LineOK' /\ RequestsOK' /\ TellsOK' /\ Ordered' /\ Differ' /\ Synced'
           /\ host' \in Hosts /\ requests' \in Seq(Requests) /\ tells' \in Seq(Tells)
           /\ Len(requests') = 0 /\ Len(tells') = 0
           /\ \A p : Reached(p) => Reached(p)'
  <1>1. /\ host' \in Hosts /\ host'.bound = FALSE /\ host'.seat = host.seat /\ host'.room = host.room
        /\ host'.game = host.game /\ host'.beat = host.beat /\ host'.accepted = host.accepted
    BY DEF Types, Hosts
  <1>2. requests' \in Seq(Requests) /\ tells' \in Seq(Tells) /\ Len(requests') = 0 /\ Len(tells') = 0
    BY NoneIn
  <1>3. HostOK' /\ LineOK'
    BY <1>1 DEF HostOK, LineOK
  <1>4. RequestsOK' /\ TellsOK' /\ Differ' /\ Synced'
    BY <1>2 DEF RequestsOK, TellsOK, Differ, Synced
  <1>5. Ordered'
    <2>1. store'.room <= host'.room
      BY <1>1, Numbers DEF Ordered
    <2>2. store'.phase # "home" /\ host'.seat => NotAfter(store, host)'
      BY <1>1 DEF Ordered, NotAfter, Before, Same, Turn
    <2> QED
      BY <1>2, <2>1, <2>2 DEF Ordered
  <1>6. ASSUME NEW p, Reached(p) PROVE Reached(p)'
    <2>1. p.room <= host'.room /\ (host'.seat => NotAfter(p, host'))
      BY <1>1, <1>6 DEF Reached, NotAfter, Before, Same, Turn
    <2>2. store'.phase # "home" => NotAfter(p, store')
      BY <1>6 DEF Reached, NotAfter, Before, Same, Turn
    <2> QED
      BY <1>2, <2>1, <2>2 DEF Reached
  <1> QED
    BY <1>1, <1>2, <1>3, <1>4, <1>5, <1>6

LEMMA LeaveStep == DeskInv /\ Leave => DeskInv'
  <1> SUFFICES ASSUME DeskInv, Leave PROVE DeskInv'
    OBVIOUS
  <1> USE DEF DeskInv
  <1>1. /\ store.phase # "home" /\ OnlineWith(store) /\ up' = FALSE /\ requests' = <<>> /\ tells' = <<>>
        /\ Become(EmptyStore, TRUE) /\ host' = [host EXCEPT !.bound = FALSE]
        /\ UNCHANGED <<box, throttle, cuts, texts, written>>
    BY DEF Leave
  <1>2. EmptyStore \in Stores
    BY DeskAssumption DEF EmptyStore, Stores, Phases
  <1>3. /\ store' = EmptyStore /\ drawer' = drawer /\ desk' \in Desks
        /\ desk'.submitted = SubmittedAfter(EmptyStore) /\ desk'.draft = ReadDraft(Identity(EmptyStore))
        /\ invite' = (invite /\ EmptyStore.phase = "home") /\ upLink' \in BOOLEAN
    BY <1>1, <1>2, Becomes
  <1>4. invite = FALSE /\ invite' = FALSE
    BY <1>1, <1>3 DEF StoreOK, Types
  <1>5. /\ HostOK' /\ LineOK' /\ RequestsOK' /\ TellsOK' /\ Ordered' /\ Differ' /\ Synced'
        /\ host' \in Hosts /\ requests' \in Seq(Requests) /\ tells' \in Seq(Tells)
        /\ Len(requests') = 0 /\ Len(tells') = 0
        /\ \A p : Reached(p) => Reached(p)'
    <2>1. store'.phase = "home" /\ store'.room = 0
      BY <1>3 DEF EmptyStore
    <2> QED
      BY <1>1, <2>1, LineFalls
  <1>6. Types'
    <2>1. /\ up' \in BOOLEAN /\ box' \in Boxes /\ throttle' \in Throttles /\ cuts' \in Nat /\ texts' \in 0 .. MaxTexts
          /\ written' \in [text : Pages, cut : BOOLEAN]
      BY <1>1 DEF Types
    <2>3. drawer' \in Drawers /\ 0 <= MaxAsks
      BY <1>3, DeskAssumption DEF Types
    <2>2. store' \in Stores /\ invite' \in BOOLEAN
      BY <1>2, <1>3, <1>4
    <2> QED
      BY ONLY <1>3, <1>5, <2>1, <2>2, <2>3 DEF Types
  <1>7. StoreOK'
    BY <1>1, <1>3, <1>4 DEF StoreOK, EmptyStore
  <1>8. Sent'
    <2>1. Identity(store) # Identity(EmptyStore)
      BY <1>1 DEF Identity, EmptyStore
    <2>2. desk'.submitted = FALSE
      BY <1>3, <2>1 DEF SubmittedAfter, EmptyStore
    <2> QED
      BY <2>2 DEF Sent
  <1>9. DeskKept' /\ Uncut'
    <2>1. store'.recovering = FALSE
      BY <1>3 DEF EmptyStore
    <2> QED
      BY <1>1, <1>3, <2>1 DEF DeskKept, Uncut, ReadDraft
  <1>10. Wrote'
    <2>1. \A p : ~There(p)'
      BY <1>3 DEF There, EmptyStore
    <2> QED
      BY <1>1, <1>3, <1>5, <2>1, ElsewhereKept
  <1> HIDE DEF DeskInv
  <1> QED
    BY <1>5, <1>6, <1>7, <1>8, <1>9, <1>10 DEF DeskInv

LEMMA LostStep == DeskInv /\ LinkLost => DeskInv'
  <1> SUFFICES ASSUME DeskInv, LinkLost PROVE DeskInv'
    OBVIOUS
  <1> USE DEF DeskInv
  <1>0. PICK new : new = [store EXCEPT !.connected = FALSE, !.recovering = store.token, !.error = @ \/ store.token]
    OBVIOUS
  <1>1. /\ up /\ cuts' = cuts + 1 /\ up' = FALSE /\ requests' = <<>> /\ tells' = <<>>
        /\ Become(new, FALSE) /\ host' = [host EXCEPT !.bound = FALSE]
        /\ written' = [written EXCEPT !.cut = TRUE]
        /\ UNCHANGED <<box, throttle, texts>>
    BY <1>0 DEF LinkLost
  <1>2. /\ new \in Stores /\ new.phase = store.phase /\ new.room = store.room /\ new.game = store.game
        /\ new.beat = store.beat /\ new.submitted = store.submitted /\ new.token = store.token
        /\ new.connected = FALSE /\ new.recovering = store.token /\ new.error = (store.error \/ store.token)
        /\ Identity(new) = Identity(store)
    BY <1>0 DEF Types, Stores, Identity
  <1>3. /\ store' = new /\ drawer' = drawer /\ desk' \in Desks
        /\ desk'.submitted = SubmittedAfter(new) /\ desk'.draft = ReadDraft(Identity(new))
        /\ invite' = (invite /\ new.phase = "home") /\ upLink' \in BOOLEAN
    BY <1>1, <1>2, Becomes
  <1>4. invite' = invite
    BY <1>2, <1>3 DEF StoreOK, Types
  <1>5. /\ HostOK' /\ LineOK' /\ RequestsOK' /\ TellsOK' /\ Ordered' /\ Differ' /\ Synced'
        /\ host' \in Hosts /\ requests' \in Seq(Requests) /\ tells' \in Seq(Tells)
        /\ Len(requests') = 0 /\ Len(tells') = 0
        /\ \A p : Reached(p) => Reached(p)'
    BY <1>1, <1>2, <1>3, LineFalls
  <1>6. Types'
    <2>5. cuts' \in Nat
      BY <1>1 DEF Types
    <2>1. /\ up' \in BOOLEAN /\ box' \in Boxes /\ throttle' \in Throttles /\ texts' \in 0 .. MaxTexts
      BY <1>1 DEF Types
    <2>4. drawer' \in Drawers /\ 0 <= MaxAsks
      BY <1>3, DeskAssumption DEF Types
    <2>2. store' \in Stores /\ invite' \in BOOLEAN
      BY <1>2, <1>3, <1>4 DEF Types
    <2>3. written' \in [text : Pages, cut : BOOLEAN]
      BY <1>1 DEF Types
    <2> QED
      BY ONLY <1>3, <1>5, <2>1, <2>2, <2>3, <2>4, <2>5 DEF Types
  <1>7. StoreOK'
    BY <1>1, <1>2, <1>3, <1>4 DEF StoreOK, Place
  <1>8. Sent'
    <2>1. desk'.submitted => desk.submitted
      BY <1>2, <1>3 DEF SubmittedAfter, StoreOK, Types, Stores, Desks
    <2>2. desk'.submitted /\ store.token => store.error
      BY <1>2, <1>3 DEF SubmittedAfter
    <2>3. ~store.token => store.phase = "home"
      BY DEF StoreOK
    <2> QED
      BY <1>2, <1>3, <2>1, <2>2, <2>3 DEF Sent
  <1>9. DeskKept' /\ Uncut'
    BY <1>1, <1>2, <1>3 DEF DeskKept, Uncut, ReadDraft, Types
  <1>10. Wrote'
    <2>1. \A p : ~There(p)'
      BY <1>1 DEF There, Types
    <2>2. written'.text = written.text
      BY <1>1 DEF Types
    <2> QED
      BY <1>1, <1>3, <1>5, <2>1, <2>2, ElsewhereKept
  <1> HIDE DEF DeskInv
  <1> QED
    BY <1>5, <1>6, <1>7, <1>8, <1>9, <1>10 DEF DeskInv

LEMMA ReloadStep == DeskInv /\ ReloadPage => DeskInv'
  <1> SUFFICES ASSUME DeskInv, ReloadPage PROVE DeskInv'
    OBVIOUS
  <1> USE DEF DeskInv
  <1>1. PICK seat \in BOOLEAN, opened \in BOOLEAN :
           /\ seat => store.token
           /\ cuts' = cuts + 1 /\ up' = FALSE /\ requests' = <<>> /\ tells' = <<>>
           /\ store' = [EmptyStore EXCEPT !.token = seat, !.recovering = seat, !.room = IF seat THEN store.room ELSE 0]
           /\ desk' = EmptyDesk /\ box' = [powered |-> TRUE, cable |-> TRUE] /\ throttle' = Shut
           /\ upLink' = opened /\ invite' = opened
           /\ written' = [written EXCEPT !.cut = TRUE]
           /\ host' = [host EXCEPT !.bound = FALSE]
           /\ UNCHANGED <<drawer, texts>>
    <2>1. PICK by \in {"reload", "same room", "other room"} :
             LET s == store.token /\ by # "other room" IN
             /\ cuts' = cuts + 1 /\ up' = FALSE /\ requests' = <<>> /\ tells' = <<>>
             /\ store' = [EmptyStore EXCEPT !.token = s, !.recovering = s, !.room = IF s THEN store.room ELSE 0]
             /\ desk' = EmptyDesk /\ box' = [powered |-> TRUE, cable |-> TRUE] /\ throttle' = Shut
             /\ upLink' = (upLink \/ by # "reload") /\ invite' = upLink'
             /\ written' = [written EXCEPT !.cut = TRUE]
             /\ host' = [host EXCEPT !.bound = FALSE]
             /\ UNCHANGED <<drawer, texts>>
      BY DEF ReloadPage
    <2> DEFINE s == store.token /\ by # "other room"
    <2>2. s \in BOOLEAN /\ (s => store.token) /\ (upLink \/ by # "reload") \in BOOLEAN
      OBVIOUS
    <2>3. upLink' \in BOOLEAN
      BY <2>1, <2>2
    <2> QED
      BY <2>1, <2>2, <2>3
  <1>2. /\ store' \in Stores /\ store'.phase = "home" /\ store'.room = (IF seat THEN store.room ELSE 0)
        /\ store'.game = 0 /\ store'.beat = 0 /\ store'.token = seat /\ store'.recovering = seat
        /\ store'.connected = FALSE /\ store'.submitted = FALSE /\ store'.error = FALSE
    <2>1. PICK r \in 0 .. MaxRooms : r = IF seat THEN store.room ELSE 0
      BY DeskAssumption DEF Types, Stores
    <2>2. store' = [EmptyStore EXCEPT !.token = seat, !.recovering = seat, !.room = r]
      BY <1>1, <2>1
    <2> QED
      <3>1. store' = [phase |-> "home", room |-> r, game |-> 0, beat |-> 0, connected |-> FALSE, recovering |-> seat,
                      submitted |-> FALSE, error |-> FALSE, token |-> seat]
        BY <2>2 DEF EmptyStore
      <3>2. 0 \in 0 .. MaxGames /\ 0 \in 0 .. MaxBeats
        BY DeskAssumption
      <3> QED
        BY ONLY <2>1, <3>1, <3>2, seat \in BOOLEAN DEF Stores, Phases
  <1>3. /\ HostOK' /\ LineOK' /\ RequestsOK' /\ TellsOK' /\ Ordered' /\ Differ' /\ Synced'
        /\ host' \in Hosts /\ requests' \in Seq(Requests) /\ tells' \in Seq(Tells)
        /\ Len(requests') = 0 /\ Len(tells') = 0
        /\ \A p : Reached(p) => Reached(p)'
    BY <1>1, <1>2, LineFalls
  <1>4. Types'
    <2>1. desk' \in Desks /\ throttle' \in Throttles /\ box' \in Boxes
      BY <1>1, DeskAssumption DEF EmptyDesk, Desks, Shut, Throttles, Boxes, NoText
    <2> QED
      <3>1. /\ up' \in BOOLEAN /\ texts' \in 0 .. MaxTexts
            /\ drawer' \in Drawers /\ invite' \in BOOLEAN /\ upLink' \in BOOLEAN
        BY <1>1 DEF Types
      <3>3. cuts' \in Nat /\ 0 <= MaxAsks
        BY <1>1, DeskAssumption DEF Types
      <3>2. written' \in [text : Pages, cut : BOOLEAN]
        BY <1>1 DEF Types
      <3> QED
        BY ONLY <1>2, <1>3, <2>1, <3>1, <3>2, <3>3 DEF Types
  <1>5. StoreOK'
    BY <1>1, <1>2 DEF StoreOK
  <1>6. Sent' /\ Uncut'
    BY <1>1, <1>2 DEF Sent, Uncut, EmptyDesk, Types
  <1>7. DeskKept'
    <2>1. drawer.identity = Identity(store)' => drawer.text = NoText
      <3>1. CASE texts = 0
        BY <3>1 DEF DeskKept, NoText
      <3>2. CASE texts # 0
        BY <1>2, <3>2 DEF Wrote, Latest, Identity
      <3> QED
        BY <3>1, <3>2
    <2> QED
      BY <1>1, <2>1 DEF DeskKept, ReadDraft, EmptyDesk
  <1>8. Wrote'
    <2>1. \A p : ~There(p)'
      BY <1>2 DEF There
    <2>2. written'.text = written.text
      BY <1>1 DEF Types
    <2> QED
      BY <1>1, <1>3, <2>1, <2>2, ElsewhereKept
  <1> HIDE DEF DeskInv
  <1> QED
    BY <1>3, <1>4, <1>5, <1>6, <1>7, <1>8 DEF DeskInv

LEMMA ConnectsStep == DeskInv /\ Connects => DeskInv'
  <1> SUFFICES ASSUME DeskInv, Connects PROVE DeskInv'
    OBVIOUS
  <1> USE DEF DeskInv
  <1>0. PICK new, m : /\ new = [store EXCEPT !.connected = TRUE]
                      /\ m = [type |-> "resume", beat |-> 0, text |-> NoText]
    OBVIOUS
  <1>1. /\ ~up /\ up' = TRUE /\ Become(new, FALSE)
        /\ requests' = (IF store.token THEN <<m>> ELSE <<>>)
        /\ UNCHANGED <<tells, host, box, throttle, cuts, texts, written>>
    BY <1>0 DEF Connects
  <1>2. /\ new \in Stores /\ new.phase = store.phase /\ new.room = store.room /\ new.game = store.game
        /\ new.beat = store.beat /\ new.submitted = store.submitted /\ new.token = store.token
        /\ new.connected = TRUE /\ new.recovering = store.recovering /\ new.error = store.error
        /\ Identity(new) = Identity(store)
    BY <1>0 DEF Types, Stores, Identity
  <1>3. /\ store' = new /\ drawer' = drawer /\ desk' \in Desks
        /\ desk'.submitted = SubmittedAfter(new) /\ desk'.draft = ReadDraft(Identity(new))
        /\ invite' = (invite /\ new.phase = "home") /\ upLink' \in BOOLEAN
    BY <1>1, <1>2, Becomes
  <1>4. /\ invite' = invite /\ desk'.submitted = desk.submitted
        /\ requests = <<>> /\ tells = <<>> /\ ~host.bound /\ Len(tells) = 0
        /\ store.token <=> store.recovering
    BY <1>1, <1>2, <1>3, Numbers DEF StoreOK, LineOK, SubmittedAfter, Types, Stores, Desks
  <1>5. /\ requests' \in Seq(Requests) /\ Len(requests') = (IF store.token THEN 1 ELSE 0)
        /\ store.token => requests'[1] = m
    <2>1. m \in Requests
      BY <1>0, DeskAssumption DEF Requests, RequestTypes, NoText
    <2> QED
      BY <1>1, <2>1
  <1>6. Types'
    BY <1>1, <1>2, <1>3, <1>4, <1>5, DeskAssumption DEF Types
  <1>7. HostOK' /\ StoreOK'
    BY <1>1, <1>2, <1>3, <1>4 DEF HostOK, StoreOK, Place
  <1>8. LineOK' /\ RequestsOK' /\ TellsOK'
    <2>1. m.type = "resume"
      BY <1>0
    <2>2. \A i \in 1 .. Len(requests') : i = 1 /\ store.token /\ requests'[i] = m
      BY <1>5
    <2> QED
      BY <1>1, <1>2, <1>3, <1>4, <1>5, <2>1, <2>2 DEF LineOK, RequestsOK, TellsOK
  <1>9. Ordered' /\ Differ' /\ Synced'
    <2>1. Ordered'
      BY <1>1, <1>2, <1>3, <1>4 DEF Ordered, NotAfter, Before, Same, Turn
    <2>2. Differ' /\ Synced'
      BY <1>1, <1>2, <1>3, <1>4 DEF Differ, Synced
    <2> QED
      BY <2>1, <2>2
  <1>10. Sent'
    <2>1. ~store.recovering => ~desk.submitted
      BY <1>4 DEF StoreOK, Sent
    <2> QED
      BY <1>2, <1>3, <1>4, <2>1 DEF Sent
  <1>11. DeskKept' /\ Uncut'
    BY <1>1, <1>2, <1>3 DEF DeskKept, Uncut, ReadDraft
  <1>12. Wrote'
    <2>1. ASSUME NEW p \in Spots PROVE ~There(p)'
      BY <1>1, <1>2, <1>3, <1>4 DEF There, Uncut, StoreOK
    <2>2. \A p \in Spots : Reached(p) => Reached(p)'
      BY <1>1, <1>2, <1>3, ReachedRests
    <2> QED
      BY <1>1, <1>3, <2>1, <2>2, ElsewhereKept
  <1> HIDE DEF DeskInv
  <1> QED
    BY <1>6, <1>7, <1>8, <1>9, <1>10, <1>11, <1>12 DEF DeskInv

LEMMA ForgetsStep == DeskInv /\ Forgets => DeskInv'
  <1> SUFFICES ASSUME DeskInv, Forgets PROVE DeskInv'
    OBVIOUS
  <1> USE DEF DeskInv
  <1>1. /\ ~up /\ host' = [NoSeat EXCEPT !.room = host.room]
        /\ UNCHANGED <<up, requests, tells, store, desk, drawer, box, throttle, invite, upLink, cuts, texts, written>>
    BY DEF Forgets
  <1>2. /\ host' \in Hosts /\ host'.room = host.room /\ host'.seat = FALSE /\ host'.bound = FALSE
        /\ host'.beat = 0 /\ host'.game = 0 /\ host'.accepted = NoText
    <2>1. host.room \in 0 .. MaxRooms
      BY DEF Types, Hosts
    <2> QED
      <3>1. host' = [seat |-> FALSE, bound |-> FALSE, room |-> host.room, game |-> 0, beat |-> 0,
                     draft |-> 0, accepted |-> 0]
        BY <1>1 DEF NoSeat, NoText
      <3>2. 0 \in 0 .. MaxGames /\ 0 \in 0 .. MaxBeats /\ 0 \in 0 .. MaxTexts
        BY DeskAssumption
      <3> QED
        BY ONLY <2>1, <3>1, <3>2 DEF Hosts, NoText
  <1>3. tells = <<>> /\ requests = <<>> /\ Len(tells) = 0 /\ Len(requests) = 0
    BY <1>1, Numbers DEF LineOK
  <1>4. Types' /\ HostOK' /\ StoreOK'
    <2>1. Types'
      BY <1>1, <1>2 DEF Types
    <2>2. HostOK' /\ StoreOK'
      BY <1>1, <1>2 DEF HostOK, StoreOK, Place
    <2> QED
      BY <2>1, <2>2
  <1>5. LineOK' /\ RequestsOK' /\ TellsOK' /\ Ordered' /\ Differ' /\ Synced'
    <2>1. LineOK' /\ RequestsOK' /\ TellsOK'
      BY <1>1, <1>2, <1>3 DEF LineOK, RequestsOK, TellsOK
    <2>2. Ordered' /\ Differ' /\ Synced'
      BY <1>1, <1>2, <1>3 DEF Ordered, Differ, Synced
    <2> QED
      BY <2>1, <2>2
  <1>6. Sent' /\ DeskKept' /\ Uncut'
    <2>1. ~store.recovering => ~desk.submitted
      BY <1>1 DEF StoreOK, Sent
    <2> QED
      BY <1>1, <2>1 DEF Sent, DeskKept, Uncut, ReadDraft
  <1>7. Wrote'
    <2>1. ASSUME NEW p \in Spots, Reached(p) PROVE Reached(p)' /\ ~There(p)'
      <3>1. p.beat # 0
        BY DeskAssumption DEF Spots
      <3>2. ~There(p)'
        BY <1>2, <3>1 DEF There, Same
      <3>3. Reached(p)'
        BY <1>1, <1>2, <1>3, <2>1 DEF Reached, NotAfter, Before, Same, Turn
      <3> QED
        BY <3>2, <3>3
    <2> QED
      BY <1>1, <2>1, ElsewhereKept
  <1> HIDE DEF DeskInv
  <1> QED
    BY <1>4, <1>5, <1>6, <1>7 DEF DeskInv

-----------------------------------------------------------------------------
\* The server's side

\* The game moves on, and the seat is told
LEMMA NewsOfMove ==
    ASSUME DeskInv, NEW m \in Tells, tells' \in Seq(Tells), Grown(tells', tells, m),
           m.type = "phase_change", ~m.ok, Same(m, host'), Place(m),
           Before(host, host'), host'.beat # host.beat, host' \in Hosts,
           host.bound, host'.bound, host'.seat, host'.accepted = NoText,
           UNCHANGED <<up, store>>
    PROVE  /\ TellsOK' /\ Ordered' /\ Differ' /\ Synced'
           /\ \A p \in Spots : Reached(p) => Reached(p)' /\ ~There(p)'
           /\ store.phase # "home" => ~Same(store, host)'
  <1> USE DEF DeskInv
  <1>l. PICK n \in Nat : n = Len(tells)
    BY Numbers
  <1>0. /\ n \in Nat /\ Len(tells') = n + 1 /\ tells'[n + 1] = m /\ Mention(m)
        /\ \A i \in 1 .. n : tells'[i] = tells[i]
        /\ \A i \in 1 .. n + 1 : i \in 1 .. n \/ i = n + 1
    BY <1>l DEF Grown, Mention
  <1>n. /\ host'.room \in Nat /\ host'.game \in Nat /\ host'.beat \in Nat
        /\ m.room \in Nat /\ m.game \in Nat /\ m.beat \in Nat
    BY DeskAssumption DEF Hosts, Tells
  <1>1. \A x : x.room \in Nat /\ x.game \in Nat /\ x.beat \in Nat /\ NotAfter(x, host) =>
            Before(x, host') /\ Before(x, m) /\ NotAfter(x, host') /\ ~Same(x, host')
    <2>1. \A x : Before(x, host') <=> Before(x, m)
      BY DEF Before, Same, Turn
    <2> QED
      BY <1>n, <2>1, Order, Numbers
  <1>2. /\ store.room \in Nat /\ store.game \in Nat /\ store.beat \in Nat
        /\ \A i \in 1 .. n : tells[i].room \in Nat /\ tells[i].game \in Nat /\ tells[i].beat \in Nat
    BY <1>l, Numbers
  <1>3. \A i \in 1 .. n : Mention(tells[i]) => Place(tells[i]) /\ NotAfter(tells[i], host)
    BY <1>l DEF Ordered
  <1>4. store.phase # "home" => NotAfter(store, host)
    BY DEF Ordered, HostOK
  <1>5. TellsOK'
    <2>1. n = Len(tells)
      BY <1>l
    <2> QED
      BY <1>0, <2>1 DEF TellsOK
  <1>6. Ordered'
    <2>0. n = Len(tells)
      BY <1>l
    <2>1. ASSUME NEW i \in 1 .. n + 1, Mention(tells'[i])
          PROVE  Place(tells'[i]) /\ host'.bound /\ NotAfter(tells'[i], host')
      <3>1. CASE i = n + 1
        BY <1>0, <3>1 DEF NotAfter, Same
      <3>2. CASE i \in 1 .. n
        BY <1>0, <1>1, <1>2, <1>3, <2>1, <3>2
      <3> QED
        BY <1>0, <3>1, <3>2
    <2>2. ASSUME NEW i \in 1 .. n + 1, NEW j \in 1 .. n + 1, i < j, Mention(tells'[i]), Mention(tells'[j])
          PROVE  Before(tells'[i], tells'[j])
      <3>1. i \in 1 .. n
        BY <1>0, <2>2
      <3>2. CASE j = n + 1
        BY <1>0, <1>1, <1>2, <1>3, <2>2, <3>1, <3>2
      <3>3. CASE j \in 1 .. n
        BY <1>0, <2>0, <2>2, <3>1, <3>3 DEF Ordered
      <3> QED
        BY <1>0, <3>2, <3>3
    <2>3. ASSUME store.phase # "home", NEW i \in 1 .. n + 1, Mention(tells'[i])
          PROVE  Before(store, tells'[i]) \/ (tells'[i].type = "full_sync" /\ Same(store, tells'[i]))
      <3>1. CASE i = n + 1
        BY <1>0, <1>1, <1>2, <1>4, <2>3, <3>1
      <3>2. CASE i \in 1 .. n
        BY <1>0, <2>0, <2>3, <3>2 DEF Ordered
      <3> QED
        BY <1>0, <3>1, <3>2
    <2>4. store.phase # "home" => NotAfter(store, host')
      BY <1>1, <1>2, <1>4
    <2>5. store.room <= host'.room
      <3>1. host.room <= host'.room
        BY <1>n, Numbers DEF Before
      <3>2. store.room <= host.room
        BY DEF Ordered
      <3> QED
        BY <3>1, <3>2, <1>n, Numbers
    <2> QED
      BY <1>0, <2>1, <2>2, <2>3, <2>4, <2>5 DEF Ordered, NotAfter, Before, Same, Turn, Place, Mention
  <1>7. Differ'
    <2>0. n = Len(tells)
      BY <1>l
    <2>1. \A a, b \in Nat : b <= n /\ a >= 1 /\ NoMention(a, b)' => NoMention(a, b)
      BY <1>0 DEF NoMention, Mention
    <2>2. ASSUME NEW i \in 1 .. n + 1, NEW j \in 1 .. n + 1, i < j, Mention(tells'[i]), Mention(tells'[j]),
                 NoMention(i + 1, j - 1)'
          PROVE  tells'[i].beat # tells'[j].beat
      <3>1. i \in 1 .. n /\ j - 1 \in Nat /\ i + 1 \in Nat /\ j - 1 <= n /\ i + 1 >= 1 /\ tells'[i] = tells[i]
        BY <1>0, <2>2
      <3>2. NoMention(i + 1, j - 1)
        BY <2>1, <2>2, <3>1
      <3>3. CASE j = n + 1
        <4>1. NoMention(i + 1, n)
          BY <1>0, <3>2, <3>3
        <4>2. Same(tells[i], host)
          BY <2>0, <2>2, <3>1, <4>1 DEF Synced
        <4> QED
          BY <1>0, <3>1, <3>3, <4>2 DEF Same
      <3>4. CASE j \in 1 .. n
        BY <1>0, <2>0, <2>2, <3>1, <3>2, <3>4 DEF Differ
      <3> QED
        BY <1>0, <3>3, <3>4
    <2>3. ASSUME store.phase # "home", ~store.recovering, NEW i \in 1 .. n + 1, Mention(tells'[i]), NoMention(1, i - 1)'
          PROVE  store.beat # tells'[i].beat
      <3>1. i - 1 \in Nat /\ i - 1 <= n
        BY <1>0, <2>3
      <3>2. NoMention(1, i - 1)
        BY <2>1, <2>3, <3>1
      <3>3. CASE i = n + 1
        <4>1. NoMention(1, n)
          BY <1>0, <3>2, <3>3
        <4>2. Same(store, host)
          BY <2>0, <2>3, <4>1 DEF Synced, StoreOK, HostOK
        <4> QED
          BY <1>0, <3>3, <4>2 DEF Same
      <3>4. CASE i \in 1 .. n
        BY <1>0, <2>0, <2>3, <3>2, <3>4 DEF Differ
      <3> QED
        BY <1>0, <3>3, <3>4
    <2> QED
      BY <1>0, <2>2, <2>3 DEF Differ, Mention
  <1>8. Synced'
    <2>1. ASSUME NEW i \in 1 .. n + 1, NoMention(i + 1, n + 1)' PROVE i = n + 1
      <3>1. i \in 1 .. n => n + 1 \in i + 1 .. n + 1
        BY <1>0
      <3>2. i \notin 1 .. n
        BY <1>0, <2>1, <3>1 DEF NoMention, Mention
      <3> QED
        BY <1>0, <3>2
    <2>2. ~NoMention(1, n + 1)'
      <3>1. n + 1 \in 1 .. n + 1
        BY <1>0
      <3> QED
        BY <1>0, <3>1 DEF NoMention, Mention
    <2>3. ~ToldAfter(n + 1)'
      BY <1>0 DEF ToldAfter
    <2> QED
      BY <1>0, <2>1, <2>2, <2>3 DEF Synced, Same
  <1>9. ASSUME NEW p \in Spots, Reached(p) PROVE Reached(p)' /\ ~There(p)'
    <2>0. n = Len(tells)
      BY <1>l
    <2>1. p.room \in Nat /\ p.game \in Nat /\ p.beat \in Nat
      BY Numbers
    <2>2. NotAfter(p, host)
      BY <1>9 DEF Reached, HostOK
    <2>3. ~There(p)'
      <3>1. ~Same(p, host')
        BY <1>1, <2>1, <2>2
      <3> QED
        BY <3>1 DEF There, Same
    <2>4. p.room <= host'.room /\ NotAfter(p, host') /\ Before(p, m)
      BY <1>1, <1>n, <2>1, <2>2, Order, Numbers
    <2>5. \A i \in 1 .. n + 1 : Mention(tells'[i]) => NotAfter(p, tells'[i])
      <3>1. \A i \in 1 .. n : Mention(tells[i]) => NotAfter(p, tells[i])
        BY <1>9, <2>0 DEF Reached
      <3>2. NotAfter(p, m)
        BY <2>4 DEF NotAfter
      <3> QED
        BY <1>0, <3>1, <3>2
    <2>6. store.phase # "home" => NotAfter(p, store)
      BY <1>9 DEF Reached
    <2> QED
      BY <1>0, <2>3, <2>4, <2>5, <2>6 DEF Reached, Mention, NotAfter, Before, Same, Turn
  <1>10. store.phase # "home" => ~Same(store, host)'
    <2>1. store.phase # "home" => ~Same(store, host')
      BY <1>1, <1>2, <1>4
    <2> QED
      BY <2>1 DEF Same
  <1> QED
    BY <1>5, <1>6, <1>7, <1>8, <1>9, <1>10

\* The server answers one request
LEMMA NewsOfAnswer ==
    ASSUME DeskInv, NEW m \in Tells, tells' \in Seq(Tells), Grown(tells', tells, m),
           m.type \in {"action_submitted", "error"}, UNCHANGED <<up, store>>,
           Same(host', host), host.bound, host'.bound, host'.seat = host.seat,
           m.type = "error" => host'.accepted = host.accepted,
           m.type = "action_submitted" => host'.accepted # NoText
    PROVE  /\ TellsOK' /\ Ordered' /\ Differ' /\ Synced'
           /\ \A p : Reached(p) => Reached(p)'
           /\ ToldAfter(0) \/ m.type = "action_submitted" => ToldAfter(0)'
           /\ ErrorOut \/ m.type = "error" => ErrorOut'
  <1> USE DEF DeskInv
  <1>l. PICK n \in Nat : n = Len(tells)
    BY Numbers
  <1>0. /\ Len(tells') = n + 1 /\ tells'[n + 1] = m /\ ~Mention(m)
        /\ \A i \in 1 .. n : tells'[i] = tells[i]
        /\ \A i \in 1 .. n + 1 : i \in 1 .. n \/ i = n + 1
    BY <1>l DEF Grown, Mention
  <1>1. host'.room = host.room /\ host'.game = host.game /\ host'.beat = host.beat
    BY DEF Same
  <1>2. \A i \in 1 .. n + 1 : Mention(tells'[i]) => i \in 1 .. n /\ Mention(tells[i]) /\ tells'[i] = tells[i]
    BY <1>0 DEF Mention
  <1>3. TellsOK'
    BY <1>0, <1>l DEF TellsOK
  <1>4. Ordered'
    <2>1. \A i \in 1 .. n + 1 : Mention(tells'[i]) =>
             /\ Place(tells'[i]) /\ host'.bound /\ NotAfter(tells'[i], host')
             /\ store.phase # "home" =>
                   Before(store, tells'[i]) \/ (tells'[i].type = "full_sync" /\ Same(store, tells'[i]))
      BY <1>1, <1>2, <1>l DEF Ordered, NotAfter, Before, Same, Turn
    <2>2. \A i, j \in 1 .. n + 1 : i < j /\ Mention(tells'[i]) /\ Mention(tells'[j]) => Before(tells'[i], tells'[j])
      BY <1>2, <1>l DEF Ordered
    <2>3. /\ store.phase # "home" /\ host'.seat => NotAfter(store, host')
          /\ store.room <= host'.room
      BY <1>1 DEF Ordered, NotAfter, Before, Same, Turn
    <2> QED
      BY <1>0, <2>1, <2>2, <2>3 DEF Ordered, NotAfter, Before, Same, Turn, Place, Mention
  <1>5. \A a, b \in Nat : b <= n /\ a >= 1 /\ NoMention(a, b)' => NoMention(a, b)
    BY <1>0 DEF NoMention, Mention
  <1>6. Differ'
    <2>2. ASSUME NEW i \in 1 .. n + 1, NEW j \in 1 .. n + 1, i < j, Mention(tells'[i]), Mention(tells'[j]),
                 NoMention(i + 1, j - 1)'
          PROVE  tells'[i].beat # tells'[j].beat
      <3>1. i \in 1 .. n /\ j \in 1 .. n /\ j - 1 \in Nat /\ i + 1 \in Nat /\ j - 1 <= n /\ i + 1 >= 1
            /\ Mention(tells[i]) /\ Mention(tells[j]) /\ tells'[i] = tells[i] /\ tells'[j] = tells[j]
        BY <1>2, <2>2
      <3>2. NoMention(i + 1, j - 1)
        BY <1>5, <2>2, <3>1
      <3> QED
        BY <1>l, <2>2, <3>1, <3>2 DEF Differ
    <2>3. ASSUME store.phase # "home", ~store.recovering, NEW i \in 1 .. n + 1, Mention(tells'[i]), NoMention(1, i - 1)'
          PROVE  store.beat # tells'[i].beat
      <3>1. i \in 1 .. n /\ i - 1 \in Nat /\ i - 1 <= n /\ Mention(tells[i]) /\ tells'[i] = tells[i]
        BY <1>2, <2>3
      <3>2. NoMention(1, i - 1)
        BY <1>5, <2>3, <3>1
      <3> QED
        BY <1>l, <2>3, <3>1, <3>2 DEF Differ
    <2> QED
      BY <1>0, <2>2, <2>3 DEF Differ, Mention
  <1>7. \A i \in 0 .. n : ToldAfter(i)' <=> (ToldAfter(i) \/ m.type = "action_submitted")
    <2> SUFFICES ASSUME NEW i \in 0 .. n PROVE ToldAfter(i)' <=> (ToldAfter(i) \/ m.type = "action_submitted")
      OBVIOUS
    <2>1. ASSUME ToldAfter(i)' PROVE ToldAfter(i) \/ m.type = "action_submitted"
      BY <1>0, <1>l, <2>1 DEF ToldAfter
    <2>2. ASSUME ToldAfter(i) PROVE ToldAfter(i)'
      BY <1>0, <1>l, <2>2 DEF ToldAfter
    <2>3. ASSUME m.type = "action_submitted" PROVE ToldAfter(i)'
      <3>1. n + 1 \in 1 .. n + 1 /\ n + 1 > i
        OBVIOUS
      <3> QED
        BY <1>0, <2>3, <3>1 DEF ToldAfter
    <2> QED
      BY <2>1, <2>2, <2>3
  <1>8. Synced'
    <2>1. ASSUME NEW i \in 1 .. n + 1, Mention(tells'[i]), NoMention(i + 1, n + 1)'
          PROVE  Same(tells'[i], host') /\ (host'.accepted # NoText <=> (tells'[i].ok \/ ToldAfter(i)'))
      <3>1. i \in 1 .. n /\ Mention(tells[i]) /\ tells'[i] = tells[i]
        BY <1>2, <2>1
      <3>2. NoMention(i + 1, n)
        BY <1>0, <2>1, <3>1 DEF NoMention, Mention
      <3>3. Same(tells[i], host) /\ (host.accepted # NoText <=> (tells[i].ok \/ ToldAfter(i)))
        BY <1>l, <3>1, <3>2 DEF Synced
      <3> QED
        BY <1>1, <1>7, <3>1, <3>3 DEF Same
    <2>2. ASSUME up, store.token, ~store.recovering, NoMention(1, n + 1)'
          PROVE  Same(store, host') /\ (host'.accepted # NoText <=> (store.submitted \/ ToldAfter(0)'))
      <3>1. NoMention(1, n)
        BY <1>0, <2>2 DEF NoMention, Mention
      <3>2. Same(store, host) /\ (host.accepted # NoText <=> (store.submitted \/ ToldAfter(0)))
        BY <1>l, <2>2, <3>1 DEF Synced
      <3>3. 0 \in 0 .. n
        OBVIOUS
      <3> QED
        BY <1>1, <1>7, <3>2, <3>3 DEF Same
    <2> QED
      BY <1>0, <2>1, <2>2 DEF Synced, Same, Mention
  <1>9. ASSUME NEW p, Reached(p) PROVE Reached(p)'
    <2>1. \A i \in 1 .. n + 1 : Mention(tells'[i]) => NotAfter(p, tells'[i])
      BY <1>2, <1>9, <1>l DEF Reached
    <2> QED
      BY <1>0, <1>1, <1>9, <2>1 DEF Reached, Mention, NotAfter, Before, Same, Turn
  <1>10. ErrorOut \/ m.type = "error" => ErrorOut'
    <2>1. n + 1 \in 1 .. n + 1
      OBVIOUS
    <2> QED
      BY <1>0, <1>l, <2>1 DEF ErrorOut
  <1>11. 0 \in 0 .. n
    OBVIOUS
  <1> QED
    BY <1>3, <1>4, <1>6, <1>7, <1>8, <1>9, <1>10, <1>11

\* Who has neither said a word nor is heard has no seat yet
LEMMA WhoIsBound ==
    ASSUME DeskInv, up, ~store.recovering
    PROVE  store.token => host.bound
  <1> USE DEF DeskInv
  <1>1. SUFFICES ASSUME store.token, ~host.bound PROVE FALSE
    OBVIOUS
  <1>2. NoMention(1, Len(tells))
    BY <1>1 DEF Ordered, NoMention
  <1> QED
    BY <1>1, <1>2 DEF Synced

LEMMA NextBeatStep == DeskInv /\ NextBeat => DeskInv'
  <1> SUFFICES ASSUME DeskInv, NextBeat PROVE DeskInv'
    OBVIOUS
  <1> USE DEF DeskInv
  <1>0. PICK next : next = [host EXCEPT !.beat = IF @ = MaxBeats THEN 0 ELSE @ + 1, !.draft = NoText, !.accepted = NoText]
    OBVIOUS
  <1>1. /\ host.seat /\ host.beat # 0 /\ Len(tells) < MaxAsks /\ host' = next
        /\ IF host.bound THEN TellServer("phase_change", next) ELSE UNCHANGED tells
        /\ UNCHANGED <<up, requests, store, desk, drawer, box, throttle, invite, upLink, cuts, texts, written>>
    BY <1>0 DEF NextBeat
  <1>2. /\ next \in Hosts /\ next.seat = host.seat /\ next.bound = host.bound /\ next.room = host.room
        /\ next.game = host.game /\ next.beat = (IF host.beat = MaxBeats THEN 0 ELSE host.beat + 1)
        /\ next.draft = NoText /\ next.accepted = NoText
    <2>1. PICK b : b = IF host.beat = MaxBeats THEN 0 ELSE host.beat + 1
      OBVIOUS
    <2>2. b \in 0 .. MaxBeats /\ 0 \in 0 .. MaxTexts
      BY <2>1, DeskAssumption DEF Types, Hosts
    <2>3. next = [host EXCEPT !.beat = b, !.draft = 0, !.accepted = 0] /\ host \in Hosts
      BY <1>0, <2>1 DEF Types, NoText
    <2> QED
      BY ONLY <2>1, <2>2, <2>3 DEF Hosts, NoText
  <1>3. Before(host, next) /\ next.beat # host.beat
    BY <1>1, <1>2, DeskAssumption DEF Before, Turn, Types, Hosts
  <1>4. HostOK' /\ StoreOK' /\ DeskKept' /\ Uncut' /\ RequestsOK'
    <2>1. HostOK'
      BY <1>1, <1>2 DEF HostOK
    <2>2. StoreOK' /\ DeskKept' /\ Uncut'
      BY <1>1 DEF StoreOK, DeskKept, Uncut, ReadDraft, Place
    <2>3. RequestsOK'
      BY <1>1, <1>2 DEF RequestsOK
    <2> QED
      BY <2>1, <2>2, <2>3
  <1>5. CASE host.bound
    <2>0. PICK m : m = [type |-> "phase_change", room |-> next.room, game |-> next.game, beat |-> next.beat,
                        ok |-> next.accepted # NoText]
      OBVIOUS
    <2>1. tells' = Append(tells, m)
      BY <1>1, <1>5, <2>0 DEF TellServer
    <2>2. m \in Tells /\ m.type = "phase_change" /\ ~m.ok /\ Same(m, next) /\ Place(m)
      BY <1>1, <1>2, <2>0 DEF Hosts, Tells, TellTypes, Same, Place, HostOK
    <2>3. tells' \in Seq(Tells) /\ Grown(tells', tells, m) /\ Len(tells') <= MaxAsks
      <3>1. Append(tells, m) \in Seq(Tells) /\ Grown(Append(tells, m), tells, m)
        BY <2>2, GrownSeq DEF Types
      <3> QED
        BY <1>1, <2>1, <3>1, Numbers, DeskAssumption DEF Grown
    <2>4. /\ TellsOK' /\ Ordered' /\ Differ' /\ Synced'
          /\ \A p \in Spots : Reached(p) => Reached(p)' /\ ~There(p)'
          /\ store.phase # "home" => ~Same(store, host)'
      BY <1>1, <1>2, <1>3, <1>5, <2>2, <2>3, NewsOfMove
    <2>5. Types'
      BY <1>1, <1>2, <2>3 DEF Types
    <2>6. LineOK'
      <3>1. Len(tells) > 0 => Len(tells') > 0 /\ tells'[1] = tells[1]
        BY <2>3, Numbers DEF Grown
      <3>2. up /\ host'.bound
        BY <1>1, <1>2, <1>5 DEF HostOK
      <3> QED
        BY <1>1, <1>5, <3>1, <3>2, Numbers DEF LineOK
    <2>7. Sent'
      <3>1. ToldAfter(0) => ToldAfter(0)'
        BY <2>3, Numbers DEF ToldAfter, Grown
      <3>2. ErrorOut => ErrorOut'
        BY <2>3, Numbers DEF ErrorOut, Grown
      <3> QED
        BY <1>1, <2>4, <3>1, <3>2 DEF Sent, SubmitOut
    <2>8. Wrote'
      BY <1>1, <2>4, ElsewhereKept
    <2> HIDE DEF DeskInv
    <2> QED
      BY <1>4, <2>4, <2>5, <2>6, <2>7, <2>8 DEF DeskInv
  <1>6. CASE ~host.bound
    <2>1. tells' = tells /\ \A i \in 1 .. Len(tells) : ~Mention(tells[i])
      BY <1>1, <1>6 DEF Ordered
    <2>2. up => store.recovering \/ ~store.token
      BY <1>6, WhoIsBound
    <2>3. Types' /\ LineOK' /\ TellsOK'
      <3>1. Types'
        BY <1>1, <1>2, <2>1 DEF Types
      <3>2. LineOK' /\ TellsOK'
        BY <1>1, <1>2, <2>1 DEF LineOK, TellsOK
      <3> QED
        BY <3>1, <3>2
    <2>n. /\ next.room \in Nat /\ next.game \in Nat /\ next.beat \in Nat
          /\ \A x : x.room \in Nat /\ x.game \in Nat /\ x.beat \in Nat /\ NotAfter(x, host) =>
                NotAfter(x, next) /\ ~Same(x, next)
      <3>1. next.room \in Nat /\ next.game \in Nat /\ next.beat \in Nat
        BY <1>2, DeskAssumption DEF Hosts
      <3> QED
        BY <1>3, <3>1, Order, Numbers
    <2>4. Ordered' /\ Differ' /\ Synced'
      <3>1. store.phase # "home" => NotAfter(store, next)
        BY <1>1, <2>n, Numbers DEF Ordered
      <3>2. Ordered'
        BY <1>1, <1>2, <2>1, <3>1 DEF Ordered, NotAfter, Before, Same, Turn, Mention
      <3>3. Differ' /\ Synced'
        BY <1>1, <2>1, <2>2 DEF Differ, Synced, Mention
      <3> QED
        BY <3>2, <3>3
    <2>5. Sent'
      <3>1. ~store.recovering => ~desk.submitted
        BY <2>2 DEF StoreOK, Sent
      <3> QED
        BY <1>1, <3>1 DEF Sent
    <2>6. Wrote'
      <3>1. ASSUME NEW p \in Spots, Reached(p) PROVE Reached(p)' /\ ~There(p)'
        <4>1. NotAfter(p, next) /\ ~Same(p, next)
          BY <1>1, <2>n, <3>1, Numbers DEF Reached
        <4>2. Reached(p)'
          BY <1>1, <1>2, <2>1, <3>1, <4>1 DEF Reached, NotAfter, Before, Same, Turn, Mention
        <4>3. ~There(p)'
          BY <1>1, <4>1 DEF There, Same
        <4> QED
          BY <4>2, <4>3
      <3> QED
        BY <1>1, <3>1, ElsewhereKept
    <2> HIDE DEF DeskInv
    <2> QED
      BY <1>4, <2>3, <2>4, <2>5, <2>6 DEF DeskInv
  <1> QED
    BY <1>5, <1>6

-----------------------------------------------------------------------------
\* What does not change when the server takes a request
LEMMA Served ==
    ASSUME DeskInv, requests # <<>>, requests' = Tail(requests),
           UNCHANGED <<up, store, desk, drawer, box, throttle, invite, upLink, cuts, texts, written>>
    PROVE  /\ requests' \in Seq(Requests) /\ Shrunk(requests', requests)
           /\ Head(requests) = requests[1] /\ requests[1] \in Requests
           /\ Len(requests') <= MaxAsks
           /\ StoreOK' /\ DeskKept' /\ Uncut' /\ RequestsOK'
           /\ ~invite \/ ~up \/ store.token
           /\ requests[1].type # "submit" \/ requests[1].beat # store.beat => (SubmitOut => SubmitOut')
           /\ up
  <1> USE DEF DeskInv
  <1>1. /\ requests' \in Seq(Requests) /\ Shrunk(requests', requests)
        /\ Head(requests) = requests[1] /\ requests[1] \in Requests
    BY ShrunkSeq DEF Types
  <1>l. PICK n \in Nat : n = Len(requests')
    BY <1>1
  <1>2. /\ Len(requests) = n + 1 /\ \A i \in 1 .. n : requests'[i] = requests[i + 1] /\ i + 1 \in 1 .. n + 1 /\ i + 1 # 1
        /\ \A i \in 1 .. n + 1 : i = 1 \/ (i - 1 \in 1 .. n /\ requests[i] = requests'[i - 1])
    BY <1>1, <1>l DEF Shrunk
  <1>3. Len(requests') <= MaxAsks
    BY <1>2, <1>l, DeskAssumption DEF Types
  <1>4. up
    BY DEF LineOK
  <1>5. ~invite \/ ~up \/ store.token
    BY DEF RequestsOK
  <1>6. RequestsOK'
    BY <1>2, <1>l, <1>5 DEF RequestsOK
  <1>7. StoreOK' /\ DeskKept' /\ Uncut'
    BY DEF StoreOK, DeskKept, Uncut, ReadDraft, Place
  <1>8. ASSUME requests[1].type # "submit" \/ requests[1].beat # store.beat, SubmitOut PROVE SubmitOut'
    BY <1>2, <1>l, <1>8 DEF SubmitOut
  <1> QED
    BY <1>1, <1>3, <1>4, <1>5, <1>6, <1>7, <1>8

\* The last text stays shown or on its way when a request before it is taken
LEMMA ReportedServed ==
    ASSUME DeskInv, NEW p \in Spots, Latest(p), Reported(p), texts # 0, requests # <<>>,
           requests' \in Seq(Requests), Shrunk(requests', requests),
           UNCHANGED <<throttle, texts, store, written>>,
           host'.room = host.room, host'.game = host.game, host'.beat = host.beat,
           There(p) /\ host.accepted = NoText /\ requests[1].type = "submit" /\ requests[1].beat = p.beat
              => host'.accepted # NoText,
           There(p) /\ host.accepted = NoText =>
              host'.draft = IF Progress(requests[1], p) THEN requests[1].text ELSE host.draft,
           host'.accepted = NoText => host.accepted = NoText
    PROVE  Reported(p)'
  <1> USE DEF DeskInv
  <1>l. PICK n \in Nat : n = Len(requests')
    OBVIOUS
  <1>s. Len(requests) = n + 1 /\ \A i \in 1 .. n : requests'[i] = requests[i + 1]
    BY ONLY Shrunk(requests', requests), <1>l DEF Shrunk
  <1>2. /\ Len(requests) = n + 1 /\ \A i \in 1 .. n : requests'[i] = requests[i + 1] /\ i + 1 \in 1 .. n + 1 /\ i + 1 # 1
        /\ \A i \in 1 .. n + 1 : i = 1 \/ (i - 1 \in 1 .. n /\ requests[i] = requests'[i - 1])
        /\ 1 \in 1 .. n + 1
    BY ONLY n \in Nat, <1>s
  <1> SUFFICES ASSUME There(p)', host'.accepted = NoText, NoSubmit(p)'
               PROVE  \/ throttle'.open /\ throttle'.beat = p.beat /\ throttle'.trail = texts'
                      \/ throttle'.trail = NoText /\ (OnItsWay(p)' \/ Known(p)')
    BY DEF Reported
  <1>3. There(p) /\ host.accepted = NoText
    BY DEF There, Same
  <1>4. NoSubmit(p)
    <2>1. \A i \in 1 .. n : requests'[i].type = "submit" => requests'[i].beat # p.beat
      BY <1>l DEF NoSubmit
    <2>2. requests[1].type = "submit" => requests[1].beat # p.beat
      BY <1>3
    <2>3. \A i \in 1 .. n + 1 : requests[i].type = "submit" => requests[i].beat # p.beat
      BY <1>2, <2>1, <2>2
    <2> QED
      BY <1>2, <2>3 DEF NoSubmit
  <1>5. CASE throttle.open /\ throttle.beat = p.beat /\ throttle.trail = texts
    BY <1>5
  <1>6. CASE throttle.trail = NoText /\ OnItsWay(p)
    <2>1. PICK i \in 1 .. n + 1 : /\ Progress(requests[i], p) /\ requests[i].text = texts
                                  /\ \A j \in 1 .. n + 1 : j > i => ~Progress(requests[j], p)
      BY <1>2, <1>6 DEF OnItsWay
    <2>2. CASE i = 1
      <3>1. \A j \in 1 .. n : ~Progress(requests'[j], p)
        <4> SUFFICES ASSUME NEW j \in 1 .. n PROVE ~Progress(requests'[j], p)
          OBVIOUS
        <4>1. j + 1 \in 1 .. n + 1 /\ j + 1 > i /\ requests'[j] = requests[j + 1]
          BY <1>2, <2>2
        <4> QED
          BY <2>1, <4>1
      <3>2. host'.draft = texts
        BY <1>3, <2>1, <2>2
      <3>3. Known(p)'
        BY <1>l, <3>1, <3>2 DEF Known, Progress
      <3> QED
        BY <1>6, <3>3
    <2>3. CASE i # 1
      <3>1. i - 1 \in 1 .. n /\ requests'[i - 1] = requests[i]
        BY <1>2, <2>3
      <3>2. \A j \in 1 .. n : j > i - 1 => ~Progress(requests'[j], p)
        <4> SUFFICES ASSUME NEW j \in 1 .. n, j > i - 1 PROVE ~Progress(requests'[j], p)
          OBVIOUS
        <4>1. j + 1 \in 1 .. n + 1 /\ j + 1 > i /\ requests'[j] = requests[j + 1]
          BY <1>2
        <4> QED
          BY <2>1, <4>1
      <3>3. OnItsWay(p)'
        BY <1>l, <2>1, <3>1, <3>2 DEF OnItsWay, Progress
      <3> QED
        BY <1>6, <3>3
    <2> QED
      BY <2>2, <2>3
  <1>7. CASE throttle.trail = NoText /\ Known(p)
    <2>1. \A i \in 1 .. n + 1 : ~Progress(requests[i], p)
      BY <1>2, <1>7 DEF Known
    <2>2. host'.draft = texts
      BY <1>2, <1>3, <1>7, <2>1 DEF Known
    <2>3. Known(p)'
      BY <1>2, <1>l, <2>1, <2>2 DEF Known, Progress
    <2> QED
      BY <1>7, <2>3
  <1> QED
    BY <1>3, <1>4, <1>5, <1>6, <1>7 DEF Reported

\* A room of one's own, or a seat in somebody's
LEMMA Entering ==
    ASSUME DeskInv, Serve, Head(requests).type \in {"create", "join"}, ~host.bound
    PROVE  DeskInv'
  <1> USE DEF DeskInv
  <1>0. PICK entered : entered = [NoSeat EXCEPT !.seat = TRUE, !.bound = TRUE, !.room = host.room + 1]
    OBVIOUS
  <1>1. /\ requests # <<>> /\ requests' = Tail(requests) /\ Len(tells) < MaxAsks /\ host.room < MaxRooms
        /\ host' = entered /\ TellServer("room_created", entered)
        /\ UNCHANGED <<up, store, desk, drawer, box, throttle, invite, upLink, cuts, texts, written>>
    BY <1>0 DEF Serve
  <1>2. /\ requests' \in Seq(Requests) /\ Shrunk(requests', requests)
        /\ Head(requests) = requests[1] /\ Len(requests') <= MaxAsks
        /\ StoreOK' /\ DeskKept' /\ Uncut' /\ RequestsOK' /\ up
    BY <1>1, Served
  <1>3. ~store.recovering
    BY <1>2, <1>1, Numbers DEF LineOK
  <1>4. ~store.token /\ store.phase = "home" /\ tells = <<>> /\ Len(tells) = 0
    BY <1>2, <1>3, WhoIsBound, Numbers DEF LineOK, StoreOK
  <1>5. /\ entered \in Hosts /\ entered.seat /\ entered.bound /\ entered.room = host.room + 1 /\ entered.game = 0
        /\ entered.beat = 0 /\ entered.accepted = NoText /\ host.room \in Nat
    <2>1. PICK r : r = host.room + 1
      OBVIOUS
    <2>2. r \in 0 .. MaxRooms /\ 0 \in 0 .. MaxGames /\ 0 \in 0 .. MaxBeats /\ 0 \in 0 .. MaxTexts /\ host.room \in Nat
      BY <1>1, <2>1, DeskAssumption, Numbers
    <2>3. entered = [seat |-> TRUE, bound |-> TRUE, room |-> r, game |-> 0, beat |-> 0, draft |-> 0, accepted |-> 0]
      BY <1>0, <2>1 DEF NoSeat, NoText
    <2> QED
      BY ONLY <2>1, <2>2, <2>3 DEF Hosts, NoText
  <1>6. PICK m : m = [type |-> "room_created", room |-> entered.room, game |-> entered.game, beat |-> entered.beat,
                      ok |-> entered.accepted # NoText]
    OBVIOUS
  <1>7. m \in Tells /\ m.type = "room_created" /\ ~m.ok /\ Same(m, entered) /\ Place(m) /\ Mention(m)
        /\ m.room = host.room + 1 /\ m.beat = 0 /\ m.game = 0
    <2>1. m = [type |-> "room_created", room |-> entered.room, game |-> 0, beat |-> 0, ok |-> FALSE]
      BY <1>5, <1>6
    <2>2. entered.room \in 0 .. MaxRooms /\ 0 \in 0 .. MaxGames /\ 0 \in 0 .. MaxBeats /\ entered.room = host.room + 1
      BY <1>5, DeskAssumption DEF Hosts
    <2>3. m \in Tells
      BY ONLY <2>1, <2>2 DEF Tells, TellTypes
    <2>4. host.room + 1 # 0
      BY <1>5
    <2> QED
      BY <1>5, <2>1, <2>3, <2>4 DEF Same, Place, Mention
  <1>8. tells' \in Seq(Tells) /\ Len(tells') = 1 /\ tells'[1] = m
    <2>1. tells' = Append(tells, m)
      BY <1>1, <1>6 DEF TellServer
    <2>2. Append(tells, m) \in Seq(Tells) /\ Grown(Append(tells, m), tells, m)
      BY <1>7, GrownSeq DEF Types
    <2> QED
      BY <1>4, <2>1, <2>2 DEF Grown
  <1>9. \A i \in 1 .. Len(tells') : i = 1 /\ tells'[i] = m
    BY <1>8
  <1>10. Types' /\ HostOK'
    <2>1. Types'
      BY <1>1, <1>2, <1>5, <1>8, DeskAssumption DEF Types
    <2>2. HostOK'
      BY <1>1, <1>2, <1>5 DEF HostOK
    <2> QED
      BY <2>1, <2>2
  <1>11. LineOK' /\ TellsOK'
    BY <1>1, <1>2, <1>3, <1>4, <1>5, <1>7, <1>8, <1>9 DEF LineOK, TellsOK
  <1>12. Ordered' /\ Differ' /\ Synced'
    <2>1. Ordered'
      BY <1>1, <1>4, <1>5, <1>7, <1>8, <1>9, Numbers DEF Ordered, NotAfter, Same, Place
    <2>2. Differ'
      BY <1>1, <1>4, <1>8, <1>9 DEF Differ
    <2>3. Synced'
      BY <1>1, <1>4, <1>5, <1>7, <1>8, <1>9 DEF Synced, Same, ToldAfter
    <2> QED
      BY <2>1, <2>2, <2>3
  <1>13. Sent'
    BY <1>1, <1>4 DEF Sent
  <1>14. Wrote'
    <2>1. ASSUME NEW p \in Spots, Reached(p) PROVE Reached(p)' /\ ~There(p)'
      <3>1. p.room <= host.room /\ p.room \in Nat
        BY <2>1, Numbers DEF Reached
      <3>2. p.room < m.room /\ p.room < entered.room
        BY <1>5, <1>7, <3>1
      <3> QED
        BY <1>1, <1>4, <1>5, <1>9, <3>1, <3>2 DEF Reached, NotAfter, Before, There
    <2> QED
      BY <1>1, <2>1, ElsewhereKept
  <1> HIDE DEF DeskInv
  <1> QED
    BY <1>2, <1>10, <1>11, <1>12, <1>13, <1>14 DEF DeskInv

\* A seat is found again, or is no more
LEMMA Resuming ==
    ASSUME DeskInv, Serve, Head(requests).type = "resume"
    PROVE  DeskInv'
  <1> USE DEF DeskInv
  <1>0. PICK m : m = [type |-> IF host.seat THEN "full_sync" ELSE "resume_expired", room |-> host.room, game |-> host.game,
                      beat |-> host.beat, ok |-> host.accepted # NoText]
    OBVIOUS
  <1>1. /\ requests # <<>> /\ requests' = Tail(requests) /\ Len(tells) < MaxAsks
        /\ host' = (IF host.seat THEN [host EXCEPT !.bound = TRUE] ELSE host)
        /\ tells' = Append(tells, m)
        /\ UNCHANGED <<up, store, desk, drawer, box, throttle, invite, upLink, cuts, texts, written>>
    BY <1>0 DEF Serve, TellServer
  <1>2. /\ requests' \in Seq(Requests) /\ Shrunk(requests', requests)
        /\ Head(requests) = requests[1] /\ Len(requests') <= MaxAsks
        /\ StoreOK' /\ DeskKept' /\ Uncut' /\ RequestsOK' /\ up
    BY <1>1, Served
  <1>3. store.recovering /\ store.token
    BY <1>1, <1>2, Numbers DEF RequestsOK, StoreOK
  <1>4. Len(requests) = 1 /\ tells = <<>> /\ Len(tells) = 0 /\ ~host.bound /\ requests' = <<>>
    <2>1. Len(requests) = 1 /\ tells = <<>> /\ ~host.bound
      BY <1>1, <1>2, <1>3 DEF LineOK
    <2>2. Len(requests') = 0
      <3>1. Len(requests') \in Nat /\ Len(requests) = Len(requests') + 1
        BY ONLY <1>2 DEF Shrunk
      <3> QED
        BY ONLY <2>1, <3>1
    <2> QED
      BY <1>2, <2>1, <2>2, Numbers, EmptyLen
  <1>5. /\ host' \in Hosts /\ host'.seat = host.seat /\ host'.bound = host.seat /\ host'.room = host.room /\ host'.game = host.game
        /\ host'.beat = host.beat /\ host'.accepted = host.accepted
    BY <1>1, <1>4 DEF Types, Hosts
  <1>7. m \in Tells /\ (m.ok <=> host.accepted # NoText) /\ Same(m, host)
        /\ m.type = (IF host.seat THEN "full_sync" ELSE "resume_expired")
    BY <1>0 DEF Types, Hosts, Tells, TellTypes, Same
  <1>8. tells' \in Seq(Tells) /\ Len(tells') = 1 /\ tells'[1] = m
    <2>2. Append(tells, m) \in Seq(Tells) /\ Grown(Append(tells, m), tells, m)
      BY <1>7, GrownSeq DEF Types
    <2> QED
      BY <1>1, <1>4, <2>2 DEF Grown
  <1>9. \A i \in 1 .. Len(tells') : i = 1 /\ tells'[i] = m
    BY <1>8
  <1>10. Types' /\ HostOK'
    <2>1. Types'
      BY <1>1, <1>2, <1>5, <1>8, DeskAssumption DEF Types
    <2>2. HostOK'
      BY <1>1, <1>2, <1>5 DEF HostOK
    <2> QED
      BY <2>1, <2>2
  <1>11. LineOK' /\ TellsOK'
    BY <1>1, <1>2, <1>3, <1>4, <1>5, <1>7, <1>8, <1>9 DEF LineOK, TellsOK
  <1>12. Ordered' /\ Differ' /\ Synced'
    <2>1. Mention(m) => host.seat /\ Place(m) /\ NotAfter(m, host) /\ m.type = "full_sync"
      BY <1>7 DEF Mention, HostOK, Place, Same, NotAfter
    <2>2. store.phase # "home" /\ host.seat => NotAfter(store, host) /\ (Before(store, m) \/ Same(store, m))
      BY <1>7 DEF Ordered, NotAfter, Before, Same, Turn
    <2>3. Ordered'
      BY <1>1, <1>5, <1>8, <1>9, <2>1, <2>2 DEF Ordered, NotAfter, Before, Same, Turn, Place, Mention
    <2>4. Differ'
      BY <1>1, <1>3, <1>8, <1>9 DEF Differ
    <2>5. Synced'
      BY <1>1, <1>3, <1>5, <1>7, <1>8, <1>9 DEF Synced, Same, ToldAfter
    <2> QED
      BY <2>3, <2>4, <2>5
  <1>13. Sent'
    BY <1>1, <1>3 DEF Sent
  <1>14. Wrote'
    <2>1. ASSUME NEW p \in Spots, Reached(p) PROVE Reached(p)' /\ ~There(p)'
      <3>1. Mention(m) => host.seat
        BY <1>7 DEF Mention
      <3>2. Mention(m) => NotAfter(p, m)
        BY <1>7, <2>1, <3>1 DEF Reached, NotAfter, Before, Same, Turn
      <3>3. ~There(p)'
        BY <1>1, <1>3 DEF There, Uncut
      <3> QED
        BY <1>1, <1>5, <1>9, <2>1, <3>2, <3>3 DEF Reached, NotAfter, Before, Same, Turn, Mention
    <2> QED
      BY <1>1, <2>1, ElsewhereKept
  <1> HIDE DEF DeskInv
  <1> QED
    BY <1>2, <1>10, <1>11, <1>12, <1>13, <1>14 DEF DeskInv

\* One request is answered, with the seat where it was
LEMMA Answering ==
    ASSUME DeskInv, requests # <<>>, requests' = Tail(requests), Len(tells) < MaxAsks,
           NEW m \in Tells, tells' = Append(tells, m), m.type \in {"action_submitted", "error"},
           Head(requests).type \notin {"resume", "progress"},
           host' \in Hosts, Same(host', host), host.bound, host'.bound, host'.seat = host.seat, host'.draft = host.draft,
           m.type = "error" => /\ host'.accepted = host.accepted
                               /\ Head(requests).type = "submit" =>
                                     ~(Writes(host.beat) /\ host.accepted = NoText /\ Head(requests).beat = host.beat),
           m.type = "action_submitted" => host'.accepted # NoText /\ host'.beat # 0,
           UNCHANGED <<up, store, desk, drawer, box, throttle, invite, upLink, cuts, texts, written>>
    PROVE  DeskInv'
  <1> USE DEF DeskInv
  <1>1. /\ requests' \in Seq(Requests) /\ Shrunk(requests', requests)
        /\ Head(requests) = requests[1] /\ Len(requests') <= MaxAsks
        /\ StoreOK' /\ DeskKept' /\ Uncut' /\ RequestsOK' /\ up
        /\ requests[1].type # "submit" \/ requests[1].beat # store.beat => (SubmitOut => SubmitOut')
    BY Served
  <1>2. tells' \in Seq(Tells) /\ Grown(tells', tells, m) /\ Len(tells') <= MaxAsks
    <2>1. Append(tells, m) \in Seq(Tells) /\ Grown(Append(tells, m), tells, m)
      BY GrownSeq DEF Types
    <2> QED
      BY <2>1, Numbers, DeskAssumption DEF Grown
  <1>3. /\ host'.room = host.room /\ host'.game = host.game /\ host'.beat = host.beat
        /\ host.accepted # NoText => host'.accepted # NoText
    BY DEF Same
  <1>4. ~store.recovering /\ 1 \in 1 .. Len(requests)
    BY <1>1, Numbers DEF LineOK
  <1>5. /\ TellsOK' /\ Ordered' /\ Differ' /\ Synced'
        /\ \A p : Reached(p) => Reached(p)'
        /\ ToldAfter(0) \/ m.type = "action_submitted" => ToldAfter(0)'
        /\ ErrorOut \/ m.type = "error" => ErrorOut'
    BY <1>2, NewsOfAnswer
  <1>6. Types' /\ HostOK'
    <2>1. Types'
      BY <1>1, <1>2 DEF Types
    <2>2. HostOK'
      BY <1>1, <1>3 DEF HostOK
    <2> QED
      BY <2>1, <2>2
  <1>7. LineOK'
    <2>1. Len(tells) > 0 => Len(tells') > 0 /\ tells'[1] = tells[1]
      BY <1>2, Numbers DEF Grown
    <2> QED
      BY <1>1, <1>4, <2>1 DEF LineOK
  <1>8. Sent'
    <2>1. ASSUME desk.submitted, requests[1].type = "submit", requests[1].beat = store.beat
          PROVE  ToldAfter(0)' \/ (ErrorOut' /\ (host'.accepted # NoText \/ ~Same(store, host)'))
      <3>1. CASE m.type = "action_submitted"
        BY <1>5, <3>1
      <3>2. CASE m.type = "error"
        <4>1. Writes(store.beat)
          BY <1>4, <2>1 DEF RequestsOK
        <4>2. host.accepted # NoText \/ host.beat # store.beat
          BY <1>1, <2>1, <3>2, <4>1
        <4> QED
          BY <1>3, <1>5, <3>2, <4>2 DEF Same
      <3> QED
        BY <3>1, <3>2
    <2>2. host.accepted # NoText \/ ~Same(store, host) => host'.accepted # NoText \/ ~Same(store, host)'
      BY <1>3 DEF Same
    <2> QED
      BY <1>1, <1>5, <2>1, <2>2 DEF Sent
  <1>9. Wrote'
    <2>1. ASSUME NEW p \in Spots, texts # 0, Latest(p), Reached(p), Reported(p) PROVE Reached(p)' /\ Reported(p)'
      <3>1. There(p) /\ host.accepted = NoText /\ requests[1].type = "submit" /\ requests[1].beat = p.beat
               => host'.accepted # NoText
        BY <1>1, <2>1 DEF Latest, There, Same
      <3>2. There(p) /\ host.accepted = NoText =>
               host'.draft = IF Progress(requests[1], p) THEN requests[1].text ELSE host.draft
        BY <1>1 DEF Progress
      <3>3. host'.accepted = NoText => host.accepted = NoText
        BY <1>3
      <3>4. Reported(p)'
        BY <1>1, <1>3, <2>1, <3>1, <3>2, <3>3, ReportedServed
      <3> QED
        BY <1>5, <2>1, <3>4
    <2> QED
      BY <2>1, WroteKept
  <1> HIDE DEF DeskInv
  <1> QED
    BY <1>1, <1>5, <1>6, <1>7, <1>8, <1>9 DEF DeskInv

\* The answer of the beat is taken
LEMMA Taking ==
    ASSUME DeskInv, Serve, Head(requests).type = "submit", host.seat, host.bound, Writes(host.beat),
           host.accepted = NoText, Head(requests).beat = host.beat
    PROVE  DeskInv'
  <1>0. PICK text, m : /\ text = Head(requests).text
                       /\ m = [type |-> "action_submitted", room |-> host.room, game |-> host.game, beat |-> host.beat,
                               ok |-> TRUE]
    OBVIOUS
  <1>1. /\ requests # <<>> /\ requests' = Tail(requests) /\ Len(tells) < MaxAsks
        /\ UNCHANGED <<up, store, desk, drawer, box, throttle, invite, upLink, cuts, texts, written>>
    BY DEF Serve
  <1>2. Types /\ HostOK /\ RequestsOK
    BY DEF DeskInv
  <1>3. text \in 0 .. MaxTexts /\ text # NoText
    <2>1. Head(requests) = requests[1] /\ requests[1] \in Requests /\ 1 \in 1 .. Len(requests)
      BY <1>1, <1>2, Numbers, ShrunkSeq DEF Types
    <2> QED
      BY <1>0, <1>2, <2>1 DEF Requests, RequestsOK
  <1>4. host' = [host EXCEPT !.accepted = text] /\ host \in Hosts
    BY <1>0, <1>2 DEF Serve, Types
  <1>5. /\ host' \in Hosts /\ Same(host', host) /\ host'.bound /\ host'.seat = host.seat /\ host'.draft = host.draft
        /\ host'.accepted = text /\ host'.beat # 0
    <2>1. host.beat # 0
      BY DEF Writes
    <2>2. /\ host' \in Hosts /\ host'.room = host.room /\ host'.game = host.game /\ host'.beat = host.beat
          /\ host'.bound = host.bound /\ host'.seat = host.seat /\ host'.draft = host.draft /\ host'.accepted = text
      BY ONLY <1>3, <1>4 DEF Hosts
    <2> QED
      BY <2>1, <2>2 DEF Same
  <1>6. tells' = Append(tells, [type |-> "action_submitted", room |-> host'.room, game |-> host'.game,
                                beat |-> host'.beat, ok |-> host'.accepted # NoText])
    BY <1>4, <1>0 DEF Serve, TellServer
  <1>7. tells' = Append(tells, m) /\ m \in Tells /\ m.type = "action_submitted"
    BY <1>0, <1>2, <1>3, <1>5, <1>6 DEF Same, Tells, TellTypes, Types, Hosts
  <1> QED
    BY <1>1, <1>3, <1>5, <1>7, Answering

\* What cannot be is refused
LEMMA Refusing ==
    ASSUME DeskInv, Serve, Head(requests).type \in {"create", "join", "start", "submit"},
           Head(requests).type \in {"create", "join"} => host.bound,
           Head(requests).type = "start" => ~(host.seat /\ host.bound /\ host.beat = 0),
           Head(requests).type = "submit" => ~(host.seat /\ host.bound /\ Writes(host.beat)
                                               /\ host.accepted = NoText /\ Head(requests).beat = host.beat)
    PROVE  DeskInv'
  <1>0. PICK m : m = [type |-> "error", room |-> host.room, game |-> host.game, beat |-> host.beat,
                      ok |-> host.accepted # NoText]
    OBVIOUS
  <1>1. /\ requests # <<>> /\ requests' = Tail(requests) /\ Len(tells) < MaxAsks
        /\ UNCHANGED <<up, store, desk, drawer, box, throttle, invite, upLink, cuts, texts, written>>
    BY DEF Serve
  <1>2. host' = host /\ tells' = Append(tells, m)
    BY <1>0 DEF Serve, TellServer
  <1>3. Types /\ HostOK /\ RequestsOK /\ LineOK
    BY DEF DeskInv
  <1>4. /\ Head(requests) = requests[1] /\ 1 \in 1 .. Len(requests)
    BY <1>1, <1>3, Numbers, ShrunkSeq DEF Types
  <1>5. up /\ ~store.recovering
    BY <1>1, <1>4, <1>3, Numbers DEF LineOK
  <1>6. host.bound /\ host.seat
    <2>1. Head(requests).type \in {"start", "submit"} => store.token
      BY <1>3, <1>4 DEF RequestsOK
    <2> QED
      BY <1>3, <1>5, <2>1, WhoIsBound DEF HostOK
  <1>7. m \in Tells /\ m.type = "error" /\ host' \in Hosts
    BY <1>0, <1>2, <1>3 DEF Types, Hosts, Tells, TellTypes
  <1>8. Same(host', host)
    BY <1>2 DEF Same
  <1> QED
    BY <1>1, <1>2, <1>6, <1>7, <1>8, Answering

\* A draft comes in
LEMMA Drafting ==
    ASSUME DeskInv, Serve, Head(requests).type = "progress"
    PROVE  DeskInv'
  <1> USE DEF DeskInv
  <1>1. /\ requests # <<>> /\ requests' = Tail(requests)
        /\ UNCHANGED <<up, tells, store, desk, drawer, box, throttle, invite, upLink, cuts, texts, written>>
        /\ host' = [host EXCEPT !.draft = IF /\ host.seat /\ host.bound /\ Writes(host.beat) /\ host.accepted = NoText
                                             /\ Head(requests).beat = host.beat
                                          THEN Head(requests).text ELSE @]
    BY DEF Serve
  <1>2. /\ requests' \in Seq(Requests) /\ Shrunk(requests', requests)
        /\ Head(requests) = requests[1] /\ requests[1] \in Requests /\ Len(requests') <= MaxAsks
        /\ StoreOK' /\ DeskKept' /\ Uncut' /\ RequestsOK' /\ up
        /\ SubmitOut => SubmitOut'
    BY <1>1, Served
  <1>3. PICK draft : draft = IF /\ host.seat /\ host.bound /\ Writes(host.beat) /\ host.accepted = NoText
                                /\ requests[1].beat = host.beat
                             THEN requests[1].text ELSE host.draft
    OBVIOUS
  <1>4. draft \in 0 .. MaxTexts /\ host' = [host EXCEPT !.draft = draft] /\ host \in Hosts
    BY <1>1, <1>2, <1>3 DEF Requests, Types, Hosts
  <1>5. /\ host' \in Hosts /\ host'.room = host.room /\ host'.game = host.game /\ host'.beat = host.beat
        /\ host'.seat = host.seat /\ host'.bound = host.bound /\ host'.accepted = host.accepted /\ host'.draft = draft
    BY <1>4 DEF Hosts
  <1>6. ~store.recovering
    BY <1>1, <1>2, Numbers DEF LineOK
  <1>7. /\ Types' /\ HostOK' /\ LineOK' /\ TellsOK' /\ Ordered' /\ Differ' /\ Synced'
    <2>1. Types'
      BY <1>1, <1>2, <1>5 DEF Types
    <2>2. HostOK' /\ LineOK' /\ TellsOK'
      BY <1>1, <1>2, <1>5, <1>6 DEF HostOK, LineOK, TellsOK
    <2>3. Ordered'
      BY <1>1, <1>5 DEF Ordered, NotAfter, Before, Same, Turn, Place, Mention
    <2>4. Differ' /\ Synced'
      BY <1>1, <1>5 DEF Differ, Synced, Same, ToldAfter, Mention, NoMention
    <2> QED
      BY <2>1, <2>2, <2>3, <2>4
  <1>8. Sent'
    BY <1>1, <1>2, <1>5 DEF Sent, ToldAfter, ErrorOut, Same
  <1>9. Wrote'
    <2>1. ASSUME NEW p \in Spots, texts # 0, Latest(p), Reached(p), Reported(p) PROVE Reached(p)' /\ Reported(p)'
      <3>1. Reached(p)'
        BY <1>1, <1>5, <2>1 DEF Reached, NotAfter, Before, Same, Turn, Mention
      <3>2. There(p) /\ host.accepted = NoText =>
               host'.draft = IF Progress(requests[1], p) THEN requests[1].text ELSE host.draft
        <4>1. There(p) => host.bound /\ host.beat = p.beat
          BY CaughtUp DEF There, Same
        <4>2. Writes(p.beat) /\ (host.bound => host.seat)
          BY <2>1 DEF Latest, HostOK
        <4> QED
          BY <1>1, <1>2, <1>3, <1>5, <4>1, <4>2 DEF Progress
      <3>3. Reported(p)'
        BY <1>1, <1>2, <1>5, <2>1, <3>2, ReportedServed
      <3> QED
        BY <3>1, <3>3
    <2> QED
      BY <1>1, <2>1, WroteKept
  <1> HIDE DEF DeskInv
  <1> QED
    BY <1>2, <1>7, <1>8, <1>9 DEF DeskInv

\* The next game of the room
LEMMA Starting ==
    ASSUME DeskInv, Serve, Head(requests).type = "start", host.seat, host.bound, host.beat = 0
    PROVE  DeskInv'
  <1> USE DEF DeskInv
  <1>0. PICK g, m : /\ g = host.game + 1
                    /\ m = [type |-> "phase_change", room |-> host.room, game |-> g, beat |-> 1, ok |-> FALSE]
    OBVIOUS
  <1>1. /\ requests # <<>> /\ requests' = Tail(requests) /\ Len(tells) < MaxAsks /\ host.game < MaxGames
        /\ host' = [host EXCEPT !.game = g, !.beat = 1]
        /\ tells' = Append(tells, [type |-> "phase_change", room |-> host'.room, game |-> host'.game,
                                   beat |-> host'.beat, ok |-> host'.accepted # NoText])
        /\ UNCHANGED <<up, store, desk, drawer, box, throttle, invite, upLink, cuts, texts, written>>
    BY <1>0 DEF Serve, TellServer
  <1>2. /\ requests' \in Seq(Requests) /\ Shrunk(requests', requests)
        /\ Head(requests) = requests[1] /\ Len(requests') <= MaxAsks
        /\ StoreOK' /\ DeskKept' /\ Uncut' /\ RequestsOK' /\ up
        /\ SubmitOut => SubmitOut'
    BY <1>1, Served
  <1>3. g \in 0 .. MaxGames /\ 1 \in 0 .. MaxBeats /\ host \in Hosts /\ host.accepted = NoText /\ host.game \in Nat
    <2>1. host.accepted = NoText /\ host \in Hosts
      BY DEF Types, HostOK
    <2>2. host.game \in Nat /\ host.game < MaxGames /\ MaxGames \in Nat /\ MaxBeats \in Nat \ {0}
      BY <1>1, Numbers, DeskAssumption
    <2> QED
      BY ONLY <1>0, <2>1, <2>2
  <1>4. /\ host' \in Hosts /\ host'.room = host.room /\ host'.game = g /\ host'.beat = 1
        /\ host'.seat /\ host'.bound /\ host'.accepted = NoText
    BY <1>1, <1>3 DEF Hosts
  <1>5. host.room # 0 /\ g # 0 /\ Before(host, host')
    BY <1>0, <1>3, <1>4 DEF HostOK, Before
  <1>6. m \in Tells /\ m.type = "phase_change" /\ ~m.ok /\ Same(m, host') /\ Place(m)
    BY <1>0, <1>3, <1>4, <1>5 DEF Hosts, Tells, TellTypes, Same, Place
  <1>7. tells' \in Seq(Tells) /\ Grown(tells', tells, m) /\ Len(tells') <= MaxAsks
    <2>1. tells' = Append(tells, m)
      BY <1>0, <1>1, <1>4
    <2>2. Append(tells, m) \in Seq(Tells) /\ Grown(Append(tells, m), tells, m)
      BY <1>6, GrownSeq DEF Types
    <2> QED
      BY <1>1, <2>1, <2>2, Numbers, DeskAssumption DEF Grown
  <1>8. /\ TellsOK' /\ Ordered' /\ Differ' /\ Synced'
        /\ \A p \in Spots : Reached(p) => Reached(p)' /\ ~There(p)'
        /\ store.phase # "home" => ~Same(store, host)'
    BY <1>1, <1>4, <1>5, <1>6, <1>7, NewsOfMove
  <1>9. Types' /\ HostOK'
    <2>1. Types'
      BY <1>1, <1>2, <1>4, <1>7 DEF Types
    <2>2. HostOK'
      BY <1>1, <1>2, <1>4, <1>5 DEF HostOK
    <2> QED
      BY <2>1, <2>2
  <1>10. LineOK'
    <2>1. Len(tells) > 0 => Len(tells') > 0 /\ tells'[1] = tells[1]
      BY <1>7, Numbers DEF Grown
    <2>2. ~store.recovering
      BY <1>1, <1>2, Numbers DEF LineOK
    <2> QED
      BY <1>1, <1>2, <1>4, <2>1, <2>2 DEF LineOK
  <1>11. Sent'
    <2>1. ToldAfter(0) => ToldAfter(0)'
      BY <1>7, Numbers DEF ToldAfter, Grown
    <2>2. ErrorOut => ErrorOut'
      BY <1>7, Numbers DEF ErrorOut, Grown
    <2> QED
      BY <1>1, <1>2, <1>8, <2>1, <2>2 DEF Sent
  <1>12. Wrote'
    BY <1>1, <1>8, ElsewhereKept
  <1> HIDE DEF DeskInv
  <1> QED
    BY <1>2, <1>8, <1>9, <1>10, <1>11, <1>12 DEF DeskInv

LEMMA ServeStep == DeskInv /\ Serve => DeskInv'
  <1> SUFFICES ASSUME DeskInv, Serve PROVE DeskInv'
    OBVIOUS
  <1>1. Head(requests).type \in RequestTypes
    <2>1. requests # <<>> /\ Types
      BY DEF Serve, DeskInv
    <2>2. Head(requests) \in Requests
      BY <2>1, ShrunkSeq DEF Types
    <2> QED
      BY <2>2 DEF Requests
  <1>2. CASE Head(requests).type \in {"create", "join"} /\ ~host.bound
    BY <1>2, Entering
  <1>3. CASE Head(requests).type = "start" /\ host.seat /\ host.bound /\ host.beat = 0
    BY <1>3, Starting
  <1>4. CASE /\ Head(requests).type = "submit" /\ host.seat /\ host.bound /\ Writes(host.beat)
             /\ host.accepted = NoText /\ Head(requests).beat = host.beat
    BY <1>4, Taking
  <1>5. CASE Head(requests).type = "progress"
    BY <1>5, Drafting
  <1>6. CASE Head(requests).type = "resume"
    BY <1>6, Resuming
  <1>7. CASE /\ Head(requests).type \in {"create", "join", "start", "submit"}
             /\ Head(requests).type \in {"create", "join"} => host.bound
             /\ Head(requests).type = "start" => ~(host.seat /\ host.bound /\ host.beat = 0)
             /\ Head(requests).type = "submit" => ~(host.seat /\ host.bound /\ Writes(host.beat)
                                                    /\ host.accepted = NoText /\ Head(requests).beat = host.beat)
    BY <1>7, Refusing
  <1> QED
    BY <1>1, <1>2, <1>3, <1>4, <1>5, <1>6, <1>7 DEF RequestTypes

-----------------------------------------------------------------------------
\* The page's side

\* One word of the server's is heard
LEMMA HeardTells ==
    ASSUME Types, tells # <<>>, tells' = Tail(tells), NEW n \in Nat, n = Len(tells')
    PROVE  /\ tells' \in Seq(Tells) /\ Len(tells) = n + 1 /\ n <= MaxAsks /\ tells[1] \in Tells /\ Head(tells) = tells[1]
           /\ \A i \in 1 .. n : tells'[i] = tells[i + 1] /\ i + 1 \in 1 .. n + 1 /\ i + 1 > 1 /\ (i + 1) - 1 = i
           /\ \A i \in 0 .. n : ToldAfter(i)' <=> ToldAfter(i + 1)
           /\ ToldAfter(0) <=> (tells[1].type = "action_submitted" \/ ToldAfter(0)')
           /\ \A a, b \in Nat : a >= 1 /\ b <= n /\ NoMention(a, b)' => NoMention(a + 1, b + 1)
           /\ \A b \in Nat : ~Mention(tells[1]) /\ NoMention(2, b) => NoMention(1, b)
           /\ ErrorOut => tells[1].type = "error" \/ ErrorOut'
           /\ 1 \in 1 .. n + 1
  <1>1. /\ tells' \in Seq(Tells) /\ Shrunk(tells', tells) /\ tells[1] \in Tells /\ Head(tells) = tells[1]
    BY ShrunkSeq DEF Types
  <1>2. Len(tells) = n + 1 /\ n <= MaxAsks
    BY <1>1, DeskAssumption DEF Shrunk, Types
  <1>3. /\ \A i \in 1 .. n : tells'[i] = tells[i + 1] /\ i + 1 \in 1 .. n + 1 /\ i + 1 > 1 /\ (i + 1) - 1 = i
        /\ \A i \in 1 .. n + 1 : i = 1 \/ (i - 1 \in 1 .. n /\ tells'[i - 1] = tells[i])
        /\ 1 \in 1 .. n + 1
    BY <1>1 DEF Shrunk
  <1>4. ASSUME NEW i \in 0 .. n PROVE ToldAfter(i)' <=> ToldAfter(i + 1)
    <2>1. ASSUME ToldAfter(i)' PROVE ToldAfter(i + 1)
      <3>1. PICK j \in 1 .. n : j > i /\ tells'[j].type = "action_submitted"
        BY <2>1 DEF ToldAfter
      <3>2. j + 1 \in 1 .. n + 1 /\ j + 1 > i + 1 /\ tells[j + 1].type = "action_submitted"
        BY <1>3, <3>1
      <3> QED
        BY <1>2, <3>2 DEF ToldAfter
    <2>2. ASSUME ToldAfter(i + 1) PROVE ToldAfter(i)'
      <3>1. PICK j \in 1 .. n + 1 : j > i + 1 /\ tells[j].type = "action_submitted"
        BY <1>2, <2>2 DEF ToldAfter
      <3>2. j - 1 \in 1 .. n /\ j - 1 > i /\ tells'[j - 1].type = "action_submitted"
        BY <1>3, <3>1
      <3> QED
        BY <3>2 DEF ToldAfter
    <2> QED
      BY <2>1, <2>2
  <1>5. ToldAfter(0) <=> (tells[1].type = "action_submitted" \/ ToldAfter(1))
    <2>1. \A j \in 1 .. n + 1 : j > 0 <=> j = 1 \/ j > 1
      OBVIOUS
    <2> QED
      BY <1>2, <1>3, <2>1 DEF ToldAfter
  <1>6. ToldAfter(0)' <=> ToldAfter(1)
    <2>1. 0 \in 0 .. n /\ 0 + 1 = 1
      OBVIOUS
    <2> QED
      BY <1>4, <2>1
  <1>7. ASSUME NEW a \in Nat, NEW b \in Nat, a >= 1, b <= n, NoMention(a, b)' PROVE NoMention(a + 1, b + 1)
    <2> SUFFICES ASSUME NEW k \in a + 1 .. b + 1 PROVE ~Mention(tells[k])
      BY DEF NoMention
    <2>1. k - 1 \in a .. b /\ tells'[k - 1] = tells[k]
      BY <1>3, <1>7
    <2> QED
      BY <1>7, <2>1 DEF NoMention, Mention
  <1>8. ASSUME NEW b \in Nat, ~Mention(tells[1]), NoMention(2, b) PROVE NoMention(1, b)
    <2>1. \A k \in 1 .. b : k = 1 \/ k \in 2 .. b
      OBVIOUS
    <2> QED
      BY <1>8, <2>1 DEF NoMention
  <1>9. ASSUME ErrorOut PROVE tells[1].type = "error" \/ ErrorOut'
    BY <1>2, <1>3, <1>9 DEF ErrorOut
  <1> QED
    BY <1>1, <1>2, <1>3, <1>4, <1>5, <1>6, <1>7, <1>8, <1>9

\* The order of what is still on its way, behind a word that was heard
LEMMA Behind ==
    ASSUME DeskInv, tells # <<>>, tells' = Tail(tells), UNCHANGED <<up, host>>, NEW n \in Nat, n = Len(tells')
    PROVE  /\ TellsOK'
           /\ \A i \in 1 .. n : Mention(tells'[i]) =>
                 Place(tells'[i]) /\ host'.bound /\ NotAfter(tells'[i], host) /\ ~tells'[i].type = "full_sync"
           /\ \A i, j \in 1 .. n : i < j /\ Mention(tells'[i]) /\ Mention(tells'[j]) => Before(tells'[i], tells'[j])
           /\ \A i, j \in 1 .. n : i < j /\ Mention(tells'[i]) /\ Mention(tells'[j]) /\ NoMention(i + 1, j - 1)'
                 => tells'[i].beat # tells'[j].beat
           /\ \A i \in 1 .. n : Mention(tells'[i]) /\ NoMention(i + 1, n)' =>
                 Same(tells'[i], host) /\ (host.accepted # NoText <=> (tells'[i].ok \/ ToldAfter(i)'))
           /\ \A p : Reached(p) => \A i \in 1 .. n : Mention(tells'[i]) => NotAfter(p, tells'[i])
  <1> USE DEF DeskInv
  <1>1. /\ Len(tells) = n + 1
        /\ \A i \in 1 .. n : tells'[i] = tells[i + 1] /\ i + 1 \in 1 .. n + 1 /\ i + 1 > 1 /\ (i + 1) - 1 = i
        /\ \A i \in 0 .. n : ToldAfter(i)' <=> ToldAfter(i + 1)
        /\ \A a, b \in Nat : a >= 1 /\ b <= n /\ NoMention(a, b)' => NoMention(a + 1, b + 1)
    BY HeardTells
  <1>2. \A i \in 1 .. n : /\ tells'[i].type \notin {"full_sync", "resume_expired", "room_created"}
                          /\ tells'[i].type = "phase_change" => ~tells'[i].ok
    BY <1>1 DEF TellsOK
  <1>3. TellsOK'
    BY <1>2 DEF TellsOK
  <1>4. \A i \in 1 .. n : Mention(tells'[i]) => Place(tells'[i]) /\ host.bound /\ NotAfter(tells'[i], host)
    BY <1>1 DEF Ordered
  <1>5. \A i, j \in 1 .. n : i < j => i + 1 < j + 1
    OBVIOUS
  <1>6. \A i, j \in 1 .. n : i < j /\ Mention(tells'[i]) /\ Mention(tells'[j]) => Before(tells'[i], tells'[j])
    BY <1>1, <1>5 DEF Ordered
  <1>7. ASSUME NEW i \in 1 .. n, NEW j \in 1 .. n, i < j, Mention(tells'[i]), Mention(tells'[j]), NoMention(i + 1, j - 1)'
        PROVE  tells'[i].beat # tells'[j].beat
    <2>1. i + 1 \in Nat /\ j - 1 \in Nat /\ i + 1 >= 1 /\ j - 1 <= n /\ (j - 1) + 1 = (j + 1) - 1
      BY <1>7
    <2>2. NoMention((i + 1) + 1, (j + 1) - 1)
      BY <1>1, <1>7, <2>1
    <2> QED
      BY <1>1, <1>5, <1>7, <2>2 DEF Differ
  <1>8. ASSUME NEW i \in 1 .. n, Mention(tells'[i]), NoMention(i + 1, n)'
        PROVE  Same(tells'[i], host) /\ (host.accepted # NoText <=> (tells'[i].ok \/ ToldAfter(i)'))
    <2>1. i + 1 \in Nat /\ i + 1 >= 1 /\ n <= n /\ i \in 0 .. n
      OBVIOUS
    <2>2. NoMention((i + 1) + 1, n + 1)
      BY <1>1, <1>8, <2>1
    <2> QED
      BY <1>1, <1>8, <2>1, <2>2 DEF Synced
  <1>9. \A p : Reached(p) => \A i \in 1 .. n : Mention(tells'[i]) => NotAfter(p, tells'[i])
    BY <1>1 DEF Reached
  <1> QED
    BY <1>2, <1>3, <1>4, <1>6, <1>7, <1>8, <1>9

\* What a word of the server's makes of the store
Placed(m, err) ==
    [store EXCEPT !.phase = IF m.beat = 0 THEN "room" ELSE "play", !.room = m.room, !.game = m.game, !.beat = m.beat,
                  !.submitted = m.ok, !.token = TRUE, !.recovering = FALSE, !.error = err]

\* The store hears where the game is
LEMMA NewsStep ==
    ASSUME DeskInv, Listen, Mention(Head(tells))
    PROVE  DeskInv'
  <1> USE DEF DeskInv
  <1>p. PICK m : m = Head(tells)
    OBVIOUS
  <1>0. PICK new : /\ new = Placed(m, FALSE) \/ new = Placed(m, store.error)
                   /\ Become(new, TRUE) \/ Become(new, m.beat = 0)
    <2>1. PICK there :
             there = [store EXCEPT !.phase = IF m.beat = 0 THEN "room" ELSE "play", !.room = m.room, !.game = m.game,
                                   !.beat = m.beat, !.submitted = m.ok, !.token = TRUE, !.recovering = FALSE]
      OBVIOUS
    <2>2. CASE m.type = "full_sync"
      <3>1. PICK new : new = [there EXCEPT !.error = FALSE]
        OBVIOUS
      <3>2. Become(new, TRUE)
        BY <1>p, <2>1, <2>2, <3>1 DEF Listen
      <3>3. new = Placed(m, FALSE)
        BY <2>1, <3>1 DEF Placed
      <3> QED
        BY <3>2, <3>3
    <2>3. CASE m.type # "full_sync"
      <3>1. Become(there, TRUE) \/ Become(there, m.beat = 0)
        BY <1>p, <2>1, <2>3 DEF Listen, Mention
      <3>2. there = Placed(m, store.error)
        BY <2>1 DEF Types, Stores, Placed
      <3> QED
        BY <3>1, <3>2
    <2> QED
      BY <2>2, <2>3
  <1>1. /\ tells # <<>> /\ tells' = Tail(tells)
        /\ UNCHANGED <<up, requests, host, box, throttle, cuts, texts, written>>
    BY DEF Listen
  <1>l. PICK n \in Nat : n = Len(tells')
    <2>1. tells' \in Seq(Tells)
      BY <1>1, ShrunkSeq DEF Types
    <2> QED
      BY <2>1
  <1>2. /\ tells' \in Seq(Tells) /\ Len(tells) = n + 1 /\ n <= MaxAsks /\ m \in Tells /\ m = tells[1] /\ Mention(m)
        /\ \A i \in 1 .. n : tells'[i] = tells[i + 1] /\ i + 1 \in 1 .. n + 1 /\ i + 1 > 1 /\ (i + 1) - 1 = i
        /\ \A i \in 0 .. n : ToldAfter(i)' <=> ToldAfter(i + 1)
        /\ \A a, b \in Nat : a >= 1 /\ b <= n /\ NoMention(a, b)' => NoMention(a + 1, b + 1)
        /\ 1 \in 1 .. n + 1
    <2>1. Types /\ tells # <<>> /\ tells' = Tail(tells) /\ n \in Nat /\ n = Len(tells')
      BY <1>1, <1>l
    <2> HIDE DEF DeskInv
    <2>2. /\ tells' \in Seq(Tells) /\ Len(tells) = n + 1 /\ n <= MaxAsks /\ tells[1] \in Tells /\ Head(tells) = tells[1]
          /\ \A i \in 1 .. n : tells'[i] = tells[i + 1] /\ i + 1 \in 1 .. n + 1 /\ i + 1 > 1 /\ (i + 1) - 1 = i
          /\ \A i \in 0 .. n : ToldAfter(i)' <=> ToldAfter(i + 1)
          /\ \A a, b \in Nat : a >= 1 /\ b <= n /\ NoMention(a, b)' => NoMention(a + 1, b + 1)
          /\ 1 \in 1 .. n + 1
      BY ONLY <2>1, HeardTells
    <2>3. m = tells[1] /\ Mention(m)
      BY <1>p, <2>2
    <2> QED
      BY ONLY <2>2, <2>3
  <1>3. /\ new \in Stores /\ new.phase = (IF m.beat = 0 THEN "room" ELSE "play") /\ new.room = m.room /\ new.game = m.game
        /\ new.beat = m.beat /\ new.submitted = m.ok /\ new.token = TRUE /\ new.recovering = FALSE
        /\ new.connected = store.connected /\ new.phase # "home" /\ (new.error => store.error)
    <2>1. PICK err : new = Placed(m, err) /\ (err = FALSE \/ err = store.error) /\ err \in BOOLEAN
      BY <1>0 DEF Types, Stores
    <2>2. PICK phase : phase = IF m.beat = 0 THEN "room" ELSE "play"
      OBVIOUS
    <2>3. phase \in Phases /\ phase # "home"
      BY <2>2 DEF Phases
    <2>4. /\ m.room \in 0 .. MaxRooms /\ m.game \in 0 .. MaxGames /\ m.beat \in 0 .. MaxBeats /\ m.ok \in BOOLEAN
          /\ store \in Stores /\ (err => store.error)
      BY <1>2, <2>1 DEF Types, Tells
    <2>5. new = [store EXCEPT !.phase = phase, !.room = m.room, !.game = m.game, !.beat = m.beat,
                              !.submitted = m.ok, !.token = TRUE, !.recovering = FALSE, !.error = err]
      BY <2>1, <2>2 DEF Placed
    <2>6. /\ new \in Stores /\ new.phase = phase /\ new.room = m.room /\ new.game = m.game
          /\ new.beat = m.beat /\ new.submitted = m.ok /\ new.token = TRUE /\ new.recovering = FALSE
          /\ new.connected = store.connected /\ new.error = err
      BY ONLY <2>1, <2>3, <2>4, <2>5 DEF Stores
    <2> QED
      BY ONLY <2>2, <2>3, <2>4, <2>6
  <1>4. /\ store' = new /\ drawer' = drawer /\ desk' \in Desks /\ desk'.submitted = SubmittedAfter(new)
        /\ desk'.draft = ReadDraft(Identity(new)) /\ invite' = FALSE /\ upLink' \in BOOLEAN
    <2>1. /\ store' = new /\ drawer' = drawer /\ desk' \in Desks /\ desk'.submitted = SubmittedAfter(new)
          /\ desk'.draft = ReadDraft(Identity(new)) /\ invite' = (invite /\ new.phase = "home") /\ upLink' \in BOOLEAN
      <3>1. CASE Become(new, TRUE)
        BY <1>3, <3>1, Becomes
      <3>2. CASE Become(new, m.beat = 0)
        <4>1. (m.beat = 0) \in BOOLEAN
          OBVIOUS
        <4> QED
          BY <1>3, <3>2, <4>1, Becomes
      <3> QED
        BY <1>0, <3>1, <3>2
    <2> QED
      BY <1>3, <2>1
  <1>5. up /\ host.bound /\ Place(m) /\ NotAfter(m, host) /\ m.room <= host.room
    <2>1. up /\ host.bound /\ Place(m) /\ NotAfter(m, host)
      BY <1>2, <1>1 DEF Ordered, LineOK
    <2>2. m.room <= host.room
      BY <2>1, <1>2, Numbers DEF NotAfter, Before, Same
    <2> QED
      BY <2>1, <2>2
  <1>6. /\ TellsOK'
        /\ \A i \in 1 .. n : Mention(tells'[i]) =>
              Place(tells'[i]) /\ host'.bound /\ NotAfter(tells'[i], host) /\ ~tells'[i].type = "full_sync"
        /\ \A i, j \in 1 .. n : i < j /\ Mention(tells'[i]) /\ Mention(tells'[j]) => Before(tells'[i], tells'[j])
        /\ \A i, j \in 1 .. n : i < j /\ Mention(tells'[i]) /\ Mention(tells'[j]) /\ NoMention(i + 1, j - 1)'
              => tells'[i].beat # tells'[j].beat
        /\ \A i \in 1 .. n : Mention(tells'[i]) /\ NoMention(i + 1, n)' =>
              Same(tells'[i], host) /\ (host.accepted # NoText <=> (tells'[i].ok \/ ToldAfter(i)'))
        /\ \A p : Reached(p) => \A i \in 1 .. n : Mention(tells'[i]) => NotAfter(p, tells'[i])
    BY <1>1, <1>l, Behind
  <1>7. Types'
    BY <1>1, <1>2, <1>3, <1>4, <1>l DEF Types
  <1>8. HostOK' /\ StoreOK'
    <2>1. HostOK'
      BY <1>1 DEF HostOK
    <2>2. StoreOK'
      BY <1>1, <1>3, <1>4, <1>5 DEF StoreOK, Place
    <2> QED
      BY <2>1, <2>2
  <1>9. LineOK' /\ RequestsOK'
    <2>1. LineOK'
      BY <1>1, <1>3, <1>4, <1>5 DEF LineOK
    <2>2. store.recovering => requests = <<>>
      BY <1>1, <1>5 DEF LineOK
    <2>3. \A i \in 1 .. Len(requests) : requests[i].type # "resume" /\ requests[i].type # "join"
      BY <1>5, <2>2, Numbers DEF RequestsOK
    <2>4. RequestsOK'
      BY <1>1, <1>3, <1>4, <2>3 DEF RequestsOK
    <2> QED
      BY <2>1, <2>4
  <1>10. Ordered'
    <2>1. \A i \in 1 .. n : Mention(tells'[i]) => Before(new, tells'[i])
      <3> SUFFICES ASSUME NEW i \in 1 .. n, Mention(tells'[i]) PROVE Before(new, tells'[i])
        OBVIOUS
      <3>1. Before(m, tells'[i])
        BY <1>2 DEF Ordered
      <3> QED
        BY <1>3, <3>1 DEF Before, Turn
    <2>2. NotAfter(new, host) /\ new.room <= host.room
      BY <1>3, <1>5 DEF NotAfter, Before, Same, Turn
    <2> QED
      BY <1>1, <1>l, <1>4, <1>6, <2>1, <2>2 DEF Ordered, NotAfter, Before, Same, Turn, Place, Mention
  <1>11. Differ'
    <2>1. ASSUME NEW i \in 1 .. n, Mention(tells'[i]), NoMention(1, i - 1)' PROVE new.beat # tells'[i].beat
      <3>1. i - 1 \in Nat /\ i - 1 <= n /\ 1 \in Nat /\ 1 >= 1 /\ (i - 1) + 1 = (i + 1) - 1 /\ 1 + 1 = 2
        OBVIOUS
      <3>2. NoMention(1 + 1, (i + 1) - 1)
        BY <1>2, <2>1, <3>1
      <3> QED
        BY <1>2, <1>3, <2>1, <3>2 DEF Differ
    <2> QED
      BY <1>l, <1>4, <1>6, <2>1 DEF Differ, Mention
  <1>12. Synced'
    <2>1. ASSUME NoMention(1, n)' PROVE Same(m, host) /\ (host.accepted # NoText <=> (m.ok \/ ToldAfter(0)'))
      <3>1. 1 \in Nat /\ 1 >= 1 /\ n <= n /\ 0 \in 0 .. n /\ 0 + 1 = 1
        OBVIOUS
      <3>2. NoMention(1 + 1, n + 1) /\ (ToldAfter(0)' <=> ToldAfter(1))
        BY <1>2, <2>1, <3>1
      <3> QED
        BY <1>2, <3>2 DEF Synced
    <2>2. ASSUME NoMention(1, n)'
          PROVE  Same(new, host) /\ host.bound /\ (host.accepted # NoText <=> (new.submitted \/ ToldAfter(0)'))
      BY <1>3, <1>5, <2>1, <2>2 DEF Same
    <2> QED
      BY <1>1, <1>l, <1>4, <1>6, <2>2 DEF Synced, Same, Mention
  <1>13. Sent'
    <2>1. ASSUME ~store.recovering PROVE Identity(store) # Identity(new)
      <3>1. CASE store.phase = "home"
        BY <1>3, <3>1 DEF Identity
      <3>2. CASE store.phase # "home"
        <4>1. NoMention(1, 1 - 1)
          BY DEF NoMention
        <4>2. store.beat # m.beat
          BY <1>2, <2>1, <3>2, <4>1 DEF Differ
        <4> QED
          BY <1>3, <4>2 DEF Identity
      <3> QED
        BY <3>1, <3>2
    <2>2. SubmittedAfter(new) => new.submitted
      BY <1>3, <2>1 DEF SubmittedAfter
    <2> QED
      BY <1>3, <1>4, <2>2 DEF Sent
  <1>14. DeskKept' /\ Uncut'
    BY <1>1, <1>3, <1>4 DEF DeskKept, Uncut, ReadDraft
  <1>15. Wrote'
    <2>1. ASSUME NEW p \in Spots, Reached(p) PROVE Reached(p)' /\ ~There(p)'
      <3>1. NotAfter(p, m)
        BY <1>2, <2>1 DEF Reached
      <3>2. Reached(p)'
        BY <1>1, <1>l, <1>3, <1>4, <1>6, <2>1, <3>1 DEF Reached, NotAfter, Before, Same, Turn, Mention
      <3>3. ~There(p)'
        <4>1. SUFFICES ASSUME ~written.cut, Same(m, p) PROVE FALSE
          BY <1>1, <1>3, <1>4 DEF There, Same
        <4>2. ~store.recovering
          BY <4>1 DEF Uncut
        <4>3. p.beat # 0 /\ p.room \in Nat /\ p.game \in Nat /\ p.beat \in Nat
          BY Numbers DEF Spots
        <4>4. CASE store.phase = "home"
          <5>1. ~store.token /\ m.type = "room_created"
            BY <1>2, <1>5, <4>2, <4>4 DEF StoreOK, LineOK
          <5>2. m.beat = 0
            BY <1>2, <5>1 DEF TellsOK
          <5> QED
            BY <4>1, <4>3, <5>2 DEF Same
        <4>5. CASE store.phase # "home"
          <5>1. Before(store, m) /\ NotAfter(p, store)
            BY <1>2, <2>1, <4>2, <4>5 DEF Ordered, TellsOK, Reached
          <5>2. Before(p, m) /\ ~Same(p, m)
            BY <1>2, <4>3, <5>1, Order, Numbers
          <5> QED
            BY <4>1, <5>2 DEF Same
        <4> QED
          BY <4>4, <4>5
      <3> QED
        BY <3>2, <3>3
    <2> QED
      BY <1>1, <1>4, <2>1, ElsewhereKept
  <1> HIDE DEF DeskInv
  <1> QED
    BY <1>6, <1>7, <1>8, <1>9, <1>10, <1>11, <1>12, <1>13, <1>14, <1>15 DEF DeskInv

\* The store hears that its answer was taken, or of an error
LEMMA WordStep ==
    ASSUME DeskInv, Listen, Head(tells).type \in {"action_submitted", "error"}
    PROVE  DeskInv'
  <1> USE DEF DeskInv
  <1>0. PICK m, new :
           /\ m = Head(tells)
           /\ new = (IF m.type = "error" THEN [store EXCEPT !.error = TRUE] ELSE [store EXCEPT !.submitted = TRUE])
           /\ Become(new, FALSE)
    BY DEF Listen
  <1>1. /\ tells # <<>> /\ tells' = Tail(tells)
        /\ UNCHANGED <<up, requests, host, box, throttle, cuts, texts, written>>
    BY DEF Listen
  <1>l. PICK n \in Nat : n = Len(tells')
    <2>1. tells' \in Seq(Tells)
      BY <1>1, ShrunkSeq DEF Types
    <2> QED
      BY <2>1
  <1>2. /\ tells' \in Seq(Tells) /\ Len(tells) = n + 1 /\ n <= MaxAsks /\ m \in Tells /\ m = tells[1] /\ ~Mention(m)
        /\ \A i \in 1 .. n : tells'[i] = tells[i + 1] /\ i + 1 \in 1 .. n + 1 /\ i + 1 > 1 /\ (i + 1) - 1 = i
        /\ ToldAfter(0) <=> (m.type = "action_submitted" \/ ToldAfter(0)')
        /\ \A a, b \in Nat : a >= 1 /\ b <= n /\ NoMention(a, b)' => NoMention(a + 1, b + 1)
        /\ \A b \in Nat : ~Mention(m) /\ NoMention(2, b) => NoMention(1, b)
    BY <1>0, <1>1, <1>l, HeardTells DEF Mention
  <1>3. /\ new \in Stores /\ new.phase = store.phase /\ new.room = store.room /\ new.game = store.game
        /\ new.beat = store.beat /\ new.token = store.token /\ new.recovering = store.recovering
        /\ new.connected = store.connected
        /\ new.submitted = (store.submitted \/ m.type = "action_submitted") /\ new.error = (store.error \/ m.type = "error")
    BY <1>0 DEF Types, Stores
  <1>4. /\ store' = new /\ drawer' = drawer /\ desk' \in Desks /\ desk'.submitted = SubmittedAfter(new)
        /\ desk'.draft = ReadDraft(Identity(new)) /\ invite' = (invite /\ new.phase = "home") /\ upLink' \in BOOLEAN
    BY <1>0, <1>3, Becomes
  <1>5. up /\ ~store.recovering /\ store.token /\ store.phase # "home"
    BY <1>0, <1>1, <1>2 DEF LineOK, StoreOK
  <1>6. /\ TellsOK'
        /\ \A i \in 1 .. n : Mention(tells'[i]) =>
              Place(tells'[i]) /\ host'.bound /\ NotAfter(tells'[i], host) /\ ~tells'[i].type = "full_sync"
        /\ \A i, j \in 1 .. n : i < j /\ Mention(tells'[i]) /\ Mention(tells'[j]) => Before(tells'[i], tells'[j])
        /\ \A i, j \in 1 .. n : i < j /\ Mention(tells'[i]) /\ Mention(tells'[j]) /\ NoMention(i + 1, j - 1)'
              => tells'[i].beat # tells'[j].beat
        /\ \A i \in 1 .. n : Mention(tells'[i]) /\ NoMention(i + 1, n)' =>
              Same(tells'[i], host) /\ (host.accepted # NoText <=> (tells'[i].ok \/ ToldAfter(i)'))
        /\ \A p : Reached(p) => \A i \in 1 .. n : Mention(tells'[i]) => NotAfter(p, tells'[i])
    BY <1>1, <1>l, Behind
  <1>7. Types'
    BY <1>1, <1>2, <1>3, <1>4, <1>l DEF Types
  <1>8. HostOK' /\ StoreOK'
    <2>1. HostOK'
      BY <1>1 DEF HostOK
    <2>2. StoreOK'
      BY <1>1, <1>3, <1>4, <1>5 DEF StoreOK, Place
    <2> QED
      BY <2>1, <2>2
  <1>9. LineOK' /\ RequestsOK'
    BY <1>1, <1>3, <1>4, <1>5 DEF LineOK, RequestsOK
  <1>10. Ordered'
    <2>1. \A i \in 1 .. n : Mention(tells'[i]) => Before(new, tells'[i])
      <3> SUFFICES ASSUME NEW i \in 1 .. n, Mention(tells'[i]) PROVE Before(new, tells'[i])
        OBVIOUS
      <3>1. Before(store, tells'[i])
        BY <1>2, <1>5, <1>6 DEF Ordered
      <3> QED
        BY <1>3, <3>1 DEF Before, Turn
    <2>2. (host.seat => NotAfter(new, host)) /\ new.room <= host.room
      BY <1>3, <1>5 DEF Ordered, NotAfter, Before, Same, Turn
    <2> QED
      BY <1>1, <1>l, <1>4, <1>6, <2>1, <2>2 DEF Ordered, NotAfter, Before, Same, Turn, Place, Mention
  <1>n. \A b \in Nat : b <= n /\ NoMention(1, b)' => NoMention(1, b + 1)
    <2>1. 1 \in Nat /\ 1 >= 1 /\ 1 + 1 = 2 /\ \A b \in Nat : b + 1 \in Nat
      OBVIOUS
    <2> QED
      BY <1>2, <2>1
  <1>11. Differ'
    <2>1. ASSUME NEW i \in 1 .. n, Mention(tells'[i]), NoMention(1, i - 1)' PROVE new.beat # tells'[i].beat
      <3>1. i - 1 \in Nat /\ i - 1 <= n /\ (i - 1) + 1 = (i + 1) - 1
        OBVIOUS
      <3>2. NoMention(1, (i + 1) - 1)
        BY <1>n, <2>1, <3>1
      <3> QED
        BY <1>2, <1>3, <1>5, <2>1, <3>2 DEF Differ
    <2> QED
      BY <1>l, <1>4, <1>6, <2>1 DEF Differ, Mention
  <1>12. Synced'
    <2>1. ASSUME NoMention(1, n)'
          PROVE  Same(new, host) /\ host.bound /\ (host.accepted # NoText <=> (new.submitted \/ ToldAfter(0)'))
      <3>1. NoMention(1, n + 1)
        BY <1>n, <2>1
      <3>2. Same(store, host) /\ host.bound /\ (host.accepted # NoText <=> (store.submitted \/ ToldAfter(0)))
        BY <1>2, <1>5, <3>1 DEF Synced
      <3>3. Same(new, host)
        BY <1>3, <3>2 DEF Same
      <3> QED
        BY <1>2, <1>3, <3>2, <3>3
    <2> QED
      BY <1>1, <1>l, <1>4, <1>6, <2>1 DEF Synced, Same, Mention
  <1>13. Sent'
    <2>1. SubmittedAfter(new) => new.submitted
      BY <1>3, <1>5, <1>0 DEF SubmittedAfter, Sent, Identity
    <2> QED
      BY <1>3, <1>4, <1>5, <2>1 DEF Sent
  <1>14. DeskKept' /\ Uncut'
    BY <1>1, <1>3, <1>4 DEF DeskKept, Uncut, ReadDraft
  <1>15. Wrote'
    <2>1. ASSUME NEW p \in Spots, texts # 0, Latest(p), Reached(p), Reported(p) PROVE Reached(p)' /\ Reported(p)'
      <3>2. Reached(p)'
        BY <1>1, <1>l, <1>3, <1>4, <1>6, <2>1 DEF Reached, NotAfter, Before, Same, Turn, Mention
      <3>3. There(p)' => There(p)
        BY <1>1, <1>3, <1>4 DEF There, Same
      <3>4. (NoSubmit(p)' <=> NoSubmit(p)) /\ (OnItsWay(p)' <=> OnItsWay(p)) /\ (Known(p)' <=> Known(p))
        BY <1>1 DEF NoSubmit, OnItsWay, Known, Progress
      <3>5. Reported(p)'
        BY <1>1, <2>1, <3>3, <3>4 DEF Reported
      <3> QED
        BY <3>2, <3>5
    <2> QED
      BY <1>1, <1>4, <2>1, WroteKept
  <1> HIDE DEF DeskInv
  <1> QED
    BY <1>6, <1>7, <1>8, <1>9, <1>10, <1>11, <1>12, <1>13, <1>14, <1>15 DEF DeskInv

\* The store hears that its seat is gone
LEMMA ExpiredStep ==
    ASSUME DeskInv, Listen, Head(tells).type = "resume_expired"
    PROVE  DeskInv'
  <1> USE DEF DeskInv
  <1>0. PICK new : new = [EmptyStore EXCEPT !.connected = TRUE, !.error = TRUE]
    OBVIOUS
  <1>1. /\ tells # <<>> /\ tells' = Tail(tells) /\ Become(new, TRUE)
        /\ UNCHANGED <<up, requests, host, box, throttle, cuts, texts, written>>
    BY <1>0 DEF Listen
  <1>2. /\ tells' \in Seq(Tells) /\ Len(tells) = Len(tells') + 1 /\ Head(tells) = tells[1] /\ Len(tells') \in Nat
        /\ 1 \in 1 .. Len(tells)
    BY <1>1, ShrunkSeq DEF Types, Shrunk
  <1>3. up /\ store.recovering /\ requests = <<>> /\ Len(tells) = 1 /\ ~host.seat /\ ~host.bound
    BY <1>1, <1>2 DEF LineOK, TellsOK, HostOK
  <1>4. Len(tells') = 0 /\ tells' = <<>> /\ Len(requests) = 0
    BY <1>2, <1>3, EmptyLen DEF Types
  <1>e. \A i : i \notin 1 .. Len(tells') /\ i \notin 1 .. Len(requests)
    BY <1>4
  <1>5. /\ new \in Stores /\ new.phase = "home" /\ new.room = 0 /\ new.game = 0 /\ new.beat = 0 /\ new.connected = TRUE
        /\ new.recovering = FALSE /\ new.submitted = FALSE /\ new.error = TRUE /\ new.token = FALSE
    <2>1. new = [phase |-> "home", room |-> 0, game |-> 0, beat |-> 0, connected |-> TRUE, recovering |-> FALSE,
                 submitted |-> FALSE, error |-> TRUE, token |-> FALSE]
      BY <1>0 DEF EmptyStore
    <2>2. 0 \in 0 .. MaxRooms /\ 0 \in 0 .. MaxGames /\ 0 \in 0 .. MaxBeats
      BY DeskAssumption
    <2> QED
      BY ONLY <2>1, <2>2 DEF Stores, Phases
  <1>6. /\ store' = new /\ drawer' = drawer /\ desk' \in Desks /\ desk'.submitted = SubmittedAfter(new)
        /\ desk'.draft = ReadDraft(Identity(new)) /\ invite' = (invite /\ new.phase = "home") /\ upLink' \in BOOLEAN
    BY <1>1, <1>5, Becomes
  <1>7. Types' /\ HostOK' /\ StoreOK'
    <2>1. Types'
      BY <1>1, <1>2, <1>4, <1>5, <1>6, DeskAssumption DEF Types
    <2>2. HostOK'
      BY <1>1 DEF HostOK
    <2>3. StoreOK'
      BY <1>1, <1>3, <1>5, <1>6 DEF StoreOK
    <2> QED
      BY <2>1, <2>2, <2>3
  <1>8. LineOK' /\ RequestsOK' /\ TellsOK'
    <2>1. LineOK'
      BY <1>1, <1>3, <1>4, <1>5, <1>6 DEF LineOK
    <2>2. RequestsOK'
      BY <1>1, <1>3, <1>e, <1>5, <1>6 DEF RequestsOK
    <2>3. TellsOK'
      BY <1>e DEF TellsOK
    <2> QED
      BY <2>1, <2>2, <2>3
  <1>9. Ordered' /\ Differ' /\ Synced'
    <2>1. store'.room <= host'.room
      BY <1>1, <1>5, <1>6, Numbers
    <2>2. Ordered' /\ Differ'
      BY <1>5, <1>6, <1>e, <2>1 DEF Ordered, Differ
    <2>3. Synced'
      BY <1>5, <1>6, <1>e DEF Synced
    <2> QED
      BY <2>2, <2>3
  <1>10. Sent' /\ DeskKept' /\ Uncut'
    <2>1. ~SubmittedAfter(new)
      BY <1>3, <1>5 DEF SubmittedAfter
    <2> QED
      BY <1>1, <1>3, <1>5, <1>6, <2>1 DEF Sent, DeskKept, Uncut, ReadDraft
  <1>11. Wrote'
    <2>1. store'.phase = "home" /\ host' = host
      BY <1>1, <1>5, <1>6
    <2>2. ASSUME NEW p \in Spots, Reached(p) PROVE Reached(p)' /\ ~There(p)'
      <3>1. ~There(p)'
        BY <2>1 DEF There
      <3>2. \A i \in 1 .. Len(tells') : Mention(tells'[i]) => NotAfter(p, tells'[i])
        BY <1>e
      <3>3. p.room <= host.room /\ (host.seat => NotAfter(p, host))
        BY <2>2 DEF Reached
      <3> HIDE DEF DeskInv
      <3>4. Reached(p)'
        BY <2>1, <3>2, <3>3 DEF Reached
      <3> QED
        BY <3>1, <3>4
    <2> QED
      BY <1>1, <1>6, <2>2, ElsewhereKept
  <1> HIDE DEF DeskInv
  <1> QED
    BY <1>7, <1>8, <1>9, <1>10, <1>11 DEF DeskInv

LEMMA ListenStep == DeskInv /\ Listen => DeskInv'
  <1> SUFFICES ASSUME DeskInv, Listen PROVE DeskInv'
    OBVIOUS
  <1>1. Head(tells).type \in TellTypes
    <2>1. tells # <<>> /\ Types
      BY DEF Listen, DeskInv
    <2>2. Head(tells) \in Tells
      BY <2>1, ShrunkSeq DEF Types
    <2> QED
      BY <2>2 DEF Tells
  <1>2. CASE Mention(Head(tells))
    BY <1>2, NewsStep
  <1>3. CASE Head(tells).type \in {"action_submitted", "error"}
    BY <1>3, WordStep
  <1>4. CASE Head(tells).type = "resume_expired"
    BY <1>4, ExpiredStep
  <1> QED
    BY <1>1, <1>2, <1>3, <1>4 DEF TellTypes, Mention

-----------------------------------------------------------------------------
LEMMA DeskStep == DeskInv /\ [DeskNext]_deskVars => DeskInv'
  <1> SUFFICES ASSUME DeskInv, [DeskNext]_deskVars PROVE DeskInv'
    OBVIOUS
  <1>1. CASE UNCHANGED deskVars
    <2>1. UNCHANGED <<up, requests, tells, host, store, desk, drawer, box, throttle, invite, upLink, cuts, texts, written>>
      BY <1>1 DEF deskVars
    <2> USE <2>1 DEF DeskInv
    <2>2. Types' /\ HostOK' /\ StoreOK' /\ LineOK' /\ RequestsOK' /\ TellsOK' /\ Uncut' /\ DeskKept'
      BY DEF Types, HostOK, StoreOK, LineOK, RequestsOK, TellsOK, Uncut, DeskKept, Place, ReadDraft
    <2>3. Ordered' /\ Differ' /\ Synced'
      <3>1. Ordered'
        BY DEF Ordered, Before, NotAfter, Same, Turn, Mention, Place
      <3>2. Differ' /\ Synced'
        BY DEF Differ, Synced, Same, ToldAfter, Mention, NoMention
      <3> QED
        BY <3>1, <3>2
    <2>4. Sent'
      BY DEF Sent, SubmitOut, ErrorOut, ToldAfter, Same
    <2>5. Wrote'
      <3>1. ASSUME NEW p \in Spots, Reached(p), Reported(p) PROVE Reached(p)' /\ Reported(p)'
        <4>1. Reached(p)'
          BY <3>1 DEF Reached, Before, NotAfter, Same, Turn, Mention
        <4>2. Reported(p)'
          BY <3>1 DEF Reported, There, Same, NoSubmit, OnItsWay, Known, Progress
        <4> QED
          BY <4>1, <4>2
      <3> QED
        BY <3>1, WroteKept
    <2> QED
      BY <2>2, <2>3, <2>4, <2>5
  <1>2. CASE DeskNext
    BY <1>2, WriteStep, WindowStep, TransmitStep, ChoosesStep, LeaveStep, AutoJoinStep, LostStep, ReloadStep,
       ConnectsStep, ServeStep, NextBeatStep, ForgetsStep, ListenStep DEF DeskNext
  <1> QED
    BY <1>1, <1>2

\* The drafts of Console.tsx (readDraft, saveDraft and progress() of the store):
\* in a beat the player writes in, the desk holds the last text of this beat, or
\* one of the same beat of an earlier game of the room; once all is quiet, an
\* answer shown as sent was taken by the server, and the server has the draft
\* unless the connection failed since it was written; and an invitation never
\* takes the place of a seat.
THEOREM DeskIsAlwaysKept == DeskSpec => []DeskIsKept
  <1>1. DeskInit => DeskInv
    BY DeskInitInv
  <1>2. DeskInv /\ [DeskNext]_deskVars => DeskInv'
    BY DeskStep
  <1>3. DeskInv => DeskIsKept
    BY DeskInvKept
  <1> QED
    BY <1>1, <1>2, <1>3, PTL DEF DeskSpec

-----------------------------------------------------------------------------
Codes == [Slots -> Digits \cup {0}]

Sheets == [manual : BOOLEAN, about : BOOLEAN, brief : BOOLEAN, open : BOOLEAN,
           dialog : BOOLEAN, panel : BOOLEAN]
Frames == [powered : BOOLEAN, linked : BOOLEAN, rear : BOOLEAN]
Duties == [action : {"", "encrypt", "guess"}, submitted : BOOLEAN,
           connected : BOOLEAN, clock : {"runs", "unseen", "over"}]
Entries == [code : Codes, slot : Slots, clues : BOOLEAN, submitted : BOOLEAN,
            pending : BOOLEAN]

\* The parts of the invariant, one for each variable and two that relate them
SheetsOK == sheets \in Sheets /\ ~(sheets.manual /\ sheets.about)
EntryOK == entry \in Entries /\ Distinct(entry.code)

\* An answer that went out is known on this side, unless the line is lost
SentIsKnown ==
    /\ told \in {0, 1}
    /\ told > 0 => entry.submitted \/ duty.submitted \/ ~duty.connected

\* A request that is out belongs to a seat that may not act
NotLocked == ~(MayAct /\ entry.pending)

KeysInv == SheetsOK /\ frame \in Frames /\ duty \in Duties /\ EntryOK /\ SentIsKnown /\ NotLocked

LEMMA OneIsASlot == 1 \in Slots
  BY KeysAssumption DEF Slots

LEMMA DigitsType == Digits \subseteq Nat \ {0} /\ Slots \subseteq Nat \ {0}
  BY KeysAssumption DEF Slots

LEMMA BlankOK == Blank \in Entries /\ Distinct(Blank.code)
  <1>1. [i \in Slots |-> 0] \in Codes
    BY DEF Codes
  <1>2. Blank.code = [i \in Slots |-> 0]
    BY DEF Blank
  <1>3. Distinct(Blank.code)
    BY <1>2 DEF Distinct
  <1>4. Blank \in Entries
    BY <1>1, OneIsASlot DEF Blank, Entries
  <1> QED
    BY <1>3, <1>4

LEMMA KeysInvInit == KeysInit => KeysInv
  <1> SUFFICES ASSUME KeysInit PROVE KeysInv
    OBVIOUS
  <1>1. SheetsOK /\ frame \in Frames /\ duty \in Duties
    BY DEF KeysInit, SheetsOK, Sheets, Frames, Duties
  <1>2. EntryOK
    BY BlankOK DEF KeysInit, EntryOK
  <1>3. SentIsKnown
    <2>1. told = 0
      BY DEF KeysInit
    <2> QED
      BY <2>1 DEF SentIsKnown
  <1>4. NotLocked
    <2>1. ~entry.pending
      BY DEF KeysInit, Blank
    <2> QED
      BY <2>1 DEF NotLocked
  <1> QED
    BY <1>1, <1>2, <1>3, <1>4 DEF KeysInv

-----------------------------------------------------------------------------
(* What a key of the keypad makes of the code *)

\* A place that is emptied, or gets a number that stands nowhere else
LEMMA SlotWritten ==
    ASSUME NEW code \in Codes, Distinct(code), NEW i \in Slots, NEW digit \in Digits \cup {0},
           digit = 0 \/ \A j \in Slots \ {i} : code[j] # digit,
           NEW c, c = [code EXCEPT ![i] = digit]
    PROVE  c \in Codes /\ Distinct(c)
  <1>1. c \in Codes
    BY DEF Codes
  <1>2. \A j \in Slots : c[j] = IF j = i THEN digit ELSE code[j]
    BY DEF Codes
  <1> QED
    BY <1>1, <1>2 DEF Distinct

LEMMA Entered ==
    ASSUME EntryOK, NEW digit \in Digits \cup {0}, Enter(digit)
    PROVE  EntryOK' /\ entry'.pending = entry.pending /\ entry'.submitted = entry.submitted
  <1> DEFINE code == entry.code
  <1> DEFINE back == IF code[entry.slot] = 0 /\ entry.slot > 1 THEN entry.slot - 1 ELSE entry.slot
  <1> DEFINE next == IF entry.slot < Places THEN entry.slot + 1 ELSE entry.slot
  <1>1. code \in Codes /\ entry.slot \in Slots /\ entry \in Entries /\ Distinct(code)
    BY DEF EntryOK, Entries
  <1>2. back \in Slots /\ next \in Slots
    BY <1>1, KeysAssumption DEF Slots
  <1>3. CASE digit = 0
    <2>1. entry' = [entry EXCEPT !.code[back] = 0, !.slot = back]
      BY <1>3 DEF Enter
    <2> HIDE DEF back
    <2>2. [code EXCEPT ![back] = 0] \in Codes /\ Distinct([code EXCEPT ![back] = 0])
      BY <1>1, <1>2, SlotWritten
    <2> DEFINE c == [code EXCEPT ![back] = 0]
    <2>3. /\ entry' \in Entries /\ entry'.code = c
          /\ entry'.pending = entry.pending /\ entry'.submitted = entry.submitted
      BY <1>1, <1>2, <2>1, <2>2 DEF Entries
    <2>4. Distinct(c)
      BY <2>2
    <2> HIDE DEF c
    <2> QED
      BY <2>3, <2>4 DEF EntryOK, Distinct
  <1>4. CASE digit # 0 /\ \E i \in Slots \ {entry.slot} : code[i] = digit
    <2>1. entry' = entry
      BY <1>4 DEF Enter
    <2> QED
      BY <2>1 DEF EntryOK
  <1>5. CASE digit # 0 /\ \A i \in Slots \ {entry.slot} : code[i] # digit
    <2>1. entry' = [entry EXCEPT !.code[entry.slot] = digit, !.slot = next]
      BY <1>5 DEF Enter
    <2> HIDE DEF next
    <2>2. [code EXCEPT ![entry.slot] = digit] \in Codes
          /\ Distinct([code EXCEPT ![entry.slot] = digit])
      BY <1>1, <1>5, SlotWritten
    <2> DEFINE c == [code EXCEPT ![entry.slot] = digit]
    <2>3. /\ entry' \in Entries /\ entry'.code = c
          /\ entry'.pending = entry.pending /\ entry'.submitted = entry.submitted
      BY <1>1, <1>2, <2>1, <2>2 DEF Entries
    <2>4. Distinct(c)
      BY <2>2
    <2> HIDE DEF c
    <2> QED
      BY <2>3, <2>4 DEF EntryOK, Distinct
  <1> QED
    BY <1>3, <1>4, <1>5

-----------------------------------------------------------------------------
(* What a key or a hand does: at most one answer, or one number *)

Unchanged == UNCHANGED <<entry, told>>

\* An answer goes from a seat that may act; a press that comes after the end of the
\* time, and before the screen shows it, is only taken for one
AnswerGoes ==
    \/ MayAct /\ entry' = [entry EXCEPT !.pending = TRUE, !.submitted = TRUE] /\ told' = told + 1
    \/ ~MayAct /\ entry' = [entry EXCEPT !.pending = TRUE] /\ told' = told

Typed == \E digit \in Digits \cup {0} : Enter(digit) /\ told' = told

Effect == Unchanged \/ AnswerGoes \/ Typed

Ids == {"manual", "about", "archive-toggle", "brief-skip", "transmit", "key"}

LEMMA ActEffect ==
    ASSUME KeysInv, NEW id \in Ids, NEW digit \in Digits \cup {0}, Act(id, digit)
    PROVE  SheetsOK' /\ Effect
  <1>a. sheets \in Sheets /\ ~(sheets.manual /\ sheets.about)
    BY DEF KeysInv, SheetsOK
  <1>1. CASE ~InReach(id)
    BY <1>1, <1>a DEF Act, SheetsOK, Effect, Unchanged
  <1>2. CASE InReach(id) /\ id = "transmit"
    <2>1. SendAnswer
      BY <1>2 DEF Act
    <2>2. SheetsOK'
      BY <1>a, <2>1 DEF SendAnswer, SheetsOK, Sheets
    <2>3. PaintedReady /\ ~Ready => ~MayAct
      BY DEF PaintedReady, Ready
    <2>4. Ready => MayAct
      BY DEF Ready
    <2>5. Effect
      BY <2>1, <2>3, <2>4 DEF SendAnswer, Effect, Unchanged, AnswerGoes
    <2> QED
      BY <2>2, <2>5
  <1>3. CASE InReach(id) /\ id = "key"
    <2>1. Key(digit)
      BY <1>3 DEF Act
    <2>2. SheetsOK'
      BY <1>a, <2>1 DEF Key, SheetsOK, Sheets
    <2>3. Effect
      BY <2>1 DEF Key, Effect, Unchanged, Typed
    <2> QED
      BY <2>2, <2>3
  <1>4. CASE InReach(id) /\ id \in Ids \ {"transmit", "key"}
    <2>1. sheets' = Open(id) /\ Unchanged
      BY <1>4 DEF Act, Unchanged
    <2>2. SheetsOK'
      BY <1>4, <1>a, <2>1 DEF Open, SheetsOK, Sheets, Ids
    <2> QED
      BY <2>1, <2>2 DEF Effect
  <1> QED
    BY <1>1, <1>2, <1>3, <1>4

LEMMA PressEffect ==
    ASSUME KeysInv, NEW pressed \in Pressed, Press(pressed)
    PROVE  SheetsOK' /\ Effect /\ UNCHANGED <<frame, duty>>
  <1>a. sheets \in Sheets /\ ~(sheets.manual /\ sheets.about)
    BY DEF KeysInv, SheetsOK
  <1>1. PICK focus \in Focuses, digit \in Digits \cup {0} : Handle(Command(pressed, focus), digit)
    BY DEF Press
  <1> DEFINE command == Command(pressed, focus)
  <1>2. command \in Ids \cup {"none", "dismiss", "shortcuts", "guide"}
    BY DEF Command, Ids, Pressed
  <1> HIDE DEF command
  <1>3. Handle(command, digit)
    BY <1>1 DEF command
  <1>4. \/ sheets' = sheets /\ Unchanged
        \/ Unchanged /\ SheetsOK'
        \/ command \in Ids /\ Act(command, digit)
    <2>1. CASE command = "none" \/ sheets.dialog
      BY <1>3, <2>1 DEF Handle, Unchanged
    <2>2. CASE ~(command = "none" \/ sheets.dialog) /\ sheets.open /\ frame.powered
      <3>1. sheets' = [sheets EXCEPT !.open = command \notin {"dismiss", "archive-toggle"}] /\ Unchanged
        BY <1>3, <2>2 DEF Handle, Unchanged
      <3>2. (command \notin {"dismiss", "archive-toggle"}) \in BOOLEAN
        OBVIOUS
      <3> QED
        BY <1>a, <3>1, <3>2 DEF SheetsOK, Sheets
    <2>3. CASE ~(command = "none" \/ sheets.dialog) /\ ~(sheets.open /\ frame.powered)
               /\ command = "shortcuts"
      <3>1. Help /\ Unchanged
        BY <1>3, <2>3 DEF Handle, Unchanged
      <3>2. PICK p \in BOOLEAN : sheets' = [sheets EXCEPT !.panel = p]
        BY <3>1 DEF Help
      <3> QED
        BY <1>a, <3>1, <3>2 DEF SheetsOK, Sheets
    <2>4. CASE ~(command = "none" \/ sheets.dialog) /\ ~(sheets.open /\ frame.powered)
               /\ command # "shortcuts" /\ sheets.panel
      <3>1. sheets' = [sheets EXCEPT !.panel = command # "dismiss"] /\ Unchanged
        BY <1>3, <2>4 DEF Handle, Unchanged
      <3>2. (command # "dismiss") \in BOOLEAN
        OBVIOUS
      <3> QED
        BY <1>a, <3>1, <3>2 DEF SheetsOK, Sheets
    <2>5. CASE ~(command = "none" \/ sheets.dialog) /\ ~(sheets.open /\ frame.powered)
               /\ command = "dismiss" /\ ~sheets.panel
      <3>1. sheets' = Dismissed /\ Unchanged
        BY <1>3, <2>5 DEF Handle, Unchanged
      <3> QED
        BY <1>a, <3>1 DEF Dismissed, SheetsOK, Sheets
    <2>6. CASE ~(command = "none" \/ sheets.dialog) /\ ~(sheets.open /\ frame.powered)
               /\ command \notin {"dismiss", "shortcuts"} /\ ~sheets.panel
      BY <1>2, <1>3, <2>6 DEF Handle, Unchanged
    <2> QED
      BY <2>1, <2>2, <2>3, <2>4, <2>5, <2>6
  <1>5. UNCHANGED <<frame, duty>>
    BY DEF Press
  <1>6. CASE command \in Ids /\ Act(command, digit)
    BY <1>5, <1>6, ActEffect
  <1>7. CASE Unchanged /\ (sheets' = sheets \/ SheetsOK')
    BY <1>5, <1>7, <1>a DEF Effect, SheetsOK
  <1> QED
    BY <1>4, <1>6, <1>7

-----------------------------------------------------------------------------
(* The invariant *)

\* Whatever a key or a hand did, the answers and the requests are right
LEMMA EffectInv ==
    ASSUME KeysInv, Effect, UNCHANGED duty
    PROVE  EntryOK' /\ SentIsKnown' /\ NotLocked'
  <1>a. EntryOK /\ SentIsKnown /\ NotLocked /\ entry \in Entries
    BY DEF KeysInv, EntryOK
  <1>b. told > 0 => ~MayAct
    BY <1>a DEF SentIsKnown, MayAct, Unanswered
  <1>1. CASE Unchanged
    BY <1>1, <1>a DEF Unchanged, EntryOK, Distinct, SentIsKnown, NotLocked, MayAct, Unanswered
  <1>2. CASE MayAct /\ entry' = [entry EXCEPT !.pending = TRUE, !.submitted = TRUE] /\ told' = told + 1
    <2>1. told = 0
      BY <1>2, <1>a, <1>b DEF SentIsKnown
    <2>2. entry' \in Entries /\ entry'.code = entry.code /\ entry'.submitted
      BY <1>2, <1>a DEF Entries
    <2>3. EntryOK'
      BY <1>a, <2>2 DEF EntryOK, Distinct
    <2>4. SentIsKnown'
      BY <1>2, <2>1, <2>2 DEF SentIsKnown
    <2> QED
      BY <2>2, <2>3, <2>4 DEF NotLocked, MayAct, Unanswered
  <1>3. CASE ~MayAct /\ entry' = [entry EXCEPT !.pending = TRUE] /\ told' = told
    <2>2. entry' \in Entries /\ entry'.code = entry.code /\ entry'.submitted = entry.submitted
      BY <1>3, <1>a DEF Entries
    <2>3. EntryOK'
      BY <1>a, <2>2 DEF EntryOK, Distinct
    <2>4. SentIsKnown'
      BY <1>3, <1>a, <2>2 DEF SentIsKnown
    <2> QED
      BY <1>3, <2>2, <2>3, <2>4 DEF NotLocked, MayAct, Unanswered
  <1>4. CASE Typed
    <2>1. EntryOK' /\ entry'.pending = entry.pending /\ entry'.submitted = entry.submitted
          /\ told' = told
      BY <1>4, <1>a, Entered DEF Typed
    <2> QED
      BY <1>a, <2>1 DEF SentIsKnown, NotLocked, MayAct, Unanswered
  <1> QED
    BY <1>1, <1>2, <1>3, <1>4 DEF Effect, AnswerGoes

LEMMA KeysInvNext == KeysInv /\ [KeysNext]_keysVars => KeysInv'
  <1> SUFFICES ASSUME KeysInv, [KeysNext]_keysVars PROVE KeysInv'
    OBVIOUS
  <1>a. /\ sheets \in Sheets /\ ~(sheets.manual /\ sheets.about) /\ frame \in Frames
        /\ duty \in Duties /\ entry \in Entries /\ Distinct(entry.code)
        /\ SentIsKnown /\ NotLocked
    BY DEF KeysInv, SheetsOK, EntryOK
  <1>b. ASSUME SheetsOK', Effect, UNCHANGED <<frame, duty>> PROVE KeysInv'
    BY <1>a, <1>b, EffectInv DEF KeysInv
  <1>c. ASSUME SheetsOK', frame' \in Frames, UNCHANGED <<duty, entry, told>> PROVE KeysInv'
    BY <1>a, <1>c
    DEF KeysInv, EntryOK, Distinct, SentIsKnown, NotLocked, MayAct, Unanswered
  <1>d. UNCHANGED sheets => SheetsOK'
    BY <1>a DEF SheetsOK
  <1>1. ASSUME NEW pressed \in Pressed, Press(pressed) PROVE KeysInv'
    BY <1>1, <1>b, PressEffect
  <1>2. CASE Click
    <2>1. \E id \in Ids, digit \in Digits \cup {0} : Act(id, digit)
      BY <1>2 DEF Click, Ids
    <2>2. UNCHANGED <<frame, duty>>
      BY <1>2 DEF Click
    <2> QED
      BY <1>b, <2>1, <2>2, ActEffect
  <1>3. CASE PickSlot \/ WriteClues
    <2>1. /\ entry' \in Entries /\ entry'.code = entry.code
          /\ entry'.submitted = entry.submitted /\ entry'.pending = entry.pending
      BY <1>3, <1>a DEF PickSlot, WriteClues, Entries
    <2>2. UNCHANGED <<sheets, frame, duty, told>>
      BY <1>3 DEF PickSlot, WriteClues
    <2> QED
      BY <1>a, <1>d, <2>1, <2>2
      DEF KeysInv, EntryOK, Distinct, SentIsKnown, NotLocked, MayAct, Unanswered
  <1>4. CASE TogglePanel \/ Sheet \/ BriefingEnds
    <2>1. SheetsOK' /\ UNCHANGED <<frame, duty, entry, told>>
      BY <1>4, <1>a DEF TogglePanel, Sheet, BriefingEnds, SheetsOK, Sheets
    <2> QED
      BY <1>a, <1>c, <2>1
  <1>5. CASE Hardware
    <2>1. SheetsOK' /\ UNCHANGED <<duty, entry, told>>
      BY <1>5, <1>a DEF Hardware, SheetsOK, Sheets
    <2>2. frame' \in Frames
      BY <1>5, <1>a DEF Hardware, Frames
    <2> QED
      BY <1>c, <2>1, <2>2
  <1>6. CASE BeatBegins
    <2>1. entry' = Blank /\ told' = 0 /\ UNCHANGED frame
      BY <1>6 DEF BeatBegins
    <2>2. PICK beat \in {"encrypting", "guess", "round_result"}, acts \in BOOLEAN :
             /\ duty' = [duty EXCEPT !.action = IF ~acts \/ beat = "round_result" THEN ""
                                                ELSE IF beat = "guess" THEN "guess" ELSE "encrypt",
                                     !.submitted = FALSE, !.clock = "runs"]
             /\ sheets' = [sheets EXCEPT !.manual = FALSE, !.about = FALSE,
                                         !.brief = beat = "encrypting" /\ ~acts]
      BY <1>6 DEF BeatBegins
    <2>3. (beat = "encrypting" /\ ~acts) \in BOOLEAN
      OBVIOUS
    <2>4. SheetsOK'
      BY <1>a, <2>2, <2>3 DEF SheetsOK, Sheets
    <2>5. duty' \in Duties
      BY <1>a, <2>2 DEF Duties
    <2>6. EntryOK' /\ ~entry'.pending
      BY <2>1, BlankOK DEF EntryOK, Distinct, Blank
    <2>7. SentIsKnown' /\ NotLocked'
      BY <2>1, <2>6 DEF SentIsKnown, NotLocked
    <2> QED
      BY <1>a, <2>1, <2>4, <2>5, <2>6, <2>7 DEF KeysInv
  <1>7. CASE TimeRunsOut
    <2>1. /\ duty' \in Duties /\ duty'.submitted = duty.submitted
          /\ duty'.connected = duty.connected /\ duty'.clock # "runs"
      BY <1>7, <1>a DEF TimeRunsOut, Duties
    <2>2. UNCHANGED <<sheets, frame, entry, told>>
      BY <1>7 DEF TimeRunsOut
    <2> QED
      BY <1>a, <1>d, <2>1, <2>2
      DEF KeysInv, EntryOK, Distinct, SentIsKnown, NotLocked, MayAct
  <1>8. CASE AnswerTaken \/ PeopleChange
    <2>1. UNCHANGED <<sheets, frame>> /\ duty.connected
      BY <1>8 DEF AnswerTaken, PeopleChange
    <2>2. entry' \in Entries /\ entry'.code = entry.code /\ duty' \in Duties
      BY <1>8, <1>a DEF AnswerTaken, PeopleChange, Entries, Duties
    <2>3. SentIsKnown'
      <3>1. told' = told \/ told' = 0
        BY <1>8 DEF AnswerTaken, PeopleChange
      <3>2. CASE told' = 0
        BY <3>2 DEF SentIsKnown
      <3>3. CASE told' = told /\ duty' = [duty EXCEPT !.submitted = TRUE]
        BY <1>a, <3>3 DEF SentIsKnown, Duties
      <3>4. CASE told' = told /\ duty' = duty /\ entry'.submitted = entry.submitted
        BY <1>a, <3>4 DEF SentIsKnown
      <3> QED
        BY <1>8, <1>a, <3>1, <3>2, <3>3, <3>4 DEF AnswerTaken, PeopleChange, Entries
    <2>4. NotLocked'
      BY <1>8, <1>a DEF AnswerTaken, PeopleChange, NotLocked, MayAct, Unanswered, Entries, Duties
    <2> QED
      BY <1>a, <1>d, <2>1, <2>2, <2>3, <2>4 DEF KeysInv, EntryOK, Distinct
  <1>9. CASE LineLost \/ Resumed
    <2>1. UNCHANGED <<sheets, frame>>
      BY <1>9 DEF LineLost, Resumed
    <2>2. entry' \in Entries /\ entry'.code = entry.code /\ ~entry'.pending /\ duty' \in Duties
      <3>1. CASE LineLost
        BY <1>a, <3>1 DEF LineLost, Entries, Duties
      <3>2. CASE Resumed
        <4>1. PICK took \in BOOLEAN, again \in BOOLEAN :
                 /\ duty' = [duty EXCEPT !.connected = TRUE, !.submitted = took, !.clock = IF again THEN "runs" ELSE @]
                 /\ entry' = [entry EXCEPT !.pending = FALSE, !.submitted = took]
          BY <3>2 DEF Resumed
        <4>2. entry' \in Entries /\ entry'.code = entry.code /\ ~entry'.pending
          BY <1>a, <4>1 DEF Entries
        <4>3. duty' \in Duties
          BY <1>a, <4>1 DEF Duties
        <4> QED
          BY <4>2, <4>3
      <3> QED
        BY <1>9, <3>1, <3>2
    <2>3. SentIsKnown'
      <3>1. CASE LineLost
        <4>1. told' = told /\ ~duty'.connected
          BY <1>a, <3>1 DEF LineLost, Duties
        <4> QED
          BY <1>a, <4>1 DEF SentIsKnown
      <3>2. CASE Resumed
        <4>1. PICK took \in BOOLEAN : /\ entry' = [entry EXCEPT !.pending = FALSE, !.submitted = took]
                                      /\ told' = IF took THEN told ELSE 0
          BY <3>2 DEF Resumed
        <4>2. entry'.submitted = took
          BY <1>a, <4>1 DEF Entries
        <4> QED
          BY <1>a, <4>1, <4>2 DEF SentIsKnown
      <3> QED
        BY <1>9, <3>1, <3>2
    <2> QED
      BY <1>a, <1>d, <2>1, <2>2, <2>3 DEF KeysInv, EntryOK, Distinct, NotLocked
  <1>10. CASE UNCHANGED keysVars
    BY <1>10, <1>a, <1>c, <1>d DEF keysVars
  <1> QED
    BY <1>1, <1>2, <1>3, <1>4, <1>5, <1>6, <1>7, <1>8, <1>9, <1>10 DEF KeysNext

\* Whatever is entered, taken back and overwritten, and whichever pages, losses and
\* answers come between the keys: a number stands once in a code, an answer of a
\* beat goes once, and a seat that may act is never locked out by a request that
\* is over (the key handler and act of Console.tsx).
THEOREM KeysKeepOrder == KeysSpec => [](NumbersStandOnce /\ AnswersGoOnce /\ NobodyIsLockedOut)
  <1>1. KeysInv => NumbersStandOnce /\ AnswersGoOnce /\ NobodyIsLockedOut
    BY DEF KeysInv, EntryOK, SentIsKnown, NotLocked, NumbersStandOnce, AnswersGoOnce,
           NobodyIsLockedOut
  <1> QED
    BY <1>1, KeysInvInit, KeysInvNext, PTL DEF KeysSpec

-----------------------------------------------------------------------------
(***************************************************************************)
(* The notebook.  What a gesture was drawn over (before) is what undoing   *)
(* comes back to, and the stroke that grows is in no state that can be     *)
(* undone to: that is why finished strokes stand.                          *)
(***************************************************************************)

Strokes == UNION {[drawn -> 1 .. 2] : drawn \in SUBSET (1 .. MaxGestures)}
Inks == [Columns -> Strokes]
Marks == UNION {[some -> BOOLEAN] : some \in SUBSET Items}
Views == [view : {"both"} \cup Items, moving : BOOLEAN, inert : [Items -> BOOLEAN], saved : Marks]
Leaves == [on : BOOLEAN, at : 0 .. Hinge, speed : -1 .. 1, target : {0, Hinge},
           saved : [Columns -> BOOLEAN], inert : [Columns -> BOOLEAN]]
Gestures == [on : BOOLEAN, team : Columns, tool : {"pen", "eraser"}, before : Inks, stroke : 0 .. MaxGestures]
Books == [tool : {"type", "pen", "eraser"}, page : Columns, undo : Seq(Inks), serial : 0 .. MaxGestures,
          dialog : {"open", "exiting", "closed"}, reduced : BOOLEAN]

\* A surface is inert exactly while it fades out, and will not be afterwards
ViewsOK(v) ==
    /\ v \in Views
    /\ \A item \in Items : v.inert[item] <=> item \in DOMAIN v.saved
    /\ \A item \in DOMAIN v.saved : ~v.saved[item]
    /\ \A item \in Items : IsVisible(v.view, item) => ~v.inert[item]

\* A leaf that turns is on a surface to be seen, and gives both pages back
LeafOK(l, v, page) ==
    /\ l \in Leaves
    /\ l.on => /\ l.target = Side(page) /\ IsVisible(v.view, "notebook")
               /\ \A t \in Columns : ~l.saved[t]
    /\ ~l.on => \A t \in Columns : ~l.inert[t]

\* Two states of the ink that show the same of every stroke they share
Alike(a, c) == \A t \in Columns : \A id \in DOMAIN a[t] \cap DOMAIN c[t] : a[t][id] = c[t][id]
Within(a, n) == \A t \in Columns : \A id \in DOMAIN a[t] : id <= n
Without(a, id) == \A t \in Columns : id \notin DOMAIN a[t]

\* What undoing comes back to after the last gesture
InkBefore(i, g) == IF g.on THEN g.before ELSE i

\* What can be taken back: every state differs from the next, and shows no
\* stroke otherwise than any other does; the stroke that grows is in none of them
UndoOK(u, now, n) ==
    /\ u \in Seq(Inks) /\ now \in Inks /\ Len(u) <= MaxUndo
    /\ Within(now, n)
    /\ \A k \in 1 .. Len(u) : /\ Within(u[k], n) /\ Alike(u[k], now)
                              /\ \A m \in 1 .. Len(u) : Alike(u[k], u[m])
                              /\ k + 1 \in 1 .. Len(u) => u[k] # u[k + 1]
    /\ u # <<>> => u[Len(u)] # now

InkOK(i, g, b) ==
    /\ i \in Inks /\ g \in Gestures /\ b \in Books
    /\ UndoOK(b.undo, InkBefore(i, g), b.serial) /\ Within(i, b.serial)
    /\ \A k \in 1 .. Len(b.undo) : Alike(b.undo[k], i)
    /\ g.on => /\ g.team = b.page /\ g.stroke <= b.serial /\ Alike(g.before, i)
               /\ Without(g.before, g.stroke) /\ \A k \in 1 .. Len(b.undo) : Without(b.undo[k], g.stroke)

Still == book.dialog = "closed" => views.saved = Nothing /\ ~views.moving /\ ~leaf.on

NotebookInv ==
    /\ ViewsOK(views) /\ LeafOK(leaf, views, book.page) /\ InkOK(ink, gesture, book)
    /\ gesture.on => ~leaf.on
    /\ Still

\* A finished stroke stays: what a step may do to the ink
Stands(i, j, g) ==
    \A t \in Columns : \A id \in DOMAIN i[t] \cap DOMAIN j[t] :
       j[t][id] # i[t][id] => g.on /\ g.stroke = id

-----------------------------------------------------------------------------
\* What is shown, and the leaf

LEMMA NothingIsMarks == Nothing \in Marks /\ DOMAIN Nothing = {}
  <1>1. Nothing \in [{} -> BOOLEAN]
    BY DEF Nothing
  <1> QED
    BY <1>1 DEF Marks

\* A movement that is over leaves nothing inert
LEMMA Finished ==
    ASSUME NEW v, ViewsOK(v)
    PROVE  /\ FinishViews(v) \in Views /\ FinishViews(v).view = v.view
           /\ FinishViews(v).saved = Nothing /\ ~FinishViews(v).moving
           /\ \A item \in Items : ~FinishViews(v).inert[item]
  <1> DEFINE inert == [item \in Items |-> IF item \in DOMAIN v.saved THEN v.saved[item] ELSE v.inert[item]]
  <1>1. v \in Views
    BY DEF ViewsOK
  <1>2. \A item \in Items : ~inert[item]
    BY DEF ViewsOK
  <1>3. inert \in [Items -> BOOLEAN]
    <2>1. v.saved \in Marks /\ v.inert \in [Items -> BOOLEAN]
      BY <1>1 DEF Views
    <2>2. \A item \in DOMAIN v.saved : v.saved[item] \in BOOLEAN
      BY <2>1 DEF Marks
    <2>3. \A item \in Items : (IF item \in DOMAIN v.saved THEN v.saved[item] ELSE v.inert[item]) \in BOOLEAN
      BY <2>1, <2>2
    <2> QED
      BY <2>3
  <1>4. FinishViews(v) = [v EXCEPT !.inert = inert, !.saved = Nothing, !.moving = FALSE]
    BY DEF FinishViews
  <1> HIDE DEF inert
  <1> QED
    BY <1>1, <1>2, <1>3, <1>4, NothingIsMarks DEF Views

LEMMA FinishedOK == ASSUME NEW v, ViewsOK(v) PROVE ViewsOK(FinishViews(v))
  BY Finished, NothingIsMarks DEF ViewsOK

\* The leaving surfaces are inert, and nothing that is to be seen is
LEMMA ShownOK ==
    ASSUME NEW v, ViewsOK(v), NEW next \in {"both"} \cup Items
    PROVE  ViewsOK(Show(v, next)) /\ Show(v, next).view = next
  <1> DEFINE leaving == {item \in Items : ~IsVisible(next, item) /\ OnScreen(item)}
             w == [FinishViews(v) EXCEPT !.view = next]
  <1>1. /\ w \in Views /\ w.view = next /\ w.saved = Nothing
        /\ \A item \in Items : ~w.inert[item]
    BY Finished DEF Views
  <1>2. CASE book.reduced \/ book.dialog # "open"
    <2>1. Show(v, next) = w
      BY <1>2 DEF Show
    <2> HIDE DEF w
    <2> QED
      BY <1>1, <2>1, NothingIsMarks DEF ViewsOK
  <1>3. CASE ~(book.reduced \/ book.dialog # "open")
    <2> DEFINE saved == [item \in leaving |-> w.inert[item]]
               inert == [item \in Items |-> w.inert[item] \/ item \in leaving]
    <2>1. Show(v, next) = [w EXCEPT !.moving = TRUE, !.saved = saved, !.inert = inert]
      BY <1>3 DEF Show
    <2>2. leaving \in SUBSET Items /\ \A item \in leaving : ~IsVisible(next, item)
      OBVIOUS
    <2> HIDE DEF leaving, w
    <2>3. saved \in [leaving -> BOOLEAN] /\ \A item \in leaving : ~saved[item]
      BY <1>1, <2>2 DEF Views
    <2>4. inert \in [Items -> BOOLEAN] /\ \A item \in Items : inert[item] <=> item \in leaving
      BY <1>1, <2>2
    <2>5. saved \in Marks /\ DOMAIN saved = leaving
      BY <2>2, <2>3 DEF Marks
    <2> HIDE DEF saved, inert
    <2>6. /\ Show(v, next) \in Views /\ Show(v, next).view = next
          /\ Show(v, next).saved = saved /\ Show(v, next).inert = inert
      BY <1>1, <2>1, <2>4, <2>5, Zenon DEF Views
    <2> QED
      BY <2>2, <2>3, <2>4, <2>5, <2>6 DEF ViewsOK
  <1> QED
    BY <1>2, <1>3

\* A page that can be reached is to be seen
LEMMA ReachableIsSeen == ASSUME ViewsOK(views), NEW team, Reachable(team) PROVE IsVisible(views.view, "notebook")
  BY DEF Reachable, OnScreen, ViewsOK, Items

LEMMA Settled ==
    ASSUME NEW l, NEW v, NEW page \in Columns, LeafOK(l, v, page)
    PROVE  \A w, next : LeafOK(SettleLeaf(l), w, next) /\ ~SettleLeaf(l).on
  <1>1. CASE l.on
    <2>1. SettleLeaf(l) = [l EXCEPT !.on = FALSE, !.at = 0, !.speed = 0, !.target = 0, !.inert = l.saved]
      BY <1>1 DEF SettleLeaf
    <2>2. l \in Leaves /\ 0 \in 0 .. Hinge /\ 0 \in -1 .. 1 /\ 0 \in {0, Hinge}
      BY NotebookAssumption DEF LeafOK
    <2>3. l.saved \in [Columns -> BOOLEAN] /\ \A t \in Columns : ~l.saved[t]
      BY <1>1, <2>2 DEF LeafOK, Leaves
    <2>4. SettleLeaf(l) \in Leaves /\ ~SettleLeaf(l).on /\ SettleLeaf(l).inert = l.saved
      BY <2>1, <2>2, <2>3 DEF Leaves
    <2> QED
      BY <2>3, <2>4 DEF LeafOK
  <1>2. CASE ~l.on
    BY <1>2 DEF SettleLeaf, LeafOK
  <1> QED
    BY <1>1, <1>2

\* A leaf that is sent to the other page lands there
LEMMA TurnedOK ==
    ASSUME LeafOK(leaf, views, book.page), IsVisible(views.view, "notebook"),
           book.page \in Columns, NEW next \in Columns, next # book.page
    PROVE  LeafOK(TurnTo(leaf, next), views, next)
  <1>1. CASE book.reduced
    BY <1>1, Settled DEF TurnTo
  <1>2. CASE ~book.reduced /\ leaf.on
    <2>1. TurnTo(leaf, next) = [leaf EXCEPT !.target = Side(next)]
      BY <1>2 DEF TurnTo
    <2>2. Side(next) \in {0, Hinge}
      BY DEF Side
    <2> QED
      BY <1>2, <2>1, <2>2 DEF LeafOK, Leaves
  <1>3. CASE ~book.reduced /\ ~leaf.on
    <2> DEFINE all == [t \in Columns |-> TRUE]
    <2>1. TurnTo(leaf, next) = [on |-> TRUE, at |-> Side(book.page), speed |-> 0, target |-> Side(next),
                                saved |-> leaf.inert, inert |-> all]
      BY <1>3 DEF TurnTo, OnScreen
    <2>2. Side(next) \in {0, Hinge} /\ Side(book.page) \in 0 .. Hinge
      BY NotebookAssumption DEF Side
    <2>3. all \in [Columns -> BOOLEAN]
      OBVIOUS
    <2> HIDE DEF all
    <2> QED
      BY <1>3, <2>1, <2>2, <2>3 DEF LeafOK, Leaves
  <1> QED
    BY <1>1, <1>2, <1>3

LEMMA Stepped ==
    ASSUME LeafOK(leaf, views, book.page), leaf.on
    PROVE  LeafOK(StepHinge(leaf), views, book.page) /\ StepHinge(leaf).on
  <1> DEFINE pull == IF leaf.target > leaf.at THEN 1 ELSE IF leaf.target < leaf.at THEN -1 ELSE 0
             speed == IF leaf.speed = pull THEN pull ELSE leaf.speed + pull
             at == leaf.at + speed
  <1>1. leaf.at \in 0 .. Hinge /\ leaf.target \in {0, Hinge} /\ leaf.speed \in -1 .. 1 /\ Hinge \in Nat
    BY NotebookAssumption DEF LeafOK, Leaves
  <1>2. pull \in -1 .. 1
    OBVIOUS
  <1> HIDE DEF pull
  <1>3. at \in Int /\ speed \in Int
    BY <1>1, <1>2
  <1>4. speed \in -1 .. 1
    <2>1. pull = 1 => leaf.speed # 1 \/ speed = 1
      OBVIOUS
    <2> QED
      BY <1>1, <1>2
  <1> HIDE DEF speed
  <1>5. /\ at <= 0 => StepHinge(leaf) = [leaf EXCEPT !.at = 0, !.speed = 0]
        /\ ~(at <= 0) /\ at >= Hinge => StepHinge(leaf) = [leaf EXCEPT !.at = Hinge, !.speed = 0]
        /\ ~(at <= 0) /\ ~(at >= Hinge) => StepHinge(leaf) = [leaf EXCEPT !.at = at, !.speed = speed]
    BY DEF StepHinge, pull, speed
  <1>6. ~(at <= 0) /\ ~(at >= Hinge) => at \in 0 .. Hinge
    BY <1>1, <1>3
  <1> HIDE DEF at
  <1>7. 0 \in 0 .. Hinge /\ Hinge \in 0 .. Hinge /\ 0 \in -1 .. 1
    BY <1>1
  <1>8. PICK a \in 0 .. Hinge, s \in -1 .. 1 : StepHinge(leaf) = [leaf EXCEPT !.at = a, !.speed = s]
    <2>1. CASE at <= 0
      BY <1>5, <1>7, <2>1
    <2>2. CASE ~(at <= 0) /\ at >= Hinge
      BY <1>5, <1>7, <2>2
    <2>3. CASE ~(at <= 0) /\ ~(at >= Hinge)
      BY <1>4, <1>5, <1>6, <2>3
    <2> QED
      BY <2>1, <2>2, <2>3
  <1> QED
    BY <1>8 DEF LeafOK, Leaves

-----------------------------------------------------------------------------
\* The ink

LEMMA StrokesAre ==
    ASSUME NEW f \in Strokes
    PROVE  DOMAIN f \in SUBSET (1 .. MaxGestures) /\ f \in [DOMAIN f -> 1 .. 2]
  BY DEF Strokes

\* A page with one more stroke
LEMMA BegunOK ==
    ASSUME NEW f \in Strokes, NEW id \in 1 .. MaxGestures
    PROVE  /\ Begun(f, id) \in Strokes /\ DOMAIN Begun(f, id) = DOMAIN f \cup {id}
           /\ \A other \in DOMAIN f : other # id => Begun(f, id)[other] = f[other]
  <1>1. Begun(f, id) \in [DOMAIN f \cup {id} -> 1 .. 2]
    BY StrokesAre DEF Begun
  <1>2. DOMAIN f \cup {id} \in SUBSET (1 .. MaxGestures)
    BY StrokesAre
  <1>3. Begun(f, id) \in Strokes
    BY <1>1, <1>2 DEF Strokes
  <1> QED
    BY <1>3 DEF Begun

\* The ink with some strokes less, and no other one
Fewer(j, i) ==
    \A t \in Columns : \A id \in DOMAIN j[t] : id \in DOMAIN i[t] /\ j[t][id] = i[t][id]

LEMMA ErasedOK ==
    ASSUME NEW i \in Inks, NEW team \in Columns, NEW j \in Erased(i, team)
    PROVE  j \in Inks /\ Fewer(j, i)
  <1>1. CASE j = i
    BY <1>1 DEF Fewer
  <1>2. CASE \E id \in DOMAIN i[team] : j = [i EXCEPT ![team] = Restrict(i[team], DOMAIN i[team] \ {id})]
    <2>1. PICK id \in DOMAIN i[team] : j = [i EXCEPT ![team] = Restrict(i[team], DOMAIN i[team] \ {id})]
      BY <1>2
    <2> DEFINE f == i[team]
               r == Restrict(f, DOMAIN f \ {id})
    <2>2. f \in Strokes
      BY DEF Inks
    <2>3. r = [x \in DOMAIN f \ {id} |-> f[x]]
      BY DEF Restrict
    <2>4. /\ DOMAIN f \ {id} \in SUBSET (1 .. MaxGestures)
          /\ r \in [DOMAIN f \ {id} -> 1 .. 2]
      BY <2>2, <2>3, StrokesAre
    <2>5. r \in Strokes /\ DOMAIN r \subseteq DOMAIN f /\ \A x \in DOMAIN r : r[x] = f[x]
      BY <2>3, <2>4 DEF Strokes
    <2> HIDE DEF r
    <2>6. j = [i EXCEPT ![team] = r]
      BY <2>1 DEF r
    <2> QED
      BY <2>5, <2>6 DEF Inks, Fewer
  <1> QED
    BY <1>1, <1>2 DEF Erased

\* A stroke that grows
GrownStroke(i, team, id) == [i EXCEPT ![team][id] = 2]

\* It is the only one that changes
LEMMA GrownOK ==
    ASSUME NEW i \in Inks, NEW team \in Columns, NEW id \in DOMAIN i[team]
    PROVE  /\ GrownStroke(i, team, id) \in Inks
           /\ \A t \in Columns : /\ DOMAIN GrownStroke(i, team, id)[t] = DOMAIN i[t]
                                 /\ \A other \in DOMAIN i[t] : other # id => GrownStroke(i, team, id)[t][other] = i[t][other]
  <1> DEFINE f == i[team]
             r == [f EXCEPT ![id] = 2]
  <1>1. f \in Strokes
    BY DEF Inks
  <1>2. DOMAIN f \in SUBSET (1 .. MaxGestures) /\ f \in [DOMAIN f -> 1 .. 2]
    BY <1>1, StrokesAre
  <1>3. r \in [DOMAIN f -> 1 .. 2] /\ \A other \in DOMAIN f : other # id => r[other] = f[other]
    BY <1>2
  <1>4. r \in Strokes /\ DOMAIN r = DOMAIN f
    BY <1>2, <1>3 DEF Strokes
  <1> HIDE DEF r
  <1>5. GrownStroke(i, team, id) = [i EXCEPT ![team] = r]
    BY DEF r, GrownStroke
  <1> QED
    BY <1>3, <1>4, <1>5 DEF Inks

\* What the pencil or the eraser does to the ink while it is down
LEMMA TracedOK ==
    ASSUME InkOK(ink, gesture, book), gesture.on, NEW now \in Traced(ink, gesture)
    PROVE  InkOK(now, gesture, book) /\ Stands(ink, now, gesture)
  <1>1. /\ ink \in Inks /\ gesture \in Gestures /\ gesture.team \in Columns
        /\ Within(ink, book.serial) /\ Alike(gesture.before, ink)
        /\ Without(gesture.before, gesture.stroke)
        /\ \A k \in 1 .. Len(book.undo) : Alike(book.undo[k], ink) /\ Without(book.undo[k], gesture.stroke)
    BY DEF InkOK, Gestures
  <1>2. /\ now \in Inks
        /\ \A t \in Columns : DOMAIN now[t] \subseteq DOMAIN ink[t]
        /\ \A t \in Columns : \A id \in DOMAIN now[t] : id # gesture.stroke => now[t][id] = ink[t][id]
    <2>1. CASE gesture.tool = "eraser"
      <3>1. now \in Inks /\ Fewer(now, ink)
        BY <1>1, <2>1, ErasedOK DEF Traced
      <3> QED
        BY <3>1 DEF Fewer
    <2>2. CASE now = ink
      BY <1>1, <2>2
    <2>3. CASE gesture.tool # "eraser" /\ now # ink
      <3>1. gesture.stroke \in DOMAIN ink[gesture.team] /\ now = [ink EXCEPT ![gesture.team][gesture.stroke] = 2]
        BY <2>3 DEF Traced
      <3>2. ink \in Inks /\ gesture.team \in Columns
        BY <1>1
      <3>3. /\ now \in Inks
            /\ \A t \in Columns : /\ DOMAIN now[t] = DOMAIN ink[t]
                                  /\ \A other \in DOMAIN ink[t] : other # gesture.stroke => now[t][other] = ink[t][other]
        <4> DEFINE t0 == gesture.team
                   id == gesture.stroke
        <4>1. t0 \in Columns /\ id \in DOMAIN ink[t0] /\ now = GrownStroke(ink, t0, id) /\ ink \in Inks
          BY <3>1, <3>2 DEF GrownStroke
        <4> HIDE DEF t0, id
        <4>2. /\ now \in Inks
              /\ \A t \in Columns : /\ DOMAIN now[t] = DOMAIN ink[t]
                                    /\ \A other \in DOMAIN ink[t] : other # id => now[t][other] = ink[t][other]
          BY ONLY <4>1, GrownOK
        <4> QED
          BY <4>2, Zenon DEF id
      <3> QED
        <4>1. ASSUME NEW t \in Columns
              PROVE  DOMAIN now[t] \subseteq DOMAIN ink[t] /\ \A id \in DOMAIN now[t] : id # gesture.stroke => now[t][id] = ink[t][id]
          BY <3>3
        <4> QED
          BY <3>3, <4>1
    <2> QED
      BY <2>1, <2>2, <2>3
  <1>3. Stands(ink, now, gesture)
    BY <1>2 DEF Stands
  <1>4. Within(now, book.serial)
    BY <1>1, <1>2 DEF Within
  <1>5. ASSUME NEW a, Alike(a, ink), Without(a, gesture.stroke) PROVE Alike(a, now)
    BY <1>2, <1>5 DEF Alike, Without
  <1>6. Alike(gesture.before, now) /\ \A k \in 1 .. Len(book.undo) : Alike(book.undo[k], now)
    BY <1>1, <1>5
  <1> QED
    BY <1>2, <1>3, <1>4, <1>6 DEF InkOK, InkBefore

\* A gesture that is kept can be taken back
LEMMA KeptInk ==
    ASSUME NEW now, InkOK(now, gesture, book), gesture.on
    PROVE  /\ UndoOK(Kept(gesture, now), now, book.serial)
           /\ \A k \in 1 .. Len(Kept(gesture, now)) : Alike(Kept(gesture, now)[k], now)
  <1> DEFINE old == book.undo
             before == gesture.before
             n == book.serial
             u == Kept(gesture, now)
  <1>1. /\ old \in Seq(Inks) /\ before \in Inks /\ Len(old) <= MaxUndo /\ Len(old) \in Nat
        /\ Within(before, n) /\ Alike(before, now) /\ Within(now, n) /\ now \in Inks
        /\ \A k \in 1 .. Len(old) : Within(old[k], n) /\ Alike(old[k], before) /\ Alike(old[k], now)
        /\ \A k, m \in 1 .. Len(old) : Alike(old[k], old[m])
        /\ \A k \in 1 .. Len(old) : k + 1 \in 1 .. Len(old) => old[k] # old[k + 1]
        /\ old # <<>> => old[Len(old)] # before
    BY DEF InkOK, Gestures, UndoOK, InkBefore
  <1> HIDE DEF before, n, u
  <1>2. ASSUME now = before PROVE UndoOK(u, now, n) /\ \A k \in 1 .. Len(u) : Alike(u[k], now)
    BY <1>1, <1>2 DEF Kept, UndoOK, before, n, u
  <1>3. ASSUME NEW s \in Seq(Inks), now # before, Len(s) < MaxUndo, u = Append(s, before),
               \A k \in 1 .. Len(s) : Within(s[k], n) /\ Alike(s[k], before) /\ Alike(s[k], now),
               \A k, m \in 1 .. Len(s) : Alike(s[k], s[m]),
               \A k \in 1 .. Len(s) : k + 1 \in 1 .. Len(s) => s[k] # s[k + 1],
               s # <<>> => s[Len(s)] # before
        PROVE  UndoOK(u, now, n) /\ \A k \in 1 .. Len(u) : Alike(u[k], now)
    <2>1. /\ u \in Seq(Inks) /\ Len(u) = Len(s) + 1 /\ u[Len(u)] = before /\ Len(s) \in Nat
          /\ \A k \in 1 .. Len(s) : u[k] = s[k]
          /\ \A k \in 1 .. Len(u) : k \in 1 .. Len(s) \/ k = Len(u)
          /\ Len(u) <= MaxUndo
      BY <1>1, <1>3, NotebookAssumption
    <2>2. Alike(before, before) /\ \A k \in 1 .. Len(s) : Alike(before, s[k])
      BY <1>3 DEF Alike
    <2>3. \A k \in 1 .. Len(u) : Within(u[k], n) /\ Alike(u[k], now)
      BY <1>1, <1>3, <2>1
    <2>4. \A k, m \in 1 .. Len(u) : Alike(u[k], u[m])
      BY <1>3, <2>1, <2>2
    <2>5. ASSUME NEW k \in 1 .. Len(u), k + 1 \in 1 .. Len(u) PROVE u[k] # u[k + 1]
      <3>1. k \in 1 .. Len(s) /\ u[k] = s[k]
        BY <2>1, <2>5
      <3>2. CASE k = Len(s)
        <4>1. u[k + 1] = before /\ s # <<>>
          BY <2>1, <3>1, <3>2
        <4> QED
          BY <1>3, <3>1, <3>2, <4>1
      <3>3. CASE k # Len(s)
        <4>1. k + 1 \in 1 .. Len(s) /\ u[k + 1] = s[k + 1]
          BY <2>1, <3>1, <3>3
        <4> QED
          BY <1>3, <3>1, <4>1
      <3> QED
        BY <3>2, <3>3
    <2>6. u # <<>> => u[Len(u)] # now
      BY <1>3, <2>1
    <2> QED
      BY <1>1, <2>1, <2>3, <2>4, <2>5, <2>6 DEF UndoOK
  <1>4. ASSUME now # before, Len(old) < MaxUndo PROVE UndoOK(u, now, n) /\ \A k \in 1 .. Len(u) : Alike(u[k], now)
    <2>1. u = Append(old, before)
      BY <1>4 DEF Kept, before, u
    <2> QED
      BY <1>1, <1>3, <1>4, <2>1 DEF n
  <1>5. ASSUME now # before, ~(Len(old) < MaxUndo) PROVE UndoOK(u, now, n) /\ \A k \in 1 .. Len(u) : Alike(u[k], now)
    <2> DEFINE s == Tail(old)
    <2>1. u = Append(s, before)
      BY <1>5 DEF Kept, before, u
    <2>2. old # <<>> /\ Len(old) \in Nat \ {0}
      BY <1>1, <1>5, NotebookAssumption
    <2>3. s \in Seq(Inks) /\ Len(s) = Len(old) - 1 /\ \A k \in 1 .. Len(s) : s[k] = old[k + 1] /\ k + 1 \in 1 .. Len(old)
      BY <1>1, <2>2
    <2> HIDE DEF s
    <2>4. Len(s) < MaxUndo /\ Len(s) \in Nat
      BY <1>1, <2>2, <2>3, NotebookAssumption
    <2>5. \A k \in 1 .. Len(s) : k + 1 \in 1 .. Len(s) => s[k] # s[k + 1]
      BY <1>1, <2>3
    <2>6. s # <<>> => s[Len(s)] # before
      <3>1. s # <<>> => Len(s) \in 1 .. Len(s)
        BY <2>3, <2>4
      <3>2. s # <<>> => s[Len(s)] = old[Len(old)]
        BY <2>2, <2>3, <3>1
      <3> QED
        BY <1>1, <2>2, <3>2
    <2>7. \A k \in 1 .. Len(s) : Within(s[k], n) /\ Alike(s[k], before) /\ Alike(s[k], now)
      BY <1>1, <2>3
    <2>8. \A k, m \in 1 .. Len(s) : Alike(s[k], s[m])
      BY <1>1, <2>3
    <2> QED
      BY <1>3, <1>5, <2>1, <2>3, <2>4, <2>5, <2>6, <2>7, <2>8 DEF n
  <1> QED
    BY <1>2, <1>4, <1>5 DEF n, u

\* Nothing is being drawn, and nothing could be taken back wrongly
LEMMA NoGestureOK ==
    ASSUME NEW i \in Inks, NEW b \in Books, UndoOK(b.undo, i, b.serial),
           \A k \in 1 .. Len(b.undo) : Alike(b.undo[k], i)
    PROVE  InkOK(i, NoGesture, b)
  <1>1. NoGesture \in Gestures /\ ~NoGesture.on
    <2>1. <<>> \in [{} -> 1 .. 2]
      OBVIOUS
    <2>2. <<>> \in Strokes
      BY <2>1 DEF Strokes
    <2>3. [t \in Columns |-> <<>>] \in Inks
      BY <2>2 DEF Inks
    <2>4. 0 \in 0 .. MaxGestures
      BY NotebookAssumption
    <2> QED
      BY <2>3, <2>4 DEF NoGesture, Gestures, Columns
  <1>2. Within(i, b.serial)
    BY DEF UndoOK
  <1> QED
    BY <1>1, <1>2 DEF InkOK, InkBefore

-----------------------------------------------------------------------------
\* The actions

LEMMA NotebookParts ==
    ASSUME NotebookInv
    PROVE  /\ ViewsOK(views) /\ LeafOK(leaf, views, book.page) /\ InkOK(ink, gesture, book) /\ Still
           /\ gesture.on => ~leaf.on
           /\ book \in Books /\ gesture \in Gestures /\ ink \in Inks /\ book.page \in Columns
           /\ book.undo \in Seq(Inks) /\ book.serial \in 0 .. MaxGestures
  BY DEF NotebookInv, InkOK, Books

\* The ink of a step that leaves ink, gesture and history alone
LEMMA InkRests ==
    ASSUME InkOK(ink, gesture, book), UNCHANGED <<ink, gesture>>, book' \in Books,
           book'.undo = book.undo, book'.serial = book.serial, book'.page = book.page
    PROVE  InkOK(ink, gesture, book)' /\ Stands(ink, ink', gesture)
  <1>1. InkOK(ink', gesture', book')
    BY DEF InkOK
  <1> QED
    BY <1>1 DEF Stands

\* The pencil, or the eraser, touches the open page
LEMMA StartDrawingKeeps ==
    ASSUME NotebookInv, NEW team \in Columns, StartDrawing(team)
    PROVE  NotebookInv' /\ Stands(ink, ink', gesture)
  <1> DEFINE id == book.serial + 1
  <1>1. /\ Reachable(team) /\ ~leaf.on /\ ~gesture.on /\ book.tool \in {"pen", "eraser"}
        /\ book.serial < MaxGestures
        /\ gesture' = [on |-> TRUE, team |-> team, tool |-> book.tool, before |-> ink, stroke |-> id]
        /\ ink' \in IF book.tool = "pen" THEN {[ink EXCEPT ![team] = Begun(ink[team], id)]} ELSE Erased(ink, team)
        /\ book' = [book EXCEPT !.serial = id]
        /\ UNCHANGED <<views, leaf>>
    BY DEF StartDrawing, StrokeId
  <1>2. /\ book \in Books /\ ink \in Inks /\ book.serial \in Nat /\ team = book.page
        /\ id \in 1 .. MaxGestures /\ id \in 0 .. MaxGestures
        /\ UndoOK(book.undo, ink, book.serial) /\ Within(ink, book.serial)
    BY <1>1, NotebookParts, NotebookAssumption DEF InkOK, InkBefore, Reachable
  <1>3. book' \in Books /\ book'.undo = book.undo /\ book'.serial = id /\ book'.page = book.page /\ book'.dialog = book.dialog
    BY <1>1, <1>2 DEF Books
  <1>4. gesture' \in Gestures /\ gesture'.on /\ gesture'.team = book.page /\ gesture'.before = ink /\ gesture'.stroke = id
    BY <1>1, <1>2 DEF Gestures
  <1>a. id = book.serial + 1
    OBVIOUS
  <1> HIDE DEF id
  <1>5. ASSUME NEW a \in Inks, Within(a, book.serial) PROVE Within(a, id) /\ Without(a, id)
    <2>1. \A t \in Columns : DOMAIN a[t] \in SUBSET Nat
      <3>1. \A t \in Columns : a[t] \in Strokes
        BY DEF Inks
      <3>2. \A t \in Columns : DOMAIN a[t] \in SUBSET (1 .. MaxGestures)
        BY <3>1, StrokesAre
      <3> QED
        BY <3>2, NotebookAssumption
    <2> QED
      BY <1>2, <1>5, <1>a, <2>1 DEF Within, Without
  <1>6. /\ ink' \in Inks /\ Alike(ink, ink') /\ Within(ink', id)
        /\ \A t \in Columns : \A s \in DOMAIN ink'[t] : s = id \/ (s \in DOMAIN ink[t] /\ ink'[t][s] = ink[t][s])
    <2>1. CASE book.tool = "pen"
      <3>1. ink' = [ink EXCEPT ![team] = Begun(ink[team], id)]
        BY <1>1, <2>1
      <3>2. ink[team] \in Strokes /\ id \notin DOMAIN ink[team]
        BY <1>2, <1>5 DEF Inks, Without
      <3>3. /\ Begun(ink[team], id) \in Strokes /\ DOMAIN Begun(ink[team], id) = DOMAIN ink[team] \cup {id}
            /\ \A other \in DOMAIN ink[team] : Begun(ink[team], id)[other] = ink[team][other]
        BY <1>2, <3>2, BegunOK
      <3>4. ink' \in Inks
        BY <1>2, <3>1, <3>3 DEF Inks
      <3>5. /\ \A t \in Columns \ {team} : ink'[t] = ink[t]
            /\ ink'[team] = Begun(ink[team], id)
        BY <1>2, <3>1 DEF Inks
      <3>6. \A t \in Columns : /\ \A s \in DOMAIN ink[t] : ink'[t][s] = ink[t][s]
                               /\ \A s \in DOMAIN ink'[t] : s = id \/ s \in DOMAIN ink[t]
        BY <3>3, <3>5
      <3>7. Within(ink', id)
        <4>1. Within(ink, id)
          BY <1>2, <1>5
        <4>2. id <= id
          BY <1>2
        <4> QED
          BY <3>6, <4>1, <4>2 DEF Within
      <3> QED
        BY <3>4, <3>6, <3>7 DEF Alike
    <2>2. CASE book.tool = "eraser"
      <3>1. ink' \in Inks /\ Fewer(ink', ink)
        BY <1>1, <1>2, <2>2, ErasedOK
      <3>2. Within(ink, id)
        BY <1>2, <1>5
      <3> QED
        BY <3>1, <3>2 DEF Fewer, Alike, Within
    <2> QED
      BY <1>1, <2>1, <2>2
  <1>7. Stands(ink, ink', gesture)
    BY <1>6 DEF Stands, Alike
  <1>8. \A k \in 1 .. Len(book.undo) : book.undo[k] \in Inks /\ Within(book.undo[k], book.serial) /\ Alike(book.undo[k], ink)
    BY <1>2 DEF UndoOK
  <1>9. \A k \in 1 .. Len(book.undo) : Within(book.undo[k], id) /\ Without(book.undo[k], id)
    BY <1>5, <1>8
  <1>10. ASSUME NEW a, Alike(a, ink), Without(a, id) PROVE Alike(a, ink')
    BY <1>6, <1>10 DEF Alike, Without
  <1>11. InkOK(ink', gesture', book')
    <2>1. UndoOK(book.undo, ink, id)
      BY <1>2, <1>5, <1>9 DEF UndoOK
    <2>2. id <= id
      BY <1>2
    <2> QED
      BY <1>2, <1>3, <1>4, <1>5, <1>6, <1>8, <1>9, <1>10, <2>1, <2>2 DEF InkOK, InkBefore
  <1>12. ViewsOK(views') /\ LeafOK(leaf', views', book'.page) /\ ~leaf'.on
    BY <1>1, <1>3, NotebookParts
  <1>13. Still'
    BY <1>1, <1>3, NotebookParts DEF Still
  <1> QED
    BY <1>7, <1>11, <1>12, <1>13 DEF NotebookInv

LEMMA MoveDrawingKeeps ==
    ASSUME NotebookInv, MoveDrawing
    PROVE  NotebookInv' /\ Stands(ink, ink', gesture)
  <1>1. InkOK(ink', gesture, book) /\ Stands(ink, ink', gesture)
    BY NotebookParts, TracedOK DEF MoveDrawing
  <1> QED
    BY <1>1, NotebookParts DEF MoveDrawing, NotebookInv, Still

\* The gesture is over, and can be taken back
LEMMA PointerUpKeeps ==
    ASSUME NotebookInv, PointerUp
    PROVE  NotebookInv' /\ Stands(ink, ink', gesture)
  <1>1. /\ gesture.on /\ ink' \in Traced(ink, gesture)
        /\ gesture' = NoGesture
        /\ book' = [book EXCEPT !.undo = Kept(gesture, ink')]
        /\ UNCHANGED <<views, leaf>>
    BY DEF PointerUp, Release
  <1>2. InkOK(ink', gesture, book) /\ Stands(ink, ink', gesture)
    BY <1>1, NotebookParts, TracedOK
  <1> DEFINE u == Kept(gesture, ink')
  <1>3. UndoOK(u, ink', book.serial) /\ \A k \in 1 .. Len(u) : Alike(u[k], ink')
    BY <1>1, <1>2, KeptInk
  <1> HIDE DEF u
  <1>4. book' \in Books /\ book'.undo = u /\ book'.serial = book.serial /\ book'.page = book.page /\ book'.dialog = book.dialog
    BY <1>1, <1>3, NotebookParts DEF Books, UndoOK, u
  <1>5. InkOK(ink', NoGesture, book')
    <2>1. ink' \in Inks
      BY <1>2 DEF InkOK
    <2> QED
      BY <1>3, <1>4, <2>1, NoGestureOK
  <1>6. ~gesture'.on
    BY <1>1 DEF NoGesture
  <1> QED
    BY <1>1, <1>2, <1>4, <1>5, <1>6, NotebookParts DEF NotebookInv, Still

\* Ink that was all there before, or still is, stands
LEMMA AlikeStands == ASSUME NEW i, NEW j, NEW g, Alike(i, j) \/ Alike(j, i) PROVE Stands(i, j, g)
  BY DEF Alike, Stands

\* A gesture that is cut off leaves the ink as it found it
LEMMA ToolChangeKeeps ==
    ASSUME NotebookInv, ToolChange
    PROVE  NotebookInv' /\ Stands(ink, ink', gesture)
  <1>1. /\ book' \in Books /\ book'.undo = book.undo /\ book'.serial = book.serial
        /\ book'.page = book.page /\ book'.dialog = book.dialog
    BY NotebookParts DEF ToolChange, Books
  <1>2. gesture' = NoGesture /\ ink' = InkBefore(ink, gesture) /\ UNCHANGED <<views, leaf>>
    BY DEF ToolChange, InkBefore
  <1>3. /\ UndoOK(book.undo, InkBefore(ink, gesture), book.serial) /\ InkBefore(ink, gesture) \in Inks
        /\ gesture.on => Alike(gesture.before, ink)
    BY NotebookParts DEF InkOK, UndoOK
  <1>4. \A k \in 1 .. Len(book.undo) : Alike(book.undo[k], InkBefore(ink, gesture))
    BY <1>3 DEF UndoOK
  <1>5. InkOK(ink', NoGesture, book')
    BY <1>1, <1>2, <1>3, <1>4, NoGestureOK
  <1>6. Stands(ink, ink', gesture)
    BY <1>2, <1>3 DEF InkBefore, Alike, Stands
  <1>7. ~gesture'.on
    BY <1>2 DEF NoGesture
  <1> QED
    BY <1>1, <1>2, <1>5, <1>6, <1>7, NotebookParts DEF NotebookInv, Still

LEMMA UndoInkKeeps ==
    ASSUME NotebookInv, UndoInk
    PROVE  NotebookInv' /\ Stands(ink, ink', gesture)
  <1> DEFINE u == book.undo
             shorter == SubSeq(u, 1, Len(u) - 1)
  <1>1. /\ u # <<>> /\ gesture' = NoGesture /\ ink' = u[Len(u)]
        /\ book' = [book EXCEPT !.undo = shorter] /\ UNCHANGED <<views, leaf>>
    BY DEF UndoInk
  <1>2. /\ u \in Seq(Inks) /\ Len(u) \in Nat \ {0} /\ Len(u) <= MaxUndo
        /\ \A k \in 1 .. Len(u) : Within(u[k], book.serial) /\ Alike(u[k], ink)
        /\ \A k, m \in 1 .. Len(u) : Alike(u[k], u[m])
        /\ \A k \in 1 .. Len(u) : k + 1 \in 1 .. Len(u) => u[k] # u[k + 1]
    <2>1. u \in Seq(Inks) /\ Len(u) \in Nat /\ (Len(u) = 0 => u = <<>>)
      BY NotebookParts, EmptySeq
    <2> QED
      BY <1>1, <2>1, NotebookParts DEF InkOK, UndoOK
  <1>3. /\ shorter \in Seq(Inks) /\ Len(shorter) = Len(u) - 1
        /\ \A k \in 1 .. Len(shorter) : shorter[k] = u[k] /\ k \in 1 .. Len(u) /\ k + 1 \in 1 .. Len(u)
    BY <1>2, SubSeqProperties
  <1>4. Len(u) \in 1 .. Len(u) /\ Len(shorter) \in Nat /\ Len(shorter) <= MaxUndo
    BY <1>2, <1>3, NotebookAssumption
  <1>5. ink' \in Inks /\ Within(ink', book.serial) /\ Alike(ink', ink)
    BY <1>1, <1>2, <1>4
  <1> HIDE DEF shorter
  <1>6. shorter # <<>> => shorter[Len(shorter)] # ink'
    <2>1. shorter # <<>> => Len(shorter) \in 1 .. Len(shorter)
      BY <1>3, <1>4, EmptySeq
    <2> QED
      BY <1>1, <1>2, <1>3, <1>4, <2>1
  <1>7. \A k \in 1 .. Len(shorter) : /\ Within(shorter[k], book.serial) /\ Alike(shorter[k], ink')
                                     /\ \A m \in 1 .. Len(shorter) : Alike(shorter[k], shorter[m])
                                     /\ k + 1 \in 1 .. Len(shorter) => shorter[k] # shorter[k + 1]
    BY <1>1, <1>2, <1>3, <1>4
  <1>8. UndoOK(shorter, ink', book.serial)
    BY <1>3, <1>4, <1>5, <1>6, <1>7 DEF UndoOK
  <1>9. /\ book' \in Books /\ book'.undo = shorter /\ book'.serial = book.serial
        /\ book'.page = book.page /\ book'.dialog = book.dialog
    BY <1>1, <1>3, NotebookParts DEF Books
  <1>10. InkOK(ink', NoGesture, book')
    BY <1>5, <1>7, <1>8, <1>9, NoGestureOK
  <1>11. Stands(ink, ink', gesture) /\ ~gesture'.on
    BY <1>1, <1>5, AlikeStands DEF NoGesture
  <1> QED
    BY <1>1, <1>9, <1>10, <1>11, NotebookParts DEF NotebookInv, Still

\* The leaf is sent after the page
LEMMA FlipKeeps ==
    ASSUME NotebookInv, Flip
    PROVE  NotebookInv' /\ Stands(ink, ink', gesture)
  <1>1. PICK next \in Columns :
           /\ next # book.page /\ Reachable(book.page)
           /\ leaf' = TurnTo(leaf, next) /\ gesture' = NoGesture
           /\ book' = [book EXCEPT !.page = next, !.undo = IF gesture.on THEN Kept(gesture, ink) ELSE book.undo]
           /\ UNCHANGED <<views, ink>>
    <2>1. \E t \in Columns : t # book.page
      BY DEF Columns
    <2> QED
      BY <2>1 DEF Flip
  <1> DEFINE u == IF gesture.on THEN Kept(gesture, ink) ELSE book.undo
  <1>2. UndoOK(u, ink, book.serial) /\ \A k \in 1 .. Len(u) : Alike(u[k], ink)
    <2>1. CASE gesture.on
      BY <2>1, NotebookParts, KeptInk
    <2>2. CASE ~gesture.on
      BY <2>2, NotebookParts DEF InkOK, InkBefore
    <2> QED
      BY <2>1, <2>2
  <1> HIDE DEF u
  <1>3. u \in Seq(Inks)
    BY <1>2 DEF UndoOK
  <1>4. /\ book' \in Books /\ book'.undo = u /\ book'.serial = book.serial
        /\ book'.page = next /\ book'.dialog = book.dialog
    BY <1>1, <1>3, NotebookParts DEF Books, u
  <1>5. InkOK(ink', NoGesture, book')
    BY <1>1, <1>2, <1>4, NotebookParts, NoGestureOK
  <1>6. LeafOK(leaf', views', book'.page)
    BY <1>1, <1>4, NotebookParts, ReachableIsSeen, TurnedOK
  <1>7. ~gesture'.on /\ book'.dialog # "closed"
    BY <1>1, <1>4 DEF NoGesture, Reachable
  <1>8. Stands(ink, ink', gesture)
    BY <1>1 DEF Stands
  <1> QED
    BY <1>1, <1>5, <1>6, <1>7, <1>8, NotebookParts DEF NotebookInv, Still

LEMMA LeafFrameKeeps ==
    ASSUME NotebookInv, LeafFrame
    PROVE  NotebookInv' /\ Stands(ink, ink', gesture)
  <1> DEFINE l == StepHinge(leaf)
  <1>1. leaf.on /\ leaf' \in {l, SettleLeaf(l)} /\ UNCHANGED <<views, ink, gesture, book>>
    BY DEF LeafFrame
  <1>2. LeafOK(l, views, book.page) /\ book.page \in Columns
    BY <1>1, NotebookParts, Stepped
  <1> HIDE DEF l
  <1>3. LeafOK(leaf', views, book.page)
    BY <1>1, <1>2, Settled
  <1>4. ~gesture.on /\ book.dialog # "closed"
    BY <1>1, NotebookParts DEF Still
  <1>5. Stands(ink, ink', gesture)
    BY <1>1 DEF Stands
  <1> QED
    BY <1>1, <1>3, <1>4, <1>5, NotebookParts DEF NotebookInv, Still

\* The surfaces and the leaf move, and the page stays
LEMMA ReaderKeeps ==
    ASSUME NotebookInv, UNCHANGED <<ink, gesture>>, book' \in Books, book'.undo = book.undo,
           book'.serial = book.serial, book'.page = book.page,
           ViewsOK(views'), LeafOK(leaf', views', book.page), leaf'.on => leaf.on, Still'
    PROVE  NotebookInv' /\ Stands(ink, ink', gesture)
  <1>1. InkOK(ink, gesture, book)' /\ Stands(ink, ink', gesture)
    BY NotebookParts, InkRests
  <1> QED
    BY <1>1, NotebookParts DEF NotebookInv

LEMMA ReaderActionsKeep ==
    ASSUME NotebookInv,
           (\E item \in Items : ToggleTool(item)) \/ Faded \/ CloseReader \/ ReaderClosed \/ OpenReader \/ Disturbed
    PROVE  NotebookInv' /\ Stands(ink, ink', gesture)
  <1>1. /\ ViewsOK(views) /\ LeafOK(leaf, views, book.page) /\ Still /\ book \in Books /\ book.page \in Columns
        /\ LeafOK(SettleLeaf(leaf), views', book.page) /\ ~SettleLeaf(leaf).on
    BY NotebookParts, Settled
  <1>2. /\ ViewsOK(FinishViews(views)) /\ FinishViews(views).view = views.view
        /\ FinishViews(views).saved = Nothing /\ ~FinishViews(views).moving
    BY <1>1, Finished, FinishedOK
  <1>a. LeafOK(leaf, FinishViews(views), book.page)
    BY <1>1, <1>2 DEF LeafOK
  <1>3. ASSUME NEW item \in Items, ToggleTool(item) PROVE NotebookInv' /\ Stands(ink, ink', gesture)
    <2>1. PICK next \in {"both"} \cup Items : views' = Show(views, next)
      BY <1>3 DEF ToggleTool, Items
    <2>2. ViewsOK(views')
      BY <1>1, <2>1, ShownOK
    <2>3. /\ leaf' = SettleLeaf(leaf) /\ UNCHANGED <<ink, gesture, book>> /\ book.dialog = "open"
      BY <1>3 DEF ToggleTool
    <2>4. Still'
      BY <2>3 DEF Still
    <2> QED
      BY <1>1, <2>2, <2>3, <2>4, ReaderKeeps
  <1>4. CASE Faded
    <2>1. views' = FinishViews(views) /\ UNCHANGED <<leaf, ink, gesture, book>>
      BY <1>4 DEF Faded
    <2>2. Still'
      BY <1>1, <1>2, <2>1 DEF Still
    <2> QED
      BY <1>1, <1>2, <1>a, <2>1, <2>2, ReaderKeeps
  <1>5. CASE CloseReader
    <2>1. views' = [views EXCEPT !.moving = FALSE] /\ leaf' = SettleLeaf(leaf) /\ UNCHANGED <<ink, gesture>>
      BY <1>5 DEF CloseReader, FreezeForExit
    <2>2. ViewsOK(views')
      BY <1>1, <2>1 DEF ViewsOK, Views
    <2>3. /\ book' \in Books /\ book'.undo = book.undo /\ book'.serial = book.serial
          /\ book'.page = book.page /\ book'.dialog = "exiting"
      BY <1>1, <1>5 DEF CloseReader, Books
    <2>4. Still'
      BY <2>3 DEF Still
    <2> QED
      BY <1>1, <2>1, <2>2, <2>3, <2>4, ReaderKeeps
  <1>6. CASE ReaderClosed
    <2>1. views' = FinishViews(views) /\ leaf' = SettleLeaf(leaf) /\ UNCHANGED <<ink, gesture>>
      BY <1>6 DEF ReaderClosed
    <2>2. /\ book' \in Books /\ book'.undo = book.undo /\ book'.serial = book.serial /\ book'.page = book.page
      BY <1>1, <1>6 DEF ReaderClosed, Books
    <2>3. Still'
      BY <1>1, <1>2, <2>1 DEF Still
    <2> QED
      BY <1>1, <1>2, <2>1, <2>2, <2>3, ReaderKeeps
  <1>7. CASE OpenReader
    <2>1. views' = FinishViews(views) /\ UNCHANGED <<leaf, ink, gesture>>
      BY <1>7 DEF OpenReader
    <2>2. /\ book' \in Books /\ book'.undo = book.undo /\ book'.serial = book.serial
          /\ book'.page = book.page /\ book'.dialog = "open"
      BY <1>1, <1>7 DEF OpenReader, Books
    <2>3. Still'
      BY <2>2 DEF Still
    <2> QED
      BY <1>1, <1>2, <1>a, <2>1, <2>2, <2>3, ReaderKeeps
  <1>8. CASE Disturbed
    <2>1. views' = FinishViews(views) /\ leaf' = SettleLeaf(leaf) /\ UNCHANGED <<ink, gesture>>
      BY <1>8 DEF Disturbed
    <2>2. /\ book' \in Books /\ book'.undo = book.undo /\ book'.serial = book.serial /\ book'.page = book.page
      BY <1>1, <1>8 DEF Disturbed, Books
    <2>3. Still'
      BY <1>1, <1>2, <2>1 DEF Still
    <2> QED
      BY <1>1, <1>2, <2>1, <2>2, <2>3, ReaderKeeps
  <1> QED
    BY <1>3, <1>4, <1>5, <1>6, <1>7, <1>8

\* The reader is closed and the pages are empty
LEMMA NotebookBegins == NotebookInit => NotebookInv
  <1> SUFFICES ASSUME NotebookInit PROVE NotebookInv
    OBVIOUS
  <1>1. ViewsOK(views) /\ views.saved = Nothing /\ ~views.moving
    <2>1. views = [view |-> "both", moving |-> FALSE, inert |-> [i \in Items |-> FALSE], saved |-> Nothing]
      BY DEF NotebookInit
    <2>2. [i \in Items |-> FALSE] \in [Items -> BOOLEAN]
      OBVIOUS
    <2> QED
      BY <2>1, <2>2, NothingIsMarks DEF ViewsOK, Views
  <1>2. LeafOK(leaf, views, book.page) /\ ~leaf.on
    <2> DEFINE none == [t \in Columns |-> FALSE]
    <2>1. leaf = [on |-> FALSE, at |-> 0, speed |-> 0, target |-> 0, saved |-> none, inert |-> none]
      BY DEF NotebookInit
    <2>2. none \in [Columns -> BOOLEAN] /\ \A t \in Columns : ~none[t]
      OBVIOUS
    <2>3. 0 \in 0 .. Hinge /\ 0 \in -1 .. 1
      BY NotebookAssumption
    <2> HIDE DEF none
    <2> QED
      BY <2>1, <2>2, <2>3 DEF LeafOK, Leaves
  <1>3. InkOK(ink, gesture, book) /\ ~gesture.on
    <2>1. book \in Books /\ book.undo = <<>>
      <3>1. <<>> \in Seq(Inks) /\ 0 \in 0 .. MaxGestures
        BY NotebookAssumption
      <3> QED
        BY <3>1 DEF NotebookInit, Books
    <2>2. ink \in Inks /\ \A t \in Columns : DOMAIN ink[t] = {}
      <3>1. <<>> \in [{} -> 1 .. 2] /\ DOMAIN <<>> = {}
        OBVIOUS
      <3>2. <<>> \in Strokes
        BY <3>1 DEF Strokes
      <3> QED
        BY <3>1, <3>2 DEF NotebookInit, Inks
    <2>3. UndoOK(book.undo, ink, book.serial)
      BY <2>1, <2>2, NotebookAssumption DEF UndoOK, Within
    <2>4. gesture = NoGesture
      BY DEF NotebookInit
    <2>5. \A k \in 1 .. Len(book.undo) : Alike(book.undo[k], ink)
      BY <2>1
    <2>6. InkOK(ink, NoGesture, book)
      BY <2>1, <2>2, <2>3, <2>5, NoGestureOK
    <2> QED
      BY <2>4, <2>6 DEF NoGesture
  <1>4. Still
    BY <1>1, <1>2 DEF Still
  <1> QED
    BY <1>1, <1>2, <1>3, <1>4 DEF NotebookInv

LEMMA NotebookStep ==
    ASSUME NotebookInv, [NotebookNext]_notebookVars
    PROVE  NotebookInv' /\ Stands(ink, ink', gesture)
  <1>1. CASE UNCHANGED notebookVars
    BY <1>1 DEF notebookVars, NotebookInv, Still, Stands
  <1>2. CASE NotebookNext
    BY <1>2, StartDrawingKeeps, MoveDrawingKeeps, PointerUpKeeps, ToolChangeKeeps, UndoInkKeeps, FlipKeeps,
       LeafFrameKeeps, ReaderActionsKeep DEF NotebookNext
  <1> QED
    BY <1>1, <1>2

\* What the invariant says of the runs' property
LEMMA NotebookKept ==
    NotebookInv => NotebookTypeOK /\ OnlyLeavingIsInert /\ LeafLandsOnThePage /\ DrawsOnTheOpenPage /\ UndoUndoes /\ ClosedIsStill
  <1> SUFFICES ASSUME NotebookInv
               PROVE  /\ NotebookTypeOK /\ OnlyLeavingIsInert /\ LeafLandsOnThePage
                      /\ DrawsOnTheOpenPage /\ UndoUndoes /\ ClosedIsStill
    OBVIOUS
  <1>1. NotebookTypeOK
    <2>1. views.view \in {"both"} \cup Items /\ views.moving \in BOOLEAN /\ DOMAIN views.saved \subseteq Items
      <3>1. views \in Views
        BY NotebookParts DEF ViewsOK
      <3>2. views.saved \in Marks
        BY <3>1 DEF Views
      <3>3. DOMAIN views.saved \subseteq Items
        BY <3>2 DEF Marks
      <3> QED
        BY <3>1, <3>3 DEF Views
    <2>2. leaf.on \in BOOLEAN /\ leaf.at \in 0 .. Hinge /\ leaf.target \in {0, Hinge} /\ leaf.speed \in -1 .. 1
      BY NotebookParts DEF LeafOK, Leaves
    <2>3. \A t \in Columns : DOMAIN ink[t] \subseteq 1 .. MaxGestures /\ Range(ink[t]) \subseteq 1 .. 2
      <3>1. \A t \in Columns : ink[t] \in Strokes
        BY NotebookParts DEF Inks
      <3> QED
        BY <3>1, StrokesAre DEF Range
    <2>4. book.tool \in {"type", "pen", "eraser"} /\ Len(book.undo) <= MaxUndo /\ book.serial \in 0 .. MaxGestures
      BY NotebookParts DEF Books, InkOK, UndoOK
    <2> QED
      BY <2>1, <2>2, <2>3, <2>4 DEF NotebookTypeOK
  <1>2. OnlyLeavingIsInert
    BY NotebookParts DEF ViewsOK, OnlyLeavingIsInert
  <1>3. LeafLandsOnThePage
    BY NotebookParts DEF LeafOK, LeafLandsOnThePage, OnScreen
  <1>4. DrawsOnTheOpenPage
    BY NotebookParts DEF InkOK, DrawsOnTheOpenPage
  <1>5. UndoUndoes
    <2> DEFINE now == InkBefore(ink, gesture)
               u == book.undo
               history == Append(u, now)
    <2>1. /\ u \in Seq(Inks) /\ now \in Inks /\ (u # <<>> => u[Len(u)] # now)
          /\ \A k \in 1 .. Len(u) : k + 1 \in 1 .. Len(u) => u[k] # u[k + 1]
      BY NotebookParts DEF InkOK, UndoOK
    <2> HIDE DEF now, u
    <2>2. /\ Len(u) \in Nat /\ history[Len(u) + 1] = now
          /\ \A k \in 1 .. Len(u) : history[k] = u[k]
      BY <2>1
    <2> HIDE DEF history
    <2>3. ASSUME NEW i \in 1 .. Len(u) PROVE history[i] # history[i + 1]
      <3>1. CASE i = Len(u)
        <4>1. u # <<>>
          BY <2>2, <2>3, <3>1
        <4> QED
          BY <2>1, <2>2, <3>1, <4>1
      <3>2. CASE i # Len(u)
        <4>1. i + 1 \in 1 .. Len(u)
          BY <2>2, <3>2
        <4> QED
          BY <2>1, <2>2, <4>1
      <3> QED
        BY <3>1, <3>2
    <2> QED
      BY <2>3 DEF UndoUndoes, history, u, now, InkBefore
  <1>6. ClosedIsStill
    BY NotebookParts DEF Still, ClosedIsStill
  <1> QED
    BY <1>1, <1>2, <1>3, <1>4, <1>5, <1>6

-----------------------------------------------------------------------------
(***************************************************************************)
(* The written notes: every note has a number that was used before the     *)
(* next one, and only a page that is written on has a drag.                *)
(***************************************************************************)
NoteIds == DOMAIN margin.notes
Margins == [notes : UNION {[S -> Int] : S \in SUBSET (0 .. MaxNotes - 1)}, serial : 0 .. MaxNotes,
            used : SUBSET (0 .. MaxNotes - 1), size : 1 .. Paper - 2 * Inset]
Drags == [on : BOOLEAN, id : 0 .. MaxNotes, start : Int, origin : Int]
Hands == [enabled : BOOLEAN, holds : {"nothing", "paper", "grip"}]

WritingTypes == margin \in Margins /\ drag \in Drags /\ writer \in Hands
Numbered == /\ margin.used \subseteq 0 .. margin.serial - 1 /\ NoteIds \subseteq margin.used
            /\ drag.on => drag.id < margin.serial
Pencilled == drag.on => writer.enabled

WritingInv == WritingTypes /\ NotesAreOnThePaper /\ Numbered /\ Pencilled /\ GripComesFree

\* What a step does to the notes that are there, and to the numbers of new ones
Careful == /\ \A id \in DOMAIN margin'.notes \ NoteIds : id \notin margin.used
           /\ drag.on /\ ~writer'.enabled /\ drag.id \in DOMAIN margin'.notes
                 => margin'.notes[drag.id] = Contain(drag.origin, margin.size) /\ ~drag'.on

\* A note that is kept on the paper is on the paper
LEMMA ContainIsIn ==
    ASSUME NEW x \in Int, NEW size \in 1 .. Paper - 2 * Inset
    PROVE  /\ Contain(x, size) \in Int /\ Contain(x, size) \in Inset .. Paper - Inset - size
           /\ Inset \in Int
  BY WritingAssumption DEF Contain, Inset

\* Places on the paper are a margin again
LEMMA PlacedNotes ==
    ASSUME NEW S \in SUBSET (0 .. MaxNotes - 1), NEW size \in 1 .. Paper - 2 * Inset, NEW f,
           f = [id \in S |-> f[id]], \A id \in S : f[id] \in Inset .. Paper - Inset - size
    PROVE  f \in UNION {[T -> Int] : T \in SUBSET (0 .. MaxNotes - 1)} /\ DOMAIN f = S
  <1>1. \A id \in S : f[id] \in Int
    BY WritingAssumption DEF Inset
  <1>2. f \in [S -> Int]
    BY <1>1
  <1> QED
    BY <1>2

\* What a margin is
LEMMA MarginParts ==
    ASSUME margin \in Margins
    PROVE  /\ NoteIds \in SUBSET (0 .. MaxNotes - 1) /\ margin.notes = [id \in NoteIds |-> margin.notes[id]]
           /\ \A id \in NoteIds : margin.notes[id] \in Int
           /\ margin.size \in 1 .. Paper - 2 * Inset /\ margin.serial \in 0 .. MaxNotes
           /\ margin.used \in SUBSET (0 .. MaxNotes - 1)
  <1>1. PICK S \in SUBSET (0 .. MaxNotes - 1) : margin.notes \in [S -> Int]
    BY DEF Margins
  <1>2. NoteIds = S
    BY <1>1 DEF NoteIds
  <1> QED
    BY <1>1, <1>2 DEF Margins

\* Notes that were placed on the paper anew, the drag and the numbers as they stand
LEMMA Replaced ==
    ASSUME WritingInv, NEW f, NEW S \in SUBSET NoteIds, f = [id \in S |-> f[id]],
           NEW size \in 1 .. Paper - 2 * Inset, \A id \in S : f[id] \in Inset .. Paper - Inset - size,
           margin' = [margin EXCEPT !.notes = f, !.size = size],
           drag' \in Drags, writer' \in Hands, drag' = drag \/ ~drag'.on,
           drag'.on => writer'.enabled /\ (writer'.holds = "grip" \/ drag.id \notin S)
    PROVE  WritingInv' /\ \A id \in DOMAIN margin'.notes \ NoteIds : id \notin margin.used
  <1>1. /\ NoteIds \in SUBSET (0 .. MaxNotes - 1) /\ margin.serial \in 0 .. MaxNotes /\ margin \in Margins
        /\ margin.used \in SUBSET (0 .. MaxNotes - 1)
    BY MarginParts DEF WritingInv, WritingTypes
  <1>2. f \in UNION {[T -> Int] : T \in SUBSET (0 .. MaxNotes - 1)} /\ DOMAIN f = S
    BY <1>1, PlacedNotes
  <1>3. margin'.notes = f /\ margin'.size = size /\ margin'.serial = margin.serial /\ margin'.used = margin.used
        /\ margin' \in Margins
    BY <1>1, <1>2 DEF Margins
  <1>4. WritingTypes'
    BY <1>3 DEF WritingTypes
  <1>5. NotesAreOnThePaper'
    BY <1>2, <1>3 DEF NotesAreOnThePaper
  <1>6. Numbered'
    BY <1>1, <1>2, <1>3 DEF Numbered, NoteIds, WritingInv, WritingTypes, Drags
  <1>7. Pencilled' /\ GripComesFree'
    BY <1>2, <1>3 DEF Pencilled, GripComesFree
  <1> QED
    BY <1>2, <1>3, <1>4, <1>5, <1>6, <1>7 DEF WritingInv

\* The notes rest and the hand does something
LEMMA NotesRest ==
    ASSUME WritingInv, margin' = margin, drag' \in Drags, writer' \in Hands,
           drag'.on => drag'.id < margin.serial /\ writer'.enabled
                       /\ (writer'.holds = "grip" \/ drag'.id \notin NoteIds),
           drag.on => writer'.enabled
    PROVE  WritingInv' /\ Careful
  BY DEF WritingInv, WritingTypes, NotesAreOnThePaper, Numbered, Pencilled, GripComesFree, NoteIds, Careful

\* A press on the paper
LEMMA PressPaperKeeps == ASSUME WritingInv, PressPaper PROVE WritingInv' /\ Careful
  <1>1. writer' \in Hands /\ writer'.enabled /\ writer.holds = "nothing"
    BY DEF PressPaper, WritingInv, WritingTypes, Hands
  <1> QED
    BY <1>1, NotesRest DEF PressPaper, WritingInv, WritingTypes, Numbered, GripComesFree, NoteIds

\* A note is put down
LEMMA PutDownKeeps == ASSUME WritingInv, PutDown PROVE WritingInv' /\ Careful
  <1>1. PICK x \in 0 .. Paper, click \in BOOLEAN :
           /\ click => writer.holds = "paper"
           /\ margin' = [margin EXCEPT !.serial = @ + 1, !.used = @ \union {NewId},
                                       !.notes = Noted(@, NewId, Contain(x, margin.size))]
           /\ writer' = IF click THEN [writer EXCEPT !.holds = "nothing"] ELSE writer
    BY DEF PutDown
  <1>2. /\ writer.enabled /\ margin.serial < MaxNotes /\ drag' = drag
    BY DEF PutDown
  <1>3. /\ NoteIds \in SUBSET (0 .. MaxNotes - 1) /\ margin.notes = [id \in NoteIds |-> margin.notes[id]]
        /\ margin.size \in 1 .. Paper - 2 * Inset /\ margin.serial \in 0 .. MaxNotes
        /\ margin.used \in SUBSET (0 .. MaxNotes - 1) /\ margin \in Margins /\ drag \in Drags /\ writer \in Hands
    BY MarginParts DEF WritingInv, WritingTypes
  <1> DEFINE at == Contain(x, margin.size)
             f == Noted(margin.notes, NewId, at)
             S == NoteIds \cup {NewId}
  <1>4. at \in Inset .. Paper - Inset - margin.size
    BY <1>3, ContainIsIn, WritingAssumption
  <1>5. f = [id \in S |-> f[id]] /\ f[NewId] = at /\ \A id \in NoteIds : id # NewId => f[id] = margin.notes[id]
    BY DEF Noted, NoteIds
  <1>6. NewId = margin.serial /\ NewId \in 0 .. MaxNotes - 1 /\ NewId \notin margin.used /\ NewId \notin NoteIds
    BY <1>2, <1>3, WritingAssumption DEF NewId, WritingInv, Numbered
  <1>7. margin' = [margin EXCEPT !.serial = margin.serial + 1, !.used = margin.used \cup {NewId}, !.notes = f]
    BY <1>1
  <1> HIDE DEF at, f
  <1>8. \A id \in S : f[id] \in Inset .. Paper - Inset - margin.size
    BY <1>4, <1>5 DEF NoteIds, WritingInv, NotesAreOnThePaper
  <1>9. S \in SUBSET (0 .. MaxNotes - 1)
    BY <1>3, <1>6
  <1> HIDE DEF S
  <1>10. f \in UNION {[T -> Int] : T \in SUBSET (0 .. MaxNotes - 1)} /\ DOMAIN f = S
    BY <1>3, <1>5, <1>8, <1>9, PlacedNotes
  <1>11. /\ margin'.notes = f /\ margin'.size = margin.size /\ margin'.serial = margin.serial + 1
         /\ margin'.used = margin.used \cup {NewId}
    BY <1>3, <1>7 DEF Margins
  <1>12. margin.serial + 1 \in 0 .. MaxNotes /\ margin.used \cup {NewId} \in SUBSET (0 .. MaxNotes - 1)
    BY <1>2, <1>3, <1>6, WritingAssumption
  <1>13. margin' \in Margins
    BY <1>3, <1>7, <1>10, <1>12 DEF Margins
  <1>14. writer' \in Hands /\ writer'.enabled
    BY <1>1, <1>2, <1>3 DEF Hands
  <1>15. WritingTypes' /\ NotesAreOnThePaper'
    BY <1>2, <1>3, <1>8, <1>10, <1>11, <1>13, <1>14 DEF WritingTypes, NotesAreOnThePaper
  <1>16. Numbered'
    <2>1. margin'.used \subseteq 0 .. margin'.serial - 1
      BY <1>3, <1>6, <1>11 DEF WritingInv, Numbered
    <2>2. NoteIds' \subseteq margin'.used
      BY <1>10, <1>11 DEF NoteIds, S, WritingInv, Numbered
    <2>3. drag'.on => drag'.id < margin'.serial
      BY <1>2, <1>3, <1>11 DEF Drags, WritingInv, Numbered
    <2> QED
      BY <2>1, <2>2, <2>3 DEF Numbered
  <1>17. Pencilled'
    BY <1>14 DEF Pencilled
  <1>18. GripComesFree'
    <2>1. drag.on => drag.id # NewId
      BY <1>3, <1>6 DEF Drags, WritingInv, Numbered
    <2>2. drag.on => writer.holds = "grip" \/ drag.id \notin NoteIds
      BY DEF WritingInv, GripComesFree, NoteIds
    <2>3. writer.holds = "grip" => writer'.holds = "grip"
      BY <1>1, <1>3
    <2> QED
      BY <1>2, <1>10, <1>11, <2>1, <2>2, <2>3 DEF GripComesFree, S
  <1>19. Careful
    BY <1>6, <1>10, <1>11, <1>14 DEF Careful, S
  <1> QED
    BY <1>15, <1>16, <1>17, <1>18, <1>19 DEF WritingInv

\* A grip is taken
LEMMA StartDragKeeps == ASSUME WritingInv, NEW id \in NoteIds, StartDrag(id) PROVE WritingInv' /\ Careful
  <1>1. PICK point \in {0, Paper} : drag' = [on |-> TRUE, id |-> id, start |-> point, origin |-> margin.notes[id]]
    BY DEF StartDrag
  <1>2. /\ writer.enabled /\ margin' = margin /\ writer' = [writer EXCEPT !.holds = "grip"]
    BY DEF StartDrag
  <1>3. writer' \in Hands /\ writer'.enabled /\ writer'.holds = "grip"
    BY <1>2 DEF WritingInv, WritingTypes, Hands
  <1>4. id \in 0 .. MaxNotes - 1 /\ margin.notes[id] \in Int /\ id < margin.serial
    BY MarginParts DEF WritingInv, WritingTypes, Numbered
  <1>5. drag' \in Drags /\ drag'.id = id
    BY <1>1, <1>4, WritingAssumption DEF Drags
  <1> QED
    BY <1>2, <1>3, <1>4, <1>5, NotesRest

\* One note is somewhere else on the paper
LEMMA OneMoved ==
    ASSUME WritingInv, NEW id \in NoteIds, NEW x \in Int,
           margin' = [margin EXCEPT !.notes[id] = Contain(x, margin.size)], drag' = drag, writer' = writer,
           writer.enabled
    PROVE  WritingInv' /\ Careful
  <1>1. /\ NoteIds \in SUBSET (0 .. MaxNotes - 1) /\ margin.notes = [i \in NoteIds |-> margin.notes[i]]
        /\ margin.size \in 1 .. Paper - 2 * Inset /\ margin \in Margins /\ drag \in Drags /\ writer \in Hands
    BY MarginParts DEF WritingInv, WritingTypes
  <1> DEFINE at == Contain(x, margin.size)
             f == [margin.notes EXCEPT ![id] = at]
  <1>2. at \in Inset .. Paper - Inset - margin.size
    BY <1>1, ContainIsIn
  <1>3. margin' = [margin EXCEPT !.notes = f]
    BY <1>1 DEF Margins
  <1>4. margin' = [margin EXCEPT !.notes = f, !.size = margin.size]
    BY <1>1, <1>3 DEF Margins
  <1> HIDE DEF at
  <1>5. f = [i \in NoteIds |-> f[i]] /\ \A i \in NoteIds : f[i] = IF i = id THEN at ELSE margin.notes[i]
    BY <1>1
  <1> HIDE DEF f
  <1>6. \A i \in NoteIds : f[i] \in Inset .. Paper - Inset - margin.size
    BY <1>2, <1>5 DEF NoteIds, WritingInv, NotesAreOnThePaper
  <1>7. drag.on => writer.enabled /\ (writer.holds = "grip" \/ drag.id \notin NoteIds)
    BY DEF WritingInv, GripComesFree, Pencilled, NoteIds
  <1>8. WritingInv' /\ \A i \in DOMAIN margin'.notes \ NoteIds : i \notin margin.used
    BY <1>1, <1>4, <1>5, <1>6, <1>7, Replaced
  <1> QED
    BY <1>8 DEF Careful

\* The note under the hand follows it
LEMMA MoveDragKeeps == ASSUME WritingInv, MoveDrag PROVE WritingInv' /\ Careful
  <1>1. PICK point \in 0 .. Paper : margin' = [margin EXCEPT !.notes[drag.id] = Moved(drag, point, margin.size)]
    BY DEF MoveDrag
  <1>2. drag.on /\ drag.id \in NoteIds /\ drag' = drag /\ writer' = writer /\ writer.enabled
    BY DEF MoveDrag, Gripped, NoteIds, WritingInv, Pencilled
  <1> DEFINE x == drag.origin + point - drag.start
             here == drag.id
  <1>3. x \in Int
    BY WritingAssumption DEF WritingInv, WritingTypes, Drags
  <1>4. margin' = [margin EXCEPT !.notes[here] = Contain(x, margin.size)] /\ here \in NoteIds
    BY <1>1, <1>2 DEF Moved
  <1> HIDE DEF x, here
  <1> QED
    BY <1>2, <1>3, <1>4, OneMoved

\* A note is moved by a key
LEMMA NudgeKeeps == ASSUME WritingInv, NEW id \in NoteIds, Nudge(id) PROVE WritingInv' /\ Careful
  <1>1. PICK step \in {-1, 1} : margin' = [margin EXCEPT !.notes[id] = Contain(@ + step, margin.size)]
    BY DEF Nudge
  <1> DEFINE x == margin.notes[id] + step
  <1>2. x \in Int
    BY MarginParts DEF WritingInv, WritingTypes
  <1>3. margin' = [margin EXCEPT !.notes[id] = Contain(x, margin.size)]
    BY <1>1
  <1> HIDE DEF x
  <1> QED
    BY <1>2, <1>3, OneMoved DEF Nudge

\* A note is taken away
LEMMA DeleteKeeps == ASSUME WritingInv, NEW id \in NoteIds, Delete(id) PROVE WritingInv' /\ Careful
  <1>1. /\ margin.size \in 1 .. Paper - 2 * Inset /\ margin \in Margins /\ drag \in Drags /\ writer \in Hands
    BY MarginParts DEF WritingInv, WritingTypes
  <1> DEFINE S == NoteIds \ {id}
             f == [i \in S |-> margin.notes[i]]
  <1>2. margin' = [margin EXCEPT !.notes = f, !.size = margin.size] /\ drag' = drag /\ writer' = writer /\ writer.enabled
    BY <1>1 DEF Delete, Restrict, NoteIds, Margins
  <1>3. S \in SUBSET NoteIds /\ f = [i \in S |-> f[i]]
    OBVIOUS
  <1>4. \A i \in S : f[i] \in Inset .. Paper - Inset - margin.size
    BY DEF NoteIds, WritingInv, NotesAreOnThePaper
  <1>5. drag.on => writer.enabled /\ (writer.holds = "grip" \/ drag.id \notin S)
    BY DEF WritingInv, GripComesFree, Pencilled, NoteIds
  <1> HIDE DEF S, f
  <1>6. WritingInv' /\ \A i \in DOMAIN margin'.notes \ NoteIds : i \notin margin.used
    BY <1>1, <1>2, <1>3, <1>4, <1>5, Replaced
  <1> QED
    BY <1>2, <1>6 DEF Careful

\* All notes are laid out again, one of them put back where it was
LEMMA LaidAgain ==
    ASSUME WritingInv, NEW size \in 1 .. Paper - 2 * Inset, NEW g,
           g = margin.notes \/ g = CutOff(margin.notes, drag),
           margin' = [margin EXCEPT !.notes = Laid(g, size), !.size = size],
           drag' \in Drags, writer' \in Hands, drag' = drag \/ ~drag'.on, writer'.enabled = writer.enabled \/ ~drag'.on,
           writer'.holds = writer.holds \/ ~drag'.on
    PROVE  /\ WritingInv' /\ \A id \in DOMAIN margin'.notes \ NoteIds : id \notin margin.used
           /\ DOMAIN margin'.notes = NoteIds
           /\ drag.on /\ drag.id \in NoteIds /\ g = CutOff(margin.notes, drag)
                 => margin'.notes[drag.id] = Contain(drag.origin, size)
  <1>1. /\ NoteIds \in SUBSET (0 .. MaxNotes - 1) /\ margin.notes = [i \in NoteIds |-> margin.notes[i]]
        /\ \A i \in NoteIds : margin.notes[i] \in Int
        /\ margin \in Margins /\ drag \in Drags /\ drag.origin \in Int
    BY MarginParts DEF WritingInv, WritingTypes, Drags
  <1>2. DOMAIN g = NoteIds /\ \A i \in NoteIds : g[i] \in Int
    BY <1>1 DEF CutOff, NoteIds
  <1>3. drag.on /\ drag.id \in NoteIds /\ g = CutOff(margin.notes, drag) => g[drag.id] = drag.origin
    BY <1>1 DEF CutOff, NoteIds
  <1> DEFINE f == Laid(g, size)
  <1>4. f = [i \in NoteIds |-> f[i]] /\ \A i \in NoteIds : f[i] = Contain(g[i], size)
    BY <1>2 DEF Laid
  <1>5. margin' = [margin EXCEPT !.notes = f, !.size = size]
    OBVIOUS
  <1> HIDE DEF f
  <1>6. \A i \in NoteIds : f[i] \in Inset .. Paper - Inset - size
    BY <1>2, <1>4, ContainIsIn
  <1>7. drag'.on => writer'.enabled /\ (writer'.holds = "grip" \/ drag.id \notin NoteIds)
    BY DEF WritingInv, GripComesFree, Pencilled, NoteIds
  <1>8. WritingInv' /\ \A i \in DOMAIN margin'.notes \ NoteIds : i \notin margin.used
    BY <1>4, <1>5, <1>6, <1>7, Replaced
  <1>9. margin'.notes = f /\ DOMAIN f = NoteIds
    BY <1>1, <1>4, <1>5 DEF Margins
  <1> QED
    BY <1>3, <1>4, <1>8, <1>9

\* The paper has another size
LEMMA PaperResizedKeeps == ASSUME WritingInv, PaperResized PROVE WritingInv' /\ Careful
  <1>1. PICK size \in 1 .. Paper - 2 * Inset : margin' = [margin EXCEPT !.size = size, !.notes = Laid(@, size)]
    BY DEF PaperResized
  <1>2. drag' = drag /\ writer' = writer /\ drag \in Drags /\ writer \in Hands /\ (drag.on => writer.enabled)
    BY DEF PaperResized, WritingInv, WritingTypes, Pencilled
  <1> DEFINE g == margin.notes
  <1>3. margin' = [margin EXCEPT !.notes = Laid(g, size), !.size = size] /\ g = margin.notes
    BY <1>1 DEF WritingInv, WritingTypes, Margins
  <1> HIDE DEF g
  <1>4. WritingInv' /\ \A i \in DOMAIN margin'.notes \ NoteIds : i \notin margin.used
    BY <1>2, <1>3, LaidAgain
  <1> QED
    BY <1>2, <1>4 DEF Careful

\* There is nothing to drag
LEMMA NoDragOK == NoDrag \in Drags /\ ~NoDrag.on
  BY WritingAssumption DEF NoDrag, Drags

\* A note that was dragged and is cut off
LEMMA CutOffKeeps ==
    ASSUME WritingInv, drag' = NoDrag, writer' \in Hands,
           margin' = [margin EXCEPT !.notes = Laid(CutOff(@, drag), margin.size)]
    PROVE  WritingInv' /\ Careful
  <1>1. margin.size \in 1 .. Paper - 2 * Inset /\ margin \in Margins
    BY MarginParts DEF WritingInv, WritingTypes
  <1> DEFINE g == CutOff(margin.notes, drag)
  <1>2. margin' = [margin EXCEPT !.notes = Laid(g, margin.size), !.size = margin.size] /\ g = CutOff(margin.notes, drag)
    BY <1>1 DEF Margins
  <1> HIDE DEF g
  <1>3. /\ WritingInv' /\ \A id \in DOMAIN margin'.notes \ NoteIds : id \notin margin.used
        /\ DOMAIN margin'.notes = NoteIds
        /\ drag.on /\ drag.id \in NoteIds => margin'.notes[drag.id] = Contain(drag.origin, margin.size)
    BY <1>1, <1>2, NoDragOK, LaidAgain
  <1> QED
    BY <1>3, NoDragOK DEF Careful

\* The hand lets go, or the system takes the pointer
LEMMA LetGoKeeps == ASSUME WritingInv, LetGo PROVE WritingInv' /\ Careful
  <1>1. /\ writer' = [writer EXCEPT !.holds = "nothing"] /\ writer' \in Hands /\ writer'.enabled = writer.enabled
    BY DEF LetGo, WritingInv, WritingTypes, Hands
  <1>2. drag.on => writer.enabled
    BY DEF WritingInv, Pencilled
  <1>3. CASE Gripped
    <2>1. drag' = NoDrag
      BY <1>3 DEF LetGo
    <2>2. PICK cancelled \in BOOLEAN :
             margin' = IF cancelled THEN [margin EXCEPT !.notes = Laid(CutOff(@, drag), margin.size)] ELSE margin
      BY <1>3 DEF LetGo
    <2>3. CASE cancelled
      BY <1>1, <2>1, <2>2, <2>3, CutOffKeeps
    <2>4. CASE ~cancelled
      BY <1>1, <1>2, <2>1, <2>2, <2>4, NoDragOK, NotesRest
    <2> QED
      BY <2>3, <2>4
  <1>4. CASE ~Gripped
    <2>1. margin' = margin /\ drag' = drag /\ drag \in Drags
      BY <1>4 DEF LetGo, WritingInv, WritingTypes
    <2>2. drag.on => drag.id < margin.serial /\ drag.id \notin NoteIds
      BY <1>4 DEF Gripped, WritingInv, Numbered, GripComesFree, NoteIds
    <2> QED
      BY <1>1, <1>2, <2>1, <2>2, NotesRest
  <1> QED
    BY <1>3, <1>4

\* The pencil is taken or put back
LEMMA EnableKeeps == ASSUME WritingInv, Enable PROVE WritingInv' /\ Careful
  <1>1. writer' \in Hands /\ writer'.enabled = ~writer.enabled
    BY DEF Enable, WritingInv, WritingTypes, Hands
  <1>2. CASE writer.enabled
    BY <1>1, <1>2, CutOffKeeps DEF Enable
  <1>3. CASE ~writer.enabled
    <2>1. ~drag.on /\ margin' = margin /\ drag' = drag /\ drag \in Drags
      BY <1>3 DEF Enable, WritingInv, WritingTypes, Pencilled
    <2> QED
      BY <1>1, <2>1, NotesRest
  <1> QED
    BY <1>2, <1>3

\* The page begins empty
LEMMA WritingBegins == WritingInit => WritingInv
  <1> SUFFICES ASSUME WritingInit PROVE WritingInv
    OBVIOUS
  <1> DEFINE f == [id \in {} |-> 0]
  <1>1. f \in [{} -> Int] /\ DOMAIN f = {} /\ {} \in SUBSET (0 .. MaxNotes - 1)
    OBVIOUS
  <1>2. margin = [notes |-> f, serial |-> 0, used |-> {}, size |-> 1] /\ drag = NoDrag
        /\ writer = [enabled |-> TRUE, holds |-> "nothing"]
    BY DEF WritingInit
  <1> HIDE DEF f
  <1>3. f \in UNION {[S -> Int] : S \in SUBSET (0 .. MaxNotes - 1)}
    BY <1>1
  <1>4. 0 \in 0 .. MaxNotes /\ 1 \in 1 .. Paper - 2 * Inset
    BY WritingAssumption DEF Inset
  <1>5. margin \in Margins
    BY <1>2, <1>3, <1>4 DEF Margins
  <1>6. WritingTypes
    BY <1>2, <1>5, NoDragOK DEF WritingTypes, Hands
  <1> QED
    BY <1>1, <1>2, <1>6, NoDragOK DEF WritingInv, NotesAreOnThePaper, Numbered, NoteIds, Pencilled, GripComesFree

\* Every step of the page
LEMMA WritingStep == ASSUME WritingInv, [WritingNext]_writingVars PROVE WritingInv' /\ (Careful \/ UNCHANGED writingVars)
  <1>1. CASE UNCHANGED writingVars
    BY <1>1 DEF writingVars, WritingInv, WritingTypes, NotesAreOnThePaper, Numbered, NoteIds, Pencilled, GripComesFree
  <1>2. CASE \E id \in DOMAIN margin.notes : StartDrag(id) \/ Nudge(id) \/ Delete(id)
    BY <1>2, StartDragKeeps, NudgeKeeps, DeleteKeeps DEF NoteIds
  <1>3. \/ PressPaper \/ PutDown \/ MoveDrag \/ LetGo \/ PaperResized \/ Enable
        \/ \E id \in DOMAIN margin.notes : StartDrag(id) \/ Nudge(id) \/ Delete(id)
        \/ UNCHANGED writingVars
    BY DEF WritingNext
  <1> QED
    BY ONLY <1>1, <1>2, <1>3, WritingInv, PressPaperKeeps, PutDownKeeps, MoveDragKeeps, LetGoKeeps, PaperResizedKeeps, EnableKeeps

\* What holds of the notes is what the runs look at
LEMMA WritingKept == WritingInv => WritingTypeOK /\ NotesAreOnThePaper /\ GripComesFree
  <1> SUFFICES ASSUME WritingInv PROVE WritingTypeOK /\ NotesAreOnThePaper /\ GripComesFree
    OBVIOUS
  <1>1. NoteIds \subseteq 0 .. MaxNotes - 1 /\ margin.serial \in 0 .. MaxNotes
    BY MarginParts DEF WritingInv, WritingTypes
  <1>2. drag \in Drags /\ writer \in Hands
    BY DEF WritingInv, WritingTypes
  <1> QED
    BY <1>1, <1>2 DEF WritingInv, WritingTypeOK, NoteIds, Drags, Hands

-----------------------------------------------------------------------------
(***************************************************************************)
(* What the keys may never do: an entry or an answer under a page, a panel *)
(* or the records, and an answer that is not whole.                        *)
(***************************************************************************)
Covered == Reading \/ Records \/ sheets.brief \/ ~frame.powered \/ frame.rear
Acted == told' > told \/ (entry'.code # entry.code /\ entry' # Blank)

\* What a step does, apart from the panel
Guarded == (Acted => ~Covered) /\ WholeAnswers

\* A briefing belongs to a seat that has nothing to do
Briefed == sheets.brief => duty.action = ""
BriefStays == sheets'.brief => sheets.brief

KeysKept == KeysInv /\ Briefed

\* Nothing entered and nothing sent
LEMMA NotActed ==
    ASSUME told \in Nat, told' = told \/ told' = 0, entry'.code = entry.code \/ entry' = Blank
    PROVE  Guarded
  BY DEF Guarded, Acted, WholeAnswers

\* A control is used that nothing covers
LEMMA ActGuarded ==
    ASSUME KeysKept, ~Records, NEW id \in Ids, NEW digit \in Digits \cup {0}, Act(id, digit)
    PROVE  Guarded /\ BriefStays
  <1>a. sheets \in Sheets /\ entry \in Entries /\ told \in Nat /\ frame \in Frames
    BY DEF KeysKept, KeysInv, SheetsOK, EntryOK, SentIsKnown
  <1>1. CASE ~InReach(id)
    BY <1>1, <1>a, NotActed DEF Act, BriefStays
  <1>2. CASE InReach(id) /\ id = "transmit"
    <2>1. SendAnswer
      BY <1>2 DEF Act
    <2>2. BriefStays
      BY <1>a, <2>1 DEF SendAnswer, BriefStays, Sheets
    <2>3. CASE sheets.brief \/ ~PaintedReady
      <3>1. entry' = entry /\ told' = told
        BY <2>1, <2>3 DEF SendAnswer
      <3> QED
        BY <1>a, <2>2, <3>1, NotActed
    <2>4. CASE ~sheets.brief /\ PaintedReady /\ ~Ready
      <3>1. entry' = [entry EXCEPT !.pending = TRUE] /\ told' = told
        BY <2>1, <2>4 DEF SendAnswer
      <3>2. entry'.code = entry.code
        BY <1>a, <3>1 DEF Entries
      <3> QED
        BY <1>a, <2>2, <3>1, <3>2, NotActed
    <2>5. CASE ~sheets.brief /\ PaintedReady /\ Ready
      <3>1. Complete /\ Online /\ ~Reading /\ duty.clock = "runs"
        BY <2>5 DEF PaintedReady, Ready, MayAct
      <3>2. ~Covered
        BY <1>2, <2>5, <3>1 DEF Covered, InReach
      <3> QED
        BY <2>2, <3>1, <3>2 DEF Guarded, WholeAnswers
    <2> QED
      BY <2>2, <2>3, <2>4, <2>5
  <1>3. CASE InReach(id) /\ id = "key"
    <2>1. Key(digit)
      BY <1>3 DEF Act
    <2>2. BriefStays /\ told' = told
      BY <1>a, <2>1 DEF Key, BriefStays, Sheets
    <2>3. CASE ~sheets.manual /\ Guesses /\ MayAct /\ Online /\ ~Reading
      <3>1. ~sheets.brief
        BY <2>3 DEF KeysKept, Briefed, Guesses
      <3>2. ~Covered
        BY <1>3, <2>3, <3>1 DEF Covered, InReach
      <3>3. ~(told' > told)
        BY <1>a, <2>2
      <3> QED
        BY <2>2, <3>2, <3>3 DEF Guarded, WholeAnswers
    <2>4. CASE ~(~sheets.manual /\ Guesses /\ MayAct /\ Online /\ ~Reading)
      <3>1. entry' = entry
        BY <2>1, <2>4 DEF Key
      <3> QED
        BY <1>a, <2>2, <3>1, NotActed
    <2> QED
      BY <2>3, <2>4
  <1>4. CASE InReach(id) /\ id \in Ids \ {"transmit", "key"}
    <2>1. sheets' = Open(id) /\ entry' = entry /\ told' = told
      BY <1>4 DEF Act
    <2>2. BriefStays
      BY <1>4, <1>a, <2>1 DEF Open, BriefStays, Sheets, Ids
    <2> QED
      BY <1>a, <2>1, <2>2, NotActed
  <1> QED
    BY <1>1, <1>2, <1>3, <1>4

\* A key that is pressed over a panel stays with the panel
LEMMA PanelHolds ==
    ASSUME sheets.panel, NEW pressed \in Pressed, Press(pressed)
    PROVE  UNCHANGED <<entry, told>>
  <1>1. PICK focus \in Focuses, digit \in Digits \cup {0} : Handle(Command(pressed, focus), digit)
    BY DEF Press
  <1> DEFINE command == Command(pressed, focus)
  <1>2. Handle(command, digit)
    BY <1>1
  <1> HIDE DEF command
  <1>3. CASE command = "none" \/ sheets.dialog
    BY <1>2, <1>3 DEF Handle
  <1>4. CASE ~(command = "none" \/ sheets.dialog) /\ sheets.open /\ frame.powered
    BY <1>2, <1>4 DEF Handle
  <1>5. CASE ~(command = "none" \/ sheets.dialog) /\ ~(sheets.open /\ frame.powered)
    BY <1>2, <1>5 DEF Handle
  <1> QED
    BY <1>3, <1>4, <1>5

\* A key is pressed
LEMMA PressGuarded ==
    ASSUME KeysKept, NEW pressed \in Pressed, Press(pressed)
    PROVE  Guarded /\ BriefStays
  <1>a. sheets \in Sheets /\ told \in Nat
    BY DEF KeysKept, KeysInv, SheetsOK, SentIsKnown
  <1>1. PICK focus \in Focuses, digit \in Digits \cup {0} : Handle(Command(pressed, focus), digit)
    BY DEF Press
  <1> DEFINE command == Command(pressed, focus)
  <1>2. command \in Ids \cup {"none", "dismiss", "shortcuts", "guide"}
    BY DEF Command, Ids, Pressed
  <1> HIDE DEF command
  <1>3. Handle(command, digit)
    BY <1>1 DEF command
  <1> DEFINE taken == ~(command = "none" \/ sheets.dialog) /\ ~(sheets.open /\ frame.powered)
  <1>r. ASSUME entry' = entry, told' = told, BriefStays PROVE Guarded /\ BriefStays
    BY <1>a, <1>r, NotActed
  <1>4. CASE command = "none" \/ sheets.dialog
    BY <1>3, <1>4, <1>r DEF Handle, BriefStays
  <1>5. CASE ~(command = "none" \/ sheets.dialog) /\ sheets.open /\ frame.powered
    <2>1. entry' = entry /\ told' = told /\ sheets' = [sheets EXCEPT !.open = command \notin {"dismiss", "archive-toggle"}]
      BY <1>3, <1>5 DEF Handle
    <2> QED
      BY <1>a, <1>r, <2>1 DEF BriefStays, Sheets
  <1>6. CASE taken /\ command = "shortcuts"
    <2>1. Help /\ entry' = entry /\ told' = told
      BY <1>3, <1>6 DEF Handle
    <2>2. PICK p \in BOOLEAN : sheets' = [sheets EXCEPT !.panel = p]
      BY <2>1 DEF Help
    <2> QED
      BY <1>a, <1>r, <2>1, <2>2 DEF BriefStays, Sheets
  <1>7. CASE taken /\ command # "shortcuts" /\ sheets.panel
    <2>1. entry' = entry /\ told' = told /\ sheets' = [sheets EXCEPT !.panel = command # "dismiss"]
      BY <1>3, <1>7 DEF Handle
    <2> QED
      BY <1>a, <1>r, <2>1 DEF BriefStays, Sheets
  <1>8. CASE taken /\ command = "dismiss" /\ ~sheets.panel
    <2>1. entry' = entry /\ told' = told /\ sheets' = Dismissed
      BY <1>3, <1>8 DEF Handle
    <2> QED
      BY <1>a, <1>r, <2>1 DEF Dismissed, BriefStays, Sheets
  <1>9. CASE taken /\ command \notin {"dismiss", "shortcuts"} /\ ~sheets.panel
    <2>1. \/ sheets' = sheets /\ entry' = entry /\ told' = told
          \/ frame.powered /\ command # "guide" /\ Act(command, digit)
      BY <1>3, <1>9 DEF Handle
    <2>2. CASE frame.powered /\ command # "guide" /\ Act(command, digit)
      <3>1. ~Records /\ command \in Ids
        BY <1>2, <1>9, <2>2 DEF Records
      <3> QED
        BY <2>2, <3>1, ActGuarded
    <2>3. CASE sheets' = sheets /\ entry' = entry /\ told' = told
      BY <1>r, <2>3 DEF BriefStays
    <2> QED
      BY <2>1, <2>2, <2>3
  <1> QED
    BY <1>4, <1>5, <1>6, <1>7, <1>8, <1>9

\* A hand uses a control
LEMMA ClickGuarded == ASSUME KeysKept, Click PROVE Guarded /\ BriefStays
  <1>1. ~Records /\ \E id \in Ids, digit \in Digits \cup {0} : Act(id, digit)
    BY DEF Click, Ids
  <1> QED
    BY <1>1, ActGuarded

\* Nothing else enters a number or sends an answer
LEMMA OthersGuarded ==
    ASSUME KeysKept,
           PickSlot \/ WriteClues \/ TogglePanel \/ Hardware \/ Sheet
           \/ TimeRunsOut \/ AnswerTaken \/ PeopleChange \/ LineLost \/ Resumed \/ BriefingEnds
    PROVE  Guarded /\ Briefed'
  <1>a. sheets \in Sheets /\ entry \in Entries /\ told \in Nat /\ duty \in Duties
    BY DEF KeysKept, KeysInv, SheetsOK, EntryOK, SentIsKnown
  <1>1. entry'.code = entry.code /\ (told' = told \/ told' = 0)
    <2>1. CASE PickSlot \/ WriteClues \/ AnswerTaken \/ PeopleChange \/ LineLost
      BY <1>a, <2>1 DEF PickSlot, WriteClues, AnswerTaken, PeopleChange, LineLost, Entries
    <2>2. CASE Resumed
      <3>1. PICK took \in BOOLEAN : /\ entry' = [entry EXCEPT !.pending = FALSE, !.submitted = took]
                                    /\ told' = IF took THEN told ELSE 0
        BY <2>2 DEF Resumed
      <3> QED
        BY <1>a, <3>1 DEF Entries
    <2>3. CASE TogglePanel \/ Hardware \/ Sheet \/ TimeRunsOut \/ BriefingEnds
      BY <2>3 DEF TogglePanel, Hardware, Sheet, TimeRunsOut, BriefingEnds
    <2> QED
      BY <2>1, <2>2, <2>3
  <1>2. BriefStays
    <2>1. CASE PickSlot \/ WriteClues \/ TimeRunsOut \/ AnswerTaken \/ PeopleChange \/ LineLost \/ Resumed
      BY <2>1 DEF PickSlot, WriteClues, TimeRunsOut, AnswerTaken, PeopleChange, LineLost, Resumed, BriefStays
    <2>2. CASE TogglePanel \/ Hardware \/ Sheet \/ BriefingEnds
      BY <1>a, <2>2 DEF TogglePanel, Hardware, Sheet, BriefingEnds, BriefStays, Sheets
    <2> QED
      BY <2>1, <2>2
  <1>3. duty'.action = duty.action
    <2>1. CASE PickSlot \/ WriteClues \/ TogglePanel \/ Hardware \/ Sheet \/ PeopleChange \/ BriefingEnds
      BY <2>1 DEF PickSlot, WriteClues, TogglePanel, Hardware, Sheet, PeopleChange, BriefingEnds
    <2>2. CASE TimeRunsOut \/ AnswerTaken \/ LineLost
      BY <1>a, <2>2 DEF TimeRunsOut, AnswerTaken, LineLost, Duties
    <2>3. CASE Resumed
      <3>1. PICK took \in BOOLEAN, again \in BOOLEAN :
               duty' = [duty EXCEPT !.connected = TRUE, !.submitted = took, !.clock = IF again THEN "runs" ELSE @]
        BY <2>3 DEF Resumed
      <3> QED
        BY <1>a, <3>1 DEF Duties
    <2> QED
      BY <2>1, <2>2, <2>3
  <1> QED
    BY <1>a, <1>1, <1>2, <1>3, NotActed DEF KeysKept, Briefed, BriefStays

\* A new beat clears the page, and briefs only who waits in it
LEMMA BeatGuarded == ASSUME KeysKept, BeatBegins PROVE Guarded /\ Briefed'
  <1>a. sheets \in Sheets /\ told \in Nat /\ duty \in Duties
    BY DEF KeysKept, KeysInv, SheetsOK, SentIsKnown
  <1>1. PICK beat \in {"encrypting", "guess", "round_result"}, acts \in BOOLEAN :
           /\ duty' = [duty EXCEPT !.action = IF ~acts \/ beat = "round_result" THEN ""
                                              ELSE IF beat = "guess" THEN "guess" ELSE "encrypt",
                                   !.submitted = FALSE, !.clock = "runs"]
           /\ sheets' = [sheets EXCEPT !.manual = FALSE, !.about = FALSE,
                                       !.brief = beat = "encrypting" /\ ~acts]
    BY DEF BeatBegins
  <1>2. Briefed'
    BY <1>a, <1>1 DEF Briefed, Sheets, Duties
  <1>3. entry' = Blank /\ told' = 0
    BY DEF BeatBegins
  <1> QED
    BY <1>a, <1>2, <1>3, NotActed

\* Every step of the keys
LEMMA KeysStep ==
    ASSUME KeysKept, [KeysNext]_keysVars
    PROVE  KeysKept' /\ [NothingLeaks /\ WholeAnswers]_keysVars
  <1>1. KeysInv'
    BY KeysInvNext DEF KeysKept
  <1>2. CASE UNCHANGED keysVars
    BY <1>1, <1>2 DEF keysVars, KeysKept, Briefed
  <1>3. CASE KeysNext
    <2>a. ASSUME BriefStays, UNCHANGED duty PROVE Briefed'
      BY <2>a DEF KeysKept, Briefed, BriefStays
    <2>1. ASSUME NEW pressed \in Pressed, Press(pressed) PROVE Guarded /\ Briefed'
      <3>1. UNCHANGED duty
        BY <2>1 DEF Press
      <3> QED
        BY <2>1, <2>a, <3>1, PressGuarded
    <2>2. ASSUME Click PROVE Guarded /\ Briefed'
      <3>1. UNCHANGED duty
        BY <2>2 DEF Click
      <3> QED
        BY <2>2, <2>a, <3>1, ClickGuarded
    <2>b. \/ \E pressed \in Pressed : Press(pressed)
          \/ Click
          \/ PickSlot \/ WriteClues \/ TogglePanel \/ Hardware \/ Sheet
             \/ TimeRunsOut \/ AnswerTaken \/ PeopleChange \/ LineLost \/ Resumed \/ BriefingEnds
          \/ BeatBegins
      BY <1>3 DEF KeysNext
    <2>3. Guarded /\ Briefed'
      BY ONLY KeysKept, <2>b, <2>1, <2>2, OthersGuarded, BeatGuarded
    <2>4. sheets.panel => \A pressed \in Pressed : Press(pressed) => UNCHANGED <<entry, told>>
      BY PanelHolds
    <2>5. NothingLeaks /\ WholeAnswers
      BY <2>3, <2>4 DEF NothingLeaks, Guarded, Acted, Covered
    <2> QED
      BY <1>1, <2>3, <2>5 DEF KeysKept
  <1> QED
    BY <1>2, <1>3

\* The machine is taken into use with nothing entered
LEMMA KeysBegin == KeysInit => KeysKept
  <1> SUFFICES ASSUME KeysInit PROVE KeysKept
    OBVIOUS
  <1>1. ~sheets.brief
    BY DEF KeysInit
  <1> QED
    BY <1>1, KeysInvInit DEF KeysKept, Briefed

\* What holds of the keys is what the runs look at
LEMMA KeysShown == KeysKept => KeysTypeOK /\ NumbersStandOnce /\ AnswersGoOnce /\ NobodyIsLockedOut
  <1> SUFFICES ASSUME KeysKept PROVE KeysTypeOK /\ NumbersStandOnce /\ AnswersGoOnce /\ NobodyIsLockedOut
    OBVIOUS
  <1>1. KeysTypeOK
    BY DEF KeysKept, KeysInv, SheetsOK, EntryOK, KeysTypeOK, Sheets, Frames, Duties, Entries, Codes
  <1>2. NumbersStandOnce /\ NobodyIsLockedOut
    BY DEF KeysKept, KeysInv, EntryOK, NotLocked, NumbersStandOnce, NobodyIsLockedOut
  <1>3. AnswersGoOnce
    BY DEF KeysKept, KeysInv, SentIsKnown, AnswersGoOnce
  <1> QED
    BY <1>1, <1>2, <1>3

-----------------------------------------------------------------------------
(* The parts side by side: a step of one leaves the others where they are *)

EntriesInv == NotebookInv /\ WritingInv /\ KeysKept

\* What a step may do to ink, notes and entries
EntriesStep ==
    /\ [Stands(ink, ink', gesture)]_notebookVars
    /\ [Careful]_writingVars
    /\ [NothingLeaks /\ WholeAnswers]_keysVars

LEMMA EntriesBegin == TerminalInit => EntriesInv
  BY NotebookBegins, WritingBegins, KeysBegin DEF TerminalInit, EntriesInv

\* Whichever part moves
LEMMA EntriesKeep ==
    ASSUME EntriesInv, [TerminalNext]_terminalVars
    PROVE  EntriesInv' /\ EntriesStep
  <1>1. [NotebookNext]_notebookVars /\ [WritingNext]_writingVars /\ [KeysNext]_keysVars
    <2>1. \/ UNCHANGED terminalVars
          \/ NotebookAlone /\ NotebookNext
          \/ WritingAlone /\ WritingNext
          \/ KeysAlone /\ KeysNext
          \/ DeskAlone
          \/ VoiceAlone
          \/ LineAlone
          \/ TableAlone
      BY DEF TerminalNext
    <2>2. UNCHANGED terminalVars => UNCHANGED <<notebookVars, writingVars, keysVars>>
      BY DEF terminalVars
    <2>3. /\ (DeskAlone \/ VoiceAlone \/ LineAlone \/ TableAlone) => UNCHANGED <<notebookVars, writingVars, keysVars>>
          /\ NotebookAlone => UNCHANGED <<writingVars, keysVars>>
          /\ WritingAlone => UNCHANGED <<notebookVars, keysVars>>
          /\ KeysAlone => UNCHANGED <<notebookVars, writingVars>>
      BY DEF DeskAlone, VoiceAlone, LineAlone, TableAlone, NotebookAlone, WritingAlone, KeysAlone
    <2> QED
      BY <2>1, <2>2, <2>3
  <1>2. NotebookInv' /\ [Stands(ink, ink', gesture)]_notebookVars
    BY <1>1, NotebookStep DEF EntriesInv
  <1>3. WritingInv' /\ [Careful]_writingVars
    BY <1>1, WritingStep DEF EntriesInv
  <1>4. KeysKept' /\ [NothingLeaks /\ WholeAnswers]_keysVars
    BY <1>1, KeysStep DEF EntriesInv
  <1> QED
    BY <1>2, <1>3, <1>4 DEF EntriesInv, EntriesStep

\* Ink goes on the open page and stays as it was drawn, a note is on the paper and
\* is put back when the pencil takes the page from under the hand, and a number or
\* an answer goes through while nothing lies over the working page, whole and once:
\* whatever moves, resizes, opens or closes meanwhile (notebook.ts,
\* NotebookWriting.tsx, the key handler of Console.tsx)
THEOREM EntriesKept == TerminalSpec => EntriesStand
  <1>1. EntriesInv /\ [TerminalNext]_terminalVars => EntriesInv'
    BY EntriesKeep
  <1>2. EntriesInv /\ [TerminalNext]_terminalVars => EntriesStep
    BY EntriesKeep
  <1>3. EntriesInv => NotebookTypeOK /\ OnlyLeavingIsInert /\ LeafLandsOnThePage
                      /\ DrawsOnTheOpenPage /\ UndoUndoes /\ ClosedIsStill
    BY NotebookKept DEF EntriesInv
  <1>4. EntriesInv => WritingTypeOK /\ NotesAreOnThePaper /\ GripComesFree
    BY WritingKept DEF EntriesInv
  <1>5. EntriesInv => KeysTypeOK /\ NumbersStandOnce /\ AnswersGoOnce /\ NobodyIsLockedOut
    BY KeysShown DEF EntriesInv
  <1>6. EntriesStep => [\A t \in Columns : \A id \in DOMAIN ink[t] \intersect DOMAIN ink'[t] :
                          ink'[t][id] # ink[t][id] => gesture.on /\ gesture.stroke = id]_notebookVars
    BY DEF EntriesStep, Stands
  <1>7. EntriesStep => [\A id \in DOMAIN margin'.notes \ DOMAIN margin.notes : id \notin margin.used]_writingVars
    BY DEF EntriesStep, Careful, NoteIds
  <1>8. EntriesStep => [drag.on /\ ~writer'.enabled /\ drag.id \in DOMAIN margin'.notes
                          => margin'.notes[drag.id] = Contain(drag.origin, margin.size) /\ ~drag'.on]_writingVars
    BY DEF EntriesStep, Careful
  <1>9. EntriesStep => [NothingLeaks /\ WholeAnswers]_keysVars
    BY DEF EntriesStep
  <1>10. TerminalSpec => InkStands
    BY <1>1, <1>2, <1>3, <1>6, EntriesBegin, PTL DEF TerminalSpec, InkStands, FinishedStrokesStand
  <1>11. TerminalSpec => NotesStand
    BY <1>1, <1>2, <1>4, <1>7, <1>8, EntriesBegin, PTL DEF TerminalSpec, NotesStand, NotesAreNew, CutOffIsUndone
  <1>12. TerminalSpec => KeysObey
    BY <1>1, <1>2, <1>5, <1>9, EntriesBegin, PTL DEF TerminalSpec, KeysObey
  <1> QED
    BY <1>10, <1>11, <1>12 DEF EntriesStand
=============================================================================
