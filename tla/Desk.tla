-------------------------------- MODULE Desk --------------------------------
(***************************************************************************)
(* The operator's desk (console/Console.tsx): what the player has written, *)
(* what is on its way to the server and what the store of the page says    *)
(* has become of it, over a connection that is lost and restored, reloads  *)
(* of the page, and a machine without power or cable.                      *)
(***************************************************************************)
EXTENDS Integers, Sequences, SequencesExt

CONSTANTS
    MaxTexts,   \* texts the player writes: a bound
    MaxBeats,   \* beats of a game, this seat writes in two of three: a bound
    MaxRooms,   \* rooms entered: a bound
    MaxGames,   \* games in a room: a bound
    MaxCuts,    \* connections lost and pages reloaded: a bound
    MaxAsks     \* requests and answers on their way: a bound

ASSUME DeskAssumption ==
    /\ MaxTexts \in Nat /\ MaxBeats \in Nat \ {0} /\ MaxRooms \in Nat /\ MaxGames \in Nat
    /\ MaxCuts \in Nat /\ MaxAsks \in Nat \ {0}

VARIABLES
    up,         \* the socket is open
    requests,       \* requests on their way
    tells,      \* answers and events on their way
    host,       \* the server: the seat and if the connection has it, the beat, the draft, the answer it took
    store,      \* the page's part of useGameStore
    desk,       \* LocalState: what the console holds
    drawer,     \* the draft in sessionStorage
    box,        \* power and network cable of the machine
    throttle,   \* the window of progress(): open, and the text that waits for its end
    invite,     \* the invitation the page was opened with may still join by itself,
    upLink,       \* and stands in the address of the page
    cuts, texts,
    written     \* ghost: the last text of each beat, 0 for none; and if the page was off the line

deskVars == <<up, requests, tells, host, store, desk, drawer, box, throttle, invite, upLink, cuts, texts, written>>

Texts == 1 .. MaxTexts
NoText == 0
Nowhere == <<"home", 0, 0>>
\* draftIdentity: a room and a seat in it, a round and a phase for a beat
Identity(s) == <<s.phase, s.room, s.beat>>
\* In a round it first writes clues, then a guess, then waits for the others
Writes(beat) == beat % 3 # 0
Acts(s) == s.phase = "play" /\ Writes(s.beat)

EmptyStore == [phase |-> "home", room |-> 0, game |-> 0, beat |-> 0, connected |-> FALSE, recovering |-> FALSE,
               submitted |-> FALSE, error |-> FALSE, token |-> FALSE]
EmptyDesk == [pending |-> FALSE, submitted |-> FALSE, draft |-> NoText, stale |-> NoText]
EmptyDrawer == [identity |-> Nowhere, text |-> NoText]
Shut == [open |-> FALSE, trail |-> NoText, beat |-> 0]
NoSeat == [seat |-> FALSE, bound |-> FALSE, room |-> 0, game |-> 0, beat |-> 0, draft |-> NoText, accepted |-> NoText]

Connected(s) == s.connected /\ ~s.recovering
OnlineWith(s) == box.powered /\ box.cable /\ Connected(s)
Active == Acts(store) /\ ~desk.submitted /\ ~store.submitted /\ ~store.recovering

-----------------------------------------------------------------------------
\* What the console does when the store has changed, in the order of its effects

ReadDraft(identity) == IF drawer.identity = identity THEN drawer.text ELSE NoText

SaveDraft(identity, text) ==
    drawer' = IF text # NoText THEN [identity |-> identity, text |-> text]
              ELSE IF drawer.identity = identity THEN EmptyDrawer ELSE drawer

\* A new beat brings its own draft; what was written for the last one, and the
\* player could not send, is kept to be read
NewBeat(old, new, d) ==
    IF Identity(old) = Identity(new) THEN d
    ELSE [pending |-> FALSE, submitted |-> FALSE, draft |-> ReadDraft(Identity(new)),
          stale |-> IF old.token # new.token THEN NoText
                    ELSE IF ~OnlineWith(new) /\ ~d.submitted /\ ~old.submitted /\ d.draft # NoText THEN d.draft
                    ELSE d.stale]

\* The store's word on what was submitted counts again after every recovery
Followed(old, new, d) ==
    IF (old.submitted = new.submitted /\ old.recovering = new.recovering) \/ new.recovering THEN d
    ELSE [d EXCEPT !.submitted = new.submitted]

Refused(old, new, d) ==
    IF new.error /\ ~old.error THEN [d EXCEPT !.pending = FALSE, !.submitted = FALSE] ELSE d

Become(new, people) ==
    LET d == Refused(store, new, Followed(store, new, NewBeat(store, new, desk))) IN
    /\ store' = new
    /\ desk' = IF people THEN [d EXCEPT !.pending = FALSE] ELSE d
    /\ SaveDraft(Identity(new), desk'.draft)
    /\ invite' = (invite /\ new.phase = "home")
    /\ upLink' = (upLink /\ (new.phase = "home" \/ new.recovering))

-----------------------------------------------------------------------------
\* The operator

AskForRoom(asked) == requests' = requests \o asked
RoomFor(n) == Len(requests) + n <= MaxAsks

\* What the store sends: answers and drafts name the beat they were written in
StartGame == <<[type |-> "start", beat |-> 0, text |-> NoText]>>
SubmitAnswer(s, d) == <<[type |-> "submit", beat |-> s.beat, text |-> d.draft]>>
SendProgress(s, text) == <<[type |-> "progress", beat |-> s.beat, text |-> text]>>

\* progress(): at most one message in a window; the last change goes out at its end
Report(text, s, d) ==
    IF OnlineWith(s) /\ up /\ Acts(s) /\ ~d.submitted /\ ~s.submitted THEN SendProgress(s, text) ELSE <<>>

Write ==
    LET text == texts + 1 IN
    /\ OnlineWith(store) /\ Active /\ texts < MaxTexts /\ RoomFor(1)
    /\ texts' = text
    /\ desk' = [desk EXCEPT !.draft = text]
    /\ SaveDraft(Identity(store), text)
    /\ written' = [written EXCEPT !.text[store.room][store.game][store.beat] = text, !.cut = FALSE]
    /\ IF throttle.open THEN throttle' = [open |-> TRUE, trail |-> text, beat |-> store.beat] /\ UNCHANGED requests
       ELSE throttle' = [open |-> TRUE, trail |-> NoText, beat |-> store.beat] /\ AskForRoom(Report(text, store, desk))
    /\ UNCHANGED <<up, tells, host, store, box, invite, upLink, cuts>>

\* Broken variant: what came inside the window is dropped
WindowDrops ==
    /\ throttle.open /\ throttle' = Shut
    /\ UNCHANGED <<up, requests, tells, host, store, desk, drawer, box, invite, upLink, cuts, texts, written>>

\* The sheet that was kept is blank for what is written in another beat
WindowCloses ==
    /\ throttle.open /\ RoomFor(1)
    /\ IF throttle.trail = NoText THEN throttle' = Shut /\ UNCHANGED requests
       ELSE /\ throttle' = [throttle EXCEPT !.trail = NoText]
            /\ AskForRoom(Report(IF throttle.beat = store.beat THEN throttle.trail ELSE NoText, store, desk))
    /\ UNCHANGED <<up, tells, host, store, desk, drawer, box, invite, upLink, cuts, texts, written>>

\* act('transmit')
Transmit ==
    /\ OnlineWith(store) /\ ~desk.pending /\ RoomFor(2)
    /\ store' = [store EXCEPT !.error = FALSE]
    /\ \/ store.phase = "home" /\ desk' = [desk EXCEPT !.pending = TRUE]
          /\ AskForRoom(<<[type |-> "create", beat |-> 0, text |-> NoText]>>) /\ invite' = FALSE
       \/ store.phase = "room" /\ desk' = [desk EXCEPT !.pending = TRUE]
          /\ AskForRoom(StartGame) /\ UNCHANGED invite
       \/ Active /\ desk.draft # NoText /\ desk' = [desk EXCEPT !.pending = TRUE, !.submitted = TRUE]
          /\ AskForRoom(SubmitAnswer(store, desk)) /\ UNCHANGED invite
    /\ UNCHANGED <<up, tells, host, drawer, box, throttle, upLink, cuts, texts, written>>

\* Another mode, name or code: nothing is on its way, and nothing joins by itself
Chooses ==
    /\ store.phase = "home" /\ box.powered
    /\ desk' = [desk EXCEPT !.pending = FALSE] /\ invite' = FALSE
    /\ UNCHANGED <<up, requests, tells, host, store, drawer, box, throttle, upLink, cuts, texts, written>>

Leave ==
    /\ store.phase # "home" /\ OnlineWith(store)
    /\ up' = FALSE /\ requests' = <<>> /\ tells' = <<>>
    /\ Become(EmptyStore, TRUE)
    /\ host' = [host EXCEPT !.bound = FALSE]
    /\ UNCHANGED <<box, throttle, cuts, texts, written>>

Plug == \E b \in [powered : BOOLEAN, cable : BOOLEAN] \ {box} :
           /\ box' = b
           /\ written' = [written EXCEPT !.cut = @ \/ ~(b.powered /\ b.cable)]
           /\ UNCHANGED <<up, requests, tells, host, store, desk, drawer, throttle, invite, upLink, cuts, texts>>

\* The invitation's request, once the connection stands and an expired seat is dealt with
AutoJoin ==
    /\ invite /\ RoomFor(1) /\ store.phase = "home" /\ OnlineWith(store) /\ ~store.token
    /\ IF store.error THEN store' = [store EXCEPT !.error = FALSE] /\ UNCHANGED <<desk, requests, invite>>
       ELSE /\ invite' = FALSE /\ desk' = [desk EXCEPT !.pending = TRUE]
            /\ AskForRoom(<<[type |-> "join", beat |-> 0, text |-> NoText]>>) /\ UNCHANGED store
    /\ UNCHANGED <<up, tells, host, drawer, box, throttle, upLink, cuts, texts, written>>

-----------------------------------------------------------------------------
\* The connection and the server

LinkLost ==
    /\ up /\ cuts < MaxCuts /\ cuts' = cuts + 1
    /\ up' = FALSE /\ requests' = <<>> /\ tells' = <<>>
    /\ Become([store EXCEPT !.connected = FALSE, !.recovering = store.token, !.error = @ \/ store.token], FALSE)
    /\ written' = [written EXCEPT !.cut = TRUE]
    /\ host' = [host EXCEPT !.bound = FALSE]
    /\ UNCHANGED <<box, throttle, texts>>

\* A reload keeps the seat and the drawer of the tab; an invitation opened in it
\* keeps the seat if it is for the same room
ReloadPage ==
    \E by \in {"reload", "same room", "other room"} :
    LET seat == store.token /\ by # "other room" IN
    /\ cuts < MaxCuts /\ cuts' = cuts + 1
    /\ up' = FALSE /\ requests' = <<>> /\ tells' = <<>>
    /\ store' = [EmptyStore EXCEPT !.token = seat, !.recovering = seat,
                                   !.room = IF seat THEN store.room ELSE 0]
    /\ desk' = EmptyDesk /\ box' = [powered |-> TRUE, cable |-> TRUE] /\ throttle' = Shut
    /\ upLink' = (upLink \/ by # "reload") /\ invite' = upLink'
    /\ written' = [written EXCEPT !.cut = TRUE]
    /\ host' = [host EXCEPT !.bound = FALSE]
    /\ UNCHANGED <<drawer, texts>>

Connects ==
    /\ ~up /\ up' = TRUE
    /\ Become([store EXCEPT !.connected = TRUE], FALSE)
    /\ requests' = IF store.token THEN <<[type |-> "resume", beat |-> 0, text |-> NoText]>> ELSE <<>>
    /\ UNCHANGED <<tells, host, box, throttle, cuts, texts, written>>

TellServer(type, h) == tells' = Append(tells, [type |-> type, room |-> h.room, game |-> h.game, beat |-> h.beat,
                                         ok |-> h.accepted # NoText])

Serve ==
    LET m == Head(requests)
        bound == host.seat /\ host.bound
        entered == [NoSeat EXCEPT !.seat = TRUE, !.bound = TRUE, !.room = host.room + 1]
        started == [host EXCEPT !.game = @ + 1, !.beat = 1]
        accepted == [host EXCEPT !.accepted = m.text]
        writes == bound /\ Writes(host.beat) /\ host.accepted = NoText /\ m.beat = host.beat
    IN  /\ requests # <<>> /\ requests' = Tail(requests) /\ Len(tells) < MaxAsks
        /\ m.type \in {"create", "join"} => host.room < MaxRooms
        /\ m.type = "start" => host.game < MaxGames
        /\ CASE m.type \in {"create", "join"} /\ ~host.bound -> host' = entered /\ TellServer("room_created", entered)
             [] m.type = "start" /\ bound /\ host.beat = 0 -> host' = started /\ TellServer("phase_change", started)
             [] m.type = "submit" /\ writes -> host' = accepted /\ TellServer("action_submitted", accepted)
             [] m.type = "progress" ->
                    host' = [host EXCEPT !.draft = IF writes THEN m.text ELSE @] /\ UNCHANGED tells
             [] m.type = "resume" /\ host.seat -> host' = [host EXCEPT !.bound = TRUE] /\ TellServer("full_sync", host)
             [] m.type = "resume" /\ ~host.seat -> UNCHANGED host /\ TellServer("resume_expired", host)
             [] OTHER -> UNCHANGED host /\ TellServer("error", host)
        /\ UNCHANGED <<up, store, desk, drawer, box, throttle, invite, upLink, cuts, texts, written>>

\* Time runs out or everyone has answered; after the last beat the room is
\* reopened. The seat is told if it is there
NextBeat ==
    LET next == [host EXCEPT !.beat = IF @ = MaxBeats THEN 0 ELSE @ + 1, !.draft = NoText, !.accepted = NoText] IN
    /\ host.seat /\ host.beat # 0 /\ Len(tells) < MaxAsks
    /\ throttle.open => throttle.beat = host.beat \* a beat outlasts a window
    /\ host' = next
    /\ IF host.bound THEN TellServer("phase_change", next) ELSE UNCHANGED tells
    /\ UNCHANGED <<up, requests, store, desk, drawer, box, throttle, invite, upLink, cuts, texts, written>>

\* The room is gone while its player is away
Forgets ==
    /\ host.seat /\ ~up /\ host' = [NoSeat EXCEPT !.room = host.room]
    /\ UNCHANGED <<up, requests, tells, store, desk, drawer, box, throttle, invite, upLink, cuts, texts, written>>

Listen ==
    LET m == Head(tells)
        there == [store EXCEPT !.phase = IF m.beat = 0 THEN "room" ELSE "play", !.room = m.room, !.game = m.game,
                               !.beat = m.beat, !.submitted = m.ok, !.token = TRUE, !.recovering = FALSE]
    IN  /\ tells # <<>> /\ tells' = Tail(tells)
        /\ CASE m.type = "room_created" -> Become(there, TRUE)
             [] m.type = "phase_change" -> Become(there, m.beat = 0)
             [] m.type = "full_sync" -> Become([there EXCEPT !.error = FALSE], TRUE)
             [] m.type = "action_submitted" -> Become([store EXCEPT !.submitted = TRUE], FALSE)
             [] m.type = "resume_expired" -> Become([EmptyStore EXCEPT !.connected = TRUE, !.error = TRUE], TRUE)
             [] OTHER -> Become([store EXCEPT !.error = TRUE], FALSE)
        /\ UNCHANGED <<up, requests, host, box, throttle, cuts, texts, written>>

DeskInit ==
    /\ up = FALSE /\ requests = <<>> /\ tells = <<>> /\ host = NoSeat
    /\ store = EmptyStore /\ desk = EmptyDesk /\ drawer = EmptyDrawer
    /\ box = [powered |-> TRUE, cable |-> TRUE] /\ throttle = Shut
    /\ upLink \in BOOLEAN /\ invite = upLink /\ cuts = 0 /\ texts = 0
    /\ written = [text |-> [r \in 1 .. MaxRooms |-> [g \in 1 .. MaxGames |-> [b \in 1 .. MaxBeats |-> NoText]]],
                  cut |-> FALSE]

DeskNext ==
    \/ Write \/ WindowCloses \/ Transmit \/ Chooses \/ Leave \/ Plug \/ AutoJoin
    \/ LinkLost \/ ReloadPage \/ Connects \/ Serve \/ NextBeat \/ Forgets \/ Listen

DeskSpec == DeskInit /\ [][DeskNext]_deskVars

-----------------------------------------------------------------------------
DeskTypeOK ==
    /\ up \in BOOLEAN /\ Len(requests) <= MaxAsks /\ Len(tells) <= MaxAsks
    /\ host.beat \in 0 .. MaxBeats /\ host.room \in 0 .. MaxRooms /\ host.game \in 0 .. MaxGames
    /\ host.bound => host.seat /\ up
    /\ {host.draft, host.accepted} \subseteq 0 .. MaxTexts
    /\ store.phase \in {"home", "room", "play"} /\ store.beat \in 0 .. MaxBeats
    /\ store.phase # "home" => store.token
    /\ {desk.draft, desk.stale, drawer.text, throttle.trail} \subseteq 0 .. MaxTexts
    /\ desk.pending \in BOOLEAN /\ desk.submitted \in BOOLEAN

Quiet == up /\ requests = <<>> /\ tells = <<>> /\ Connected(store) /\ store.phase = "play"

\* A page that shows an answer as sent is right once nothing is on its way: an
\* answer that was lost with the connection can be sent again
SubmittedIsSent == Quiet /\ desk.submitted => host.accepted # NoText

\* "Drafts survive a reload of the same seat and beat, in this tab only": what
\* is on the desk in a beat is the last text written in it, after whatever
\* losses of the connection, reloads and recoveries; before anything is written,
\* at most a draft of the same beat of an earlier game of the room
DraftIsOfThisBeat ==
    LET text(g) == written.text[store.room][g][store.beat] IN
    Acts(store) => \/ desk.draft = text(store.game)
                   \/ text(store.game) = NoText /\ \E g \in 1 .. store.game : desk.draft = text(g)

\* "The last change inside the window still goes out once it closes": the
\* server has the draft of the desk, for the clock to send, unless the
\* connection failed in between
ServerHasDraft ==
    Quiet /\ Active /\ ~throttle.open /\ ~written.cut /\ host.beat = store.beat /\ host.game = store.game
          /\ written.text[store.room][store.game][store.beat] # NoText
       => host.draft = desk.draft

\* An invitation never takes the place of a seat this tab can still return to
SeatComesFirst == \A i \in DOMAIN requests : requests[i].type = "join" => ~store.token

\* What is on the desk is this beat's, and the server has it: whatever was
\* throttled, lost with the connection, reloaded or asked for meanwhile.
DeskIsKept == DeskTypeOK /\ SubmittedIsSent /\ DraftIsOfThisBeat /\ ServerHasDraft /\ SeatComesFirst
=============================================================================
