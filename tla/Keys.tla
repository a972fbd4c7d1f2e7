-------------------------------- MODULE Keys --------------------------------
(***************************************************************************)
(* The keyboard and the keypad of the machine (shortcuts.ts, actions.ts,   *)
(* the key handler and act() of Console.tsx): which page, panel, dialog or *)
(* face a key reaches, what the seat enters and sends in a beat, and what  *)
(* the connection, the clock and the server do meanwhile.  The home screen *)
(* and the lobby are Desk's.                                               *)
(***************************************************************************)
EXTENDS Integers

CONSTANTS
    Digits,     \* the numbers of the keypad: 1 to 4 in the game
    Places      \* the places of a code: 3 in the game

ASSUME KeysAssumption == Digits \subseteq Nat \ {0} /\ Places \in Nat \ {0}

VARIABLES
    sheets,     \* what may lie over the working page: manual, about, briefing, records, a panel of the page
    frame,      \* mains, network cable, the face that is turned to the player
    duty,       \* the store: the action of this seat in the beat, whether the server took it, the line, the clock
    entry,      \* LocalState: code, place, clues, submitted; and the request on its way
    told        \* ghost: answers sent in this beat and not known to be lost or refused

keysVars == <<sheets, frame, duty, entry, told>>

Slots == 1 .. Places
Blank == [code |-> [i \in Slots |-> 0], slot |-> 1, clues |-> FALSE, submitted |-> FALSE, pending |-> FALSE]

\* seatAction: decoding and intercepting enter the same code
Guesses == duty.action = "guess"
Unanswered == duty.action # "" /\ ~entry.submitted /\ ~duty.submitted
MayAct == Unanswered /\ duty.connected /\ duty.clock = "runs"
Distinct(code) == \A i, j \in Slots : i # j /\ code[i] # 0 => code[i] # code[j]
Complete == IF Guesses THEN Distinct(entry.code) /\ \A i \in Slots : entry.code[i] \in Digits ELSE entry.clues
Ready == MayAct /\ Complete

Online == frame.powered /\ frame.linked /\ duty.connected
Reading == sheets.manual \/ sheets.about
Records == sheets.open \/ sheets.dialog

\* The screen's word on Ready may be older than the end of the time
PaintedReady == Unanswered /\ duty.clock # "over" /\ Complete /\ Online /\ ~Reading

-----------------------------------------------------------------------------
\* act(): reachable, then what the control does

Local == {"manual", "about", "archive-toggle", "brief-skip", "key", "slot"}
InReach(id) ==
    /\ frame.powered /\ ~frame.rear
    /\ \/ id \in Local
       \/ id = "transmit" /\ sheets.brief
       \/ Online /\ ~entry.pending

SendAnswer ==
    IF sheets.brief THEN sheets' = [sheets EXCEPT !.brief = FALSE] /\ UNCHANGED <<entry, told>>
    ELSE /\ UNCHANGED sheets
         /\ IF ~PaintedReady THEN UNCHANGED <<entry, told>>
            ELSE IF Ready THEN entry' = [entry EXCEPT !.pending = TRUE, !.submitted = TRUE] /\ told' = told + 1
            ELSE entry' = [entry EXCEPT !.pending = TRUE] /\ UNCHANGED told

\* A place that is empty gives the place before it; a number stands once in a code
Enter(digit) ==
    LET code == entry.code
        back == IF code[entry.slot] = 0 /\ entry.slot > 1 THEN entry.slot - 1 ELSE entry.slot
        taken == \E i \in Slots \ {entry.slot} : code[i] = digit
    IN  entry' = CASE digit = 0 -> [entry EXCEPT !.code[back] = 0, !.slot = back]
                   [] digit # 0 /\ taken -> entry
                   [] OTHER -> [entry EXCEPT !.code[entry.slot] = digit,
                                             !.slot = IF entry.slot < Places THEN entry.slot + 1 ELSE entry.slot]

\* With the manual open the keypad turns its pages
Key(digit) ==
    /\ UNCHANGED told
    /\ IF sheets.manual THEN UNCHANGED <<sheets, entry>>
       ELSE /\ sheets' = [sheets EXCEPT !.brief = FALSE]
            /\ IF Guesses /\ MayAct /\ Online /\ ~Reading THEN Enter(digit) ELSE UNCHANGED entry

Open(page) == CASE page = "manual" -> [sheets EXCEPT !.manual = ~@, !.about = FALSE]
                [] page = "about" -> [sheets EXCEPT !.about = ~@, !.manual = FALSE]
                [] page = "archive-toggle" -> [sheets EXCEPT !.open = TRUE]
                [] page = "brief-skip" -> [sheets EXCEPT !.brief = FALSE]

Act(id, digit) ==
    IF ~InReach(id) THEN UNCHANGED <<sheets, entry, told>>
    ELSE CASE id = "transmit" -> SendAnswer
           [] id = "key" -> Key(digit)
           [] OTHER -> sheets' = Open(id) /\ UNCHANGED <<entry, told>>

-----------------------------------------------------------------------------
\* The keyboard

Focuses == {"page", "button", "field", "text"}
Pressed == {"Control+Enter", "Escape", "?", "h", "g", "Enter", "Arrow", "Digit", "Backspace"}

\* shortcutAction: a field of the terminal may send, other text never
Command(pressed, focus) ==
    IF pressed = "Control+Enter" THEN IF ~sheets.manual /\ focus # "text" THEN "transmit" ELSE "none"
    ELSE IF pressed = "Escape" THEN "dismiss"
    ELSE IF focus \in {"field", "text"} THEN "none"
    ELSE IF pressed = "?" THEN "shortcuts"
    ELSE IF pressed = "h" THEN "archive-toggle"
    ELSE IF pressed = "g" THEN "manual"
    ELSE IF sheets.manual THEN IF pressed = "Enter" THEN "none" ELSE "guide"
    ELSE IF sheets.brief /\ focus # "button" /\ pressed \in {"Enter", "Backspace", "Arrow"} THEN "brief-skip"
    ELSE IF pressed \in {"Digit", "Backspace"} THEN "key"
    ELSE IF pressed = "Enter" /\ focus # "button" THEN "transmit" ELSE "none"

\* Help takes the place of the preferences and closes itself
Help == sheets' \in {[sheets EXCEPT !.panel = p] : p \in IF sheets.panel THEN BOOLEAN ELSE {TRUE}}

Dismissed == IF Reading THEN [sheets EXCEPT !.manual = FALSE, !.about = FALSE, !.open = FALSE]
             ELSE [sheets EXCEPT !.brief = FALSE, !.open = FALSE]

Handle(command, digit) ==
    CASE command = "none" \/ sheets.dialog -> UNCHANGED <<sheets, entry, told>>
      [] OTHER ->
         IF sheets.open /\ frame.powered
         THEN /\ sheets' = [sheets EXCEPT !.open = command \notin {"dismiss", "archive-toggle"}]
              /\ UNCHANGED <<entry, told>>
         ELSE IF command = "shortcuts" THEN Help /\ UNCHANGED <<entry, told>>
         ELSE IF sheets.panel
         THEN sheets' = [sheets EXCEPT !.panel = command # "dismiss"] /\ UNCHANGED <<entry, told>>
         ELSE IF command = "dismiss" THEN sheets' = Dismissed /\ UNCHANGED <<entry, told>>
         ELSE IF \/ ~frame.powered \/ frame.rear \/ command = "guide"
                 \/ Reading /\ command \notin {"manual", "archive-toggle"}
         THEN UNCHANGED <<sheets, entry, told>>
         ELSE Act(command, digit)

Press(pressed) ==
    /\ \E focus \in Focuses, digit \in IF pressed = "Digit" THEN Digits ELSE {0} :
          Handle(Command(pressed, focus), digit)
    /\ UNCHANGED <<frame, duty>>

-----------------------------------------------------------------------------
\* The hand: nothing under the records can be reached

Click ==
    /\ ~Records
    /\ \/ \E id \in {"manual", "about", "archive-toggle", "transmit"} : Act(id, 0)
       \/ \E digit \in Digits \cup {0} : Act("key", digit)
    /\ UNCHANGED <<frame, duty>>

\* The places of the code and the lines of the clues stand on the working page
PickSlot ==
    /\ ~Records /\ ~Reading /\ InReach("slot") /\ Online /\ Guesses /\ MayAct
    /\ \E i \in Slots : entry' = [entry EXCEPT !.slot = i]
    /\ UNCHANGED <<sheets, frame, duty, told>>

WriteClues ==
    /\ ~Records /\ ~Reading /\ frame.powered /\ ~frame.rear /\ Online /\ duty.action = "encrypt" /\ MayAct
    /\ \E all \in BOOLEAN : entry' = [entry EXCEPT !.clues = all]
    /\ UNCHANGED <<sheets, frame, duty, told>>

TogglePanel == ~Records /\ sheets' = [sheets EXCEPT !.panel = ~@] /\ UNCHANGED <<frame, duty, entry, told>>

\* The switch is on the front, which also leaves the manual; the plugs are behind;
\* what is off can be put back from any face
Hardware ==
    /\ ~Records
    /\ \/ /\ ~frame.rear /\ frame' = [frame EXCEPT !.powered = ~@]
          /\ sheets' = [sheets EXCEPT !.manual = FALSE, !.about = FALSE]
       \/ frame.rear /\ \E piece \in {"powered", "linked"} : frame' = [frame EXCEPT ![piece] = ~@] /\ UNCHANGED sheets
       \/ frame' = [frame EXCEPT !.rear = ~@] /\ UNCHANGED sheets
       \/ \E piece \in {"powered", "linked"} :
             ~frame[piece] /\ frame' = [frame EXCEPT ![piece] = TRUE] /\ UNCHANGED sheets
    /\ UNCHANGED <<duty, entry, told>>

\* ArchiveSheet: the dialog follows the paper, and closes by itself
Sheet ==
    /\ \/ sheets.open /\ ~sheets.dialog /\ frame.powered /\ sheets' = [sheets EXCEPT !.dialog = TRUE]
       \/ sheets.open /\ sheets.dialog /\ sheets' = [sheets EXCEPT !.open = FALSE]
       \/ ~sheets.open /\ sheets.dialog /\ sheets' = [sheets EXCEPT !.dialog = FALSE]
    /\ UNCHANGED <<frame, duty, entry, told>>

-----------------------------------------------------------------------------
\* What happens meanwhile

BriefingEnds ==
    /\ sheets.brief /\ sheets' = [sheets EXCEPT !.brief = FALSE]
    /\ UNCHANGED <<frame, duty, entry, told>>

\* A new beat clears the page for it
BeatBegins ==
    /\ duty.connected
    /\ \E beat \in {"encrypting", "guess", "round_result"}, acts \in BOOLEAN :
          /\ duty' = [duty EXCEPT !.action = IF ~acts \/ beat = "round_result" THEN ""
                                             ELSE IF beat = "guess" THEN "guess" ELSE "encrypt",
                                  !.submitted = FALSE, !.clock = "runs"]
          /\ sheets' = [sheets EXCEPT !.manual = FALSE, !.about = FALSE, !.brief = beat = "encrypting" /\ ~acts]
    /\ entry' = Blank /\ told' = 0
    /\ UNCHANGED frame

\* The time is over; the next paint shows it
TimeRunsOut ==
    /\ \/ duty.action # "" /\ duty.clock = "runs" /\ duty' = [duty EXCEPT !.clock = "unseen"]
       \/ duty.clock = "unseen" /\ duty' = [duty EXCEPT !.clock = "over"]
    /\ UNCHANGED <<sheets, frame, entry, told>>

\* action_submitted, or an error, for an answer of this beat
AnswerTaken ==
    /\ duty.connected /\ told > 0 /\ ~duty.submitted
    /\ \/ /\ duty' = [duty EXCEPT !.submitted = TRUE]
          /\ entry' = [entry EXCEPT !.submitted = TRUE] /\ UNCHANGED told
       \/ /\ told' = 0 /\ entry' = [entry EXCEPT !.submitted = FALSE, !.pending = FALSE]
          /\ UNCHANGED duty
    /\ UNCHANGED <<sheets, frame>>

\* room_state: who is there has changed
PeopleChange ==
    /\ duty.connected /\ entry.pending /\ entry' = [entry EXCEPT !.pending = FALSE]
    /\ UNCHANGED <<sheets, frame, duty, told>>

\* A lost line is an error; what was sent arrived or not
LineLost ==
    /\ duty.connected /\ duty' = [duty EXCEPT !.connected = FALSE]
    /\ entry' = [entry EXCEPT !.pending = FALSE, !.submitted = FALSE]
    /\ UNCHANGED <<sheets, frame, told>>

\* full_sync tells what the server has; a server that was restarted gives time back
Resumed ==
    /\ ~duty.connected
    /\ \E took \in IF duty.submitted THEN {TRUE} ELSE IF told > 0 THEN BOOLEAN ELSE {FALSE}, again \in BOOLEAN :
          /\ duty' = [duty EXCEPT !.connected = TRUE, !.submitted = took, !.clock = IF again THEN "runs" ELSE @]
          /\ entry' = [entry EXCEPT !.pending = FALSE, !.submitted = took]
          /\ told' = IF took THEN told ELSE 0
    /\ UNCHANGED <<sheets, frame>>

KeysInit ==
    /\ sheets = [manual |-> FALSE, about |-> FALSE, brief |-> FALSE, open |-> FALSE, dialog |-> FALSE, panel |-> FALSE]
    /\ frame = [powered |-> TRUE, linked |-> TRUE, rear |-> FALSE]
    /\ duty = [action |-> "", submitted |-> FALSE, connected |-> TRUE, clock |-> "runs"]
    /\ entry = Blank /\ told = 0

KeysNext ==
    \/ \E pressed \in Pressed : Press(pressed)
    \/ Click \/ PickSlot \/ WriteClues \/ TogglePanel \/ Hardware \/ Sheet
    \/ BriefingEnds \/ BeatBegins \/ TimeRunsOut \/ AnswerTaken \/ PeopleChange \/ LineLost \/ Resumed

KeysSpec == KeysInit /\ [][KeysNext]_keysVars

-----------------------------------------------------------------------------
KeysTypeOK ==
    /\ sheets \in [manual : BOOLEAN, about : BOOLEAN, brief : BOOLEAN, open : BOOLEAN, dialog : BOOLEAN, panel : BOOLEAN]
    /\ ~(sheets.manual /\ sheets.about)
    /\ frame \in [powered : BOOLEAN, linked : BOOLEAN, rear : BOOLEAN]
    /\ duty \in [action : {"", "encrypt", "guess"}, submitted : BOOLEAN, connected : BOOLEAN,
                 clock : {"runs", "unseen", "over"}]
    /\ entry \in [code : [Slots -> Digits \cup {0}], slot : Slots, clues : BOOLEAN, submitted : BOOLEAN, pending : BOOLEAN]

\* A number stands once in a code, whatever was entered, taken back and
\* overwritten in whatever place
NumbersStandOnce == Distinct(entry.code)

\* An answer is sent once: not again while the server may have it, whatever
\* changed the room, the line and the screen in between
AnswersGoOnce == told <= 1

\* A seat whose time runs is never locked out by a request that is over
NobodyIsLockedOut == MayAct /\ entry.pending => told > 0

\* "No game actions leak through while reading": a page, a panel, the records, a
\* dead machine or its back never let an entry or an answer through
NothingLeaks ==
    LET acted == told' > told \/ (entry'.code # entry.code /\ entry' # Blank)
        read == Reading \/ Records \/ sheets.brief \/ ~frame.powered \/ frame.rear IN
    /\ acted => ~read
    /\ sheets.panel => \A pressed \in Pressed : Press(pressed) => UNCHANGED <<entry, told>>

\* What is sent is whole, and goes while the line stands and the time runs
WholeAnswers == told' > told => Complete /\ Online /\ duty.clock = "runs"

\* What a seat enters and sends is what it meant to, whichever pages, faces,
\* losses and answers came between the keys
KeysObey ==
    /\ [](KeysTypeOK /\ NumbersStandOnce /\ AnswersGoOnce /\ NobodyIsLockedOut)
    /\ [][NothingLeaks /\ WholeAnswers]_keysVars
=============================================================================
