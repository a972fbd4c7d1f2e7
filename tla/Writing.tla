------------------------------ MODULE Writing -------------------------------
(***************************************************************************)
(* The written notes on a page of the notebook (NotebookWriting.tsx,       *)
(* notebook-writing.ts), along one axis of the paper: notes are put down,  *)
(* dragged by their grip, moved by keys, grow with their text, and are     *)
(* kept on the paper whatever its size. A press on the paper and the       *)
(* capture of a grip by a pointer are the browser's.                       *)
(***************************************************************************)
EXTENDS Integers, FiniteSets, Functions

CONSTANTS
    Paper,    \* the width of the paper
    MaxNotes  \* notes put down: a bound

ASSUME WritingAssumption == Paper \in Nat /\ Paper >= 4 /\ MaxNotes \in Nat

VARIABLES
    margin,  \* notes: the place of each; serial; size: the extent of a note
    drag,    \* the drag of a grip
    writer     \* enabled; the pointer pressed on the paper or holding a grip

writingVars == <<margin, drag, writer>>

NoDrag == [on |-> FALSE, id |-> 0, start |-> 0, origin |-> 0]
Inset == 1

\* containNote: the left edge wins when the note is larger than the paper
Contain(x, size) ==
    LET right == IF x > Paper - Inset - size THEN Paper - Inset - size ELSE x
    IN  IF right < Inset THEN Inset ELSE right

\* The layout effect of every change, and the ResizeObserver
Laid(notes, size) == [id \in DOMAIN notes |-> Contain(notes[id], size)]

\* moveNote
Moved(d, point, size) == Contain(d.origin + point - d.start, size)

CutOff(notes, d) ==
    IF d.on /\ d.id \in DOMAIN notes THEN [notes EXCEPT ![d.id] = d.origin] ELSE notes

PressPaper ==
    /\ writer.enabled /\ writer.holds = "nothing"
    /\ writer' = [writer EXCEPT !.holds = "paper"] /\ UNCHANGED <<margin, drag>>

NewId == margin.serial
Noted(notes, note, x) == [id \in DOMAIN notes \union {note} |-> IF id = note THEN x ELSE notes[id]]

\* A click on the paper, or Enter on the page
PutDown ==
    /\ writer.enabled /\ margin.serial < MaxNotes
    /\ \E x \in 0 .. Paper, click \in {b \in BOOLEAN : b => writer.holds = "paper"} :
          /\ margin' = [margin EXCEPT !.serial = @ + 1, !.used = @ \union {NewId},
                                      !.notes = Noted(@, NewId, Contain(x, margin.size))]
          /\ writer' = IF click THEN [writer EXCEPT !.holds = "nothing"] ELSE writer
    /\ UNCHANGED drag

\* The pointer is captured by the grip; a grip never let go refuses the next
StartDrag(id) ==
    /\ writer.enabled /\ writer.holds = "nothing" /\ ~drag.on
    /\ \E point \in {0, Paper} : drag' = [on |-> TRUE, id |-> id, start |-> point, origin |-> margin.notes[id]]
    /\ writer' = [writer EXCEPT !.holds = "grip"] /\ UNCHANGED margin

\* Events of a grip reach it while its note is on the page
Gripped == drag.on /\ writer.holds = "grip" /\ drag.id \in DOMAIN margin.notes

MoveDrag ==
    /\ Gripped
    /\ \E point \in 0 .. Paper :
          margin' = [margin EXCEPT !.notes[drag.id] = Moved(drag, point, margin.size)]
    /\ UNCHANGED <<drag, writer>>

\* Let go, or lost: the system takes the pointer away
LetGo ==
    /\ writer.holds # "nothing" /\ writer' = [writer EXCEPT !.holds = "nothing"]
    /\ IF Gripped
       THEN /\ drag' = NoDrag
            /\ \E cancelled \in BOOLEAN :
                  margin' = IF cancelled THEN [margin EXCEPT !.notes = Laid(CutOff(@, drag), margin.size)] ELSE margin
       ELSE UNCHANGED <<margin, drag>>

\* The arrow keys on a grip
Nudge(id) ==
    /\ writer.enabled
    /\ \E step \in {-1, 1} : margin' = [margin EXCEPT !.notes[id] = Contain(@ + step, margin.size)]
    /\ UNCHANGED <<drag, writer>>

Delete(id) ==
    /\ writer.enabled
    /\ margin' = [margin EXCEPT !.notes = Restrict(@, DOMAIN @ \ {id})]
    /\ UNCHANGED <<drag, writer>>

\* Text makes notes grow, another window makes the paper small
PaperResized ==
    /\ \E size \in 1 .. Paper - 2 * Inset :
          margin' = [margin EXCEPT !.size = size, !.notes = Laid(@, size)]
    /\ UNCHANGED <<drag, writer>>

\* The pencil is taken or put back: the page's listeners go with their drag
Enable ==
    /\ writer' = [writer EXCEPT !.enabled = ~@, !.holds = IF @ = "paper" THEN "nothing" ELSE @]
    /\ IF writer.enabled
       THEN drag' = NoDrag /\ margin' = [margin EXCEPT !.notes = Laid(CutOff(@, drag), margin.size)]
       ELSE UNCHANGED <<margin, drag>>

WritingInit ==
    /\ margin = [notes |-> [id \in {} |-> 0], serial |-> 0, used |-> {}, size |-> 1]
    /\ drag = NoDrag /\ writer = [enabled |-> TRUE, holds |-> "nothing"]

WritingNext ==
    \/ PressPaper \/ PutDown \/ MoveDrag \/ LetGo \/ PaperResized \/ Enable
    \/ \E id \in DOMAIN margin.notes : StartDrag(id) \/ Nudge(id) \/ Delete(id)

WritingSpec == WritingInit /\ [][WritingNext]_writingVars

-----------------------------------------------------------------------------
WritingTypeOK ==
    /\ DOMAIN margin.notes \subseteq 0 .. MaxNotes - 1 /\ margin.serial \in 0 .. MaxNotes
    /\ drag.on \in BOOLEAN /\ writer.enabled \in BOOLEAN /\ writer.holds \in {"nothing", "paper", "grip"}

\* However small the paper becomes and whatever puts a note back: it is on the paper
NotesAreOnThePaper ==
    \A id \in DOMAIN margin.notes : margin.notes[id] \in Inset .. Paper - Inset - margin.size

\* A note put down is a new one: no drag, focus or selection of an old note finds it
NotesAreNew == [][\A id \in DOMAIN margin'.notes \ DOMAIN margin.notes : id \notin margin.used]_writingVars

\* The pencil takes the page back whole: no drag outlives its writing, and the
\* note it moved is where it was, if there is room
CutOffIsUndone ==
    [][drag.on /\ ~writer'.enabled /\ drag.id \in DOMAIN margin'.notes
          => margin'.notes[drag.id] = Contain(drag.origin, margin.size) /\ ~drag'.on]_writingVars

\* A grip that is let go can be taken again, unless its note went while it was held
GripComesFree == drag.on => writer.holds = "grip" \/ drag.id \notin DOMAIN margin.notes

\* Every note is on the paper and under its own grip, whatever resizes the paper
\* or takes the hand away.
NotesStand == [](WritingTypeOK /\ NotesAreOnThePaper /\ GripComesFree) /\ NotesAreNew /\ CutOffIsUndone
=============================================================================
