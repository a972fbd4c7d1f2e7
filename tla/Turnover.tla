------------------------------ MODULE Turnover ------------------------------
(***************************************************************************)
(* Turning the machine over: the hand on a handle (useHandleGrip in        *)
(* Controls.tsx), the machine that follows it (parts/viewpoint.ts), the    *)
(* face the page asks for (Console.tsx) and which of the controls laid     *)
(* over the machine can be reached meanwhile (engine.bounds).              *)
(*                                                                         *)
(* The angle is a level: 0 the front, 1 a handle pulled too little to      *)
(* turn, 2 pulled far enough, 3 past the edge, 4 the back.                 *)
(***************************************************************************)
EXTENDS Integers

CONSTANTS Pointers, \* pointers: mouse, pen, fingers
          MaxPulls  \* bound: gestures and key presses

ASSUME TurnAssumption == "none" \notin Pointers /\ MaxPulls \in Nat

Sides == {"left", "right"}
NoGrip == [side |-> "none", pointer |-> "none", far |-> FALSE, stale |-> FALSE]

VARIABLES
    grip,    \* useHandleGrip's drag: side, pointer and whether it was pulled far enough; ghost: its handle left the page
    handle, \* Viewpoint: flip, the handle's pull (-1: none), direction, and the face it shows
    backView, \* the page's
    within,  \* the face whose controls can be reached, as last projected, or "none"
    turns    \* gestures so far

turnVars == <<grip, handle, backView, within, turns>>

Face(back) == IF back THEN "rear" ELSE "front"
TurnEnd(back) == IF back THEN 4 ELSE 0

-----------------------------------------------------------------------------
\* Viewpoint

\* The machine shows the face it was asked for, and nobody holds a handle
FaceSettled(m) == m.pull = -1 /\ m.flip = TurnEnd(m.back)

\* What can be reached: the face shown, of a machine that does not move
HandleReached(m) == IF FaceSettled(m) THEN Face(m.back) ELSE "none"

TurnFace(m, back, side) ==
    [m EXCEPT !.back = back, !.pull = -1, !.direction = IF back THEN side ELSE @]

\* Broken variant: the gesture ends, the machine stays where the hand left it
ReleaseHeld(m) == m

ReleaseHandle(m) == [m EXCEPT !.pull = -1]

\* tickFlip: one frame towards the hand or the face asked for, projected when it moved
Goal(m) == IF m.pull # -1 THEN m.pull ELSE TurnEnd(m.back)

TurnFrame ==
    /\ handle.flip # Goal(handle)
    /\ \E flip \in 0 .. 4 :
          /\ flip # handle.flip
          /\ flip \in handle.flip .. Goal(handle) \/ flip \in Goal(handle) .. handle.flip
          /\ handle' = [handle EXCEPT !.flip = flip]
    /\ within' = HandleReached(handle')
    /\ UNCHANGED <<grip, backView, turns>>

-----------------------------------------------------------------------------
\* The hand on a front handle: rear ones are only clicked

Turning == turns < MaxPulls /\ turns' = turns + 1

\* Only from a machine at rest on a face
BeginHandle(side, pointer) ==
    /\ Turning /\ within = "front" /\ ~backView
    /\ handle.flip = TurnEnd(handle.back)
    /\ grip' = [side |-> side, pointer |-> pointer, far |-> FALSE, stale |-> FALSE]
    /\ handle' = [handle EXCEPT !.direction = side, !.pull = 0]
    /\ UNCHANGED <<backView, within>>

\* A front handle has events only while the page shows the front
Owns(pointer) == grip.pointer = pointer /\ ~backView

PullHandle(pointer) ==
    /\ Owns(pointer)
    /\ \E pull \in 0 .. 2 :
          /\ handle' = [handle EXCEPT !.pull = pull]
          /\ grip' = [grip EXCEPT !.far = pull = 2]
    /\ UNCHANGED <<backView, within, turns>>

\* The page turns the machine, renders its other controls and lays out what can be reached
TurnConsole(m, to, side) ==
    /\ handle' = TurnFace(m, to, side)
    /\ backView' = to
    /\ within' = IF to = backView THEN within ELSE HandleReached(handle')

FarEnough(h) == h.far

\* Pointer up: far enough, and the machine turns over; else it falls back
LetHandleGo(pointer) ==
    /\ Owns(pointer)
    /\ grip' = NoGrip
    /\ IF FarEnough(grip) THEN TurnConsole(ReleaseHandle(handle), TRUE, grip.side)
       ELSE handle' = ReleaseHandle(handle) /\ within' = HandleReached(handle') /\ UNCHANGED backView
    /\ UNCHANGED turns

\* The capture is lost, the pointer is cancelled, or Escape is pressed
Cancelled ==
    /\ grip # NoGrip
    /\ grip' = NoGrip /\ handle' = ReleaseHandle(handle) /\ within' = HandleReached(handle')
    /\ UNCHANGED <<backView, turns>>

\* A handle is an element: it takes a click or a key while it is laid over the machine
Pressable(to) == backView # to /\ within = Face(backView)

Pressed(to, side) ==
    /\ Turning
    /\ TurnConsole(handle, to, side)
    /\ grip' = IF grip = NoGrip THEN grip ELSE [grip EXCEPT !.stale = TRUE]

\* A front handle by the keyboard, a rear one by any click
PressHandle(to, side) == Pressable(to) /\ Pressed(to, side)

\* The tour begins on the front, wherever the machine is
TourFront == backView /\ Pressed(FALSE, "left")

TurnInit ==
    /\ grip = NoGrip
    /\ handle = [flip |-> 0, pull |-> -1, direction |-> "left", back |-> FALSE]
    /\ backView = FALSE
    /\ within = "front"
    /\ turns = 0

TurnNext ==
    \/ TurnFrame \/ Cancelled \/ TourFront
    \/ \E side \in Sides : PressHandle(TRUE, side) \/ PressHandle(FALSE, side) \/ \E p \in Pointers : BeginHandle(side, p)
    \/ \E p \in Pointers : PullHandle(p) \/ LetHandleGo(p)

TurnSpec == TurnInit /\ [][TurnNext]_turnVars /\ WF_turnVars(TurnFrame)

-----------------------------------------------------------------------------
\* Properties

\* What the turn keeps is of these shapes.
TurnTypeOK ==
    /\ grip = NoGrip \/ grip \in [side : Sides, pointer : Pointers, far : BOOLEAN, stale : BOOLEAN]
    /\ handle \in [flip : 0 .. 4, pull : -1 .. 2, direction : Sides, back : BOOLEAN]
    /\ backView = handle.back
    /\ within \in {"none", "front", "rear"} /\ turns \in 0 .. MaxPulls

\* The machine hangs on a handle only while somebody holds one.
HeldByAHand == handle.pull # -1 => grip # NoGrip

\* Nothing is laid out to be pressed over a machine that is on its way to another face.
NothingReachedMidTurn == within # "none" => handle.flip = TurnEnd(within = "rear")

\* The machine changes the way it turns only while it stands on a face: it never jumps
\* (but for a gesture whose handle left the page: its drag stays behind, and the mouse
\* still owns it when the handle is back).
TurnsOneWay ==
    [][handle'.direction # handle.direction => handle.flip \in {0, 4} \/ grip.stale]_turnVars

\* Turned from the page, only a pull far enough or a press moves the face asked for.
OnlyAPullTurns ==
    [][backView' # backView /\ grip # NoGrip /\ grip' = NoGrip => grip.far]_turnVars

\* Whoever turned the machine how often, it ends up at rest on the face the page shows,
\* with its controls laid out, unless a hand still holds it.
EndsOnItsFace ==
    <>[](handle.pull = -1 => handle.flip = TurnEnd(backView) /\ within = Face(backView))
=============================================================================
