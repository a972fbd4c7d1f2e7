------------------------------ MODULE Notebook ------------------------------
(***************************************************************************)
(* The notebook that lies beside the record of the game: the two surfaces  *)
(* the reader shows or hides (archive-view-motion.ts, ArchiveViews.tsx),   *)
(* the leaf that turns between the two teams' pages (page-turn.ts), and    *)
(* the pencil, the eraser and what they can take back (FieldNotebook.tsx,  *)
(* NotebookTools.tsx). A stroke is its id and whether it grew.             *)
(***************************************************************************)
EXTENDS Integers, Sequences, FiniteSets, Functions

CONSTANTS
    MaxGestures,  \* gestures of one reader: a bound
    MaxUndo,      \* gestures that can be taken back (50 in the code)
    Hinge         \* the leaf's positions are 0 .. Hinge

ASSUME NotebookAssumption == MaxGestures \in Nat /\ MaxUndo \in Nat \ {0} /\ Hinge \in Nat \ {0}

VARIABLES
    views,    \* ArchiveViewMotion: view, animations, what is inert, what it was before
    leaf,     \* page-turn: Turn, and what is inert of the pages
    ink,      \* the strokes of each page
    gesture,  \* the gesture of the pointer
    book      \* tool, page, undo, serial; the dialog and the preference for less motion

notebookVars == <<views, leaf, ink, gesture, book>>

Items == {"notebook", "receipt"}
Columns == {"A", "B"}
Nothing == [item \in {} |-> FALSE]
NoGesture == [on |-> FALSE, team |-> "A", tool |-> "pen", before |-> [t \in Columns |-> <<>>], stroke |-> 0]

-----------------------------------------------------------------------------
\* What is shown

IsVisible(view, item) == view \in {"both", item}
\* A leaving surface stays on the screen, inert, until it has faded
OnScreen(item) == IsVisible(views.view, item) \/ item \in DOMAIN views.saved

FinishViews(v) ==
    [v EXCEPT !.inert = [item \in Items |-> IF item \in DOMAIN v.saved THEN v.saved[item] ELSE v.inert[item]],
              !.saved = Nothing, !.moving = FALSE]

\* Poses are taken before the previous movement is finished
Show(v, next) ==
    LET leaving == {item \in Items : ~IsVisible(next, item) /\ OnScreen(item)}
        w == [FinishViews(v) EXCEPT !.view = next]
    IN  IF book.reduced \/ book.dialog # "open" THEN w
        ELSE [w EXCEPT !.moving = TRUE, !.saved = [item \in leaving |-> w.inert[item]],
                       !.inert = [item \in Items |-> w.inert[item] \/ item \in leaving]]

\* Closing keeps the pose for the slide of the whole paper
FreezeForExit(v) == [v EXCEPT !.moving = FALSE]

-----------------------------------------------------------------------------
\* The leaf between the pages

Side(team) == IF team = "A" THEN 0 ELSE Hinge

SettleLeaf(l) == IF l.on THEN [l EXCEPT !.on = FALSE, !.at = 0, !.speed = 0, !.target = 0, !.inert = l.saved] ELSE l

\* stepNotebookHinge: a spring pulls, both pages stop it
StepHinge(l) ==
    LET pull == IF l.target > l.at THEN 1 ELSE IF l.target < l.at THEN -1 ELSE 0
        speed == IF l.speed = pull THEN pull ELSE l.speed + pull
        at == l.at + speed
    IN  IF at <= 0 THEN [l EXCEPT !.at = 0, !.speed = 0]
        ELSE IF at >= Hinge THEN [l EXCEPT !.at = Hinge, !.speed = 0]
        ELSE [l EXCEPT !.at = at, !.speed = speed]

\* Broken variant: a click while the leaf turns is left for later
TurnOnce(l, next) ==
    IF book.reduced THEN SettleLeaf(l)
    ELSE IF l.on THEN l
    ELSE IF book.page = next \/ ~OnScreen("notebook") THEN l
    ELSE [on |-> TRUE, at |-> Side(book.page), speed |-> 0, target |-> Side(next),
          saved |-> l.inert, inert |-> [t \in Columns |-> TRUE]]

\* turnNotebookPage
TurnTo(l, next) ==
    IF book.reduced THEN SettleLeaf(l)
    ELSE IF l.on THEN [l EXCEPT !.target = Side(next)]
    ELSE IF book.page = next \/ ~OnScreen("notebook") THEN l
    ELSE [on |-> TRUE, at |-> Side(book.page), speed |-> 0, target |-> Side(next),
          saved |-> l.inert, inert |-> [t \in Columns |-> TRUE]]

LeafFrame ==
    /\ leaf.on
    /\ LET l == StepHinge(leaf) IN leaf' = IF l.at = l.target /\ l.speed = 0 THEN SettleLeaf(l) ELSE l
    /\ UNCHANGED <<views, ink, gesture, book>>

-----------------------------------------------------------------------------
\* The ink

\* What can be undone once the gesture is kept
Kept(g, now) ==
    IF now = g.before THEN book.undo
    ELSE IF Len(book.undo) < MaxUndo THEN Append(book.undo, g.before)
    ELSE Append(Tail(book.undo), g.before)

Release(now) ==
    /\ gesture' = NoGesture
    /\ ink' = now
    /\ book' = [book EXCEPT !.undo = IF gesture.on THEN Kept(gesture, now) ELSE @]

\* eraseNearest: the nearest stroke within reach of the point, if there is one
Erased(i, team) == {i} \union {[i EXCEPT ![team] = Restrict(@, DOMAIN @ \ {id})] : id \in DOMAIN i[team]}

\* pen: the new stroke, or the gesture's own stroke grows; eraser: some of the page's
Traced(i, g) ==
    IF g.tool = "eraser" THEN Erased(i, g.team)
    ELSE IF g.stroke \in DOMAIN i[g.team] THEN {i, [i EXCEPT ![g.team][g.stroke] = 2]}
    ELSE {i}

StrokeId(team) == book.serial + 1
Begun(page, stroke) == [id \in DOMAIN page \union {stroke} |-> IF id = stroke THEN 1 ELSE page[id]]

Reachable(team) == OnScreen("notebook") /\ ~views.inert["notebook"] /\ book.dialog # "closed" /\ team = book.page

StartDrawing(team) ==
    /\ Reachable(team) /\ ~leaf.on /\ ~gesture.on /\ book.tool \in {"pen", "eraser"}
    /\ book.serial < MaxGestures
    /\ gesture' = [on |-> TRUE, team |-> team, tool |-> book.tool, before |-> ink, stroke |-> StrokeId(team)]
    /\ ink' \in IF book.tool = "pen" THEN {[ink EXCEPT ![team] = Begun(@, StrokeId(team))]} ELSE Erased(ink, team)
    /\ book' = [book EXCEPT !.serial = @ + 1]
    /\ UNCHANGED <<views, leaf>>

MoveDrawing ==
    /\ gesture.on /\ ink' \in Traced(ink, gesture)
    /\ UNCHANGED <<views, leaf, gesture, book>>

\* Let go, or lost to the system
PointerUp ==
    /\ gesture.on /\ \E now \in Traced(ink, gesture) : Release(now)
    /\ UNCHANGED <<views, leaf>>

\* A gesture cut off by another tool never was
ToolChange ==
    /\ Reachable(book.page)
    /\ \E tool \in {"pen", "eraser"} :
          book' = [book EXCEPT !.tool = IF @ = tool THEN "type" ELSE tool]
    /\ gesture' = NoGesture /\ ink' = IF gesture.on THEN gesture.before ELSE ink
    /\ UNCHANGED <<views, leaf>>

UndoInk ==
    /\ Reachable(book.page) /\ book.undo # <<>>
    /\ gesture' = NoGesture /\ ink' = book.undo[Len(book.undo)]
    /\ book' = [book EXCEPT !.undo = SubSeq(@, 1, Len(@) - 1)]
    /\ UNCHANGED <<views, leaf>>

Flip ==
    /\ Reachable(book.page)
    /\ LET next == CHOOSE t \in Columns : t # book.page IN
       /\ leaf' = TurnTo(leaf, next)
       /\ gesture' = NoGesture
       /\ book' = [book EXCEPT !.page = next, !.undo = IF gesture.on THEN Kept(gesture, ink) ELSE @]
    /\ UNCHANGED <<views, ink>>

-----------------------------------------------------------------------------
\* The reader around them

\* A change of view settles the leaf
ToggleTool(item) ==
    /\ book.dialog = "open"
    /\ LET other == CHOOSE i \in Items : i # item IN
       views' = Show(views, IF IsVisible(views.view, item) THEN other ELSE "both")
    /\ leaf' = SettleLeaf(leaf)
    /\ UNCHANGED <<ink, gesture, book>>

Faded == views.moving /\ views' = FinishViews(views) /\ UNCHANGED <<leaf, ink, gesture, book>>

CloseReader ==
    /\ book.dialog = "open" /\ book' = [book EXCEPT !.dialog = "exiting"]
    /\ views' = FreezeForExit(views) /\ leaf' = SettleLeaf(leaf)
    /\ UNCHANGED <<ink, gesture>>

ReaderClosed ==
    /\ book.dialog = "exiting" /\ book' = [book EXCEPT !.dialog = "closed"]
    /\ views' = FinishViews(views) /\ leaf' = SettleLeaf(leaf)
    /\ UNCHANGED <<ink, gesture>>

OpenReader ==
    /\ book.dialog = "closed" /\ book' = [book EXCEPT !.dialog = "open"]
    /\ views' = FinishViews(views)
    /\ UNCHANGED <<leaf, ink, gesture>>

\* The window is resized, or less motion preferred
Disturbed ==
    /\ \E reduced \in BOOLEAN : book' = [book EXCEPT !.reduced = reduced]
    /\ views' = FinishViews(views) /\ leaf' = SettleLeaf(leaf)
    /\ UNCHANGED <<ink, gesture>>

NotebookInit ==
    /\ views = [view |-> "both", moving |-> FALSE, inert |-> [i \in Items |-> FALSE], saved |-> Nothing]
    /\ leaf = [on |-> FALSE, at |-> 0, speed |-> 0, target |-> 0,
               saved |-> [t \in Columns |-> FALSE], inert |-> [t \in Columns |-> FALSE]]
    /\ ink = [t \in Columns |-> <<>>] /\ gesture = NoGesture
    /\ book \in [tool : {"type"}, page : Columns, undo : {<<>>}, serial : {0}, dialog : {"closed"}, reduced : BOOLEAN]

NotebookNext ==
    \/ \E team \in Columns : StartDrawing(team)
    \/ MoveDrawing \/ PointerUp \/ ToolChange \/ UndoInk \/ Flip \/ LeafFrame
    \/ \E item \in Items : ToggleTool(item)
    \/ Faded \/ CloseReader \/ ReaderClosed \/ OpenReader \/ Disturbed

NotebookSpec == NotebookInit /\ [][NotebookNext]_notebookVars

-----------------------------------------------------------------------------
NotebookTypeOK ==
    /\ views.view \in {"both"} \union Items /\ views.moving \in BOOLEAN /\ DOMAIN views.saved \subseteq Items
    /\ leaf.on \in BOOLEAN /\ leaf.at \in 0 .. Hinge /\ leaf.target \in {0, Hinge} /\ leaf.speed \in -1 .. 1
    /\ \A t \in Columns : DOMAIN ink[t] \subseteq 1 .. MaxGestures /\ Range(ink[t]) \subseteq 1 .. 2
    /\ book.tool \in {"type", "pen", "eraser"} /\ Len(book.undo) <= MaxUndo /\ book.serial \in 0 .. MaxGestures

\* Whatever the reader hides and shows, and however fast: a surface takes no
\* input exactly while it fades out, and never when it is to be seen
OnlyLeavingIsInert ==
    /\ \A item \in Items : views.inert[item] <=> item \in DOMAIN views.saved
    /\ \A item \in Items : IsVisible(views.view, item) => ~views.inert[item]

\* The leaf lands on the page the reader is on, and gives both pages back
LeafLandsOnThePage ==
    /\ leaf.on => leaf.target = Side(book.page) /\ OnScreen("notebook")
    /\ ~leaf.on => \A t \in Columns : ~leaf.inert[t]

\* The pencil never draws on a page that is not open
DrawsOnTheOpenPage == gesture.on => gesture.team = book.page /\ ~leaf.on

\* Undoing always takes something back
UndoUndoes ==
    LET history == Append(book.undo, IF gesture.on THEN gesture.before ELSE ink) IN
    \A i \in 1 .. Len(book.undo) : history[i] # history[i + 1]

\* A finished stroke stays as it was drawn, until it is erased or taken back
FinishedStrokesStand ==
    [][\A t \in Columns : \A id \in DOMAIN ink[t] \intersect DOMAIN ink'[t] :
          ink'[t][id] # ink[t][id] => gesture.on /\ gesture.stroke = id]_notebookVars

\* A reader that is closed leaves no movement behind for the next one
ClosedIsStill == book.dialog = "closed" => views.saved = Nothing /\ ~views.moving /\ ~leaf.on

\* Ink goes on the open page, comes off in the order it went on, and stays
\* otherwise, however fast pages, surfaces and tools change.
InkStands ==
    /\ [](/\ NotebookTypeOK /\ OnlyLeavingIsInert /\ LeafLandsOnThePage
          /\ DrawsOnTheOpenPage /\ UndoUndoes /\ ClosedIsStill)
    /\ FinishedStrokesStand
=============================================================================
