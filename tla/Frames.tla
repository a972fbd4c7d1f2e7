------------------------------- MODULE Frames -------------------------------
(***************************************************************************)
(* The frames of the machine: the loop that sleeps between them            *)
(* (engine.ts), the copy of the last full frame that ambient frames are    *)
(* drawn over (partialRedraw.ts, partialFrame.ts), and the measurement by  *)
(* which the console chooses a quality (quality.ts, Console.tsx).          *)
(*                                                                         *)
(* A picture has two parts: the regions that move by themselves (beam,     *)
(* raster, needle) and the rest. Of what is on the canvas and in the copy  *)
(* only this matters: is it what a full frame would show now?              *)
(***************************************************************************)
EXTENDS Integers

CONSTANT Warm  \* frames drawn before one is measured

ASSUME FramesAssumption == Warm \in Nat

VARIABLES
    loop,    \* raf, sleep, dirty, owed, disposed; the copy, enabled, failed, checked
    scene,   \* parts in motion, the needle, a shadow waiting to be cast
    canvas,  \* what is up to date: rest, regions; how the last frame was drawn
    pane,    \* the page around: size, tab, what is live, which face
    tuning   \* the quality chosen, the level Auto has come to, the engine's; the probe

framesVars == <<loop, scene, canvas, pane, tuning>>

Levels == 0 .. 2   \* low, medium, high
AutoQuality == 3
Settings == Levels \union {AutoQuality}
Level(t) == IF t.choice = AutoQuality THEN t.auto ELSE t.choice
Visible == pane.sized
\* The engine measures; the page may have stopped listening. A measurement that
\* is due is not asked for yet
Probing == tuning.probe \in {"heard", "unheard"}
NoProbe == [tuning EXCEPT !.probe = "off", !.warm = 0]

-----------------------------------------------------------------------------
\* What is drawn

\* Wake: the loop asks for a frame
Woken(l) == IF l.disposed THEN l ELSE [l EXCEPT !.raf = TRUE, !.sleep = FALSE]
Staled(c) == [c EXCEPT !.rest = FALSE, !.kind = "none"]
StaleCopy(l) == IF l.copy = "none" THEN l ELSE [l EXCEPT !.copy = "stale"]

\* A frame is partial only when nothing but the regions could change in it
PartialFrame(changed, dirty, shadow) ==
    /\ loop.enabled /\ ~loop.failed /\ loop.copy # "none"
    /\ ~changed /\ ~dirty /\ ~Probing /\ ~shadow

\* The copy goes back and the regions are drawn over it; the first time this is
\* compared with a full frame, which stays on the canvas
Partially(l, c) ==
    IF l.checked
    THEN loop' = l /\ canvas' = [rest |-> l.copy = "fresh", regions |-> TRUE, kind |-> "partial"]
    ELSE /\ \E same \in {b \in BOOLEAN : b => l.copy = "fresh"} :
               loop' = IF same THEN [l EXCEPT !.checked = TRUE]
                       ELSE [l EXCEPT !.checked = TRUE, !.failed = TRUE, !.copy = "none"]
         /\ canvas' = [rest |-> TRUE, regions |-> TRUE, kind |-> "full"]

\* A picture about to stand still is copied, if the browser can
Fully(l, c, changed) ==
    /\ canvas' = [rest |-> TRUE, regions |-> TRUE, kind |-> "full"]
    /\ IF l.enabled /\ ~l.failed /\ ~changed /\ ~Probing
       THEN \E copied \in BOOLEAN :
               loop' = IF copied THEN [l EXCEPT !.copy = "fresh"] ELSE [l EXCEPT !.failed = TRUE, !.copy = "none"]
       ELSE loop' = [l EXCEPT !.copy = "none"]

\* The loop sleeps until just before the next frame that is due, half a second at most
NextSleep(l) == [l EXCEPT !.sleep = TRUE]

Scheduled(l, changed, probing) ==
    IF changed \/ (Visible /\ (l.dirty \/ probing)) THEN [l EXCEPT !.raf = TRUE] ELSE NextSleep(l)

\* Broken variant: a movement that is not drawn in its own frame is forgotten
OwedNow(needle) == needle

Owed(needle) == loop.owed \/ needle

\* probe, and the frame that is measured once the pipelines are warm
CountProbe(due) ==
    IF ~Probing \/ ~due THEN tuning' = tuning
    ELSE IF tuning.warm > 0 THEN tuning' = [tuning EXCEPT !.warm = @ - 1]
    ELSE tuning' = [tuning EXCEPT !.probe = IF @ = "heard" THEN "measured" ELSE "off"]

\* An ambient frame is due at the pace of the level and of who is watching
AmbientDue(owed, timeUp) == (pane.live \/ owed) /\ timeUp

\* One tick of the loop in a tab that is seen; timeUp: the pace allows an ambient frame
Tick ==
    /\ loop.raf /\ ~pane.hidden /\ tuning.probe # "measured"
    /\ \E moving \in {b \in BOOLEAN : b => scene.moving}, needle \in {b \in BOOLEAN : b => scene.needle}, timeUp \in BOOLEAN :
          LET changed == scene.moving
              dirty == loop.dirty
              owed == Owed(scene.needle)
              due == Visible /\ (changed \/ dirty \/ Probing \/ AmbientDue(owed, timeUp))
              casting == scene.shadow /\ tuning.engine > 0
              c == [canvas EXCEPT !.rest = @ /\ ~changed, !.regions = @ /\ ~(scene.needle \/ pane.live), !.kind = "none"]
              l == [(IF changed THEN StaleCopy(loop) ELSE loop) EXCEPT
                      !.raf = FALSE, !.dirty = @ /\ ~due, !.owed = owed /\ ~due]
              probing == Probing /\ ~(due /\ tuning.warm = 0)
          IN  /\ scene' = [moving |-> moving, needle |-> needle,
                           shadow |-> scene.shadow /\ ~(due /\ casting)]
              /\ CountProbe(due)
              /\ IF ~due \/ (~changed /\ ~dirty /\ ~Probing /\ ~pane.front)
                 THEN loop' = Scheduled(l, changed, probing) /\ canvas' = c
                 ELSE IF PartialFrame(changed, dirty, casting)
                 THEN Partially(Scheduled(l, changed, probing), c)
                 ELSE Fully(Scheduled(l, changed, probing), c, changed)
    /\ UNCHANGED pane

\* In a tab nobody sees the loop only keeps asking
HiddenTick ==
    /\ loop.raf /\ pane.hidden
    /\ loop' = [loop EXCEPT !.dirty = TRUE]
    /\ UNCHANGED <<scene, canvas, pane, tuning>>

SleepEnds ==
    /\ loop.sleep /\ loop' = Woken(loop)
    /\ UNCHANGED <<scene, canvas, pane, tuning>>

-----------------------------------------------------------------------------
\* What asks for frames

\* update: the console rendered something new, and what is live; a part may
\* start to move (several parts are several updates in a row)
Update ==
    /\ ~loop.disposed
    /\ loop' = StaleCopy(Woken([loop EXCEPT !.dirty = TRUE])) /\ canvas' = Staled(canvas)
    /\ \/ \E which \in {"moving", "needle", "shadow"} : scene' = [scene EXCEPT ![which] = TRUE] /\ UNCHANGED pane
       \/ \E live \in BOOLEAN : pane' = [pane EXCEPT !.live = live] /\ UNCHANGED scene
    /\ UNCHANGED tuning

\* Chassis: a texture arrives, which asks for no frame by itself
TextureArrives ==
    /\ ~loop.disposed
    /\ loop' = StaleCopy([loop EXCEPT !.dirty = TRUE]) /\ canvas' = Staled(canvas)
    /\ UNCHANGED <<scene, pane, tuning>>

\* A key goes down, a handle is pulled, the machine is turned
Pulse ==
    /\ ~loop.disposed
    /\ loop' = Woken(loop) /\ scene' = [scene EXCEPT !.moving = TRUE, !.shadow = TRUE]
    /\ \E front \in BOOLEAN : pane' = [pane EXCEPT !.front = front]
    /\ UNCHANGED <<canvas, tuning>>

\* resize: the canvas is cleared and drawn at once
Resized(l, sized) == Woken([l EXCEPT !.dirty = TRUE, !.copy = "none"])

Resize ==
    /\ ~loop.disposed
    /\ \E sized \in BOOLEAN :
          /\ pane' = [pane EXCEPT !.sized = sized]
          /\ canvas' = [rest |-> sized, regions |-> sized, kind |-> "none"]
          /\ scene' = [scene EXCEPT !.shadow = @ /\ ~(sized /\ tuning.engine > 0)]
          /\ loop' = Resized(loop, sized)
    /\ UNCHANGED tuning

\* The tab is hidden or shown
TabChanges ==
    /\ pane' = [pane EXCEPT !.hidden = ~@] /\ UNCHANGED <<loop, scene, canvas, tuning>>

\* The runtime switch starts over with a full frame
SwitchPartial ==
    /\ ~loop.disposed
    /\ loop' = [loop EXCEPT !.enabled = ~@, !.copy = IF loop.enabled THEN @ ELSE "none"]
    /\ UNCHANGED <<scene, canvas, pane, tuning>>

Dispose ==
    /\ ~loop.disposed
    /\ loop' = [loop EXCEPT !.disposed = TRUE, !.raf = FALSE, !.sleep = FALSE]
    /\ tuning' = NoProbe
    /\ UNCHANGED <<scene, canvas, pane>>

-----------------------------------------------------------------------------
\* The quality

\* applyQuality: a new level clears the copy and resizes
ApplyQuality(t, level, l) ==
    IF level = tuning.engine THEN /\ tuning' = t /\ loop' = l /\ UNCHANGED <<canvas, scene>>
    ELSE /\ tuning' = [t EXCEPT !.engine = level]
         /\ canvas' = [rest |-> Visible, regions |-> Visible, kind |-> "none"]
         /\ scene' = [scene EXCEPT !.shadow = ~(Visible /\ level > 0)]
         /\ loop' = Resized(l, Visible)

\* probe: the engine measures from now on, and an earlier measurement ends unheard
AsksProbe(t) == [t EXCEPT !.probe = "heard", !.warm = Warm]
Probed(l) == Woken([l EXCEPT !.copy = "none"])

\* A choice of quality: Auto measures afresh from high; the loop that measured is
\* no longer heard. The effects of a click run with it, and those that wait run
\* before it
ChooseQuality ==
    /\ ~loop.disposed /\ tuning.probe \notin {"due", "measured"}
    /\ \E choice \in Settings :
          LET t == IF choice = AutoQuality THEN AsksProbe([tuning EXCEPT !.choice = choice, !.auto = 2])
                   ELSE [tuning EXCEPT !.choice = choice, !.probe = IF Probing THEN "unheard" ELSE "off"]
          IN  ApplyQuality(t, Level(t), IF choice = AutoQuality THEN Probed(loop) ELSE loop)
    /\ UNCHANGED pane

\* The machine has loaded: the effect of Auto asks for the first measurement, some
\* frames later perhaps
AskProbe ==
    /\ tuning.probe = "due" /\ ~loop.disposed
    /\ tuning' = AsksProbe(tuning)
    /\ loop' = Probed(loop)
    /\ UNCHANGED <<scene, canvas, pane>>

\* settleQuality: Auto only ever steps down, two steps when medium cannot fit either
SettleQuality(level, cost) ==
    IF cost = "fits" \/ level = 0 THEN level ELSE IF level = 2 /\ cost = "over" THEN 1 ELSE 0

\* The measured cost settles the level, or asks for another measurement at once
Measured ==
    /\ tuning.probe = "measured"
    /\ \E cost \in {"fits", "over", "far over"} :
          LET next == SettleQuality(tuning.auto, cost) IN
          IF next = tuning.auto THEN /\ tuning' = NoProbe /\ UNCHANGED <<canvas, scene, loop>>
          ELSE ApplyQuality(AsksProbe([tuning EXCEPT !.auto = next]), next, Probed(loop))
    /\ UNCHANGED pane

FramesInit ==
    /\ loop = [raf |-> TRUE, sleep |-> FALSE, dirty |-> TRUE, owed |-> FALSE, disposed |-> FALSE,
               copy |-> "none", enabled |-> TRUE, failed |-> FALSE, checked |-> FALSE]
    /\ scene = [moving |-> FALSE, needle |-> FALSE, shadow |-> TRUE]
    /\ canvas = [rest |-> FALSE, regions |-> FALSE, kind |-> "none"]
    /\ pane = [sized |-> TRUE, hidden |-> FALSE, live |-> TRUE, front |-> TRUE]
    /\ \E level \in Levels : tuning = [choice |-> AutoQuality, auto |-> level, engine |-> level, probe |-> "due", warm |-> 0]

FramesNext ==
    \/ Tick \/ HiddenTick \/ SleepEnds \/ Update \/ TextureArrives \/ Pulse \/ Resize
    \/ TabChanges \/ SwitchPartial \/ Dispose \/ ChooseQuality \/ AskProbe \/ Measured

\* The browser gives a visible tab its frames, timers fire, a measurement ends
FramesMove == Tick \/ SleepEnds \/ Measured

FramesSpec == FramesInit /\ [][FramesNext]_framesVars /\ WF_framesVars(FramesMove)

-----------------------------------------------------------------------------
Seen == Visible /\ ~pane.hidden /\ ~loop.disposed

FramesTypeOK ==
    /\ loop.copy \in {"none", "fresh", "stale"} /\ canvas.kind \in {"none", "partial", "full"}
    /\ tuning.auto \in Levels /\ tuning.engine \in Levels /\ tuning.choice \in Settings
    /\ tuning.probe \in {"off", "due", "heard", "unheard", "measured"} /\ tuning.warm \in 0 .. Warm
    /\ loop.disposed => ~loop.raf /\ ~loop.sleep

\* "Nothing but the registered regions could change in it": a partial frame
\* shows what a full frame would, whatever happened since the copy was taken
PartialIsWhole == canvas.kind = "partial" => canvas.rest /\ canvas.regions

\* The loop sleeps only when nothing is owed: the machine on the screen is the machine
AsleepIsCurrent ==
    ~loop.raf /\ Seen /\ ~loop.dirty =>
        /\ canvas.rest
        /\ pane.front /\ ~pane.live /\ ~loop.owed => canvas.regions

\* A machine that is seen always comes to draw what changed
ChangesAreShown == []<>(canvas.rest \/ ~Seen)

\* The machine is drawn at the level the player chose, or Auto came to: no
\* measurement that ends late overrides the player
DrawnAsChosen == tuning.engine = Level(tuning)

\* "Auto only ever steps down", until the player asks again
AutoStepsDown == [][tuning.probe = "measured" => tuning'.auto <= tuning.auto]_framesVars

\* What is on the canvas is what a full frame would show, at the level that was
\* chosen, whether the loop draws, copies, measures or sleeps, and no measurement
\* raises that level (engine.ts, partialRedraw.ts, quality.ts).
CanvasIsCurrent ==
    [](FramesTypeOK /\ PartialIsWhole /\ AsleepIsCurrent /\ DrawnAsChosen) /\ AutoStepsDown
=============================================================================
