-------------------------------- MODULE Tour --------------------------------
(***************************************************************************)
(* The operation tour (OperationTour.tsx, onboarding.ts), the cutout that  *)
(* points at what a step is about (TourSpotlight.tsx) and the notices that *)
(* close by themselves (StationToast.tsx).                                 *)
(*                                                                         *)
(* An effect of the page runs some time after what it depends on changed,  *)
(* and its own updates make it run again: React is a step of its own here, *)
(* enabled while the effect would change something.                        *)
(***************************************************************************)
EXTENDS Integers, FiniteSetsExt

CONSTANTS Duration,  \* how long a notice stays, in ticks
          Notices,   \* texts of notices
          MaxChanges \* bound: changes of the situation

ASSUME TourAssumption == Duration \in Nat \ {0} /\ MaxChanges \in Nat

VARIABLES
    notice, \* what this behaviour follows: the tour with its cutout, or a notice (they share nothing)
    room,    \* what the tour is about: phase, words, voice; compact page; enabled; replays asked for
    tour,    \* steps and the one of them it shows, seen, dismissed, replayed and the home of the last effect; whether it was asked for
    stored,  \* the progress in local storage
    light,   \* the cutout: whether it is on, for which step, a frame requested, and its last key
    toast,   \* message, remaining time of its clock, whether it is held; ghost: time it ran free, closed before that was enough
    shown,   \* ghost: the steps that were shown
    changes  \* changes of the situation so far

tourVars == <<notice, room, tour, stored, light, toast, shown, changes>>

\* "waiting": no action of this seat's own, or none that can be sent: another's turn, no
\* connection, or a briefing over the wide page's screen
TourPhases == {"home", "room", "encrypt", "guess", "waiting", "game_over"}
NoStep == 0
NoNotice == "no notice"

\* The steps in the order of the tour; a step is its place in it
Order == <<"enter", "action-enter", "room", "history", "words", "keypad",
           "action-start", "action-clues", "action-guess", "action-return", "voice">>

-----------------------------------------------------------------------------
\* onboarding.ts

TourAction(r) ==
    CASE r.phase = "home" -> "action-enter" [] r.phase = "room" /\ r.owner -> "action-start"
      [] r.phase = "encrypt" -> "action-clues" [] r.phase = "guess" -> "action-guess"
      [] r.phase = "game_over" -> "action-return" [] OTHER -> "none"

Offered(r) ==
    IF r.phase = "home" THEN {"enter", "action-enter"}
    ELSE {"room", "history", TourAction(r)}
         \union (IF r.phase \in {"encrypt", "guess", "waiting", "game_over"} THEN {"words"} ELSE {})
         \union (IF r.phase = "guess" THEN {"keypad"} ELSE {})
         \union (IF r.voice THEN {"voice"} ELSE {})

\* Only the controls this player can use now, in the order of the tour
TourSteps(r) == {place \in DOMAIN Order : Order[place] \in Offered(r)}

-----------------------------------------------------------------------------
\* OperationTour

First(steps) == IF steps = {} THEN NoStep ELSE Min(steps)

\* Steps whose control is gone leave the tour; the step shown stays, or the next one takes its place
KeptSteps(t, available) ==
    LET kept == t.steps \intersect available
        rest == {place \in kept : place >= t.step}
    IN  [t EXCEPT !.steps = IF rest = {} THEN {} ELSE kept, !.step = First(rest)]

\* What the effect makes of the tour: revise it, replay it, or begin what was not seen yet
Effect(t, r) ==
    LET available == TourSteps(r)
        asked == t.replayed # r.replays
        moved == t.home # (r.phase = "home")
        seen == [t EXCEPT !.replayed = r.replays, !.home = r.phase = "home"]
        next == IF asked THEN available
                ELSE IF ~t.dismissed THEN available \ t.seen ELSE {}
    IN  IF ~r.enabled THEN t
        ELSE IF t.steps # {} /\ ~asked /\ ~moved THEN KeptSteps(seen, available)
        ELSE IF next # {} \/ t.steps # {} THEN [seen EXCEPT !.steps = next, !.step = First(next), !.replaying = asked] ELSE seen

\* The cutout of the next step replaces the one of the last
Lit(l, t, r) ==
    IF ~r.enabled \/ t.step = NoStep THEN [on |-> FALSE, step |-> NoStep, pending |-> FALSE, key |-> NoStep]
    ELSE IF l.step = t.step THEN l
    ELSE [on |-> FALSE, step |-> t.step, pending |-> TRUE, key |-> NoStep]

SetTour(t, r) ==
    /\ tour' = t /\ room' = r /\ light' = Lit(light, t, r)
    /\ shown' = IF r.enabled /\ t.step # NoStep THEN shown \union {t.step} ELSE shown

React ==
    /\ notice = "tour" /\ Effect(tour, room) # tour
    /\ SetTour(Effect(tour, room), room)
    /\ UNCHANGED <<notice, stored, toast, changes>>

\* Everything the tour was about is seen now
CloseTour(t, skip) == [t EXCEPT !.seen = @ \union t.steps, !.dismissed = @ \/ skip, !.steps = {}, !.step = NoStep]

NextStep(t) ==
    LET later == {place \in t.steps : place > t.step} IN
    IF later = {} THEN CloseTour(t, FALSE)
    ELSE [t EXCEPT !.seen = @ \union {t.step}, !.step = Min(later)]

\* The card's buttons and Escape; the progress is saved whenever it changes
PressReplay(t) ==
    /\ room.enabled /\ tour.step # NoStep
    /\ SetTour(t, room) /\ stored' = [seen |-> t.seen, dismissed |-> t.dismissed]
    /\ UNCHANGED <<notice, toast, changes>>
GoOn == PressReplay(NextStep(tour))
Skip == PressReplay(CloseTour(tour, TRUE))

Changed == changes < MaxChanges /\ changes' = changes + 1

Rearranged(r) ==
    /\ Changed /\ r # room /\ SetTour(tour, r)
    /\ UNCHANGED <<notice, stored, toast>>

\* The game moves on, or voice comes and goes
Situation == notice = "tour" /\ \E phase \in TourPhases, owner, voice \in BOOLEAN :
    Rearranged([room EXCEPT !.phase = phase, !.owner = owner, !.voice = voice])

\* A panel, the manual or the rear covers the page
Cover == notice = "tour" /\ Rearranged([room EXCEPT !.enabled = ~@])

\* What the step is about leaves the view or comes back: every observer asks for a frame
Scroll ==
    /\ notice = "tour" /\ Changed
    /\ room' = [room EXCEPT !.target = ~@]
    /\ light' = [light EXCEPT !.pending = light.step # NoStep]
    /\ UNCHANGED <<notice, tour, stored, toast, shown>>

\* The settings' button
Replay == notice = "tour" /\ Rearranged([room EXCEPT !.replays = @ + 1])

\* The page is loaded again: only the stored progress is left
ReloadTour ==
    /\ notice = "tour" /\ Changed
    /\ SetTour([steps |-> {}, step |-> NoStep, seen |-> stored.seen, dismissed |-> stored.dismissed,
                replayed |-> room.replays, replaying |-> FALSE, home |-> room.phase = "home"], room)
    /\ UNCHANGED <<notice, stored, toast>>

-----------------------------------------------------------------------------
\* TourSpotlight: one measurement per requested frame

Measure(l, target) ==
    IF ~target THEN [l EXCEPT !.on = FALSE, !.key = NoStep]
    ELSE IF l.key = l.step THEN l ELSE [l EXCEPT !.on = TRUE, !.key = l.step]

Spotlight ==
    /\ light.pending
    /\ light' = [Measure(light, room.target) EXCEPT !.pending = FALSE]
    /\ UNCHANGED <<notice, room, tour, stored, toast, shown, changes>>

-----------------------------------------------------------------------------
\* StationToast: the clock stands while the notice is hovered or holds the focus

AnnounceNotice ==
    /\ notice = "toast" /\ Changed
    /\ \E message \in Notices :
          toast' = IF toast.message = message THEN toast
                   ELSE [toast EXCEPT !.message = message, !.remaining = Duration, !.read = 0]
    /\ UNCHANGED <<notice, room, tour, stored, light, shown>>

\* The effect's cleanup takes what has run off the clock, and its next run goes on from there
Hold ==
    /\ notice = "toast" /\ Changed /\ toast.message # NoNotice
    /\ \E held \in BOOLEAN : held # toast.held /\ toast' = [toast EXCEPT !.held = held]
    /\ UNCHANGED <<notice, room, tour, stored, light, shown>>

Runs(t) == t.message # NoNotice /\ ~t.held

NoticeTick ==
    /\ Runs(toast)
    /\ LET read == IF toast.held THEN toast.read ELSE toast.read + 1 IN
       toast' = IF toast.remaining = 1
                THEN [toast EXCEPT !.message = NoNotice, !.held = FALSE, !.early = @ \/ read < Duration]
                ELSE [toast EXCEPT !.remaining = @ - 1, !.read = read]
    /\ UNCHANGED <<notice, room, tour, stored, light, shown, changes>>

TourInit ==
    /\ notice \in {"tour", "toast"}
    /\ room \in [phase : {"home", "guess"}, owner : {FALSE}, voice : BOOLEAN, enabled : {TRUE}, target : BOOLEAN, replays : {0}]
    /\ stored = [seen |-> {}, dismissed |-> FALSE]
    /\ tour = [steps |-> {}, step |-> NoStep, seen |-> {}, dismissed |-> FALSE, replayed |-> 0, replaying |-> FALSE, home |-> room.phase = "home"]
    /\ light = [on |-> FALSE, step |-> NoStep, pending |-> FALSE, key |-> NoStep]
    /\ toast = [message |-> NoNotice, remaining |-> Duration, held |-> FALSE, read |-> 0, early |-> FALSE]
    /\ shown = {}
    /\ changes = 0

TourNext == React \/ GoOn \/ Skip \/ Situation \/ Cover \/ Scroll \/ Replay \/ ReloadTour \/ Spotlight \/ AnnounceNotice \/ Hold \/ NoticeTick

\* React runs the effects it owes, and the browser gives the frame it was asked for
TourMoves == React \/ Spotlight

TourSpec == TourInit /\ [][TourNext]_tourVars /\ WF_tourVars(TourMoves)

-----------------------------------------------------------------------------
\* Properties

\* What the tour keeps is of these shapes; a tour under way has a current step.
TourTypeOK ==
    /\ tour.steps \subseteq DOMAIN Order /\ tour.seen \subseteq DOMAIN Order
    /\ IF tour.steps = {} THEN tour.step = NoStep ELSE tour.step \in tour.steps
    /\ stored = [seen |-> tour.seen, dismissed |-> tour.dismissed]
    /\ light.on => light.step # NoStep
    /\ toast.remaining \in 1 .. Duration /\ changes \in 0 .. MaxChanges

\* A tour that begins by itself never shows a step again that was passed, not even
\* after a reload; only the settings' button repeats one.
NothingTwice == tour.replaying \/ tour.step \notin tour.seen

\* However the situation changes under a tour, no step of it is passed unseen, unless the tour is skipped.
SeenWasShown == tour.dismissed \/ tour.seen \subseteq shown

\* A notice is closed only after it was free to be read for its whole time.
NoticeCanBeRead == ~toast.early

\* The tour ends up with steps about what the player can use now, and a tour neither
\* skipped nor running leaves nothing of that unexplained.
TourCatchesUp ==
    <>[](notice = "tour" /\ room.enabled =>
                         /\ tour.steps \subseteq TourSteps(room)
                         /\ tour.steps = {} /\ ~tour.dismissed => TourSteps(room) \subseteq tour.seen)

\* A target out of view never leaves the page blurred, and one in view is lit.
LightFindsTarget ==
    <>[](notice = "tour" /\ room.enabled /\ tour.step # NoStep => light.on = room.target)
=============================================================================
