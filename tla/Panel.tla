------------------------------- MODULE Panel -------------------------------
(***************************************************************************)
(* The mechanical and lamp indicators of the console, which engine.ts      *)
(* feeds from the page (update) and moves frame by frame (tick): a score   *)
(* flag (scoreFlagMotion.ts), a name card of the roster (rosterMotion.ts), *)
(* the pulse a live score sends through the tubes (scoreFeedback.ts) and   *)
(* the lamp test (parts/lamps.ts).                                         *)
(*                                                                         *)
(* They share nothing but what update tells them, so a behaviour follows   *)
(* one of them, "watched". An angle or a travel is one of its two ends or  *)
(* in between; a duration ends in some later frame.                        *)
(***************************************************************************)
EXTENDS Integers

CONSTANTS People,    \* who may sit in the seat
          Rooms,     \* rooms this page enters
          MaxScores, \* bound: live results
          MaxTurns   \* bound: changes of the page

ASSUME PanelAssumption == MaxScores \in Nat /\ MaxTurns \in Nat

PanelTeams == {"A", "B"}
NoOne == "no one"
NoRoom == "no room"
Indicators == {"flag", "card", "pulse", "lamps"}

VARIABLES
    watched, \* the indicator this behaviour follows
    view,    \* what engine.update reads: mains, cable and connection, reduced motion, front in view, and the game
    flag,    \* ScoreFlagMotion, and the click the speaker still owes its last stroke
    card,    \* RosterMotion
    pulse,   \* ScorePulse, and the score it shows
    lamps,   \* Lamps: the test under way, what is lit, and whether it was asked for since the mains came
    noted,   \* ghost: a click no stroke owed; how often each result pulsed
    wheels    \* changes of the page so far

panelVars == <<watched, view, flag, card, pulse, lamps, noted, wheels>>

Signal == [room : Rooms \union {NoRoom}, team : PanelTeams, online : BOOLEAN, event : 0 .. MaxScores]

-----------------------------------------------------------------------------
\* ScoreFlagMotion

\* reduced motion, and a score kept while the link was down: no stroke, no click
AtOnce(f) == [f EXCEPT !.at = IF f.target THEN "up" ELSE "down", !.motion = "none", !.impact = FALSE, !.owed = FALSE]

\* A powered pulse for the other face; one cancelled before its release never moves
SyncFlag(f, active, powered) ==
    IF ~powered \/ active = f.target THEN f
    ELSE IF f.at = (IF active THEN "up" ELSE "down") /\ f.motion \in {"none", "held"}
         THEN [f EXCEPT !.target = active, !.impact = FALSE, !.motion = "none", !.owed = FALSE]
         ELSE [f EXCEPT !.target = active, !.impact = FALSE, !.owed = TRUE,
                        !.motion = IF @ \in {"travel", "recoil"} THEN "travel" ELSE "held"]

\* Where one frame may bring the blade: held back, under way, against its stop, at rest
Blades(f, reduced) ==
    IF reduced THEN {AtOnce(f)}
    ELSE LET strikes == f.motion \in {"held", "travel"}
             end == [f EXCEPT !.motion = "none", !.at = IF f.target THEN "up" ELSE "down", !.impact = @ \/ strikes]
         IN  CASE f.motion = "none" -> {f}
               [] f.motion = "recoil" -> {f, end}
               [] OTHER -> {f, [f EXCEPT !.motion = "travel", !.at = "between"],
                            [f EXCEPT !.motion = "recoil", !.at = "between", !.impact = TRUE], end}

-----------------------------------------------------------------------------
\* RosterMotion: the card is in the rack, out of sight, or between

SyncCard(c, next) == [c EXCEPT !.desired = next]

\* Where one frame may bring the card; only a card fully out of sight takes the latest name
Cards(c, reduced) ==
    IF reduced THEN {[c EXCEPT !.current = c.desired, !.at = IF c.desired = NoOne THEN "out" ELSE "in"]}
    ELSE LET held == IF c.current = NoOne THEN [c EXCEPT !.current = c.desired] ELSE c
             goal == IF held.current # NoOne /\ held.current = held.desired THEN "in" ELSE "out"
             moved == IF held.at = goal THEN {held}
                      ELSE {[held EXCEPT !.at = "between"], [held EXCEPT !.at = goal]}
         IN  {IF m.at = "out" THEN [m EXCEPT !.current = m.desired] ELSE m : m \in moved}

-----------------------------------------------------------------------------
\* ScorePulse

\* Only a fresh result, of the room and team this page already was in, online, starts a pulse
Observe(p, s, fresh, allowed) ==
    LET seen == [p EXCEPT !.seen = TRUE, !.previous = s]
        dark == [seen EXCEPT !.running = FALSE]
    IN  IF ~allowed \/ ~s.online \/ s.room = NoRoom \/ s.event = 0 THEN dark
        ELSE IF ~p.seen \/ ~p.previous.online \/ p.previous.room # s.room \/ p.previous.team # s.team THEN dark
        ELSE IF s.event = p.previous.event \/ ~fresh THEN seen
        ELSE [seen EXCEPT !.running = TRUE, !.shows = s]

\* One frame of a pulse: it runs on, or its time is over
Beats(p, allowed) == {[p EXCEPT !.running = FALSE]} \union (IF allowed THEN {p} ELSE {})

-----------------------------------------------------------------------------
\* Lamps

\* A dead machine ends its test
PowerLamps(l, powered) == [l EXCEPT !.testing = powered /\ @, !.asked = powered /\ @]

SyncLamps(l, powered) == [l EXCEPT !.lit = powered /\ l.testing]

\* The engraved test key: nothing happens on a dead machine
TestLamps ==
    /\ watched = "lamps" /\ view.powered
    /\ lamps' = [lamps EXCEPT !.testing = TRUE, !.asked = TRUE]
    /\ UNCHANGED <<watched, view, flag, card, pulse, noted, wheels>>

\* 1.8 s later
TestEnds ==
    /\ watched = "lamps" /\ lamps.testing
    /\ lamps' = [lamps EXCEPT !.testing = FALSE]
    /\ UNCHANGED <<watched, view, flag, card, pulse, noted, wheels>>

-----------------------------------------------------------------------------
\* engine.update, with the page as the store and the hardware leave it

PanelOnline(p) == p.powered /\ p.linked
Watching(p) == p.powered /\ ~p.reduced /\ p.inView
SignalOf(p) == [room |-> p.room, team |-> p.team, online |-> PanelOnline(p), event |-> p.event]

UpdateEngine(next) ==
    LET powered == next.powered
        resuming == PanelOnline(next) /\ ~PanelOnline(view)
        turned == SyncFlag(flag, next.score, powered)
        observed == Observe(pulse, SignalOf(next), next.fresh, Watching(next))
        began == observed.running /\ (~pulse.running \/ observed.shows.event # pulse.shows.event)
    IN  /\ view' = next
        /\ flag' = IF watched # "flag" THEN flag ELSE IF resuming THEN AtOnce(turned) ELSE turned
        /\ card' = IF watched # "card" THEN card ELSE SyncCard(card, next.person)
        /\ pulse' = IF watched # "pulse" THEN pulse ELSE observed
        /\ noted' = IF watched = "pulse" /\ began
                    THEN [noted EXCEPT !.pulses[observed.shows.event] = IF @ < 2 THEN @ + 1 ELSE @] ELSE noted
        /\ lamps' = IF watched # "lamps" THEN lamps ELSE SyncLamps(PowerLamps(lamps, powered), powered)
        /\ UNCHANGED watched

Turn(next) == wheels < MaxTurns /\ wheels' = wheels + 1 /\ next # view /\ UpdateEngine(next)

\* The mains, the cable, the media query, and the front being looked at
Switch == \E powered, linked, reduced, inView \in BOOLEAN :
    Turn([view EXCEPT !.powered = powered, !.linked = linked, !.reduced = reduced, !.inView = inView])

\* A round's result: the score, and an event only when it is read live
RoundResult == \E score \in BOOLEAN :
    LET live == PanelOnline(view) /\ view.room # NoRoom IN
    /\ live => view.serial < MaxScores
    /\ Turn(IF live THEN [view EXCEPT !.score = score, !.event = view.serial + 1, !.serial = @ + 1, !.fresh = TRUE]
            ELSE [view EXCEPT !.score = score])

\* The connection is lost, and with it the event; the cable leaves the page as it is
PanelLinkLost == Turn([view EXCEPT !.linked = FALSE, !.event = 0])

\* A restored game, or another game: its score comes with no event
FullSync == \E score \in BOOLEAN, team \in PanelTeams :
    Turn([view EXCEPT !.score = score, !.team = team, !.event = 0])

\* Another room, and another team within it
EnterRoom == \E room \in Rooms \union {NoRoom}, team \in PanelTeams :
    Turn([view EXCEPT !.room = room, !.team = team, !.event = IF room = view.room THEN @ ELSE 0])

SeatChange == \E person \in People \union {NoOne} : Turn([view EXCEPT !.person = person])

\* 1500 ms after a result
EventAges ==
    /\ watched = "pulse" /\ view.fresh
    /\ view' = [view EXCEPT !.fresh = FALSE]
    /\ UNCHANGED <<watched, flag, card, pulse, lamps, noted, wheels>>

\* engine.tick: what the frame moves, then the click of a blade that struck
PanelTick ==
    /\ \/ watched = "flag" /\ \E f \in Blades(flag, view.reduced) :
             /\ flag' = [f EXCEPT !.impact = FALSE, !.owed = @ /\ ~f.impact]
             /\ noted' = [noted EXCEPT !.stray = @ \/ (f.impact /\ ~f.owed)]
             /\ UNCHANGED <<card, pulse, lamps>>
       \/ watched = "card" /\ card' \in Cards(card, view.reduced) /\ UNCHANGED <<flag, pulse, lamps, noted>>
       \/ watched = "pulse"
             /\ pulse' \in Beats(pulse, PanelOnline(view) /\ ~view.reduced) /\ UNCHANGED <<flag, card, lamps, noted>>
       \/ watched = "lamps" /\ lamps' = SyncLamps(lamps, view.powered) /\ UNCHANGED <<flag, card, pulse, noted>>
    /\ UNCHANGED <<watched, view, wheels>>

\* A frame in which whatever moves gets on: the loop runs while anything does
AtRest == flag.motion = "none" /\ card.current = card.desired /\ card.at = (IF card.desired = NoOne THEN "out" ELSE "in")
Arrive == PanelTick /\ ~AtRest /\ <<flag, card>>' # <<flag, card>> /\ flag'.motion # "travel" /\ card'.at # "between"

PanelInit ==
    /\ watched \in Indicators
    /\ view \in [powered : BOOLEAN, linked : BOOLEAN, reduced : {FALSE}, inView : {TRUE}, score : {FALSE}, person : {NoOne},
                 room : {NoRoom}, team : {"A"}, event : {0}, serial : {0}, fresh : {FALSE}]
    /\ flag = [at |-> "down", target |-> FALSE, motion |-> "none", impact |-> FALSE, owed |-> FALSE]
    /\ card = [current |-> NoOne, desired |-> NoOne, at |-> "out"]
    /\ pulse = [running |-> FALSE, seen |-> FALSE, previous |-> SignalOf(view), shows |-> SignalOf(view)]
    /\ lamps = [testing |-> FALSE, asked |-> FALSE, lit |-> FALSE]
    /\ noted = [stray |-> FALSE, pulses |-> [e \in 1 .. MaxScores |-> 0]]
    /\ wheels = 0

PanelNext ==
    \/ Switch \/ RoundResult \/ PanelLinkLost \/ FullSync \/ EnterRoom \/ SeatChange
    \/ EventAges \/ TestLamps \/ TestEnds \/ PanelTick

PanelSpec == PanelInit /\ [][PanelNext]_panelVars /\ WF_panelVars(Arrive)

-----------------------------------------------------------------------------
\* Properties

\* What the indicators keep is of these shapes; a blade at rest stands at the end it was sent to.
PanelTypeOK ==
    /\ watched \in Indicators /\ wheels \in 0 .. MaxTurns
    /\ flag.at \in {"down", "between", "up"} /\ flag.motion \in {"none", "held", "travel", "recoil"}
    /\ flag.motion = "none" => flag.at = (IF flag.target THEN "up" ELSE "down")
    /\ card.current = NoOne => card.at = "out"
    /\ pulse.previous \in Signal /\ pulse.shows \in Signal
    /\ lamps \in [testing : BOOLEAN, asked : BOOLEAN, lit : BOOLEAN]

\* A flag clicks once for a stroke it was sent on, however often it is turned back on
\* the way, and never for a score it only restores.
OneClickPerStroke == ~noted.stray

\* A pulse shows a result of the room and the team the page is in now, and no result twice.
PulseIsOurs ==
    /\ pulse.running => pulse.shows.room = view.room /\ pulse.shows.team = view.team
    /\ \A e \in 1 .. MaxScores : noted.pulses[e] <= 1

\* A lit lamp test was asked for since the mains last came on.
TestWasAskedFor == lamps.lit => lamps.asked

\* A card shows another name only after it was out of sight, unless motion is reduced.
NamesChangeUnseen ==
    [][card'.current # card.current => view.reduced \/ card.at = "out" \/ card'.at = "out"]_panelVars

\* However often scores and seats change while blades and cards are on the way, a powered
\* machine ends up showing the latest score and the latest person.
PanelComesToRest ==
    <>[](/\ watched = "flag" /\ view.powered => flag.at = (IF view.score THEN "up" ELSE "down")
         /\ watched = "card" => card.current = view.person /\ (view.person # NoOne => card.at = "in"))
=============================================================================
