-------------------------------- MODULE Tube --------------------------------
(***************************************************************************)
(* The main picture tube (crtMotion.ts) with what is heard of it           *)
(* (crtSound.ts), as displays.ts drives the two: an update from the page,  *)
(* and a step per frame.                                                   *)
(*                                                                         *)
(* The electronics are differential equations over a dozen quantities.     *)
(* Their readers ask five things only, and a level answers them:           *)
(* 0 dark glass, 1 past recognising, 2 recognisable, 3 a full raster, 4 a  *)
(* steady one. A tube that is on climbs, one that is off sinks, by any     *)
(* number of levels in a frame; the thermistor of the degaussing coil is   *)
(* hot or not.                                                             *)
(***************************************************************************)
EXTENDS Integers

CONSTANTS Palettes,  \* the ids of pictures: a palette and a screen
          Secrets,   \* privacy keys: who may read what the frame shows
          MaxUpdates \* bound: updates from the page

ASSUME TubeAssumption == MaxUpdates \in Nat

VARIABLES
    tube,   \* on, level, hot, resting
    glass,  \* current and desired picture, same: they are one object; powered, reduced
    sound,  \* CrtSoundMotion
    heard,  \* ghost: a transition is open, a cue fell outside one, degaussings, some of them hot
    updates \* updates so far

tubeVars == <<tube, glass, sound, heard, updates>>

Pictures == [id : Palettes, key : Secrets]
Steady(t) == t.on /\ t.level = 4
Blank(t) == t.level <= 1
Moving(t) == ~t.resting /\ (t.on \/ t.level > 0)
Interactive == Steady(tube) /\ glass.same

-----------------------------------------------------------------------------
\* CrtTube

SettleTube(on) == [on |-> on, level |-> IF on THEN 4 ELSE 0, hot |-> on, resting |-> TRUE]

PowerTube(t, on) == IF t.on = on THEN t ELSE [t EXCEPT !.on = on, !.resting = FALSE]

\* A new signal costs a lit raster its hold for a moment
Disturb(t) == IF t.on /\ t.level > 0 THEN [t EXCEPT !.level = IF @ = 4 THEN 3 ELSE @, !.resting = FALSE] ELSE t

\* What the substeps of one frame may make of a tube that does not rest
Substeps(t) ==
    IF t.resting THEN {t}
    ELSE {u \in [on : {t.on}, level : IF t.on THEN t.level .. 4 ELSE 0 .. t.level, hot : BOOLEAN, resting : BOOLEAN] :
            /\ u.hot # t.hot => (IF t.on THEN u.hot ELSE ~u.hot /\ u.level <= 1)
            /\ u.resting => u = SettleTube(t.on)}

-----------------------------------------------------------------------------
\* CrtMotion

Exchange(g) == [g EXCEPT !.current = g.desired, !.same = TRUE]
Alike(g) == g.powered /\ g.current.id = g.desired.id

\* The supply follows the switch and the palette; a picture waits until the old one is gone
RouteTube(g, t) ==
    LET lit == PowerTube(t, Alike(g))
        dark == IF g.powered THEN Blank(lit) ELSE ~Moving(lit)
    IN  [glass |-> IF ~g.same /\ (dark \/ Alike(g)) THEN Exchange(g) ELSE g, tube |-> lit]

-----------------------------------------------------------------------------
\* CrtSoundMotion: what one update emits is kept in what was heard

Begin(h) == [h EXCEPT !.open = TRUE]
FrameEnd(h) == [h EXCEPT !.open = FALSE]
Cue(h) == [h EXCEPT !.loose = @ \/ ~h.open]
Coil(h) == [Cue(h) EXCEPT !.coil = IF @ < 2 THEN @ + 1 ELSE @]
Degauss(h, t) == [Coil(h) EXCEPT !.hot = @ \/ t.hot]

\* With no animation a power action is one compact cue, whatever the thermistor:
\* the coil, or the collapse
ReducedSound(s, h, t, powered) ==
    [sound |-> [s EXCEPT !.stage = "none", !.mains = FALSE, !.powered = powered, !.on = powered, !.reduced = TRUE],
     heard |-> IF powered # s.powered THEN IF powered THEN Coil(Begin(h)) ELSE Cue(Begin(h))
               ELSE IF ~s.reduced THEN FrameEnd(h) ELSE h]

\* The switch or the supply turned: a transition begins, with the coil after a cold start
Stage(s, h, t, powered) ==
    LET switched == powered # s.powered
        mains == IF switched THEN powered ELSE s.mains
        first == t.on /\ mains
    IN  IF ~switched /\ t.on = s.on THEN [sound |-> [s EXCEPT !.reduced = FALSE], heard |-> h]
        ELSE [sound |-> [s EXCEPT !.stage = IF t.on THEN "opening" ELSE "closing", !.cues = {}, !.mains = mains /\ ~first,
                                  !.powered = powered, !.on = t.on, !.reduced = FALSE],
              heard |-> IF first /\ ~t.hot THEN Degauss(Begin(h), t) ELSE Begin(h)]

\* A stage ends with a steady picture or dark glass; until then each of its cues is due once
Progress(x, t) ==
    LET s == x.sound
        due == CASE s.stage = "opening" /\ t.level >= 1 -> {"warmup"}
                 [] s.stage = "closing" /\ t.level <= 1 -> {"collapse", "discharge"}
                 [] OTHER -> {}
    IN  IF (s.stage = "opening" /\ Steady(t)) \/ (s.stage = "closing" /\ ~Moving(t))
        THEN [sound |-> [s EXCEPT !.stage = "none"], heard |-> FrameEnd(x.heard)]
        ELSE [sound |-> [s EXCEPT !.cues = @ \union due], heard |-> IF due \subseteq s.cues THEN x.heard ELSE Cue(x.heard)]

SyncSound(s, h, t, powered, reduced) ==
    IF reduced THEN ReducedSound(s, h, t, powered) ELSE Progress(Stage(s, h, t, powered), t)

-----------------------------------------------------------------------------
\* Displays

\* Broken variant: the outgoing picture keeps what it shows until it is exchanged
RevokedLater(g, key) == g

\* Losing the right to read a frame replaces the outgoing one at once
Revoked(g, key) == IF key = g.current.key THEN g ELSE [g EXCEPT !.current.key = key, !.same = FALSE]

\* update: a new picture, the mains, reduced motion; a briefing disturbs a steady tube
UpdateTube ==
    /\ updates < MaxUpdates /\ updates' = updates + 1
    /\ \E next \in Pictures, powered \in BOOLEAN, reduced \in BOOLEAN, signal \in BOOLEAN :
          LET r1 == RouteTube([glass EXCEPT !.desired = next, !.powered = powered, !.reduced = reduced, !.same = FALSE], tube)
              t1 == IF signal /\ powered /\ ~reduced /\ Steady(r1.tube) /\ r1.glass.same
                    THEN Disturb(r1.tube) ELSE r1.tube
              g1 == Revoked(r1.glass, next.key)
              h1 == IF powered # glass.powered THEN [heard EXCEPT !.coil = 0] ELSE heard
              s1 == SyncSound(sound, h1, t1, powered, reduced)
              g2 == IF reduced THEN Exchange(g1) ELSE g1
              t2 == IF reduced THEN SettleTube(powered) ELSE t1
              s2 == SyncSound(s1.sound, s1.heard, t2, powered, reduced)
          IN  glass' = g2 /\ tube' = t2 /\ sound' = s2.sound /\ heard' = s2.heard

\* tick: route, step, route, and what is heard of it
Frame ==
    /\ IF glass.reduced
       THEN glass' = Exchange(glass) /\ tube' = SettleTube(glass.powered)
       ELSE LET r1 == RouteTube(glass, tube) IN
            \E t \in Substeps(r1.tube) :
               LET r2 == RouteTube(r1.glass, t) IN glass' = r2.glass /\ tube' = r2.tube
    /\ LET s == SyncSound(sound, heard, tube', glass.powered, glass.reduced) IN
       sound' = s.sound /\ heard' = s.heard
    /\ UNCHANGED updates

\* A frame long enough for something to come of it: the loop never stops for good
Passing == Frame /\ <<tube, glass>>' # <<tube, glass>>

TubeInit ==
    /\ \E on \in BOOLEAN, picture \in Pictures, reduced \in BOOLEAN :
          /\ tube = SettleTube(on)
          /\ glass = [current |-> picture, desired |-> picture, same |-> TRUE, powered |-> on, reduced |-> reduced]
          /\ sound = [powered |-> on, on |-> on, reduced |-> reduced, mains |-> FALSE, stage |-> "none", cues |-> {}]
    /\ heard = [open |-> FALSE, loose |-> FALSE, coil |-> 0, hot |-> FALSE]
    /\ updates = 0

TubeNext == UpdateTube \/ Frame

TubeSpec == TubeInit /\ [][TubeNext]_tubeVars /\ WF_tubeVars(Passing)

-----------------------------------------------------------------------------
\* Properties

\* What the tube and its sound keep is of these shapes, and one object is one picture.
TubeTypeOK ==
    /\ tube \in [on : BOOLEAN, level : 0 .. 4, hot : BOOLEAN, resting : BOOLEAN]
    /\ glass \in [current : Pictures, desired : Pictures, same : BOOLEAN, powered : BOOLEAN, reduced : BOOLEAN]
    /\ glass.same => glass.current = glass.desired
    /\ tube.resting => tube = SettleTube(tube.on)
    /\ sound.stage \in {"none", "opening", "closing"}
    /\ updates \in 0 .. MaxUpdates

\* Whoever may no longer read the picture does not find it in the afterglow:
\* what is on the glass always has the privacy key of what should be there.
NothingSecretGlows == glass.current.key = glass.desired.key

\* Every cue of the tube falls between the beginning of a transition and its end
\* (the speaker drops cues outside one, so a loose cue is a cue nobody hears).
CuesHaveTheirTransition == ~heard.loose

\* The coil is heard at most once for one turn of the mains switch, however often
\* the palette or the preference for less motion changes meanwhile, and the coil of
\* a tube that is drawn warming up never from a hot thermistor.
DegaussedOnce == heard.coil <= 1 /\ ~heard.hot

\* A palette or the blank frame of a machine switched off reaches the glass only when
\* the old picture cannot be recognised, and without mains only when it is dark.
PictureWaits ==
    [][~glass'.reduced /\ glass'.current.id # glass.current.id
         => tube'.level <= IF glass'.powered THEN 1 ELSE 0]_tubeVars

\* Whatever was switched while whatever else was under way, the tube comes to rest on
\* the latest picture, with its inputs open if it is powered, and its sound is over.
ComesUp ==
    <>[](/\ glass.same
         /\ glass.powered => Interactive
         /\ ~glass.powered => tube.level = 0
         /\ sound.stage = "none")
=============================================================================
