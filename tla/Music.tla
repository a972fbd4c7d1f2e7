-------------------------------- MODULE Music --------------------------------
(***************************************************************************)
(* The music of the console (music.ts): one track that is wanted, at most  *)
(* one that plays, and loads that arrive when neither is what it was. The  *)
(* page tells it of the switches (hooks.ts) and of every new state of the  *)
(* station (Console.tsx).                                                  *)
(*                                                                         *)
(* The epoch is a flag on each load: it has been cancelled since. Of the   *)
(* playhead only this is kept: whose it is; of the voices that fade,       *)
(* whether there are any.                                                  *)
(***************************************************************************)
EXTENDS Integers, FiniteSets

CONSTANT MaxLoads  \* bound: loads under way at a time, cancelled ones among them

ASSUME MusicAssumption == MaxLoads \in Nat \ {0, 1}

VARIABLES
    gates,   \* enabled, powered, visible, loud, disposed
    music,   \* ConsoleMusic
    station, \* scene the station shows, online: the link is up
    context  \* of the speaker: none, suspended, running

musicVars == <<gates, music, station, context>>

Loops == {"lobby", "game"}
Endings == {"win", "loss"}
Tracks == Loops \union Endings
NoTrack == "nothing"
Scenes == {"lobby", "game", "over"}
LoadsWanted == [n : 1 .. MaxLoads, id : Tracks, stage : {"output", "load"}, stale : BOOLEAN]

MusicAllowed(g) == g.enabled /\ g.powered /\ g.visible /\ ~g.disposed
FreeFade(m) == {n \in 1 .. MaxLoads : \A l \in m.loads : l.n # n}
ReportMusic(g, m, status) == IF g.disposed THEN m ELSE [m EXCEPT !.status = status]

-----------------------------------------------------------------------------
\* Pieces of the player

\* cancel: what is loading is of another epoch
CancelFade(m) ==
    [m EXCEPT !.loads = {[l EXCEPT !.stale = TRUE] : l \in m.loads}, !.pending = 0, !.again = FALSE]

StopAll(m, fades) ==
    [m EXCEPT !.fading = fades /\ (@ \/ m.active # NoTrack), !.active = NoTrack]

\* pause: a loop leaves its place, an ending is consumed
Pause(m, fades) ==
    StopAll([m EXCEPT !.kept = IF m.active \in Loops /\ m.active = m.desired THEN m.active ELSE @,
                      !.ending = IF m.desired \in Endings THEN "spent" ELSE @,
                      !.desired = IF @ \in Endings THEN NoTrack ELSE @], fades)

\* refresh: one load at a time, another one asked for is made up for
Refresh(g, m) ==
    IF ~MusicAllowed(g) \/ m.desired = NoTrack \/ m.active = m.desired THEN m
    ELSE IF m.pending # 0 THEN [m EXCEPT !.again = TRUE]
    ELSE LET n == CHOOSE n \in FreeFade(m) : TRUE IN
         [m EXCEPT !.pending = n,
                   !.loads = @ \union {[n |-> n, id |-> m.desired, stage |-> "output", stale |-> FALSE]}]

\* configure: what the gates close stops, at once or, with the mains, by fading
Configure(g) ==
    LET m == CancelFade(music) IN
    IF ~MusicAllowed(g)
    THEN ReportMusic(g, Pause(m, MusicAllowed(gates) /\ g.enabled /\ g.visible /\ ~g.powered),
                IF g.enabled THEN "paused" ELSE "off")
    ELSE IF MusicAllowed(gates) THEN music ELSE Refresh(g, music)

-----------------------------------------------------------------------------
\* transition

SceneOf(scene) == IF scene = "over" THEN NoTrack ELSE scene

\* Another track is wanted: what loads is cancelled, and the place in the last one is lost
Want(m, track, replaces) ==
    LET c == [CancelFade(m) EXCEPT !.desired = track, !.kept = NoTrack, !.late = FALSE,
                               !.ending = IF replaces THEN "due" ELSE "none"]
        s == IF track = NoTrack \/ replaces THEN StopAll(c, TRUE) ELSE c
    IN  IF track = m.desired THEN m
        ELSE IF track = NoTrack
        THEN ReportMusic(gates, s, IF MusicAllowed(gates) THEN "ready" ELSE IF gates.enabled THEN "paused" ELSE "off")
        ELSE Refresh(gates, s)

\* A fresh ending replaces the beep if it can be heard now
Replaces(ending) ==
    ending \in Endings /\ MusicAllowed(gates) /\ gates.loud /\ music.out /\ context = "running"

Transition(next, ending, announce) ==
    IF announce /\ next = "over" /\ station.scene = "over" THEN music
    ELSE IF Replaces(ending) THEN Want(music, ending, TRUE)
    ELSE Want(music, SceneOf(next), FALSE)

\* A game that ends while it is watched has an ending; a restored or a drawn one has none
MusicEnding(from, to) ==
    IF to = "over" /\ from # "over" THEN Endings \union {NoTrack} ELSE {NoTrack}

\* The station shows another state; without the link the music is not told
StationMoves ==
    /\ FreeFade(music) # {}
    /\ \E scene \in Scenes : \E ending \in MusicEnding(station.scene, scene) :
          /\ station' = [station EXCEPT !.scene = scene]
          /\ music' = IF station.online THEN Transition(scene, ending, TRUE) ELSE music
    /\ UNCHANGED <<gates, context>>

\* The link comes back, which announces nothing, or goes
LinkChanges ==
    /\ FreeFade(music) # {} /\ (~station.online => gates.powered)
    /\ station' = [station EXCEPT !.online = ~@]
    /\ music' = IF station.online THEN music ELSE Transition(station.scene, NoTrack, FALSE)
    /\ UNCHANGED <<gates, context>>

\* A switch, the mains, the tab, the volume
GateChanges ==
    /\ FreeFade(music) # {} /\ ~gates.disposed
    /\ \E g \in {[gates EXCEPT !.enabled = ~@], [gates EXCEPT !.powered = ~@],
                 [gates EXCEPT !.visible = ~@], [gates EXCEPT !.loud = ~@]} :
          /\ gates' = g /\ music' = Configure(g)
          /\ station' = [station EXCEPT !.online = @ /\ g.powered]
    /\ UNCHANGED context

\* A gesture: the speaker is unlocked, or was, and the music may start or try again
Gesture ==
    /\ FreeFade(music) # {} /\ gates.visible /\ ~gates.disposed
    /\ context' = "running" /\ music' = Refresh(gates, music)
    /\ UNCHANGED <<gates, station>>

LeaveScene ==
    /\ ~gates.disposed
    /\ gates' = [gates EXCEPT !.disposed = TRUE]
    /\ music' = [StopAll(CancelFade(music), FALSE) EXCEPT !.cached = NoTrack]
    /\ UNCHANGED <<station, context>>

-----------------------------------------------------------------------------
\* A load goes on

\* refresh is over: what was asked for meanwhile is done now
Over(l, m) ==
    LET ended == [m EXCEPT !.loads = @ \ {l}]
        freed == [ended EXCEPT !.pending = 0, !.again = FALSE]
    IN  IF m.pending # l.n THEN ended
        ELSE IF m.again THEN Refresh(gates, freed) ELSE freed

CurrentTrack(l) == MusicAllowed(gates) /\ ~l.stale /\ context = "running"

\* An ending that took longer than 2.5 s to load is let go
Overdue(l) == l.id \in Endings /\ music.late

\* The loaded track takes over, the ones before it fade
Plays(l) ==
    LET m == [StopAll(music, TRUE) EXCEPT !.cached = l.id] IN
    [m EXCEPT !.active = l.id, !.status = "playing",
              !.ending = IF l.id \in Loops THEN @ ELSE IF @ = "due" /\ ~music.late THEN "spent" ELSE "replayed"]

Arrived(l) ==
    IF ~CurrentTrack(l) THEN Over(l, music)
    ELSE IF Overdue(l)
    THEN Over(l, [music EXCEPT !.desired = NoTrack, !.status = "ready", !.ending = "spent"])
    ELSE Over(l, Plays(l))

LoadFailed(l) ==
    Over(l, IF MusicAllowed(gates) /\ ~l.stale THEN [StopAll(music, TRUE) EXCEPT !.status = "error"] ELSE music)

\* The output is asked for and is there, or there is none without a gesture
OutputComes ==
    /\ \E l \in music.loads :
          /\ l.stage = "output"
          /\ LET next == [l EXCEPT !.stage = "load"] IN
             music' = IF ~CurrentTrack(l) THEN Over(l, music)
                      ELSE IF music.cached = l.id THEN Arrived(l)
                      ELSE [music EXCEPT !.out = TRUE, !.status = "loading", !.loads = (@ \ {l}) \union {next}]
    /\ UNCHANGED <<gates, station, context>>

\* A track is fetched and decoded, or not
LoadSettles ==
    /\ \E l \in music.loads :
          /\ l.stage = "load"
          /\ music' \in {Arrived(l), LoadFailed(l)}
    /\ UNCHANGED <<gates, station, context>>

\* 2.5 s have gone by since the ending
EndingAges ==
    /\ music.desired \in Endings /\ music.active # music.desired /\ ~music.late
    /\ music' = [music EXCEPT !.late = TRUE]
    /\ UNCHANGED <<gates, station, context>>

VoiceFades ==
    /\ music.fading /\ music' = [music EXCEPT !.fading = FALSE]
    /\ UNCHANGED <<gates, station, context>>

EndingIsOver ==
    /\ music.active \in Endings
    /\ music' = ReportMusic(gates, [music EXCEPT !.active = NoTrack, !.desired = NoTrack], "ready")
    /\ UNCHANGED <<gates, station, context>>

\* The browser suspends the device (a call comes in)
Interrupted ==
    /\ context = "running" /\ context' = "suspended"
    /\ UNCHANGED <<gates, music, station>>

MusicInit ==
    /\ gates \in [enabled : BOOLEAN, powered : BOOLEAN, visible : {TRUE}, loud : BOOLEAN, disposed : {FALSE}]
    /\ station \in [scene : Scenes, online : {gates.powered}]
    /\ context = "none"
    /\ music = [desired |-> SceneOf(station.scene), active |-> NoTrack, fading |-> FALSE, loads |-> {}, pending |-> 0,
                again |-> FALSE, kept |-> NoTrack, late |-> FALSE, cached |-> NoTrack, out |-> FALSE, ending |-> "none",
                status |-> IF gates.enabled /\ gates.powered THEN "off" ELSE IF gates.enabled THEN "paused" ELSE "off"]

MusicNext ==
    \/ StationMoves \/ LinkChanges \/ GateChanges \/ Gesture \/ LeaveScene
    \/ OutputComes \/ LoadSettles \/ EndingAges \/ VoiceFades \/ EndingIsOver \/ Interrupted

\* The output the browser was asked for comes, and loads end one way or the other
MusicMoves == OutputComes \/ LoadSettles

MusicSpec == MusicInit /\ [][MusicNext]_musicVars /\ WF_musicVars(MusicMoves)

-----------------------------------------------------------------------------
\* Properties

\* Shapes; the load that is pending is under way and of this epoch, and one that is
\* to be made up for waits behind it.
MusicTypeOK ==
    /\ gates \in [enabled : BOOLEAN, powered : BOOLEAN, visible : BOOLEAN, loud : BOOLEAN, disposed : BOOLEAN]
    /\ music.desired \in Tracks \union {NoTrack} /\ music.active \in Tracks \union {NoTrack}
    /\ music.fading \in BOOLEAN /\ music.loads \subseteq LoadsWanted
    /\ music.status \in {"off", "paused", "loading", "playing", "ready", "error"}
    /\ music.pending # 0 => \E l \in music.loads : l.n = music.pending /\ ~l.stale
    /\ music.again => music.pending # 0

\* With the music switched off or the tab hidden nothing sounds, not even the end of
\* a fade; without mains only a fade does.
SilentWhileClosed ==
    /\ ~gates.enabled \/ ~gates.visible \/ gates.disposed => music.active = NoTrack /\ ~music.fading
    /\ ~gates.powered => music.active = NoTrack

\* Another track than the wanted one plays on only while the wanted one is loading
\* or the device is suspended: nobody sits in a game with the music of the lobby.
PlaysWhatIsWanted ==
    (music.active \notin {NoTrack, music.desired} /\ music.desired # NoTrack) =>
        \/ \E l \in music.loads : l.n = music.pending /\ l.id = music.desired
        \/ context # "running"

\* The ending of a game is played once, in time, and never again after a pause.
EndingOnce == music.ending # "replayed"

\* The place in a loop that was left is taken up by that loop only.
PlaceIsItsOwn == music.kept \in {NoTrack, music.desired}

\* If a loop stays wanted with the gates open and the device running, it comes to
\* play, unless it could not be loaded.
MusicComes ==
    \A d \in Loops :
        <>[](MusicAllowed(gates) /\ context = "running" /\ music.desired = d)
          => []<>(music.active = d \/ music.status = "error")

=============================================================================
