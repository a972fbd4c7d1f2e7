------------------------------- MODULE Speaker -------------------------------
(***************************************************************************)
(* The effects of the console: one audio context behind a gate (sound.ts), *)
(* opened by the first gesture (hooks.ts).                                 *)
(*                                                                         *)
(* Starting a sound is asynchronous twice: the context resumes and the     *)
(* bank is decoded. Meanwhile the switch is thrown, the tab is hidden, the *)
(* tube's supply reverses and the rollers stop. The code compares numbers  *)
(* of generations; a pending start needs to know only that one has passed. *)
(***************************************************************************)
EXTENDS Integers, FiniteSets

CONSTANTS MaxSounds,  \* bound: starts pending at a time, besides the motor's
          MaxVoices  \* sounds at a time: 12

ASSUME SpeakerAssumption == MaxSounds \in Nat \ {0} /\ MaxVoices \in Nat \ {0}

VARIABLES
    gate,    \* enabled, visible, disposed
    device,  \* context, resuming, bank; ghost: a gesture has touched it
    sounds,   \* starts that are pending
    voices,  \* what sounds
    recent,  \* cues within their cooldown
    tail,    \* crtAudible
    feed     \* wanted, starting, voice; what the rollers do

speakerVars == <<gate, device, sounds, voices, recent, tail, feed>>

Motor == "motor"
Crt == "crt"
Cues == {"key", Crt, Motor}
NoVoice == 0

Calls == [n : 0 .. MaxSounds, cue : Cues, stage : {"output", "decoding"}, stale : BOOLEAN, cut : BOOLEAN, late : BOOLEAN]
Voices == [n : 1 .. MaxVoices, cue : Cues, fading : BOOLEAN, stale : BOOLEAN, cut : BOOLEAN]

Allowed == gate.enabled /\ gate.visible /\ ~gate.disposed
FreeCall(cs) == {n \in 1 .. MaxSounds : \A c \in cs : c.n # n}
FreeVoice(vs) == {n \in 1 .. MaxVoices : \A v \in vs : v.n # n}
OneOf(S) == CHOOSE n \in S : TRUE

-----------------------------------------------------------------------------
\* The gate

\* Broken variant: silence stops what sounds and leaves what is still starting
SilenceHeard(g) ==
    /\ gate' = g /\ voices' = {} /\ recent' = {} /\ tail' = FALSE
    /\ feed' = [feed EXCEPT !.wanted = FALSE, !.voice = NoVoice]
    /\ UNCHANGED sounds

\* silence, under the gate g: everything stops, and what is starting is of another generation
SilenceAll(g) ==
    /\ gate' = g /\ voices' = {} /\ recent' = {} /\ tail' = FALSE
    /\ feed' = [feed EXCEPT !.wanted = FALSE, !.voice = NoVoice]
    /\ sounds' = {[c EXCEPT !.stale = TRUE, !.cut = TRUE] : c \in sounds}

SetEnabled == ~gate.disposed /\ SilenceAll([gate EXCEPT !.enabled = ~@]) /\ UNCHANGED device

SetVisible == SilenceAll([gate EXCEPT !.visible = ~@]) /\ UNCHANGED device

\* changeHardware: the mains are switched
Mains == SilenceAll(gate) /\ UNCHANGED device

DisposeSpeaker ==
    /\ ~gate.disposed
    /\ SilenceAll([gate EXCEPT !.disposed = TRUE])
    /\ device' = [device EXCEPT !.context = "closed", !.bank = IF @ = "decoding" THEN @ ELSE "none"]

-----------------------------------------------------------------------------
\* Starting a sound

\* output, until it waits: only a gesture opens or resumes the context; no device, no sound
Output(gesture) ==
    LET d == [device EXCEPT !.touched = @ \/ gesture] IN
    IF ~gate.visible \/ gate.disposed THEN {}
    ELSE IF device.context = "running" THEN {d}
    ELSE IF gesture THEN {[d EXCEPT !.context = "suspended", !.resuming = TRUE]}
    ELSE {}

\* start, as far as it goes at once; a motor that cannot start may be asked for again
Start(cue, gesture) ==
    LET opened == IF Allowed THEN Output(gesture) ELSE {} IN
    IF opened = {} THEN sounds' = sounds /\ device' = device
    ELSE /\ cue # Motor => FreeCall(sounds) # {}
         /\ sounds' = sounds \union {[n |-> IF cue = Motor THEN 0 ELSE OneOf(FreeCall(sounds)), cue |-> cue, stage |-> "output",
                                    stale |-> FALSE, cut |-> FALSE, late |-> FALSE]}
         /\ device' \in opened

Play ==
    /\ \E gesture \in BOOLEAN : Start("key", gesture)
    /\ UNCHANGED <<gate, voices, recent, tail, feed>>

\* unlock: a gesture that makes no sound of its own
Unlock ==
    /\ device' \in (IF Output(TRUE) = {} THEN {device} ELSE Output(TRUE))
    /\ UNCHANGED <<gate, sounds, voices, recent, tail, feed>>

\* What is asked again before a sound is heard
Passes(c) == /\ Allowed /\ device.context = "running" /\ ~c.stale /\ ~c.late
             /\ c.cue = Crt => ~c.cut
             /\ c.cue = Motor => feed.wanted

Ended(c) == sounds \ {c}

FeedSettled(c) == IF c.cue = Motor THEN [feed EXCEPT !.starting = FALSE] ELSE feed

\* The sound itself, unless it is cooling down, one too many, or the browser refuses
Sounds(c) ==
    /\ sounds' = Ended(c)
    /\ \/ /\ Passes(c)
          /\ c.cue # Motor => c.cue \notin recent
          /\ FreeVoice(voices) # {}
          /\ LET n == OneOf(FreeVoice(voices)) IN
             /\ voices' = voices \union {[n |-> n, cue |-> c.cue, fading |-> FALSE, stale |-> c.stale, cut |-> c.cut]}
             /\ recent' = recent \union {c.cue}
             /\ feed' = IF c.cue = Motor THEN [feed EXCEPT !.starting = FALSE, !.voice = n] ELSE feed
       \/ /\ (~Passes(c) \/ (c.cue # Motor /\ c.cue \in recent) \/ FreeVoice(voices) = {})
          /\ feed' = FeedSettled(c) /\ UNCHANGED <<voices, recent>>

Waiting(c) == (c.stage = "output" /\ device.resuming) \/ (c.stage = "decoding" /\ device.bank = "decoding")

\* start goes on after what it waited for
Continue(some) ==
    \E c \in some :
       /\ ~Waiting(c)
       /\ IF c.stage = "output" /\ (~Allowed \/ device.context # "running")
          THEN sounds' = Ended(c) /\ feed' = FeedSettled(c) /\ UNCHANGED <<device, voices, recent>>
          ELSE IF device.bank = "ready" THEN Sounds(c) /\ UNCHANGED device
          ELSE IF c.stage = "output"
          THEN /\ sounds' = Ended(c) \union {[c EXCEPT !.stage = "decoding"]}
               /\ device' = [device EXCEPT !.bank = "decoding"] /\ UNCHANGED <<voices, recent, feed>>
          ELSE sounds' = Ended(c) /\ feed' = FeedSettled(c) /\ UNCHANGED <<device, voices, recent>>
       /\ UNCHANGED <<gate, tail>>

-----------------------------------------------------------------------------
\* The tube and the printer

\* crt: a transition of the tube begins or ends, and cuts the one before it
CrtTurns ==
    /\ \E begins \in BOOLEAN : tail' = (begins /\ Allowed)
    /\ voices' = {IF v.cue = Crt THEN [v EXCEPT !.fading = TRUE] ELSE v : v \in voices}
    /\ sounds' = {[c EXCEPT !.cut = TRUE] : c \in sounds}
    /\ recent' = recent \ {Crt}
    /\ UNCHANGED <<gate, device, feed>>

CrtPlays == tail /\ Start(Crt, FALSE) /\ UNCHANGED <<gate, voices, recent, tail, feed>>

FadedOut(vs, n) == {IF v.n = n THEN [v EXCEPT !.fading = TRUE] ELSE v : v \in vs}

\* Broken variant: the printer's question starts a motor while one is starting
AskFeedAgain(moving) ==
    IF ~(moving /\ Allowed)
    THEN /\ voices' = FadedOut(voices, feed.voice) /\ UNCHANGED <<device, sounds>>
         /\ feed' = [feed EXCEPT !.wanted = FALSE, !.voice = NoVoice, !.rollers = moving]
    ELSE /\ UNCHANGED voices
         /\ IF feed.voice # NoVoice
            THEN feed' = [feed EXCEPT !.wanted = TRUE, !.rollers = TRUE] /\ UNCHANGED <<device, sounds>>
            ELSE /\ Start(Motor, FALSE)
                 /\ feed' = [feed EXCEPT !.wanted = TRUE, !.rollers = TRUE, !.starting = sounds' # sounds]

\* setPaperFeed: one motor, faded when the rollers stop
AskFeed(moving) ==
    IF ~(moving /\ Allowed)
    THEN /\ voices' = FadedOut(voices, feed.voice) /\ UNCHANGED <<device, sounds>>
         /\ feed' = [feed EXCEPT !.wanted = FALSE, !.voice = NoVoice, !.rollers = moving]
    ELSE /\ UNCHANGED voices
         /\ IF feed.voice # NoVoice \/ feed.starting
            THEN feed' = [feed EXCEPT !.wanted = TRUE, !.rollers = TRUE] /\ UNCHANGED <<device, sounds>>
            ELSE /\ Start(Motor, FALSE)
                 /\ feed' = [feed EXCEPT !.wanted = TRUE, !.rollers = TRUE, !.starting = sounds' # sounds]

\* Printer: asked every frame while the rollers turn, once when they stop
Rolls == AskFeed(TRUE) /\ UNCHANGED <<gate, recent, tail>>
Stops == feed.rollers /\ AskFeed(FALSE) /\ UNCHANGED <<gate, recent, tail>>

-----------------------------------------------------------------------------
\* The browser

ResumeSettles ==
    /\ device.resuming
    /\ \E on \in BOOLEAN :
          device' = [device EXCEPT !.resuming = FALSE,
                                   !.context = IF @ = "suspended" /\ on THEN "running" ELSE @]
    /\ UNCHANGED <<gate, sounds, voices, recent, tail, feed>>

DecodeSettles ==
    /\ device.bank = "decoding"
    /\ \E loaded \in BOOLEAN : device' = [device EXCEPT !.bank = IF loaded /\ ~gate.disposed THEN "ready" ELSE "none"]
    /\ UNCHANGED <<gate, sounds, voices, recent, tail, feed>>

\* A start has waited for more than 300 ms
Ages ==
    /\ \E c \in sounds : Waiting(c) /\ ~c.late /\ sounds' = Ended(c) \union {[c EXCEPT !.late = TRUE]}
    /\ UNCHANGED <<gate, device, voices, recent, tail, feed>>

VoiceEnds ==
    /\ \E v \in voices : (v.cue = Motor => v.fading) /\ voices' = voices \ {v}
    /\ UNCHANGED <<gate, device, sounds, recent, tail, feed>>

Cools ==
    /\ \E cue \in recent : recent' = recent \ {cue}
    /\ UNCHANGED <<gate, device, sounds, voices, tail, feed>>

SpeakerInit ==
    /\ gate \in [enabled : BOOLEAN, visible : BOOLEAN, disposed : {FALSE}]
    /\ device = [context |-> "none", resuming |-> FALSE, bank |-> "none", touched |-> FALSE]
    /\ sounds = {} /\ voices = {} /\ recent = {} /\ tail = FALSE
    /\ feed = [wanted |-> FALSE, starting |-> FALSE, voice |-> NoVoice, rollers |-> FALSE]

SpeakerNext ==
    \/ SetEnabled \/ SetVisible \/ Mains \/ DisposeSpeaker
    \/ Play \/ Unlock \/ Continue(sounds) \/ CrtTurns \/ CrtPlays \/ Rolls \/ Stops
    \/ ResumeSettles \/ DecodeSettles \/ Ages \/ VoiceEnds \/ Cools

\* The printer goes on asking while its rollers turn, and promises settle
SpeakerMoves ==
    \/ feed.rollers /\ Rolls
    \/ Continue({c \in sounds : c.cue = Motor})
    \/ ResumeSettles \/ DecodeSettles

SpeakerSpec == SpeakerInit /\ [][SpeakerNext]_speakerVars /\ WF_speakerVars(SpeakerMoves)

-----------------------------------------------------------------------------
\* Properties

\* Shapes; a motor being fed is a voice that sounds, and there are never more voices than the limit.
SpeakerTypeOK ==
    /\ gate \in [enabled : BOOLEAN, visible : BOOLEAN, disposed : BOOLEAN]
    /\ device \in [context : {"none", "suspended", "running", "closed"}, resuming : BOOLEAN,
                   bank : {"none", "decoding", "ready"}, touched : BOOLEAN]
    /\ sounds \subseteq Calls /\ voices \subseteq Voices
    /\ recent \subseteq Cues /\ tail \in BOOLEAN
    /\ feed.voice # NoVoice => \E v \in voices : v.n = feed.voice /\ v.cue = Motor /\ ~v.fading
    /\ feed.starting <=> \E c \in sounds : c.cue = Motor

\* With the effects switched off, the tab hidden or the console gone, nothing sounds:
\* not even what was asked for before and was ready only now.
QuietWhileOff == ~Allowed => voices = {}

\* What sounds was asked for since the last silence, and a sound of the tube
\* belongs to the transition that is under way.
NothingFromBefore ==
    \A v \in voices : ~v.stale /\ (v.cue = Crt /\ ~v.fading => ~v.cut /\ tail)

\* There is at most one motor that is not fading out, and it runs while the rollers do.
OneMotor ==
    \A v \in voices : v.cue = Motor /\ ~v.fading => v.n = feed.voice /\ feed.wanted /\ feed.rollers

\* The device is never opened by anything but a gesture of the player.
OpenedByGesture == device.context \in {"suspended", "running"} => device.touched

\* If the rollers go on turning with the gate open and the bank loaded, and the mains
\* are left alone, the motor is heard again and again, unless every voice is taken.
MotorComes ==
    (/\ <>[](feed.rollers /\ Allowed /\ device.context = "running" /\ device.bank = "ready")
     /\ <>[][~Mains]_speakerVars)
      => []<>(feed.voice # NoVoice \/ FreeVoice(voices) = {})
=============================================================================
