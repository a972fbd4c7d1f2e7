------------------------------- MODULE Voice -------------------------------
(***************************************************************************)
(* The intercom of one page (services/voice.ts with the rules of           *)
(* console/voice.ts): joining waits for the microphone, the line comes and *)
(* goes with the game's connection, and every change of the controls or of *)
(* the game opens and shuts the two outgoing tracks and the gate of every  *)
(* voice heard.  The line itself is a VoiceLink: what it may report.       *)
(***************************************************************************)
EXTENDS Integers, Sequences

CONSTANTS
    MaxJoins,   \* times the intercom is switched on: a bound
    MaxLinks    \* lines opened or given up: a bound

ASSUME VoiceAssumption == MaxJoins \in Nat /\ MaxLinks \in Nat

VARIABLES
    game,       \* the game as the voice rules see it, and its connection
    voice,      \* useVoice: what the controls show
    asking,     \* joins whose getUserMedia has not come back
    joins,      \* joins so far; a join names its stream and its pair of tracks
    audio,      \* an AudioContext is open
    streams,    \* microphone streams the browser still captures
    microphone, \* the stream this page uses, 0 for none
    pairs,      \* of each join: the channels its outgoing pair carries the voice on
    out,        \* the pair in use, 0 for none
    link,       \* the pair the link publishes, 0 without a link
    generation,
    lines,      \* the generations of the lines opened; their callbacks outlive them
    redial,     \* the retry timer is set
    remotes,    \* the sources heard, each with its gate open or shut
    replaced    \* ghost: joins whose tracks were in use when the browser answered another

voiceVars == <<game, voice, asking, joins, audio, streams, microphone, pairs, out,
               link, generation, lines, redial, remotes, replaced>>
linkVars == <<link, generation, lines>>
micVars == <<asking, joins, audio, streams, microphone, out, replaced>>

Joins == 1 .. MaxJoins
Channels == {"table", "team"}
Talkers == {"me", "mate", "foe"}
\* A teammate is heard on both channels, the other team on the table's
Sources == {<<"mate", "table">>, <<"mate", "team">>, <<"foe", "table">>}

-----------------------------------------------------------------------------
\* console/voice.ts

Apart(g) == g.phase = "guess"

\* The channels this player's voice goes to: one, or none
SpeakingTo(g, whisper) ==
    IF Apart(g) THEN IF g.team # "" /\ g.encryptor # "me" THEN {"team"} ELSE {}
    ELSE IF whisper /\ g.team # "" THEN {"team"} ELSE {"table"}

Audible(g, source) == Apart(g) => source[2] = "team" /\ source[1] # g.encryptor

\* The selector's detents: a click goes round, the arrow keys stop at either end
Positions == <<"off", "all", "team">>
Turned(position, step) ==
    LET i == CHOOSE k \in DOMAIN Positions : Positions[k] = position IN
    CASE step = "click" -> Positions[(i % 3) + 1]
      [] step = "right" -> Positions[IF i = 3 THEN 3 ELSE i + 1]
      [] step = "left" -> Positions[IF i = 1 THEN 1 ELSE i - 1]

-----------------------------------------------------------------------------
Off == [status |-> "off", listenOnly |-> FALSE, micOn |-> TRUE, holding |-> FALSE,
        whisper |-> FALSE, mode |-> "toggle", machine |-> TRUE]

VoiceInit ==
    /\ game \in [phase : {"encrypting"}, team : {"A", ""}, encryptor : {"foe"},
                 up : {TRUE}, room : {TRUE}]
    /\ voice = Off
    /\ asking = {} /\ joins = 0 /\ audio = FALSE /\ streams = {} /\ microphone = 0
    /\ pairs = [j \in Joins |-> {}] /\ out = 0 /\ link = 0 /\ generation = 0 /\ lines = {}
    /\ redial = FALSE /\ remotes = [s \in {} |-> TRUE] /\ replaced = {}

KeyDown(v) == ~v.listenOnly /\ (IF v.mode = "toggle" THEN v.micOn ELSE v.holding)
VoiceOpen(v) == v.machine /\ KeyDown(v)

\* What the pair in use may carry now: the voice while the key is down, and only
\* where the rules let it go, to the team while teams are apart and nowhere for
\* the encryptor (speakingTo)
Carried(g, v) == IF VoiceOpen(v) THEN SpeakingTo(g, v.whisper) ELSE {}

Selector(v) == IF v.status = "off" THEN "off" ELSE IF v.whisper THEN "team" ELSE "all"

\* intercomDeck() and transmitting(): what the console's intercom shows
Route(g, v) == IF v.status = "on" /\ v.machine THEN SpeakingTo(g, v.whisper) ELSE {}
Transmitting(g, v) == v.status = "on" /\ KeyDown(v) /\ Route(g, v) # {}

\* apply(), for the game and the controls as they are now
Apply(g, v) ==
    /\ pairs' = IF out = 0 THEN pairs
                ELSE [pairs EXCEPT ![out] = Carried(g, v)]
    /\ remotes' = IF out = 0 THEN remotes
                  ELSE [s \in DOMAIN remotes |-> v.machine /\ Audible(g, s)]

Silence == [s \in {} |-> TRUE]

\* connect(): the line waits for the game's connection, and needs a pair to publish
VoiceConnect(g, v, pair) ==
    /\ redial' = FALSE
    /\ IF pair = 0 \/ link # 0 THEN voice' = v /\ UNCHANGED linkVars
       ELSE IF ~g.up \/ ~g.room
       THEN /\ voice' = [v EXCEPT !.status = IF @ = "starting" THEN @ ELSE "reconnecting"]
            /\ UNCHANGED linkVars
       ELSE /\ generation < MaxLinks
            /\ generation' = generation + 1 /\ lines' = lines \cup {generation + 1}
            /\ link' = pair /\ voice' = v

\* startVoice() up to the microphone's prompt
StartVoice(whisper) ==
    /\ voice.status = "off" /\ game.room /\ joins < MaxJoins
    /\ joins' = joins + 1 /\ asking' = asking \cup {joins + 1}
    /\ audio' = TRUE
    /\ voice' = [voice EXCEPT !.status = "starting", !.listenOnly = FALSE, !.micOn = TRUE,
                              !.holding = FALSE, !.whisper = whisper]
    /\ UNCHANGED <<game, streams, microphone, pairs, out, linkVars, redial, remotes, replaced>>

\* Broken variant: a join that was given up goes on with the microphone it got
AnsweredLate(j, granted) ==
    /\ j \in asking /\ asking' = asking \ {j} /\ replaced' = replaced \cup ({out} \ {0})
    /\ streams' = IF granted THEN streams \cup {j} ELSE streams
    /\ microphone' = IF granted THEN j ELSE microphone
    /\ out' = j
    /\ LET v == [voice EXCEPT !.listenOnly = ~granted] IN
       /\ pairs' = [pairs EXCEPT ![j] = Carried(game, v)]
       /\ VoiceConnect(game, v, j)
    /\ UNCHANGED <<game, joins, audio, remotes>>

\* The browser answers: the stream is kept, and stopped again when the player
\* left in the meantime; otherwise the join goes on to publish it, or silence
Answered(j, granted) ==
    /\ j \in asking /\ asking' = asking \ {j} /\ replaced' = replaced \cup ({out} \ {0})
    /\ LET taken == IF granted THEN streams \cup {j} ELSE streams
           used == IF granted THEN j ELSE microphone
       IN IF voice.status # "starting" \/ ~audio
          THEN /\ streams' = taken \ {used} /\ microphone' = 0
               /\ UNCHANGED <<voice, pairs, out, linkVars, redial>>
          ELSE /\ streams' = taken /\ microphone' = used /\ out' = j
               /\ LET v == [voice EXCEPT !.listenOnly = ~granted] IN
                  /\ pairs' = [pairs EXCEPT ![j] = Carried(game, v)]
                  /\ VoiceConnect(game, v, j)
    /\ UNCHANGED <<game, joins, audio, remotes>>

\* stopVoice()
Stopped ==
    /\ generation < MaxLinks
    /\ redial' = FALSE /\ link' = 0 /\ generation' = generation + 1
    /\ remotes' = Silence
    /\ pairs' = IF out = 0 THEN pairs ELSE [pairs EXCEPT ![out] = {}]
    /\ streams' = streams \ {microphone}
    /\ out' = 0 /\ microphone' = 0 /\ audio' = FALSE
    /\ voice' = [voice EXCEPT !.status = "off", !.listenOnly = FALSE, !.holding = FALSE, !.whisper = FALSE]
    /\ UNCHANGED <<asking, joins, lines, replaced>>

-----------------------------------------------------------------------------
\* THE CONTROLS

Controls(v) == voice' = v /\ Apply(game, v) /\ UNCHANGED <<game, micVars, linkVars, redial>>

\* turnIntercom(): the first detent leaves, the others join and choose the channel
VoiceTurn(step) ==
    LET next == Turned(Selector(voice), step) IN
    /\ next # Selector(voice)
    /\ \/ next = "off" /\ Stopped /\ UNCHANGED game
       \/ next # "off" /\ voice.status = "off" /\ StartVoice(next = "team")
       \/ next # "off" /\ voice.status # "off" /\ Controls([voice EXCEPT !.whisper = next = "team"])

\* toggleVoiceChannel(): while teams are apart the channel is not a choice
ToggleChannel ==
    /\ voice.status = "on" /\ voice.machine /\ ~voice.listenOnly /\ game.team # "" /\ ~Apart(game)
    /\ Controls([voice EXCEPT !.whisper = ~@])

\* The TALK key: a latch, or held down
Talk == voice.mode = "toggle" /\ Controls([voice EXCEPT !.micOn = ~@])
PressLamp == voice.mode = "hold" /\ ~voice.holding /\ Controls([voice EXCEPT !.holding = TRUE])
ReleaseMic == voice.holding /\ Controls([voice EXCEPT !.holding = FALSE])

\* The keyboard's talk key is listened to once the microphone has answered
TalkKey == out # 0 /\ voice.machine /\ ~voice.listenOnly /\ (Talk \/ PressLamp)

SetMode == Controls([voice EXCEPT !.mode = IF @ = "hold" THEN "toggle" ELSE "hold", !.holding = FALSE])

\* The console's power and its network cable
SetMachine ==
    Controls([voice EXCEPT !.machine = ~@, !.holding = IF voice.machine THEN FALSE ELSE @])

-----------------------------------------------------------------------------
\* THE LINE

LinkConnected ==
    /\ link # 0 /\ voice.status # "on"
    /\ voice' = [voice EXCEPT !.status = "on"]
    /\ UNCHANGED <<game, micVars, pairs, linkVars, redial, remotes>>

\* lose()
Lost(v) ==
    /\ generation < MaxLinks
    /\ link' = 0 /\ generation' = generation + 1 /\ remotes' = Silence
    /\ UNCHANGED lines
    /\ voice' = [v EXCEPT !.status = "reconnecting"]

LinkFailed ==
    /\ link # 0
    /\ Lost(voice) /\ redial' = TRUE
    /\ UNCHANGED <<game, micVars, pairs>>

Redialled ==
    /\ redial
    /\ VoiceConnect(game, voice, out)
    /\ UNCHANGED <<game, micVars, pairs, remotes>>

Heard(s) ==
    remotes' = [t \in DOMAIN remotes \cup {s} |->
                   IF t = s THEN voice.machine /\ Audible(game, s) ELSE remotes[t]]

\* host.hear of the line in use; a line closed in the middle of an answer to the
\* server's offer still reports what the offer named
LinkHear(g, s) ==
    /\ g \in lines
    /\ g = generation /\ audio
    /\ Heard(s)
    /\ UNCHANGED <<game, voice, micVars, pairs, linkVars, redial>>

LinkDrop(s) ==
    /\ link # 0 /\ s \in DOMAIN remotes
    /\ remotes' = [t \in DOMAIN remotes \ {s} |-> remotes[t]]
    /\ UNCHANGED <<game, voice, micVars, pairs, linkVars, redial>>

-----------------------------------------------------------------------------
\* THE GAME, AS THE STORE'S SUBSCRIPTION HEARS OF IT

\* The table splits, comes back together, or has another encryptor
GameTurns ==
    \E phase \in {"encrypting", "guess"}, encryptor \in Talkers :
    LET g == [game EXCEPT !.phase = phase, !.encryptor = encryptor] IN
       /\ g # game /\ game.room /\ game.up
       /\ game.team = "" => g.encryptor # "me"
       /\ game' = g
       /\ voice' = voice
       /\ IF voice.status = "off" THEN UNCHANGED <<pairs, remotes>> ELSE Apply(g, voice)
       /\ UNCHANGED <<micVars, linkVars, redial>>

ConnectionLost ==
    /\ game.up
    /\ game' = [game EXCEPT !.up = FALSE]
    /\ IF voice.status = "off" THEN UNCHANGED <<voice, linkVars, redial, remotes>>
       ELSE redial' = FALSE /\ Lost(voice)
    /\ UNCHANGED <<micVars, pairs>>

\* The seat is back; its game may have gone on in the meantime
ConnectionBack ==
    /\ ~game.up /\ game.room
    /\ game' = [game EXCEPT !.up = TRUE]
    /\ IF voice.status = "off" \/ link # 0 THEN UNCHANGED <<voice, linkVars, redial>>
       ELSE VoiceConnect(game', voice, out)
    /\ UNCHANGED <<micVars, pairs, remotes>>

\* The page leaves its room
RoomLeft ==
    /\ game.room
    /\ game' = [game EXCEPT !.room = FALSE]
    /\ IF voice.status = "off" THEN UNCHANGED <<voice, micVars, pairs, linkVars, redial, remotes>>
       ELSE Stopped

-----------------------------------------------------------------------------
VoiceNext ==
    \/ \E step \in {"click", "left", "right"} : VoiceTurn(step)
    \/ \E j \in Joins, granted \in BOOLEAN : Answered(j, granted)
    \/ ToggleChannel \/ Talk \/ TalkKey \/ PressLamp \/ ReleaseMic \/ SetMode \/ SetMachine
    \/ LinkConnected \/ LinkFailed \/ Redialled
    \/ \E s \in Sources : LinkDrop(s) \/ \E g \in lines : LinkHear(g, s)
    \/ GameTurns \/ ConnectionLost \/ ConnectionBack \/ RoomLeft

VoiceSpec == VoiceInit /\ [][VoiceNext]_voiceVars

-----------------------------------------------------------------------------
VoiceTypeOK ==
    /\ voice.status \in {"off", "starting", "on", "reconnecting"}
    /\ asking \subseteq Joins /\ streams \subseteq Joins
    /\ out \in 0 .. MaxJoins /\ link \in 0 .. MaxJoins /\ microphone \in 0 .. MaxJoins
    /\ pairs \in [Joins -> SUBSET Channels]
    /\ DOMAIN remotes \subseteq Sources

\* Whatever was pressed and however the game went on in between, the line
\* publishes the pair in use, and that carries what it may (apply).  The one
\* exception is what OnAirByTheRules is about: a line that was opened with a pair
\* whose place another answer of the browser has taken since.
PublishedByTheRules ==
    link # 0 => /\ link = out \/ link \in replaced
                /\ link = out => pairs[link] = Carried(game, voice)

\* What gameplay.md promises without exception, and the code does not keep: of a
\* page with a microphone nothing goes out that keys and rules hold back.  Leave
\* and join again while the browser still asks: two answers come for one line, the
\* first opens it with its pair, the second puts its own pair in use, and connect()
\* returns because there is a line.
OnAirByTheRules == link # 0 /\ ~voice.listenOnly => pairs[link] \subseteq Carried(game, voice)

\* The TALK lamp burns exactly while the line carries this player's voice, so
\* nobody speaks unheard or is heard unawares (intercomDeck, transmitting, apply).
\* It follows the pair in use, so it is true of the line only while the line
\* publishes that pair: after a second answer it may not (OnAirByTheRules).
LampIsTrue ==
    /\ voice.status = "on" => link # 0
    /\ link # 0 /\ link = out =>
          (Transmitting(game, voice) <=> voice.status = "on" /\ pairs[link] # {})

\* Every voice on the line is heard exactly where the rules let it be heard,
\* whichever of page, line and game came first (audible, hear, apply).
HeardByTheRules ==
    \A s \in DOMAIN remotes : remotes[s] = (voice.machine /\ Audible(game, s))

\* Leaving leaves nothing on: no line, no timer that would bring one back, no
\* voice from a line that is gone, no track and no capture (stopVoice, the answer
\* of the browser that comes too late, current()).  Only what another answer took
\* the place of while it was in use stays as it was: nobody stops that capture.
OffIsSilent ==
    /\ link = 0 => remotes = Silence
    /\ voice.status = "off" => ~audio /\ out = 0 /\ link = 0 /\ ~redial
    /\ voice.status = "off" /\ asking = {} =>
           streams \subseteq replaced /\ \A j \in Joins \ replaced : pairs[j] = {}

\* The browser still asks for the microphone of this join
StillAsked == voice.status = "starting" /\ out = 0 /\ asking # {}

\* The game's connection broke while the browser asked: lose() says
\* "reconnecting", the answer is then taken for one that came too late and its
\* stream stopped, and connect() returns because there is nothing to publish.
LostWhileAsking == voice.status = "reconnecting" /\ out = 0

\* A line that was joined is joined again once the seat is back: it is up, being
\* opened, or waits for its timer (the store's subscription, connect, lose).  One
\* is not, and stays so until the player leaves: one lost while the browser asked.
LineComesBack ==
    /\ voice.status # "off" /\ game.up => link # 0 \/ redial \/ StillAsked \/ LostWhileAsking
    /\ LostWhileAsking => link = 0 /\ ~redial

\* A voice is where the rules let it be, and the lamp and the capture say so.
VoiceObeys == VoiceTypeOK /\ PublishedByTheRules /\ LampIsTrue /\ HeardByTheRules /\ OffIsSilent /\ LineComesBack
=============================================================================
