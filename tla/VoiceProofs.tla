---------------------------- MODULE VoiceProofs ----------------------------
(***************************************************************************)
(* The voice is where the rules let it be, at both ends of the line,       *)
(* proved for every number of joins, lines, tracks and plans.  The first   *)
(* section is about the intercom of the page (Voice), the second about     *)
(* the line between the page and the server (VoiceLine): there each lemma  *)
(* is about one signal more or one signal less on its way, or one thing    *)
(* that either end does, and the actions are put together from them.       *)
(***************************************************************************)
EXTENDS MCTerminal, TLAPS

-----------------------------------------------------------------------------
\* The intercom of the page: Voice

VoiceGames == [phase : {"encrypting", "guess"}, team : {"A", ""}, encryptor : Talkers, up : BOOLEAN, room : BOOLEAN]
VoiceControls == [status : {"off", "starting", "on", "reconnecting"}, listenOnly : BOOLEAN, micOn : BOOLEAN,
                  holding : BOOLEAN, whisper : BOOLEAN, mode : {"toggle", "hold"}, machine : BOOLEAN]
RightlyHeard(rs, g, v) == \A s \in DOMAIN rs : rs[s] = (v.machine /\ Audible(g, s))

\* The line in use is one that was opened, and publishes a pair of this page
LineIsSo ==
    /\ lines \subseteq 1 .. generation
    /\ link = 0 => generation \notin lines /\ remotes = Silence
    /\ link # 0 => out # 0
    /\ voice.status = "on" => link # 0
    /\ voice.status = "off" => ~audio /\ out = 0 /\ link = 0 /\ ~redial
    /\ voice.status # "off" => game.room
    /\ voice.status = "starting" => audio /\ (out = 0 => asking # {})
    /\ out = 0 => microphone = 0 /\ ~redial

\* With tracks to publish, the line is up or its timer is set
LineIsJoined == voice.status # "off" /\ out # 0 /\ game.up => link # 0 \/ redial

\* What is captured, carried and published is of the join in use, or of one whose
\* place another answer took
CaptureIsSo ==
    /\ streams \subseteq {microphone} \cup replaced
    /\ microphone \in {0, out} \cup replaced
    /\ link # 0 => link = out \/ link \in replaced
    /\ \A j \in Joins : j # out /\ j \notin replaced => pairs[j] = {}

VoiceInv ==
    /\ game \in VoiceGames /\ voice \in VoiceControls /\ joins \in 0 .. MaxJoins /\ asking \subseteq Joins
    /\ streams \subseteq Joins /\ microphone \in 0 .. MaxJoins /\ out \in 0 .. MaxJoins /\ link \in 0 .. MaxJoins
    /\ generation \in Nat /\ pairs \in [Joins -> SUBSET Channels] /\ DOMAIN remotes \subseteq Sources
    /\ out # 0 => pairs[out] = Carried(game, voice)
    /\ RightlyHeard(remotes, game, voice)
    /\ LineIsSo /\ CaptureIsSo /\ LineIsJoined

\* Controls that differ in what they say of the line only
SameKeys(w, v) ==
    /\ w.machine = v.machine /\ w.listenOnly = v.listenOnly /\ w.micOn = v.micOn /\ w.mode = v.mode
    /\ w.holding = v.holding /\ w.whisper = v.whisper

\* What is carried is of the channels, and depends on the keys and the game
LEMMA CarriedIs ==
    ASSUME NEW g, NEW v
    PROVE  /\ Carried(g, v) \in SUBSET Channels
           /\ \A w : SameKeys(w, v) => Carried(g, w) = Carried(g, v)
           /\ \A h : h.phase = g.phase /\ h.team = g.team /\ h.encryptor = g.encryptor => Carried(h, v) = Carried(g, v)
  BY DEF Carried, SameKeys, VoiceOpen, KeyDown, SpeakingTo, Apart, Channels

\* What is heard depends on the power and the game
LEMMA HeardIs ==
    ASSUME NEW rs, NEW g, NEW v, RightlyHeard(rs, g, v)
    PROVE  /\ \A w : w.machine = v.machine => RightlyHeard(rs, g, w)
           /\ \A h : h.phase = g.phase /\ h.encryptor = g.encryptor => RightlyHeard(rs, h, v)
  BY DEF RightlyHeard, Audible, Apart

\* Nothing is heard of a line that is gone
LEMMA SilenceIs == DOMAIN Silence = {} /\ \A g, v : RightlyHeard(Silence, g, v)
  BY DEF Silence, RightlyHeard

\* Every change of the controls or of the game reaches the pair in use and the voices heard
LEMMA ApplyIs ==
    ASSUME VoiceInv, NEW g, NEW v, Apply(g, v)
    PROVE  /\ pairs' \in [Joins -> SUBSET Channels] /\ (out # 0 => pairs'[out] = Carried(g, v))
           /\ \A j \in Joins : j # out => pairs'[j] = pairs[j]
           /\ DOMAIN remotes' = DOMAIN remotes /\ RightlyHeard(remotes', g, v) /\ (link = 0 => remotes' = Silence)
  <1>0. /\ pairs \in [Joins -> SUBSET Channels] /\ out \in 0 .. MaxJoins /\ (out # 0 => out \in Joins)
        /\ (link = 0 => remotes = Silence) /\ (link # 0 => out # 0)
    BY VoiceAssumption DEF VoiceInv, LineIsSo, Joins
  <1>1. CASE out = 0
    <2>1. pairs' = pairs /\ remotes' = remotes /\ remotes = Silence
      BY <1>0, <1>1 DEF Apply
    <2> QED
      BY <1>0, <1>1, <2>1, SilenceIs
  <1>2. CASE out # 0
    <2>1. pairs' = [pairs EXCEPT ![out] = Carried(g, v)] /\ remotes' = [s \in DOMAIN remotes |-> v.machine /\ Audible(g, s)]
      BY <1>2 DEF Apply, Carried
    <2>2. pairs' \in [Joins -> SUBSET Channels] /\ pairs'[out] = Carried(g, v) /\ \A j \in Joins : j # out => pairs'[j] = pairs[j]
      BY <1>0, <1>2, <2>1, CarriedIs
    <2>3. DOMAIN remotes' = DOMAIN remotes /\ RightlyHeard(remotes', g, v)
      BY <2>1 DEF RightlyHeard
    <2>4. link = 0 => remotes' = Silence
      BY <1>0, <2>1 DEF Silence
    <2> QED
      BY <2>2, <2>3, <2>4
  <1> QED
    BY <1>1, <1>2

\* A control is set
LEMMA ControlsKeep ==
    ASSUME VoiceInv, NEW v \in VoiceControls, v.status = voice.status, Controls(v)
    PROVE  VoiceInv'
  <1>1. voice' = v /\ Apply(game, v) /\ UNCHANGED <<game, micVars, linkVars, redial>>
    BY DEF Controls
  <1>2. /\ pairs' \in [Joins -> SUBSET Channels] /\ (out # 0 => pairs'[out] = Carried(game, v))
        /\ \A j \in Joins : j # out => pairs'[j] = pairs[j]
        /\ DOMAIN remotes' = DOMAIN remotes /\ RightlyHeard(remotes', game, v) /\ (link = 0 => remotes' = Silence)
    BY <1>1, ApplyIs
  <1>3. LineIsSo' /\ LineIsJoined'
    BY <1>1, <1>2 DEF VoiceInv, LineIsSo, LineIsJoined, micVars, linkVars, Silence
  <1>4. CaptureIsSo'
    BY <1>1, <1>2 DEF VoiceInv, CaptureIsSo, micVars, linkVars
  <1>5. (out # 0 => pairs[out] = Carried(game, voice))' /\ RightlyHeard(remotes, game, voice)'
    BY <1>1, <1>2 DEF micVars, Carried, RightlyHeard
  <1> QED
    BY <1>1, <1>2, <1>3, <1>4, <1>5 DEF VoiceInv, micVars, linkVars

\* The player leaves: nothing stays on
LEMMA StoppedKeeps ==
    ASSUME VoiceInv, Stopped, game' \in VoiceGames
    PROVE  VoiceInv'
  <1> DEFINE off == "off"
             no == FALSE
  <1>0. /\ pairs \in [Joins -> SUBSET Channels] /\ out \in 0 .. MaxJoins /\ (out # 0 => out \in Joins) /\ voice \in VoiceControls
        /\ generation \in Nat /\ lines \subseteq 1 .. generation
    BY VoiceAssumption DEF VoiceInv, LineIsSo, Joins
  <1>1. /\ redial' = FALSE /\ link' = 0 /\ generation' = generation + 1 /\ remotes' = Silence
        /\ pairs' = IF out = 0 THEN pairs ELSE [pairs EXCEPT ![out] = {}]
        /\ streams' = streams \ {microphone} /\ out' = 0 /\ microphone' = 0 /\ audio' = FALSE
        /\ voice' = [[[[voice EXCEPT !.status = off] EXCEPT !.listenOnly = no] EXCEPT !.holding = no] EXCEPT !.whisper = no]
        /\ UNCHANGED <<asking, joins, lines, replaced>>
    BY DEF Stopped
  <1>2. off \in {"off", "starting", "on", "reconnecting"} /\ no \in BOOLEAN /\ off = "off"
    OBVIOUS
  <1> HIDE DEF off, no
  <1>3. voice' \in VoiceControls /\ voice'.status = "off"
    BY <1>0, <1>1, <1>2 DEF VoiceControls
  <1>4. pairs' \in [Joins -> SUBSET Channels] /\ \A j \in Joins : pairs'[j] = IF j = out THEN {} ELSE pairs[j]
    <2> DEFINE none == {}
    <2>1. pairs' = IF out = 0 THEN pairs ELSE [pairs EXCEPT ![out] = none]
      BY <1>1
    <2>2. none \in SUBSET Channels /\ 0 \notin Joins
      BY DEF Joins
    <2> HIDE DEF none
    <2>3. pairs' \in [Joins -> SUBSET Channels] /\ \A j \in Joins : pairs'[j] = IF j = out THEN none ELSE pairs[j]
      BY <1>0, <2>1, <2>2
    <2> QED
      BY <2>3 DEF none
  <1>5. generation' \in Nat /\ generation' \notin lines' /\ lines' \subseteq 1 .. generation'
    BY <1>0, <1>1
  <1>6. LineIsSo' /\ LineIsJoined'
    BY <1>1, <1>3, <1>5 DEF LineIsSo, LineIsJoined, Silence
  <1>7. CaptureIsSo'
    <2>1. streams \subseteq {microphone} \cup replaced /\ \A j \in Joins : j # out /\ j \notin replaced => pairs[j] = {}
      BY DEF VoiceInv, CaptureIsSo
    <2>2. streams' \subseteq replaced /\ \A j \in Joins : j \notin replaced => pairs'[j] = {}
      BY <1>1, <1>4, <2>1
    <2> QED
      BY <1>1, <2>1, <2>2 DEF CaptureIsSo
  <1>8. RightlyHeard(remotes, game, voice)' /\ DOMAIN remotes' = {}
    BY <1>1, SilenceIs DEF RightlyHeard
  <1> QED
    BY <1>1, <1>3, <1>4, <1>5, <1>6, <1>7, <1>8, VoiceAssumption DEF VoiceInv, Joins

\* The intercom is switched on, up to the microphone's prompt
LEMMA StartKeeps ==
    ASSUME VoiceInv, NEW whisper \in BOOLEAN, StartVoice(whisper)
    PROVE  VoiceInv'
  <1> DEFINE begun == "starting"
             no == FALSE
             yes == TRUE
             next == joins + 1
  <1>0. voice \in VoiceControls /\ joins \in 0 .. MaxJoins /\ asking \subseteq Joins
    BY DEF VoiceInv
  <1>1. /\ voice.status = "off" /\ game.room /\ joins < MaxJoins
        /\ joins' = next /\ asking' = asking \cup {next} /\ audio' = TRUE
        /\ voice' = [[[[[voice EXCEPT !.status = begun] EXCEPT !.listenOnly = no] EXCEPT !.micOn = yes] EXCEPT !.holding = no]
                       EXCEPT !.whisper = whisper]
        /\ UNCHANGED <<game, streams, microphone, pairs, out, linkVars, redial, remotes, replaced>>
    BY DEF StartVoice
  <1>2. begun \in {"off", "starting", "on", "reconnecting"} /\ no \in BOOLEAN /\ yes \in BOOLEAN /\ begun = "starting"
    OBVIOUS
  <1> HIDE DEF begun, no, yes
  <1>3. voice' \in VoiceControls /\ voice'.status = "starting" /\ voice'.machine = voice.machine
    BY <1>0, <1>1, <1>2 DEF VoiceControls
  <1>4. next \in 0 .. MaxJoins /\ next \in Joins
    BY <1>0, <1>1, VoiceAssumption DEF Joins
  <1>5. out = 0 /\ link = 0 /\ ~redial /\ remotes = Silence
    BY <1>1 DEF VoiceInv, LineIsSo
  <1>6. LineIsSo' /\ LineIsJoined'
    BY <1>1, <1>3, <1>5 DEF VoiceInv, LineIsSo, LineIsJoined, linkVars, Silence
  <1>7. CaptureIsSo'
    BY <1>1, <1>3, <1>5 DEF VoiceInv, CaptureIsSo, linkVars
  <1>8. RightlyHeard(remotes, game, voice)'
    BY <1>1, <1>5, SilenceIs DEF RightlyHeard
  <1> QED
    BY <1>1, <1>3, <1>4, <1>5, <1>6, <1>7, <1>8 DEF VoiceInv, linkVars

\* The line is opened, or waits for the game's connection
LEMMA ConnectIs ==
    ASSUME NEW g, NEW v \in VoiceControls, NEW pair \in 0 .. MaxJoins, VoiceConnect(g, v, pair),
           lines \subseteq 1 .. generation, generation \in Nat, link = 0 => generation \notin lines, link \in 0 .. MaxJoins
    PROVE  /\ ~redial' /\ voice' \in VoiceControls /\ SameKeys(voice', v)
           /\ voice'.status # v.status => voice'.status = "reconnecting"
           /\ generation' \in Nat /\ lines' \subseteq 1 .. generation' /\ (link' = 0 => link = 0 /\ generation' \notin lines')
           /\ link' \in 0 .. MaxJoins /\ (link' # link => link' = pair /\ link = 0 /\ pair # 0)
           /\ g.up /\ g.room /\ pair # 0 => link' # 0
           /\ v.status = "on" => (voice'.status = "on" \/ link = 0)
  <1>1. CASE pair = 0 \/ link # 0
    BY <1>1 DEF VoiceConnect, linkVars, SameKeys
  <1>2. CASE pair # 0 /\ link = 0 /\ (~g.up \/ ~g.room)
    <2> DEFINE status == IF v.status = "starting" THEN v.status ELSE "reconnecting"
    <2>1. voice' = [v EXCEPT !.status = status] /\ ~redial' /\ UNCHANGED linkVars
      BY <1>2 DEF VoiceConnect, VoiceControls
    <2>2. status \in {"off", "starting", "on", "reconnecting"} /\ (status # v.status => status = "reconnecting")
      BY DEF VoiceControls
    <2> HIDE DEF status
    <2>3. voice' \in VoiceControls /\ SameKeys(voice', v) /\ voice'.status = status
      BY <2>1, <2>2 DEF VoiceControls, SameKeys
    <2> QED
      BY <1>2, <2>1, <2>2, <2>3 DEF linkVars
  <1>3. CASE pair # 0 /\ link = 0 /\ g.up /\ g.room
    <2>1. /\ generation' = generation + 1 /\ lines' = lines \cup {generation + 1} /\ link' = pair /\ voice' = v /\ ~redial'
      BY <1>3 DEF VoiceConnect
    <2> QED
      BY <1>3, <2>1 DEF SameKeys
  <1> QED
    BY <1>1, <1>2, <1>3

\* What leaves the microphone alone and takes up the line
LEMMA LineKeeps ==
    ASSUME VoiceInv, voice.status # "off", VoiceConnect(game', voice, out), game' \in VoiceGames, game'.phase = game.phase,
           game'.team = game.team, game'.encryptor = game.encryptor, game'.room, UNCHANGED <<micVars, pairs, remotes>>
    PROVE  VoiceInv'
  <1>0. /\ voice \in VoiceControls /\ out \in 0 .. MaxJoins /\ lines \subseteq 1 .. generation /\ generation \in Nat
        /\ (link = 0 => generation \notin lines /\ remotes = Silence) /\ link \in 0 .. MaxJoins /\ (link # 0 => out # 0)
        /\ (voice.status = "on" => link # 0) /\ (out = 0 => microphone = 0)
        /\ (voice.status = "starting" => audio /\ (out = 0 => asking # {}))
    BY DEF VoiceInv, LineIsSo
  <1>1. /\ ~redial' /\ voice' \in VoiceControls /\ SameKeys(voice', voice)
        /\ voice'.status # voice.status => voice'.status = "reconnecting"
        /\ generation' \in Nat /\ lines' \subseteq 1 .. generation' /\ (link' = 0 => link = 0 /\ generation' \notin lines')
        /\ link' \in 0 .. MaxJoins /\ (link' # link => link' = out /\ link = 0 /\ out # 0)
        /\ game'.up /\ game'.room /\ out # 0 => link' # 0
    BY <1>0, ConnectIs
  <1>2. LineIsSo' /\ LineIsJoined'
    BY <1>0, <1>1 DEF LineIsSo, LineIsJoined, micVars, Silence
  <1>3. CaptureIsSo'
    BY <1>0, <1>1 DEF VoiceInv, CaptureIsSo, micVars
  <1>4. Carried(game', voice') = Carried(game, voice) /\ RightlyHeard(remotes, game', voice')
    <2>1. Carried(game', voice') = Carried(game', voice) /\ Carried(game', voice) = Carried(game, voice)
      BY <1>1, CarriedIs
    <2>2. RightlyHeard(remotes, game', voice)
      BY HeardIs DEF VoiceInv
    <2>3. RightlyHeard(remotes, game', voice')
      BY <1>1, <2>2, HeardIs DEF SameKeys
    <2> QED
      BY <2>1, <2>3
  <1>5. (out # 0 => pairs[out] = Carried(game, voice))' /\ RightlyHeard(remotes, game, voice)'
    BY <1>4 DEF VoiceInv, micVars, Carried, RightlyHeard
  <1> QED
    BY <1>1, <1>2, <1>3, <1>5 DEF VoiceInv, micVars

\* The line is lost: it waits for its timer, or for the game's connection
LEMMA LostKeeps ==
    ASSUME VoiceInv, voice.status # "off", Lost(voice), game' \in VoiceGames, game'.phase = game.phase,
           game'.team = game.team, game'.encryptor = game.encryptor, game'.room = game.room, redial' \/ ~game'.up,
           redial' => out # 0, UNCHANGED <<micVars, pairs>>
    PROVE  VoiceInv'
  <1> DEFINE again == "reconnecting"
  <1>0. voice \in VoiceControls /\ lines \subseteq 1 .. generation /\ generation \in Nat
    BY DEF VoiceInv, LineIsSo
  <1>1. /\ link' = 0 /\ generation' = generation + 1 /\ remotes' = Silence /\ UNCHANGED lines
        /\ voice' = [voice EXCEPT !.status = again]
    BY DEF Lost
  <1>2. again \in {"off", "starting", "on", "reconnecting"} /\ again = "reconnecting"
    OBVIOUS
  <1> HIDE DEF again
  <1>3. voice' \in VoiceControls /\ SameKeys(voice', voice) /\ voice'.status = "reconnecting"
    BY <1>0, <1>1, <1>2 DEF VoiceControls, SameKeys
  <1>4. generation' \in Nat /\ generation' \notin lines' /\ lines' \subseteq 1 .. generation'
    BY <1>0, <1>1
  <1>5. LineIsSo' /\ LineIsJoined'
    BY <1>1, <1>3, <1>4 DEF VoiceInv, LineIsSo, LineIsJoined, micVars, Silence
  <1>6. CaptureIsSo'
    BY <1>1, <1>3 DEF VoiceInv, CaptureIsSo, micVars
  <1>7. Carried(game', voice') = Carried(game, voice)
    <2>1. Carried(game', voice') = Carried(game', voice) /\ Carried(game', voice) = Carried(game, voice)
      BY <1>3, CarriedIs
    <2> QED
      BY <2>1
  <1>8. (out # 0 => pairs[out] = Carried(game, voice))' /\ RightlyHeard(remotes, game, voice)' /\ DOMAIN remotes' = {}
    BY <1>1, <1>7, SilenceIs DEF VoiceInv, micVars, Carried, RightlyHeard
  <1> QED
    BY <1>1, <1>3, <1>4, <1>5, <1>6, <1>8, VoiceAssumption DEF VoiceInv, micVars

\* The browser answers a join
LEMMA AnsweredKeeps ==
    ASSUME VoiceInv, NEW j \in Joins, NEW granted \in BOOLEAN, Answered(j, granted)
    PROVE  VoiceInv'
  <1> DEFINE taken == IF granted THEN streams \cup {j} ELSE streams
             used == IF granted THEN j ELSE microphone
             deaf == ~granted
             v == [voice EXCEPT !.listenOnly = deaf]
  <1>0. /\ voice \in VoiceControls /\ lines \subseteq 1 .. generation /\ generation \in Nat /\ game \in VoiceGames
        /\ (link = 0 => generation \notin lines /\ remotes = Silence) /\ link \in 0 .. MaxJoins /\ (link # 0 => out # 0)
        /\ (voice.status = "on" => link # 0) /\ pairs \in [Joins -> SUBSET Channels] /\ streams \subseteq Joins
        /\ microphone \in 0 .. MaxJoins /\ asking \subseteq Joins /\ RightlyHeard(remotes, game, voice)
    BY DEF VoiceInv, LineIsSo
  <1>1. /\ j \in asking /\ asking' = asking \ {j} /\ replaced' = replaced \cup ({out} \ {0})
        /\ UNCHANGED <<game, joins, audio, remotes>>
    BY DEF Answered
  <1>2. taken \subseteq Joins /\ used \in 0 .. MaxJoins /\ j \in 0 .. MaxJoins /\ j # 0 /\ deaf \in BOOLEAN
    BY <1>0, VoiceAssumption DEF Joins
  <1>3. /\ streams \subseteq replaced' /\ microphone \in {0} \cup replaced' /\ (link # 0 => link \in replaced')
        /\ taken \subseteq {used} \cup replaced' /\ used \in {0, j} \cup replaced'
        /\ \A k \in Joins : k \notin replaced' => pairs[k] = {}
    <2>1. /\ streams \subseteq {microphone} \cup replaced /\ microphone \in {0, out} \cup replaced
          /\ link # 0 => link = out \/ link \in replaced
          /\ \A k \in Joins : k # out /\ k \notin replaced => pairs[k] = {}
      BY DEF VoiceInv, CaptureIsSo
    <2>2. replaced \subseteq replaced' /\ (out # 0 => out \in replaced') /\ 0 \notin Joins
      BY <1>1 DEF Joins
    <2>3. /\ streams \subseteq replaced' /\ microphone \in {0} \cup replaced' /\ (link # 0 => link \in replaced')
          /\ \A k \in Joins : k \notin replaced' => pairs[k] = {}
      BY <1>0, <2>1, <2>2
    <2> QED
      BY <2>3
  <1>4. CASE voice.status # "starting" \/ ~audio
    <2>1. streams' = taken \ {used} /\ microphone' = 0 /\ UNCHANGED <<voice, pairs, out, linkVars, redial>>
      BY <1>4 DEF Answered
    <2> HIDE DEF taken, used
    <2>2. streams' \subseteq replaced'
      BY <1>3, <2>1
    <2>3. CaptureIsSo'
      BY <1>1, <1>3, <2>1, <2>2 DEF CaptureIsSo, linkVars
    <2>4. LineIsSo' /\ LineIsJoined'
      BY <1>1, <1>4, <2>1 DEF VoiceInv, LineIsSo, LineIsJoined, linkVars, Silence
    <2>5. (out # 0 => pairs[out] = Carried(game, voice))' /\ RightlyHeard(remotes, game, voice)'
      BY <1>1, <2>1 DEF VoiceInv, Carried, RightlyHeard
    <2> QED
      BY <1>0, <1>1, <1>2, <2>1, <2>3, <2>4, <2>5, VoiceAssumption DEF VoiceInv, linkVars
  <1>5. CASE voice.status = "starting" /\ audio
    <2>1. /\ streams' = taken /\ microphone' = used /\ out' = j
          /\ pairs' = [pairs EXCEPT ![j] = Carried(game, v)] /\ VoiceConnect(game, v, j)
      BY <1>5 DEF Answered, Carried
    <2> HIDE DEF taken, used, deaf
    <2>2. v \in VoiceControls /\ v.status = "starting" /\ v.machine = voice.machine
      BY <1>0, <1>2, <1>5 DEF VoiceControls
    <2> HIDE DEF v
    <2>3. /\ ~redial' /\ voice' \in VoiceControls /\ SameKeys(voice', v)
          /\ voice'.status # v.status => voice'.status = "reconnecting"
          /\ generation' \in Nat /\ lines' \subseteq 1 .. generation' /\ (link' = 0 => link = 0 /\ generation' \notin lines')
          /\ link' \in 0 .. MaxJoins /\ (link' # link => link' = j /\ link = 0 /\ j # 0)
          /\ game.up /\ game.room /\ j # 0 => link' # 0
      BY <1>0, <1>2, <2>1, <2>2, ConnectIs
    <2>4. game.room
      BY <1>5 DEF VoiceInv, LineIsSo
    <2>5. LineIsSo' /\ LineIsJoined'
      BY <1>0, <1>1, <1>2, <1>5, <2>1, <2>2, <2>3, <2>4 DEF LineIsSo, LineIsJoined, Silence
    <2>6. pairs' \in [Joins -> SUBSET Channels] /\ pairs'[j] = Carried(game, v) /\ \A k \in Joins : k # j => pairs'[k] = pairs[k]
      BY <1>0, <2>1, CarriedIs
    <2>7. CaptureIsSo'
      BY <1>1, <1>3, <2>1, <2>2, <2>3, <2>6 DEF CaptureIsSo
    <2>8. Carried(game, voice') = Carried(game, v) /\ RightlyHeard(remotes, game, voice')
      BY <1>0, <2>2, <2>3, CarriedIs, HeardIs DEF SameKeys
    <2>9. (out # 0 => pairs[out] = Carried(game, voice))' /\ RightlyHeard(remotes, game, voice)'
      BY <1>1, <2>1, <2>6, <2>8 DEF Carried, RightlyHeard
    <2> QED
      BY <1>0, <1>1, <1>2, <2>1, <2>3, <2>5, <2>6, <2>7, <2>9 DEF VoiceInv
  <1> QED
    BY <1>4, <1>5

\* The selector, the keys and the console's power
LEMMA KeysOfTheVoiceKeep ==
    VoiceInv /\ (ToggleChannel \/ Talk \/ TalkKey \/ PressLamp \/ ReleaseMic \/ SetMode \/ SetMachine) => VoiceInv'
  <1> SUFFICES ASSUME VoiceInv, ToggleChannel \/ Talk \/ TalkKey \/ PressLamp \/ ReleaseMic \/ SetMode \/ SetMachine
               PROVE  VoiceInv'
    OBVIOUS
  <1> DEFINE yes == TRUE
             no == FALSE
             held == ~voice.micOn
             other == ~voice.whisper
             mode == IF voice.mode = "hold" THEN "toggle" ELSE "hold"
             power == ~voice.machine
             hold == IF voice.machine THEN FALSE ELSE voice.holding
             v1 == [voice EXCEPT !.whisper = other]
             v2 == [voice EXCEPT !.micOn = held]
             v3 == [voice EXCEPT !.holding = yes]
             v4 == [voice EXCEPT !.holding = no]
             v5 == [[voice EXCEPT !.mode = mode] EXCEPT !.holding = no]
             v6 == [[voice EXCEPT !.machine = power] EXCEPT !.holding = hold]
  <1>0. voice \in VoiceControls
    BY DEF VoiceInv
  <1>1. Controls(v1) \/ Controls(v2) \/ Controls(v3) \/ Controls(v4) \/ Controls(v5) \/ Controls(v6)
    <2>1. v1 = [voice EXCEPT !.whisper = ~@] /\ v2 = [voice EXCEPT !.micOn = ~@]
          /\ v5 = [voice EXCEPT !.mode = IF @ = "hold" THEN "toggle" ELSE "hold", !.holding = FALSE]
          /\ v6 = [voice EXCEPT !.machine = ~@, !.holding = IF voice.machine THEN FALSE ELSE @]
      BY <1>0 DEF VoiceControls
    <2> QED
      BY <2>1 DEF ToggleChannel, Talk, TalkKey, PressLamp, ReleaseMic, SetMode, SetMachine
  <1>2. /\ yes \in BOOLEAN /\ no \in BOOLEAN /\ held \in BOOLEAN /\ other \in BOOLEAN /\ mode \in {"toggle", "hold"}
        /\ power \in BOOLEAN /\ hold \in BOOLEAN
    BY <1>0 DEF VoiceControls
  <1> HIDE DEF yes, no, held, other, mode, power, hold
  <1>3. /\ v1 \in VoiceControls /\ v1.status = voice.status /\ v2 \in VoiceControls /\ v2.status = voice.status
        /\ v3 \in VoiceControls /\ v3.status = voice.status /\ v4 \in VoiceControls /\ v4.status = voice.status
    BY <1>0, <1>2 DEF VoiceControls
  <1>4. /\ v5 \in VoiceControls /\ v5.status = voice.status /\ v6 \in VoiceControls /\ v6.status = voice.status
    BY <1>0, <1>2 DEF VoiceControls
  <1> HIDE DEF v1, v2, v3, v4, v5, v6
  <1> QED
    BY <1>1, <1>3, <1>4, ControlsKeep

\* The selector: the first detent leaves, the others join or choose the channel
LEMMA TurnsOfTheVoiceKeep ==
    ASSUME VoiceInv, NEW step, VoiceTurn(step)
    PROVE  VoiceInv'
  <1> DEFINE next == Turned(Selector(voice), step)
             team == next = "team"
             v == [voice EXCEPT !.whisper = team]
  <1>0. voice \in VoiceControls /\ game \in VoiceGames /\ team \in BOOLEAN
    BY DEF VoiceInv
  <1>1. (Stopped /\ UNCHANGED game) \/ StartVoice(team) \/ Controls(v)
    BY DEF VoiceTurn
  <1> HIDE DEF team
  <1>2. v \in VoiceControls /\ v.status = voice.status
    BY <1>0 DEF VoiceControls
  <1> HIDE DEF v
  <1> QED
    BY <1>0, <1>1, <1>2, StoppedKeeps, StartKeeps, ControlsKeep

\* What the line reports
LEMMA LinksKeep ==
    VoiceInv /\ (LinkConnected \/ LinkFailed \/ Redialled \/ ConnectionLost \/ ConnectionBack) => VoiceInv'
  <1> SUFFICES ASSUME VoiceInv, LinkConnected \/ LinkFailed \/ Redialled \/ ConnectionLost \/ ConnectionBack PROVE VoiceInv'
    OBVIOUS
  <1> DEFINE again == TRUE
             lost == FALSE
             on == "on"
  <1>0. /\ voice \in VoiceControls /\ game \in VoiceGames
        /\ (voice.status # "off" => game.room) /\ (voice.status = "off" => link = 0 /\ ~redial)
    BY DEF VoiceInv, LineIsSo
  <1>00. again \in BOOLEAN /\ lost \in BOOLEAN /\ again /\ ~lost /\ on \in {"off", "starting", "on", "reconnecting"} /\ on = "on"
    OBVIOUS
  <1>1. CASE LinkConnected
    <2>1. link # 0 /\ voice' = [voice EXCEPT !.status = on] /\ UNCHANGED <<game, micVars, pairs, linkVars, redial, remotes>>
      BY <1>1 DEF LinkConnected
    <2> HIDE DEF on
    <2>2. voice' \in VoiceControls /\ SameKeys(voice', voice) /\ voice'.status = "on"
      BY <1>0, <1>00, <2>1 DEF VoiceControls, SameKeys
    <2>3. Carried(game, voice') = Carried(game, voice) /\ RightlyHeard(remotes, game, voice')
      BY <2>2, CarriedIs, HeardIs DEF VoiceInv, SameKeys
    <2>4. (out # 0 => pairs[out] = Carried(game, voice))' /\ RightlyHeard(remotes, game, voice)'
      BY <2>1, <2>3 DEF VoiceInv, micVars, Carried, RightlyHeard
    <2>5. LineIsSo' /\ LineIsJoined'
      BY <1>0, <2>1, <2>2 DEF VoiceInv, LineIsSo, LineIsJoined, micVars, linkVars, Silence
    <2>6. CaptureIsSo'
      BY <2>1, <2>2 DEF VoiceInv, CaptureIsSo, micVars, linkVars
    <2> QED
      BY <2>1, <2>2, <2>4, <2>5, <2>6 DEF VoiceInv, micVars, linkVars
  <1>2. CASE LinkFailed
    <2>1. link # 0 /\ Lost(voice) /\ redial' /\ UNCHANGED <<game, micVars, pairs>>
      BY <1>2 DEF LinkFailed
    <2> QED
      BY <1>0, <2>1, LostKeeps DEF VoiceInv, LineIsSo
  <1>3. CASE Redialled
    <2>1. redial /\ VoiceConnect(game', voice, out) /\ UNCHANGED <<game, micVars, pairs, remotes>>
      BY <1>3 DEF Redialled
    <2> QED
      BY <1>0, <2>1, LineKeeps
  <1>4. CASE ConnectionLost
    <2>1. game' = [game EXCEPT !.up = lost] /\ UNCHANGED <<micVars, pairs>>
      BY <1>4 DEF ConnectionLost
    <2> HIDE DEF lost
    <2>2. /\ game' \in VoiceGames /\ game'.phase = game.phase /\ game'.team = game.team /\ game'.encryptor = game.encryptor
          /\ game'.room = game.room /\ ~game'.up
      BY <1>0, <1>00, <2>1 DEF VoiceGames
    <2>3. CASE voice.status # "off"
      <3>1. Lost(voice) /\ ~redial'
        BY <1>4, <2>3 DEF ConnectionLost
      <3> QED
        BY <2>1, <2>2, <2>3, <3>1, LostKeeps
    <2>4. CASE voice.status = "off"
      <3>1. UNCHANGED <<voice, linkVars, redial, remotes>>
        BY <1>4, <2>4 DEF ConnectionLost
      <3>2. out = 0 /\ RightlyHeard(remotes, game', voice)
        BY <2>2, <2>4, HeardIs DEF VoiceInv, LineIsSo
      <3>3. RightlyHeard(remotes, game, voice)'
        BY <3>1, <3>2 DEF RightlyHeard
      <3> QED
        BY <2>1, <2>2, <2>4, <3>1, <3>2, <3>3 DEF VoiceInv, LineIsSo, LineIsJoined, CaptureIsSo, micVars, linkVars, Silence
    <2> QED
      BY <2>3, <2>4
  <1>5. CASE ConnectionBack
    <2>1. game.room /\ game' = [game EXCEPT !.up = again] /\ UNCHANGED <<micVars, pairs, remotes>>
      BY <1>5 DEF ConnectionBack
    <2> HIDE DEF again
    <2>2. /\ game' \in VoiceGames /\ game'.phase = game.phase /\ game'.team = game.team /\ game'.encryptor = game.encryptor
          /\ game'.room
      BY <1>0, <1>00, <2>1 DEF VoiceGames
    <2>3. CASE voice.status = "off" \/ link # 0
      <3>1. UNCHANGED <<voice, linkVars, redial>>
        BY <1>5, <2>3 DEF ConnectionBack
      <3>2. Carried(game', voice) = Carried(game, voice) /\ RightlyHeard(remotes, game', voice)
        BY <2>2, CarriedIs, HeardIs DEF VoiceInv
      <3>3. (out # 0 => pairs[out] = Carried(game, voice))' /\ RightlyHeard(remotes, game, voice)'
        BY <2>1, <3>1, <3>2 DEF VoiceInv, micVars, Carried, RightlyHeard
      <3> QED
        BY <2>1, <2>2, <2>3, <3>1, <3>3 DEF VoiceInv, LineIsSo, LineIsJoined, CaptureIsSo, micVars, linkVars, Silence
    <2>4. CASE voice.status # "off" /\ link = 0
      <3>1. VoiceConnect(game', voice, out)
        BY <1>5, <2>4 DEF ConnectionBack
      <3> QED
        BY <2>1, <2>2, <2>4, <3>1, LineKeeps
    <2> QED
      BY <2>3, <2>4
  <1> QED
    BY <1>1, <1>2, <1>3, <1>4, <1>5

\* A voice comes on the line, and goes
LEMMA HearingKeeps ==
    ASSUME VoiceInv, NEW s \in Sources, LinkDrop(s) \/ \E g \in lines : LinkHear(g, s)
    PROVE  VoiceInv'
  <1>1. link # 0 /\ UNCHANGED <<game, voice, micVars, pairs, linkVars, redial>>
    <2>1. CASE LinkDrop(s)
      BY <2>1 DEF LinkDrop
    <2>2. CASE \E g \in lines : LinkHear(g, s)
      BY <2>2 DEF LinkHear, VoiceInv, LineIsSo
    <2> QED
      BY <2>1, <2>2
  <1>2. DOMAIN remotes' \subseteq Sources /\ RightlyHeard(remotes', game, voice)
    <2>1. CASE LinkDrop(s)
      BY <2>1 DEF LinkDrop, RightlyHeard, VoiceInv
    <2>2. CASE \E g \in lines : LinkHear(g, s)
      BY <2>2 DEF LinkHear, Heard, RightlyHeard, VoiceInv
    <2> QED
      BY <2>1, <2>2
  <1>3. RightlyHeard(remotes, game, voice)'
    BY <1>1, <1>2 DEF RightlyHeard
  <1> QED
    BY <1>1, <1>2, <1>3 DEF VoiceInv, LineIsSo, LineIsJoined, CaptureIsSo, Carried, micVars, linkVars

\* The table splits or comes together, and the page leaves its room
LEMMA GamesKeep == VoiceInv /\ (GameTurns \/ RoomLeft) => VoiceInv'
  <1> SUFFICES ASSUME VoiceInv, GameTurns \/ RoomLeft PROVE VoiceInv'
    OBVIOUS
  <1> DEFINE no == FALSE
  <1>0. voice \in VoiceControls /\ game \in VoiceGames /\ no \in BOOLEAN
    BY DEF VoiceInv
  <1>1. CASE GameTurns
    <2>1. PICK phase \in {"encrypting", "guess"}, encryptor \in Talkers :
            LET g == [game EXCEPT !.phase = phase, !.encryptor = encryptor] IN
            /\ game' = g /\ voice' = voice
            /\ IF voice.status = "off" THEN UNCHANGED <<pairs, remotes>> ELSE Apply(g, voice)
            /\ UNCHANGED <<micVars, linkVars, redial>>
      BY <1>1 DEF GameTurns
    <2> DEFINE g == [[game EXCEPT !.phase = phase] EXCEPT !.encryptor = encryptor]
    <2>2. /\ game' = g /\ voice' = voice
          /\ IF voice.status = "off" THEN UNCHANGED <<pairs, remotes>> ELSE Apply(g, voice)
          /\ UNCHANGED <<micVars, linkVars, redial>>
      BY <2>1
    <2>3. g \in VoiceGames /\ g.room = game.room /\ g.up = game.up
      BY <1>0 DEF VoiceGames
    <2> HIDE DEF g
    <2>4. CASE voice.status = "off"
      <3>1. remotes' = Silence /\ out = 0 /\ link = 0 /\ UNCHANGED <<pairs, remotes>>
        BY <2>2, <2>4 DEF VoiceInv, LineIsSo
      <3>2. RightlyHeard(remotes, game, voice)'
        BY <3>1, SilenceIs DEF RightlyHeard
      <3> QED
        BY <2>2, <2>3, <2>4, <3>1, <3>2 DEF VoiceInv, LineIsSo, LineIsJoined, CaptureIsSo, micVars, linkVars, Silence
    <2>5. CASE voice.status # "off"
      <3>1. /\ pairs' \in [Joins -> SUBSET Channels] /\ (out # 0 => pairs'[out] = Carried(g, voice))
            /\ \A j \in Joins : j # out => pairs'[j] = pairs[j]
            /\ DOMAIN remotes' = DOMAIN remotes /\ RightlyHeard(remotes', g, voice) /\ (link = 0 => remotes' = Silence)
        BY <2>2, <2>5, ApplyIs
      <3>2. (out # 0 => pairs[out] = Carried(game, voice))' /\ RightlyHeard(remotes, game, voice)'
        BY <2>2, <3>1 DEF micVars, Carried, RightlyHeard
      <3>3. LineIsSo' /\ LineIsJoined' /\ CaptureIsSo'
        BY <2>2, <2>3, <2>5, <3>1 DEF VoiceInv, LineIsSo, LineIsJoined, CaptureIsSo, micVars, linkVars, Silence
      <3> QED
        BY <2>2, <2>3, <3>1, <3>2, <3>3 DEF VoiceInv, micVars, linkVars
    <2> QED
      BY <2>4, <2>5
  <1>2. CASE RoomLeft
    <2>1. game' = [game EXCEPT !.room = no]
      BY <1>2 DEF RoomLeft
    <2> HIDE DEF no
    <2>2. game' \in VoiceGames /\ game'.phase = game.phase /\ game'.encryptor = game.encryptor
      BY <1>0, <2>1 DEF VoiceGames
    <2>3. CASE voice.status # "off"
      <3>1. Stopped
        BY <1>2, <2>3 DEF RoomLeft
      <3> QED
        BY <2>2, <3>1, StoppedKeeps
    <2>4. CASE voice.status = "off"
      <3>1. UNCHANGED <<voice, micVars, pairs, linkVars, redial, remotes>>
        BY <1>2, <2>4 DEF RoomLeft
      <3>2. out = 0 /\ RightlyHeard(remotes, game', voice)
        BY <2>2, <2>4, HeardIs DEF VoiceInv, LineIsSo
      <3>3. RightlyHeard(remotes, game, voice)'
        BY <3>1, <3>2 DEF RightlyHeard
      <3> QED
        BY <2>2, <2>4, <3>1, <3>2, <3>3 DEF VoiceInv, LineIsSo, LineIsJoined, CaptureIsSo, micVars, linkVars, Silence
    <2> QED
      BY <2>3, <2>4
  <1> QED
    BY <1>1, <1>2

\* The intercom is off, and nothing was joined
LEMMA VoiceBegins == VoiceInit => VoiceInv
  <1> SUFFICES ASSUME VoiceInit PROVE VoiceInv
    OBVIOUS
  <1>1. game \in VoiceGames
    BY DEF VoiceInit, VoiceGames, Talkers
  <1>2. voice \in VoiceControls /\ voice.status = "off"
    BY DEF VoiceInit, Off, VoiceControls
  <1>3. pairs \in [Joins -> SUBSET Channels] /\ \A j \in Joins : pairs[j] = {}
    BY DEF VoiceInit
  <1>4. RightlyHeard(remotes, game, voice) /\ remotes = Silence /\ DOMAIN remotes = {}
    BY SilenceIs DEF VoiceInit, Silence
  <1>5. /\ joins = 0 /\ asking = {} /\ streams = {} /\ microphone = 0 /\ out = 0 /\ link = 0 /\ generation = 0 /\ lines = {}
        /\ redial = FALSE /\ audio = FALSE /\ replaced = {}
    BY DEF VoiceInit
  <1>6. LineIsSo
    BY <1>2, <1>4, <1>5 DEF LineIsSo
  <1>7. CaptureIsSo
    BY <1>3, <1>5 DEF CaptureIsSo
  <1>8. LineIsJoined
    BY <1>2, <1>5 DEF LineIsJoined
  <1> QED
    BY <1>1, <1>2, <1>3, <1>4, <1>5, <1>6, <1>7, <1>8, VoiceAssumption DEF VoiceInv

\* Every step of the voice keeps the invariant
LEMMA VoiceStep == VoiceInv /\ [VoiceNext]_voiceVars => VoiceInv'
  <1> SUFFICES ASSUME VoiceInv, [VoiceNext]_voiceVars PROVE VoiceInv'
    OBVIOUS
  <1>1. \/ \E step : VoiceTurn(step)
        \/ \E j \in Joins, granted \in BOOLEAN : Answered(j, granted)
        \/ ToggleChannel \/ Talk \/ TalkKey \/ PressLamp \/ ReleaseMic \/ SetMode \/ SetMachine
        \/ LinkConnected \/ LinkFailed \/ Redialled
        \/ \E s \in Sources : LinkDrop(s) \/ \E g \in lines : LinkHear(g, s)
        \/ GameTurns \/ ConnectionLost \/ ConnectionBack \/ RoomLeft \/ UNCHANGED voiceVars
    BY DEF VoiceNext
  <1>2. CASE UNCHANGED voiceVars
    BY <1>2 DEF VoiceInv, RightlyHeard, Carried, LineIsSo, LineIsJoined, CaptureIsSo, voiceVars
  <1> QED
    BY ONLY VoiceInv, <1>1, <1>2, TurnsOfTheVoiceKeep, AnsweredKeeps, KeysOfTheVoiceKeep, LinksKeep, HearingKeeps, GamesKeep

\* What the invariant says of the runs' property
LEMMA VoiceKept == VoiceInv => VoiceObeys
  <1> SUFFICES ASSUME VoiceInv PROVE VoiceObeys
    OBVIOUS
  <1>1. VoiceTypeOK
    BY DEF VoiceInv, VoiceTypeOK, VoiceControls
  <1>2. PublishedByTheRules
    BY DEF VoiceInv, CaptureIsSo, PublishedByTheRules, Carried
  <1>3. LampIsTrue
    BY <1>2 DEF VoiceInv, LineIsSo, LampIsTrue, PublishedByTheRules, Carried, Transmitting, Route, VoiceOpen
  <1>4. HeardByTheRules
    BY DEF VoiceInv, HeardByTheRules, RightlyHeard
  <1>5. OffIsSilent
    BY VoiceAssumption DEF VoiceInv, LineIsSo, CaptureIsSo, OffIsSilent, Joins
  <1>6. LineComesBack
    <2>1. voice.status = "starting" /\ out = 0 => StillAsked
      BY DEF VoiceInv, LineIsSo, StillAsked
    <2>2. voice.status \in {"off", "starting", "on", "reconnecting"} /\ (voice.status = "on" => out # 0)
      BY DEF VoiceInv, LineIsSo, VoiceControls
    <2> QED
      BY <2>1, <2>2 DEF VoiceInv, LineIsSo, LineIsJoined, LineComesBack, LostWhileAsking
  <1> QED
    BY <1>1, <1>2, <1>3, <1>4, <1>5, <1>6 DEF VoiceObeys

-----------------------------------------------------------------------------
\* The two ends of the line: VoiceLine

DownSignals == [op : {"ice", "published", "offer", "drop", "failed"}, line : Nat, mids : SUBSET Mids]
UpSignals == [op : {"join", "publish", "connected", "answer", "leave"}, line : Nat]
ChainSteps == [op : {"publish"}] \cup [op : {"published", "offer"}, mids : SUBSET Mids]
Calls == [live : BOOLEAN, named : Nat, state : {"new", "offered", "connecting"}, up : BOOLEAN,
          heard : SUBSET Mids, work : {<<>>} \cup {<<s>> : s \in ChainSteps}, answering : BOOLEAN]
Fars == [id : Nat, session : BOOLEAN, live : BOOLEAN, waiting : BOOLEAN, heard : SUBSET Mids]

Doing(c, op) == c.work # <<>> /\ c.work[1].op = op
Offering(c) == IF Doing(c, "offer") THEN c.work[1].mids \cap c.heard ELSE {}
Coming(c, d, i, op) == d[i].op = op /\ d[i].line = c.named
Going(c, u, i, op) == u[i].op = op /\ u[i].line = c.named
Tells(c, d, i, m) == (Coming(c, d, i, "drop") \/ Coming(c, d, i, "offer")) /\ m \in d[i].mids

\* What is being done for the line is of its stage, and nothing is played before it is up
PageIsSo(c, pl) ==
    /\ ~c.live => c = NoCall
    /\ c.named = 0 => c.work = <<>> /\ c.state = "new" /\ ~c.up
    /\ c.named # 0 => \/ c.state = "new" /\ Doing(c, "publish")
                      \/ c.state = "offered" /\ (c.work = <<>> \/ Doing(c, "published"))
                      \/ c.state = "connecting" /\ (c.work = <<>> \/ Doing(c, "offer"))
    /\ c.up => c.state = "connecting"
    /\ c.state # "connecting" => pl = {}

\* Only a line the server holds receives, and every number was given out
FarIsSo(c, f, d, u, n) ==
    /\ f.live => f.id # 0 /\ f.session
    /\ ~f.live => f.heard = {} /\ ~f.waiting
    /\ f.id <= n /\ c.named <= n
    /\ \A i \in 1 .. Len(u) : u[i].line <= n /\ (u[i].op = "leave" => u[i].line # 0)
    /\ \A i \in 1 .. Len(d) : d[i].line <= n /\ (d[i].op # "failed" => d[i].line # 0)

\* A number on its way to the page is not known to it yet, and nothing was done for it
IceIsNew(c, f, d, u) ==
    \A i \in 1 .. Len(d) : d[i].op = "ice" =>
        /\ d[i].line # c.named
        /\ f.id = d[i].line => ~f.session
        /\ \A k \in 1 .. Len(u) : u[k].line # d[i].line
        /\ \A k \in 1 .. Len(d) : d[k].line = d[i].line => k = i \/ d[k].op = "failed"

\* The tracks are published once, and the answer finds the page waiting for it
PublishedOnce(c, d, u) ==
    c.named # 0 =>
        /\ \A i \in 1 .. Len(u) : Going(c, u, i, "publish") => c.state = "offered" /\ c.work = <<>>
        /\ \A i, k \in 1 .. Len(u) : Going(c, u, i, "publish") /\ Going(c, u, k, "publish") => k = i
        /\ \A i \in 1 .. Len(u), k \in 1 .. Len(d) : ~(Going(c, u, i, "publish") /\ Coming(c, d, k, "published"))
        /\ \A i \in 1 .. Len(d) : Coming(c, d, i, "published") => c.state = "offered" /\ c.work = <<>>
        /\ \A i, k \in 1 .. Len(d) : Coming(c, d, i, "published") /\ Coming(c, d, k, "published") => k = i

\* One offer at a time: on its way, being answered, or answered
OneOffer(c, f, d, u) ==
    c.named # 0 =>
        /\ \A i \in 1 .. Len(d) : Coming(c, d, i, "offer") => c.up /\ c.work = <<>>
        /\ \A i, k \in 1 .. Len(d) : Coming(c, d, i, "offer") /\ Coming(c, d, k, "offer") => k = i
        /\ \A i, k \in 1 .. Len(u) : Going(c, u, i, "answer") /\ Going(c, u, k, "answer") => k = i
        /\ \A i \in 1 .. Len(u), k \in 1 .. Len(d) : ~(Going(c, u, i, "answer") /\ Coming(c, d, k, "offer"))
        /\ Doing(c, "offer") => \A i \in 1 .. Len(u) : ~Going(c, u, i, "answer")
        /\ f.id = c.named /\ ~f.waiting =>
              /\ ~Doing(c, "offer")
              /\ \A i \in 1 .. Len(u) : ~Going(c, u, i, "answer")
              /\ \A k \in 1 .. Len(d) : ~Coming(c, d, k, "offer")

Left(u, i, line) == i \in 1 .. Len(u) /\ u[i].op = "leave" /\ u[i].line = line

\* A line that came up is the page's own, or its leave follows
LeavesFollow(c, f, u) ==
    /\ \A i \in 1 .. Len(u) : u[i].op = "leave" => u[i].line # c.named
    /\ \A i \in 1 .. Len(u) : u[i].op = "connected" =>
          \/ c.up /\ c.named = u[i].line
          \/ \E k \in 1 .. Len(u) : k > i /\ Left(u, k, u[i].line)
    /\ f.live => (c.named = f.id /\ c.up) \/ \E k \in 1 .. Len(u) : Left(u, k, f.id)

\* The server has the page receive what the last signal on its way says of a
\* track, or else what the page plays or is about to
TracksFollow(c, pl, f, d) ==
    c.named # 0 /\ f.id = c.named =>
        \A m \in Mids :
            /\ \A i \in 1 .. Len(d) :
                  Tells(c, d, i, m) /\ (\A k \in 1 .. Len(d) : k > i => ~Tells(c, d, k, m)) =>
                      (m \in f.heard <=> d[i].op = "offer")
            /\ (\A i \in 1 .. Len(d) : ~Tells(c, d, i, m)) =>
                  (m \in f.heard <=> m \in pl \cup Offering(c))

EndsTypeOK(c, pl, f, d, u, n) ==
    /\ c \in Calls /\ pl \in SUBSET Mids /\ f \in Fars
    /\ d \in Seq(DownSignals) /\ u \in Seq(UpSignals) /\ n \in Nat
EndsAgree(c, pl, f, d, u, n) ==
    /\ EndsTypeOK(c, pl, f, d, u, n)
    /\ PageIsSo(c, pl) /\ FarIsSo(c, f, d, u, n) /\ IceIsNew(c, f, d, u) /\ PublishedOnce(c, d, u)
    /\ OneOffer(c, f, d, u) /\ LeavesFollow(c, f, u) /\ TracksFollow(c, pl, f, d)

\* One signal more, or one less
Longer(s, t, x) == Len(t) = Len(s) + 1 /\ t[Len(t)] = x /\ \A i \in 1 .. Len(s) : t[i] = s[i]
Shorter(s, t) == Len(s) = Len(t) + 1 /\ \A i \in 1 .. Len(t) : t[i] = s[i + 1]

\* Sending is one signal more
LEMMA AppendIs ==
    ASSUME NEW S, NEW s \in Seq(S), NEW x \in S
    PROVE  Append(s, x) \in Seq(S) /\ Longer(s, Append(s, x), x)
  BY DEF Longer

\* Reading is one signal less
LEMMA TailIs ==
    ASSUME NEW S, NEW s \in Seq(S), s # <<>>
    PROVE  Tail(s) \in Seq(S) /\ Shorter(s, Tail(s)) /\ Len(s) >= 1 /\ Head(s) = s[1] /\ s[1] \in S
  BY DEF Shorter

\* A signal the server reads without effect
LEMMA ReadUp ==
    ASSUME NEW c, NEW pl, NEW f, NEW d, NEW u, NEW n, EndsAgree(c, pl, f, d, u, n),
           NEW v \in Seq(UpSignals), Shorter(u, v), u[1].op = "leave" /\ u[1].line = f.id => ~f.live
    PROVE  EndsAgree(c, pl, f, d, v, n)
  <1> USE DEF EndsAgree, EndsTypeOK
  <1>0. /\ u \in Seq(UpSignals) /\ Len(u) \in Nat /\ Len(v) \in Nat /\ Len(u) = Len(v) + 1
        /\ \A i \in 1 .. Len(v) : i + 1 \in 1 .. Len(u) /\ v[i] = u[i + 1]
    BY DEF Shorter
  <1>1. \A k \in 1 .. Len(u) : k = 1 \/ (k - 1 \in 1 .. Len(v) /\ v[k - 1] = u[k])
    BY <1>0
  <1>2. FarIsSo(c, f, d, v, n)
    BY <1>0 DEF FarIsSo
  <1>3. IceIsNew(c, f, d, v)
    BY <1>0 DEF IceIsNew
  <1>4. \A i \in 1 .. Len(v) : /\ i + 1 \in 1 .. Len(u)
                               /\ Going(c, v, i, "publish") <=> Going(c, u, i + 1, "publish")
                               /\ Going(c, v, i, "answer") <=> Going(c, u, i + 1, "answer")
    BY <1>0 DEF Going
  <1>7. PublishedOnce(c, d, v)
    <2> SUFFICES ASSUME c.named # 0 PROVE PublishedOnce(c, d, v)
      BY DEF PublishedOnce
    <2>1. ASSUME NEW i \in 1 .. Len(v), Going(c, v, i, "publish")
          PROVE  /\ c.state = "offered" /\ c.work = <<>>
                 /\ \A k \in 1 .. Len(v) : Going(c, v, k, "publish") => k = i
                 /\ \A k \in 1 .. Len(d) : ~Coming(c, d, k, "published")
      BY <1>4, <2>1 DEF PublishedOnce
    <2> QED
      BY <2>1 DEF PublishedOnce
  <1>8. OneOffer(c, f, d, v)
    <2> SUFFICES ASSUME c.named # 0 PROVE OneOffer(c, f, d, v)
      BY DEF OneOffer
    <2>1. ASSUME NEW i \in 1 .. Len(v), Going(c, v, i, "answer")
          PROVE  /\ ~Doing(c, "offer") /\ (f.id = c.named => f.waiting)
                 /\ \A k \in 1 .. Len(v) : Going(c, v, k, "answer") => k = i
                 /\ \A k \in 1 .. Len(d) : ~Coming(c, d, k, "offer")
      BY <1>4, <2>1 DEF OneOffer
    <2> QED
      BY <2>1 DEF OneOffer
  <1>6. LeavesFollow(c, f, v)
    <2>1. \A i \in 1 .. Len(v) : v[i].op = "leave" => v[i].line # c.named
      BY <1>0 DEF LeavesFollow
    <2>2. ASSUME NEW i \in 1 .. Len(v), v[i].op = "connected", ~(c.up /\ c.named = v[i].line)
          PROVE  \E k \in 1 .. Len(v) : k > i /\ Left(v, k, v[i].line)
      <3>1. PICK k \in 1 .. Len(u) : k > i + 1 /\ Left(u, k, u[i + 1].line)
        BY <1>0, <2>2 DEF LeavesFollow
      <3>2. k - 1 \in 1 .. Len(v) /\ v[k - 1] = u[k] /\ k - 1 > i
        BY <1>1, <3>1
      <3> QED
        BY <1>0, <3>1, <3>2 DEF Left
    <2>3. ASSUME f.live, ~(c.named = f.id /\ c.up)
          PROVE  \E k \in 1 .. Len(v) : Left(v, k, f.id)
      <3>1. PICK k \in 1 .. Len(u) : Left(u, k, f.id)
        BY <2>3 DEF LeavesFollow
      <3>2. k - 1 \in 1 .. Len(v) /\ v[k - 1] = u[k]
        BY <1>1, <2>3, <3>1 DEF Left
      <3> QED
        BY <3>1, <3>2 DEF Left
    <2> QED
      BY <2>1, <2>2, <2>3 DEF LeavesFollow
  <1> QED
    BY <1>2, <1>3, <1>6, <1>7, <1>8

\* A line the server gives up
LEMMA FarGone ==
    ASSUME NEW c, NEW pl, NEW f, NEW d, NEW u, NEW n, EndsAgree(c, pl, f, d, u, n)
    PROVE  EndsAgree(c, pl, NoFar, d, u, n)
  <1> USE DEF EndsAgree, EndsTypeOK
  <1>1. NoFar \in Fars /\ NoFar.id = 0 /\ ~NoFar.session /\ ~NoFar.live /\ ~NoFar.waiting /\ NoFar.heard = {}
    BY DEF NoFar, Fars
  <1>2. FarIsSo(c, NoFar, d, u, n)
    BY <1>1 DEF FarIsSo
  <1>3. IceIsNew(c, NoFar, d, u)
    BY <1>1 DEF IceIsNew
  <1>4. OneOffer(c, NoFar, d, u)
    BY <1>1 DEF OneOffer
  <1>5. LeavesFollow(c, NoFar, u)
    BY <1>1 DEF LeavesFollow
  <1>6. TracksFollow(c, pl, NoFar, d)
    BY <1>1 DEF TracksFollow
  <1> QED
    BY <1>1, <1>2, <1>3, <1>4, <1>5, <1>6

\* What is said of every signal is said of the old ones and of the new
LEMMA LongerIs ==
    ASSUME NEW S, NEW s \in Seq(S), NEW t \in Seq(S), NEW x \in S, Longer(s, t, x)
    PROVE  /\ Len(s) \in Nat /\ Len(t) \in 1 .. Len(t) /\ t[Len(t)] = x
           /\ \A i \in 1 .. Len(s) : i \in 1 .. Len(t) /\ i < Len(t) /\ i # Len(t) /\ t[i] = s[i]
           /\ \A i \in 1 .. Len(t) : i \in 1 .. Len(s) \/ i = Len(t)
  BY DEF Longer

\* ... on the way to the server
LEMMA LongerUp ==
    ASSUME NEW s \in Seq(UpSignals), NEW t \in Seq(UpSignals), NEW x \in UpSignals, Longer(s, t, x)
    PROVE  /\ Len(s) \in Nat /\ Len(t) \in 1 .. Len(t) /\ t[Len(t)] = x
           /\ \A i \in 1 .. Len(s) : i \in 1 .. Len(t) /\ i < Len(t) /\ i # Len(t) /\ t[i] = s[i]
           /\ \A i \in 1 .. Len(t) : i \in 1 .. Len(s) \/ i = Len(t)
  BY LongerIs

\* ... on the way to the page
LEMMA LongerDown ==
    ASSUME NEW s \in Seq(DownSignals), NEW t \in Seq(DownSignals), NEW x \in DownSignals, Longer(s, t, x)
    PROVE  /\ Len(s) \in Nat /\ Len(t) \in 1 .. Len(t) /\ t[Len(t)] = x
           /\ \A i \in 1 .. Len(s) : i \in 1 .. Len(t) /\ i < Len(t) /\ i # Len(t) /\ t[i] = s[i]
           /\ \A i \in 1 .. Len(t) : i \in 1 .. Len(s) \/ i = Len(t)
  BY LongerIs

\* Numbers stay new while something else is said
LEMMA IceStays ==
    ASSUME NEW c, NEW f, NEW u, NEW d \in Seq(DownSignals), NEW e \in Seq(DownSignals), NEW x \in DownSignals,
           Longer(d, e, x), IceIsNew(c, f, d, u), x.op # "ice",
           x.op = "failed" \/ \A i \in 1 .. Len(d) : ~(d[i].op = "ice" /\ d[i].line = x.line),
           NEW g, g.id = f.id, g.session = f.session \/ \A i \in 1 .. Len(d) : ~(d[i].op = "ice" /\ d[i].line = f.id)
    PROVE  IceIsNew(c, g, e, u)
  <1>0. /\ Len(e) \in 1 .. Len(e) /\ e[Len(e)] = x
        /\ \A i \in 1 .. Len(d) : i \in 1 .. Len(e) /\ i < Len(e) /\ i # Len(e) /\ e[i] = d[i]
        /\ \A i \in 1 .. Len(e) : i \in 1 .. Len(d) \/ i = Len(e)
    BY LongerIs
  <1>1. ASSUME NEW i \in 1 .. Len(e), e[i].op = "ice"
        PROVE  /\ e[i].line # c.named
               /\ g.id = e[i].line => ~g.session
               /\ \A k \in 1 .. Len(u) : u[k].line # e[i].line
               /\ \A k \in 1 .. Len(e) : e[k].line = e[i].line => k = i \/ e[k].op = "failed"
    <2>1. i \in 1 .. Len(d) /\ d[i] = e[i] /\ d[i].op = "ice"
      BY <1>0, <1>1
    <2>2. /\ d[i].line # c.named
          /\ f.id = d[i].line => ~f.session
          /\ \A k \in 1 .. Len(u) : u[k].line # d[i].line
          /\ \A k \in 1 .. Len(d) : d[k].line = d[i].line => k = i \/ d[k].op = "failed"
      BY <2>1 DEF IceIsNew
    <2>3. ASSUME NEW k \in 1 .. Len(e), e[k].line = e[i].line
          PROVE  k = i \/ e[k].op = "failed"
      <3>1. CASE k = Len(e)
        BY <1>0, <2>1, <2>3, <3>1
      <3>2. CASE k \in 1 .. Len(d)
        BY <1>0, <2>1, <2>2, <2>3, <3>2
      <3> QED
        BY <1>0, <3>1, <3>2
    <2> QED
      BY <2>1, <2>2, <2>3
  <1> QED
    BY <1>1 DEF IceIsNew

\* A signal that names no track of this line changes nothing for the tracks
LEMMA TracksStay ==
    ASSUME NEW c, NEW pl, NEW f, NEW d \in Seq(DownSignals), NEW e \in Seq(DownSignals), NEW x \in DownSignals,
           Longer(d, e, x), TracksFollow(c, pl, f, d), x.op \notin {"drop", "offer"},
           NEW g, g.id = f.id, g.heard = f.heard
    PROVE  TracksFollow(c, pl, g, e)
  <1>0. /\ Len(e) \in 1 .. Len(e) /\ e[Len(e)] = x
        /\ \A i \in 1 .. Len(d) : i \in 1 .. Len(e) /\ i < Len(e) /\ i # Len(e) /\ e[i] = d[i]
        /\ \A i \in 1 .. Len(e) : i \in 1 .. Len(d) \/ i = Len(e)
    BY LongerIs
  <1>1. \A m : /\ ~Tells(c, e, Len(e), m)
               /\ \A i \in 1 .. Len(d) : Tells(c, e, i, m) <=> Tells(c, d, i, m)
    BY <1>0 DEF Tells, Coming
  <1> SUFFICES ASSUME c.named # 0, f.id = c.named, NEW m \in Mids
               PROVE  /\ \A i \in 1 .. Len(e) :
                            Tells(c, e, i, m) /\ (\A k \in 1 .. Len(e) : k > i => ~Tells(c, e, k, m)) =>
                                (m \in f.heard <=> e[i].op = "offer")
                      /\ (\A i \in 1 .. Len(e) : ~Tells(c, e, i, m)) =>
                            (m \in f.heard <=> m \in pl \cup Offering(c))
    BY DEF TracksFollow
  <1>2. ASSUME NEW i \in 1 .. Len(e), Tells(c, e, i, m), \A k \in 1 .. Len(e) : k > i => ~Tells(c, e, k, m)
        PROVE  m \in f.heard <=> e[i].op = "offer"
    <2>1. i \in 1 .. Len(d) /\ Tells(c, d, i, m) /\ e[i] = d[i]
      BY <1>0, <1>1, <1>2
    <2>2. \A k \in 1 .. Len(d) : k > i => ~Tells(c, d, k, m)
      BY <1>0, <1>1, <1>2
    <2> QED
      BY <2>1, <2>2 DEF TracksFollow
  <1>3. ASSUME \A i \in 1 .. Len(e) : ~Tells(c, e, i, m)
        PROVE  m \in f.heard <=> m \in pl \cup Offering(c)
    <2>1. \A i \in 1 .. Len(d) : ~Tells(c, d, i, m)
      BY <1>0, <1>1, <1>3
    <2> QED
      BY <2>1 DEF TracksFollow
  <1> QED
    BY <1>2, <1>3

\* Numbers stay given out, whatever the server says next
LEMMA FarTells ==
    ASSUME NEW c, NEW f, NEW u, NEW n, NEW d \in Seq(DownSignals), NEW e \in Seq(DownSignals), NEW x \in DownSignals,
           Longer(d, e, x), FarIsSo(c, f, d, u, n), x.line <= n, x.op # "failed" => x.line # 0,
           NEW g, g.id = f.id, g.live => g.id # 0 /\ g.session, ~g.live => g.heard = {} /\ ~g.waiting
    PROVE  FarIsSo(c, g, e, u, n)
  <1>0. /\ Len(e) \in 1 .. Len(e) /\ e[Len(e)] = x
        /\ \A i \in 1 .. Len(d) : i \in 1 .. Len(e) /\ e[i] = d[i]
        /\ \A i \in 1 .. Len(e) : i \in 1 .. Len(d) \/ i = Len(e)
    BY LongerIs
  <1>1. /\ f.id <= n /\ c.named <= n
        /\ \A i \in 1 .. Len(u) : u[i].line <= n /\ (u[i].op = "leave" => u[i].line # 0)
        /\ \A i \in 1 .. Len(d) : d[i].line <= n /\ (d[i].op # "failed" => d[i].line # 0)
    BY DEF FarIsSo
  <1>2. \A i \in 1 .. Len(e) : e[i].line <= n /\ (e[i].op # "failed" => e[i].line # 0)
    BY <1>0, <1>1
  <1> QED
    BY <1>1, <1>2 DEF FarIsSo

\* Numbers stay given out, whatever the page says next
LEMMA FarIsTold ==
    ASSUME NEW c, NEW f, NEW d, NEW n, NEW u \in Seq(UpSignals), NEW v \in Seq(UpSignals), NEW x \in UpSignals,
           Longer(u, v, x), FarIsSo(c, f, d, u, n), x.line <= n, x.op = "leave" => x.line # 0,
           NEW b, b.named <= n
    PROVE  FarIsSo(b, f, d, v, n)
  <1>0. /\ Len(v) \in 1 .. Len(v) /\ v[Len(v)] = x
        /\ \A i \in 1 .. Len(u) : i \in 1 .. Len(v) /\ v[i] = u[i]
        /\ \A i \in 1 .. Len(v) : i \in 1 .. Len(u) \/ i = Len(v)
    BY LongerIs
  <1>1. \A i \in 1 .. Len(u) : u[i].line <= n /\ (u[i].op = "leave" => u[i].line # 0)
    BY DEF FarIsSo
  <1>2. \A i \in 1 .. Len(v) : v[i].line <= n /\ (v[i].op = "leave" => v[i].line # 0)
    BY <1>0, <1>1
  <1> QED
    BY <1>2 DEF FarIsSo

\* Numbers stay new while the page speaks of another
LEMMA IceUnsaid ==
    ASSUME NEW c, NEW f, NEW d, NEW u \in Seq(UpSignals), NEW v \in Seq(UpSignals), NEW x \in UpSignals,
           Longer(u, v, x), IceIsNew(c, f, d, u), NEW b,
           \A i \in 1 .. Len(d) : d[i].op = "ice" => d[i].line # b.named /\ d[i].line # x.line
    PROVE  IceIsNew(b, f, d, v)
  <1>0. /\ Len(v) \in 1 .. Len(v) /\ v[Len(v)] = x
        /\ \A i \in 1 .. Len(u) : i \in 1 .. Len(v) /\ v[i] = u[i]
        /\ \A i \in 1 .. Len(v) : i \in 1 .. Len(u) \/ i = Len(v)
    BY LongerIs
  <1> SUFFICES ASSUME NEW i \in 1 .. Len(d), d[i].op = "ice"
               PROVE  /\ d[i].line # b.named
                      /\ f.id = d[i].line => ~f.session
                      /\ \A k \in 1 .. Len(v) : v[k].line # d[i].line
                      /\ \A k \in 1 .. Len(d) : d[k].line = d[i].line => k = i \/ d[k].op = "failed"
    BY DEF IceIsNew
  <1>1. /\ f.id = d[i].line => ~f.session
        /\ \A k \in 1 .. Len(u) : u[k].line # d[i].line
        /\ \A k \in 1 .. Len(d) : d[k].line = d[i].line => k = i \/ d[k].op = "failed"
    BY DEF IceIsNew
  <1>2. \A k \in 1 .. Len(v) : v[k].line # d[i].line
    BY <1>0, <1>1
  <1> QED
    BY <1>1, <1>2

\* The tracks stay published once while something else is said
LEMMA PublishedStays ==
    ASSUME NEW c, NEW u, NEW d \in Seq(DownSignals), NEW e \in Seq(DownSignals), NEW x \in DownSignals,
           Longer(d, e, x), PublishedOnce(c, d, u), x.op # "published" \/ x.line # c.named
    PROVE  PublishedOnce(c, e, u)
  <1>0. /\ Len(e) \in 1 .. Len(e) /\ e[Len(e)] = x
        /\ \A i \in 1 .. Len(d) : i \in 1 .. Len(e) /\ e[i] = d[i]
        /\ \A i \in 1 .. Len(e) : i \in 1 .. Len(d) \/ i = Len(e)
    BY LongerIs
  <1>1. /\ \A i \in 1 .. Len(d) : Coming(c, e, i, "published") <=> Coming(c, d, i, "published")
        /\ ~Coming(c, e, Len(e), "published")
    BY <1>0 DEF Coming
  <1> QED
    BY <1>0, <1>1 DEF PublishedOnce

\* One offer stays one while something else is said
LEMMA OffersStay ==
    ASSUME NEW c, NEW f, NEW u, NEW d \in Seq(DownSignals), NEW e \in Seq(DownSignals), NEW x \in DownSignals,
           Longer(d, e, x), OneOffer(c, f, d, u), x.op # "offer" \/ x.line # c.named,
           NEW g, g.id = f.id, g.waiting = f.waiting \/ f.id # c.named
    PROVE  OneOffer(c, g, e, u)
  <1>0. /\ Len(e) \in 1 .. Len(e) /\ e[Len(e)] = x
        /\ \A i \in 1 .. Len(d) : i \in 1 .. Len(e) /\ e[i] = d[i]
        /\ \A i \in 1 .. Len(e) : i \in 1 .. Len(d) \/ i = Len(e)
    BY LongerIs
  <1>1. /\ \A i \in 1 .. Len(d) : Coming(c, e, i, "offer") <=> Coming(c, d, i, "offer")
        /\ ~Coming(c, e, Len(e), "offer")
    BY <1>0 DEF Coming
  <1>2. \A i \in 1 .. Len(e) : Coming(c, e, i, "offer") => i \in 1 .. Len(d) /\ Coming(c, d, i, "offer")
    BY <1>0, <1>1
  <1> QED
    BY <1>2 DEF OneOffer

\* A signal that says nothing of a track, and of no line the page could be on
LEMMA SaidFailed ==
    ASSUME NEW c, NEW pl, NEW f, NEW d, NEW u, NEW n, EndsAgree(c, pl, f, d, u, n),
           NEW x \in DownSignals, x.op = "failed", x.line <= n, NEW e \in Seq(DownSignals), Longer(d, e, x)
    PROVE  EndsAgree(c, pl, f, e, u, n)
  <1>t. d \in Seq(DownSignals) /\ u \in Seq(UpSignals)
    BY DEF EndsAgree, EndsTypeOK
  <1>0. /\ Len(e) \in 1 .. Len(e) /\ e[Len(e)] = x
        /\ \A i \in 1 .. Len(d) : i \in 1 .. Len(e) /\ i < Len(e) /\ i # Len(e) /\ e[i] = d[i]
        /\ \A i \in 1 .. Len(e) : i \in 1 .. Len(d) \/ i = Len(e)
    BY <1>t, LongerUp, LongerDown
  <1> USE DEF EndsAgree, EndsTypeOK
  <1>1. FarIsSo(c, f, e, u, n)
    <2>1. /\ f.live => f.id # 0 /\ f.session
          /\ ~f.live => f.heard = {} /\ ~f.waiting
      BY DEF FarIsSo
    <2> QED
      BY <2>1, FarTells
  <1>2. IceIsNew(c, f, e, u)
    BY IceStays
  <1>3. PublishedOnce(c, e, u)
    BY PublishedStays
  <1>4. OneOffer(c, f, e, u)
    BY OffersStay
  <1>5. TracksFollow(c, pl, f, e)
    BY TracksStay
  <1> QED
    BY <1>1, <1>2, <1>3, <1>4, <1>5

\* The first answer of the server: the page's tracks are published
LEMMA SaidPublished ==
    ASSUME NEW c, NEW pl, NEW f, NEW d, NEW u, NEW n, EndsAgree(c, pl, f, d, u, n),
           f.id # 0, \A i \in 1 .. Len(d) : ~(d[i].op = "ice" /\ d[i].line = f.id),
           c.named = f.id =>
              /\ c.state = "offered" /\ c.work = <<>>
              /\ \A i \in 1 .. Len(u) : ~Going(c, u, i, "publish")
              /\ \A i \in 1 .. Len(d) : ~Coming(c, d, i, "published"),
           NEW g \in Fars, g.id = f.id, g.session, g.live = f.live, g.waiting = f.waiting, g.heard = f.heard,
           NEW x \in DownSignals, x.op = "published", x.line = f.id, NEW e \in Seq(DownSignals), Longer(d, e, x)
    PROVE  EndsAgree(c, pl, g, e, u, n)
  <1>t. d \in Seq(DownSignals) /\ u \in Seq(UpSignals)
    BY DEF EndsAgree, EndsTypeOK
  <1>0. /\ Len(e) \in 1 .. Len(e) /\ e[Len(e)] = x
        /\ \A i \in 1 .. Len(d) : i \in 1 .. Len(e) /\ i < Len(e) /\ i # Len(e) /\ e[i] = d[i]
        /\ \A i \in 1 .. Len(e) : i \in 1 .. Len(d) \/ i = Len(e)
    BY <1>t, LongerUp, LongerDown
  <1> USE DEF EndsAgree, EndsTypeOK
  <1>1. FarIsSo(c, g, e, u, n)
    <2>1. /\ g.live => g.id # 0 /\ g.session
          /\ ~g.live => g.heard = {} /\ ~g.waiting
      BY DEF FarIsSo
    <2>2. x.line <= n /\ x.line # 0
      BY DEF FarIsSo
    <2> QED
      BY <2>1, <2>2, FarTells
  <1>2. IceIsNew(c, g, e, u)
    BY IceStays
  <1>3. PublishedOnce(c, e, u)
    <2>1. CASE c.named = f.id
      <3>1. /\ \A i \in 1 .. Len(u) : ~Going(c, u, i, "publish")
            /\ \A i \in 1 .. Len(e) : Coming(c, e, i, "published") => i = Len(e)
        BY <1>0, <2>1 DEF Coming
      <3> QED
        BY <2>1, <3>1 DEF PublishedOnce
    <2>2. CASE c.named # f.id
      BY <2>2, PublishedStays
    <2> QED
      BY <2>1, <2>2
  <1>4. OneOffer(c, g, e, u)
    BY OffersStay
  <1>5. TracksFollow(c, pl, g, e)
    BY TracksStay
  <1>6. LeavesFollow(c, g, u)
    BY DEF LeavesFollow
  <1> QED
    BY <1>1, <1>2, <1>3, <1>4, <1>5, <1>6

\* The server hears that the page's connection is up
LEMMA FarLives ==
    ASSUME NEW c, NEW pl, NEW f, NEW d, NEW u, NEW n, EndsAgree(c, pl, f, d, u, n),
           f.id # 0, f.session, (c.named = f.id /\ c.up) \/ \E k \in 1 .. Len(u) : Left(u, k, f.id),
           NEW g \in Fars, g.id = f.id, g.session, g.live, g.waiting = f.waiting, g.heard = f.heard
    PROVE  EndsAgree(c, pl, g, d, u, n)
  <1> USE DEF EndsAgree, EndsTypeOK
  <1>1. FarIsSo(c, g, d, u, n)
    BY DEF FarIsSo
  <1>2. IceIsNew(c, g, d, u)
    BY DEF IceIsNew
  <1>3. OneOffer(c, g, d, u)
    BY DEF OneOffer
  <1>4. LeavesFollow(c, g, u)
    BY DEF LeavesFollow
  <1>5. TracksFollow(c, pl, g, d)
    BY DEF TracksFollow
  <1> QED
    BY <1>1, <1>2, <1>3, <1>4, <1>5

\* The server hears that its offer is answered
LEMMA FarRests ==
    ASSUME NEW c, NEW pl, NEW f, NEW d, NEW u, NEW n, EndsAgree(c, pl, f, d, u, n),
           c.named = f.id =>
              /\ ~Doing(c, "offer")
              /\ \A i \in 1 .. Len(u) : ~Going(c, u, i, "answer")
              /\ \A k \in 1 .. Len(d) : ~Coming(c, d, k, "offer"),
           NEW g \in Fars, g.id = f.id, g.session = f.session, g.live = f.live, ~g.waiting, g.heard = f.heard
    PROVE  EndsAgree(c, pl, g, d, u, n)
  <1> USE DEF EndsAgree, EndsTypeOK
  <1>1. FarIsSo(c, g, d, u, n)
    BY DEF FarIsSo
  <1>2. IceIsNew(c, g, d, u)
    BY DEF IceIsNew
  <1>3. OneOffer(c, g, d, u)
    BY DEF OneOffer
  <1>4. LeavesFollow(c, g, u)
    BY DEF LeavesFollow
  <1>5. TracksFollow(c, pl, g, d)
    BY DEF TracksFollow
  <1> QED
    BY <1>1, <1>2, <1>3, <1>4, <1>5

\* A line is given a number
LEMMA FarBegins ==
    ASSUME NEW c, NEW pl, NEW f, NEW d, NEW u, NEW n, EndsAgree(c, pl, f, d, u, n),
           NEW g \in Fars, g.id = n + 1, ~g.session, ~g.live, ~g.waiting, g.heard = {},
           NEW x \in DownSignals, x.op = "ice", x.line = n + 1, NEW e \in Seq(DownSignals), Longer(d, e, x)
    PROVE  EndsAgree(c, pl, g, e, u, n + 1)
  <1>t. d \in Seq(DownSignals) /\ u \in Seq(UpSignals)
    BY DEF EndsAgree, EndsTypeOK
  <1>0. /\ Len(e) \in 1 .. Len(e) /\ e[Len(e)] = x
        /\ \A i \in 1 .. Len(d) : i \in 1 .. Len(e) /\ i < Len(e) /\ i # Len(e) /\ e[i] = d[i]
        /\ \A i \in 1 .. Len(e) : i \in 1 .. Len(d) \/ i = Len(e)
    BY <1>t, LongerUp, LongerDown
  <1> USE DEF EndsAgree, EndsTypeOK
  <1>a. \A i \in 1 .. Len(u) : u[i] \in UpSignals
    OBVIOUS
  <1>b. \A i \in 1 .. Len(d) : d[i] \in DownSignals
    OBVIOUS
  <1>c. \A i \in 1 .. Len(u) : u[i].line \in Nat
    BY <1>a DEF UpSignals
  <1>d. \A i \in 1 .. Len(d) : d[i].line \in Nat
    BY <1>b DEF DownSignals
  <1>e. c.named \in Nat /\ f.id \in Nat
    BY DEF Calls, Fars
  <1>1. /\ c.named <= n /\ f.id <= n
        /\ \A i \in 1 .. Len(u) : u[i].line \in Nat /\ u[i].line <= n /\ (u[i].op = "leave" => u[i].line # 0)
        /\ \A i \in 1 .. Len(d) : d[i].line \in Nat /\ d[i].line <= n /\ (d[i].op # "failed" => d[i].line # 0)
    BY <1>c, <1>d DEF FarIsSo
  <1>2. /\ \A i \in 1 .. Len(u) : u[i].line # n + 1 /\ u[i].line <= n + 1
        /\ \A i \in 1 .. Len(d) : d[i].line # n + 1 /\ d[i].line <= n + 1
        /\ c.named # n + 1 /\ c.named <= n + 1 /\ n + 1 # 0 /\ n + 1 <= n + 1
    BY <1>1, <1>e
  <1>3. FarIsSo(c, g, e, u, n + 1)
    BY ONLY g.id = n + 1, ~g.live, ~g.waiting, g.heard = {}, x.line = n + 1, <1>0, <1>1, <1>2 DEF FarIsSo
  <1>4. IceIsNew(c, g, e, u)
    <2>1. ASSUME NEW i \in 1 .. Len(e), e[i].op = "ice"
          PROVE  /\ e[i].line # c.named
                 /\ g.id = e[i].line => ~g.session
                 /\ \A k \in 1 .. Len(u) : u[k].line # e[i].line
                 /\ \A k \in 1 .. Len(e) : e[k].line = e[i].line => k = i \/ e[k].op = "failed"
      <3>1. CASE i = Len(e)
        BY <1>0, <1>2, <2>1, <3>1
      <3>2. CASE i \in 1 .. Len(d)
        BY <1>0, <1>2, <2>1, <3>2, SMTT(30) DEF IceIsNew
      <3> QED
        BY <1>0, <3>1, <3>2
    <2> QED
      BY <2>1 DEF IceIsNew
  <1>5. PublishedOnce(c, e, u)
    BY PublishedStays
  <1>6. OneOffer(c, g, e, u)
    <2>1. /\ \A i \in 1 .. Len(d) : Coming(c, e, i, "offer") <=> Coming(c, d, i, "offer")
          /\ ~Coming(c, e, Len(e), "offer")
      BY <1>0 DEF Coming
    <2>2. \A i \in 1 .. Len(e) : Coming(c, e, i, "offer") => i \in 1 .. Len(d) /\ Coming(c, d, i, "offer")
      BY <1>0, <2>1
    <2> QED
      BY <1>2, <2>2 DEF OneOffer
  <1>7. LeavesFollow(c, g, u)
    BY DEF LeavesFollow
  <1>8. TracksFollow(c, pl, g, e)
    BY <1>2 DEF TracksFollow
  <1>9. n + 1 \in Nat
    OBVIOUS
  <1> QED
    BY <1>3, <1>4, <1>5, <1>6, <1>7, <1>8, <1>9

\* A signal that names tracks of this line has the last word on them
LEMMA TracksTold ==
    ASSUME NEW c, NEW pl, NEW f, NEW d \in Seq(DownSignals), NEW e \in Seq(DownSignals), NEW x \in DownSignals,
           Longer(d, e, x), TracksFollow(c, pl, f, d), x.op \in {"drop", "offer"}, x.line = f.id,
           NEW g, g.id = f.id,
           \A m \in Mids : m \in x.mids => (m \in g.heard <=> x.op = "offer"),
           \A m \in Mids : m \notin x.mids => (m \in g.heard <=> m \in f.heard)
    PROVE  TracksFollow(c, pl, g, e)
  <1>0. /\ Len(e) \in 1 .. Len(e) /\ e[Len(e)] = x
        /\ \A i \in 1 .. Len(d) : i \in 1 .. Len(e) /\ i < Len(e) /\ i # Len(e) /\ e[i] = d[i]
        /\ \A i \in 1 .. Len(e) : i \in 1 .. Len(d) \/ i = Len(e)
    BY LongerIs
  <1> SUFFICES ASSUME c.named # 0, f.id = c.named, NEW m \in Mids
               PROVE  /\ \A i \in 1 .. Len(e) :
                            Tells(c, e, i, m) /\ (\A k \in 1 .. Len(e) : k > i => ~Tells(c, e, k, m)) =>
                                (m \in g.heard <=> e[i].op = "offer")
                      /\ (\A i \in 1 .. Len(e) : ~Tells(c, e, i, m)) =>
                            (m \in g.heard <=> m \in pl \cup Offering(c))
    BY DEF TracksFollow
  <1>1. /\ Tells(c, e, Len(e), m) <=> m \in x.mids
        /\ \A i \in 1 .. Len(d) : Tells(c, e, i, m) <=> Tells(c, d, i, m)
    BY <1>0 DEF Tells, Coming
  <1>2. ASSUME NEW i \in 1 .. Len(e), Tells(c, e, i, m), \A k \in 1 .. Len(e) : k > i => ~Tells(c, e, k, m)
        PROVE  m \in g.heard <=> e[i].op = "offer"
    <2>1. CASE i = Len(e)
      BY <1>0, <1>1, <1>2, <2>1
    <2>2. CASE i \in 1 .. Len(d)
      <3>1. Tells(c, d, i, m) /\ e[i] = d[i] /\ m \notin x.mids
        BY <1>0, <1>1, <1>2, <2>2
      <3>2. \A k \in 1 .. Len(d) : k > i => ~Tells(c, d, k, m)
        BY <1>0, <1>1, <1>2
      <3> QED
        BY <2>2, <3>1, <3>2 DEF TracksFollow
    <2> QED
      BY <1>0, <2>1, <2>2
  <1>3. ASSUME \A i \in 1 .. Len(e) : ~Tells(c, e, i, m)
        PROVE  m \in g.heard <=> m \in pl \cup Offering(c)
    <2>1. \A i \in 1 .. Len(d) : ~Tells(c, d, i, m)
      BY <1>0, <1>1, <1>3
    <2>2. m \notin x.mids
      BY <1>0, <1>1, <1>3
    <2> QED
      BY <2>1, <2>2 DEF TracksFollow
  <1> QED
    BY <1>2, <1>3

\* Tracks that may no longer be heard are dropped
LEMMA SaidDrop ==
    ASSUME NEW c, NEW pl, NEW f, NEW d, NEW u, NEW n, EndsAgree(c, pl, f, d, u, n),
           f.live, NEW gone \in SUBSET Mids,
           NEW g \in Fars, g.id = f.id, g.session = f.session, g.live, g.waiting = f.waiting, g.heard = f.heard \ gone,
           NEW x \in DownSignals, x.op = "drop", x.line = f.id, x.mids = gone,
           NEW e \in Seq(DownSignals), Longer(d, e, x)
    PROVE  EndsAgree(c, pl, g, e, u, n)
  <1>t. d \in Seq(DownSignals) /\ u \in Seq(UpSignals)
    BY DEF EndsAgree, EndsTypeOK
  <1>0. /\ Len(e) \in 1 .. Len(e) /\ e[Len(e)] = x
        /\ \A i \in 1 .. Len(d) : i \in 1 .. Len(e) /\ i < Len(e) /\ i # Len(e) /\ e[i] = d[i]
        /\ \A i \in 1 .. Len(e) : i \in 1 .. Len(d) \/ i = Len(e)
    BY <1>t, LongerUp, LongerDown
  <1> USE DEF EndsAgree, EndsTypeOK
  <1>1. f.id # 0 /\ f.session /\ f.id <= n /\ \A i \in 1 .. Len(d) : ~(d[i].op = "ice" /\ d[i].line = f.id)
    BY DEF FarIsSo, IceIsNew
  <1>2. FarIsSo(c, g, e, u, n)
    BY <1>1, FarTells
  <1>3. IceIsNew(c, g, e, u)
    BY <1>1, IceStays
  <1>4. PublishedOnce(c, e, u)
    BY PublishedStays
  <1>5. OneOffer(c, g, e, u)
    BY OffersStay
  <1>6. LeavesFollow(c, g, u)
    BY DEF LeavesFollow
  <1>7. TracksFollow(c, pl, g, e)
    BY TracksTold
  <1> QED
    BY <1>2, <1>3, <1>4, <1>5, <1>6, <1>7

\* Tracks that may be heard now are offered, while no other offer waits
LEMMA SaidOffer ==
    ASSUME NEW c, NEW pl, NEW f, NEW d, NEW u, NEW n, EndsAgree(c, pl, f, d, u, n),
           f.live, ~f.waiting, NEW new \in SUBSET Mids,
           NEW g \in Fars, g.id = f.id, g.session = f.session, g.live, g.waiting, g.heard = f.heard \cup new,
           NEW x \in DownSignals, x.op = "offer", x.line = f.id, x.mids = new,
           NEW e \in Seq(DownSignals), Longer(d, e, x)
    PROVE  EndsAgree(c, pl, g, e, u, n)
  <1>t. d \in Seq(DownSignals) /\ u \in Seq(UpSignals)
    BY DEF EndsAgree, EndsTypeOK
  <1>0. /\ Len(e) \in 1 .. Len(e) /\ e[Len(e)] = x
        /\ \A i \in 1 .. Len(d) : i \in 1 .. Len(e) /\ i < Len(e) /\ i # Len(e) /\ e[i] = d[i]
        /\ \A i \in 1 .. Len(e) : i \in 1 .. Len(d) \/ i = Len(e)
    BY <1>t, LongerUp, LongerDown
  <1> USE DEF EndsAgree, EndsTypeOK
  <1>1. f.id # 0 /\ f.session /\ f.id <= n /\ \A i \in 1 .. Len(d) : ~(d[i].op = "ice" /\ d[i].line = f.id)
    BY DEF FarIsSo, IceIsNew
  <1>2. FarIsSo(c, g, e, u, n)
    BY <1>1, FarTells
  <1>3. IceIsNew(c, g, e, u)
    BY <1>1, IceStays
  <1>4. PublishedOnce(c, e, u)
    BY PublishedStays
  <1>5. OneOffer(c, g, e, u)
    <2>1. CASE c.named = f.id
      <3>1. c.up
        BY <2>1 DEF LeavesFollow, Left
      <3>2. /\ ~Doing(c, "offer") /\ \A i \in 1 .. Len(u) : ~Going(c, u, i, "answer")
            /\ \A k \in 1 .. Len(d) : ~Coming(c, d, k, "offer")
        BY <1>1, <2>1 DEF OneOffer
      <3>3. c.work = <<>>
        BY <1>1, <2>1, <3>1, <3>2 DEF PageIsSo
      <3>4. \A k \in 1 .. Len(e) : Coming(c, e, k, "offer") => k = Len(e)
        BY <1>0, <3>2 DEF Coming
      <3> QED
        BY <2>1, <3>1, <3>2, <3>3, <3>4 DEF OneOffer
    <2>2. CASE c.named # f.id
      BY <2>2, OffersStay
    <2> QED
      BY <2>1, <2>2
  <1>6. LeavesFollow(c, g, u)
    BY DEF LeavesFollow
  <1>7. TracksFollow(c, pl, g, e)
    BY TracksTold
  <1> QED
    BY <1>2, <1>3, <1>4, <1>5, <1>6, <1>7

\* What is left of the signals, once the first is read
LEMMA ShorterIs ==
    ASSUME NEW S, NEW s \in Seq(S), NEW t \in Seq(S), Shorter(s, t)
    PROVE  /\ Len(s) \in Nat /\ 1 \in 1 .. Len(s) /\ \A i \in 1 .. Len(t) : i + 1 \in 1 .. Len(s) /\ i + 1 # 1 /\ t[i] = s[i + 1]
           /\ \A i \in 1 .. Len(s) : i = 1 \/ (i - 1 \in 1 .. Len(t) /\ t[i - 1] = s[i])
           /\ \A i, k \in 1 .. Len(t) : i + 1 = k + 1 => i = k
  BY DEF Shorter

\* What the first signal says of a track is taken over by the page
LEMMA TracksRead ==
    ASSUME NEW c, NEW pl, NEW f, NEW d \in Seq(DownSignals), NEW e \in Seq(DownSignals), Shorter(d, e),
           TracksFollow(c, pl, f, d), NEW b, b.named = c.named, NEW pm,
           \A m \in Mids : Tells(c, d, 1, m) => (m \in pm \cup Offering(b) <=> d[1].op = "offer"),
           \A m \in Mids : ~Tells(c, d, 1, m) => (m \in pm \cup Offering(b) <=> m \in pl \cup Offering(c))
    PROVE  TracksFollow(b, pm, f, e)
  <1>0. /\ Len(d) \in Nat /\ 1 \in 1 .. Len(d) /\ \A i \in 1 .. Len(e) : i + 1 \in 1 .. Len(d) /\ i + 1 # 1 /\ e[i] = d[i + 1]
        /\ \A i \in 1 .. Len(d) : i = 1 \/ (i - 1 \in 1 .. Len(e) /\ e[i - 1] = d[i])
        /\ \A i, k \in 1 .. Len(e) : i + 1 = k + 1 => i = k
    BY ShorterIs
  <1> SUFFICES ASSUME c.named # 0, f.id = c.named, NEW m \in Mids
               PROVE  /\ \A i \in 1 .. Len(e) :
                            Tells(b, e, i, m) /\ (\A k \in 1 .. Len(e) : k > i => ~Tells(b, e, k, m)) =>
                                (m \in f.heard <=> e[i].op = "offer")
                      /\ (\A i \in 1 .. Len(e) : ~Tells(b, e, i, m)) =>
                            (m \in f.heard <=> m \in pm \cup Offering(b))
    BY DEF TracksFollow
  <1>1. /\ \A i \in 1 .. Len(e) : Tells(b, e, i, m) <=> Tells(c, d, i + 1, m)
        /\ \A i \in 1 .. Len(d) : i = 1 \/ (Tells(b, e, i - 1, m) <=> Tells(c, d, i, m))
    BY <1>0 DEF Tells, Coming
  <1>2. ASSUME NEW i \in 1 .. Len(e), Tells(b, e, i, m), \A k \in 1 .. Len(e) : k > i => ~Tells(b, e, k, m)
        PROVE  m \in f.heard <=> e[i].op = "offer"
    <2>1. i + 1 \in 1 .. Len(d) /\ Tells(c, d, i + 1, m) /\ e[i] = d[i + 1]
      BY <1>0, <1>1, <1>2
    <2>2. ASSUME NEW k \in 1 .. Len(d), k > i + 1
          PROVE  ~Tells(c, d, k, m)
      <3>1. k # 1 /\ k - 1 \in 1 .. Len(e) /\ k - 1 > i
        BY <1>0, <2>2
      <3> QED
        BY <1>1, <1>2, <3>1
    <2> QED
      BY <2>1, <2>2 DEF TracksFollow
  <1>3. ASSUME \A i \in 1 .. Len(e) : ~Tells(b, e, i, m)
        PROVE  m \in f.heard <=> m \in pm \cup Offering(b)
    <2>1. \A i \in 1 .. Len(d) : i # 1 => ~Tells(c, d, i, m)
      BY <1>0, <1>1, <1>3
    <2>2. CASE Tells(c, d, 1, m)
      <3>1. \A k \in 1 .. Len(d) : k > 1 => ~Tells(c, d, k, m)
        BY <2>1
      <3>2. m \in f.heard <=> d[1].op = "offer"
        BY <1>0, <2>2, <3>1 DEF TracksFollow
      <3> QED
        BY <2>2, <3>2
    <2>3. CASE ~Tells(c, d, 1, m)
      <3>1. \A i \in 1 .. Len(d) : ~Tells(c, d, i, m)
        BY <2>1, <2>3
      <3>2. m \in f.heard <=> m \in pl \cup Offering(c)
        BY <3>1 DEF TracksFollow
      <3> QED
        BY <2>3, <3>2
    <2> QED
      BY <2>2, <2>3
  <1> QED
    BY <1>2, <1>3

\* What holds of the signals on their way to the page holds once one is read
LEMMA ReadDown ==
    ASSUME NEW c, NEW pl, NEW f, NEW d, NEW u, NEW n, EndsAgree(c, pl, f, d, u, n),
           NEW e \in Seq(DownSignals), Shorter(d, e)
    PROVE  /\ FarIsSo(c, f, e, u, n) /\ IceIsNew(c, f, e, u) /\ PublishedOnce(c, e, u) /\ OneOffer(c, f, e, u)
           /\ \A i \in 1 .. Len(e) : i + 1 \in 1 .. Len(d) /\ i + 1 # 1 /\ e[i] = d[i + 1]
           /\ d[1] \in DownSignals /\ 1 \in 1 .. Len(d)
  <1> USE DEF EndsAgree, EndsTypeOK
  <1>0. /\ Len(d) \in Nat /\ 1 \in 1 .. Len(d) /\ \A i \in 1 .. Len(e) : i + 1 \in 1 .. Len(d) /\ i + 1 # 1 /\ e[i] = d[i + 1]
        /\ \A i \in 1 .. Len(d) : i = 1 \/ (i - 1 \in 1 .. Len(e) /\ e[i - 1] = d[i])
        /\ \A i, k \in 1 .. Len(e) : i + 1 = k + 1 => i = k
    BY ShorterIs
  <1>1. \A i \in 1 .. Len(e) : /\ i + 1 \in 1 .. Len(d)
                               /\ Coming(c, e, i, "published") <=> Coming(c, d, i + 1, "published")
                               /\ Coming(c, e, i, "offer") <=> Coming(c, d, i + 1, "offer")
    BY <1>0 DEF Coming
  <1>2. FarIsSo(c, f, e, u, n)
    <2>1. \A i \in 1 .. Len(d) : d[i].line <= n /\ (d[i].op # "failed" => d[i].line # 0)
      BY DEF FarIsSo
    <2>2. \A i \in 1 .. Len(e) : e[i].line <= n /\ (e[i].op # "failed" => e[i].line # 0)
      BY <1>0, <2>1
    <2> QED
      BY <2>2 DEF FarIsSo
  <1>3. IceIsNew(c, f, e, u)
    <2> SUFFICES ASSUME NEW i \in 1 .. Len(e), e[i].op = "ice"
                 PROVE  /\ e[i].line # c.named
                        /\ f.id = e[i].line => ~f.session
                        /\ \A k \in 1 .. Len(u) : u[k].line # e[i].line
                        /\ \A k \in 1 .. Len(e) : e[k].line = e[i].line => k = i \/ e[k].op = "failed"
      BY DEF IceIsNew
    <2>1. i + 1 \in 1 .. Len(d) /\ d[i + 1].op = "ice" /\ d[i + 1] = e[i]
      BY <1>0
    <2>2. /\ e[i].line # c.named
          /\ f.id = e[i].line => ~f.session
          /\ \A k \in 1 .. Len(u) : u[k].line # e[i].line
          /\ \A k \in 1 .. Len(d) : d[k].line = e[i].line => k = i + 1 \/ d[k].op = "failed"
      BY <2>1 DEF IceIsNew
    <2>3. ASSUME NEW k \in 1 .. Len(e), e[k].line = e[i].line
          PROVE  k = i \/ e[k].op = "failed"
      <3>1. k + 1 \in 1 .. Len(d) /\ e[k] = d[k + 1]
        BY <1>0
      <3>2. k + 1 = i + 1 \/ d[k + 1].op = "failed"
        BY <2>2, <2>3, <3>1
      <3> QED
        BY <1>0, <3>1, <3>2
    <2> QED
      BY <2>2, <2>3
  <1>4. PublishedOnce(c, e, u)
    <2> SUFFICES ASSUME c.named # 0 PROVE PublishedOnce(c, e, u)
      BY DEF PublishedOnce
    <2>1. ASSUME NEW i \in 1 .. Len(e), Coming(c, e, i, "published")
          PROVE  /\ c.state = "offered" /\ c.work = <<>>
                 /\ \A k \in 1 .. Len(e) : Coming(c, e, k, "published") => k = i
                 /\ \A k \in 1 .. Len(u) : ~Going(c, u, k, "publish")
      BY <1>0, <1>1, <2>1 DEF PublishedOnce
    <2> QED
      BY <2>1 DEF PublishedOnce
  <1>5. OneOffer(c, f, e, u)
    <2> SUFFICES ASSUME c.named # 0 PROVE OneOffer(c, f, e, u)
      BY DEF OneOffer
    <2>1. ASSUME NEW i \in 1 .. Len(e), Coming(c, e, i, "offer")
          PROVE  /\ c.up /\ c.work = <<>> /\ (f.id = c.named => f.waiting)
                 /\ \A k \in 1 .. Len(e) : Coming(c, e, k, "offer") => k = i
                 /\ \A k \in 1 .. Len(u) : ~Going(c, u, k, "answer")
      BY <1>0, <1>1, <2>1 DEF OneOffer
    <2> QED
      BY <2>1 DEF OneOffer
  <1>6. d[1] \in DownSignals
    BY <1>0
  <1> QED
    BY <1>0, <1>2, <1>3, <1>4, <1>5, <1>6

\* A signal that is not for this line, or tells it nothing
LEMMA Ignored ==
    ASSUME NEW c, NEW pl, NEW f, NEW d, NEW u, NEW n, EndsAgree(c, pl, f, d, u, n),
           NEW e \in Seq(DownSignals), Shorter(d, e),
           d[1].op \in {"ice", "published", "failed"} \/ d[1].line # c.named
    PROVE  EndsAgree(c, pl, f, e, u, n)
  <1> USE DEF EndsAgree, EndsTypeOK
  <1>1. \A m : ~Tells(c, d, 1, m)
    BY DEF Tells, Coming
  <1>2. TracksFollow(c, pl, f, e)
    BY <1>1, TracksRead
  <1> QED
    BY <1>2, ReadDown

\* The server's number names the line, and the tracks are to be published
LEMMA Named ==
    ASSUME NEW c, NEW pl, NEW f, NEW d, NEW u, NEW n, EndsAgree(c, pl, f, d, u, n),
           NEW e \in Seq(DownSignals), Shorter(d, e), c.live, c.named = 0, d[1].op = "ice",
           NEW b \in Calls, b.live, b.named = d[1].line, b.state = c.state, b.up = c.up, b.heard = c.heard,
           Doing(b, "publish")
    PROVE  EndsAgree(b, pl, f, e, u, n)
  <1> USE DEF EndsAgree, EndsTypeOK
  <1>0. /\ Len(d) \in Nat /\ 1 \in 1 .. Len(d) /\ \A i \in 1 .. Len(e) : i + 1 \in 1 .. Len(d) /\ i + 1 # 1 /\ e[i] = d[i + 1]
        /\ \A i \in 1 .. Len(d) : i = 1 \/ (i - 1 \in 1 .. Len(e) /\ e[i - 1] = d[i])
        /\ \A i, k \in 1 .. Len(e) : i + 1 = k + 1 => i = k
    BY ShorterIs
  <1>1. /\ FarIsSo(c, f, e, u, n) /\ IceIsNew(c, f, e, u)
        /\ d[1].line # 0 /\ d[1].line <= n
    <2>1. FarIsSo(c, f, e, u, n) /\ IceIsNew(c, f, e, u)
      BY ReadDown
    <2>2. \A i \in 1 .. Len(d) : d[i].line <= n /\ (d[i].op # "failed" => d[i].line # 0)
      BY DEF FarIsSo
    <2> QED
      BY <1>0, <2>1, <2>2
  <1>2. /\ f.id = b.named => ~f.session
        /\ \A k \in 1 .. Len(u) : u[k].line # b.named
        /\ \A k \in 1 .. Len(d) : d[k].line = b.named => k = 1 \/ d[k].op = "failed"
    BY <1>0 DEF IceIsNew
  <1>3. \A k \in 1 .. Len(e) : e[k].line = b.named => e[k].op = "failed"
    BY <1>0, <1>2
  <1>4. b.state = "new" /\ ~b.up /\ ~c.up /\ pl = {} /\ Offering(b) = {}
    BY DEF PageIsSo, Doing, Offering
  <1>5. PageIsSo(b, pl)
    BY <1>1, <1>4 DEF PageIsSo
  <1>6. FarIsSo(b, f, e, u, n)
    BY <1>1 DEF FarIsSo
  <1>7. IceIsNew(b, f, e, u)
    BY <1>1, <1>3 DEF IceIsNew
  <1>8. PublishedOnce(b, e, u)
    BY <1>2, <1>3 DEF PublishedOnce, Going, Coming
  <1>9. OneOffer(b, f, e, u)
    BY <1>2, <1>3 DEF OneOffer, Going, Coming, Doing
  <1>10. LeavesFollow(b, f, u)
    BY <1>2, <1>4 DEF LeavesFollow
  <1>11. TracksFollow(b, pl, f, e)
    <2>1. f.id = b.named => f.heard = {}
      BY <1>2 DEF FarIsSo
    <2>2. \A i \in 1 .. Len(e), m \in Mids : ~Tells(b, e, i, m)
      BY <1>3 DEF Tells, Coming
    <2> QED
      BY <1>4, <2>1, <2>2 DEF TracksFollow
  <1> QED
    BY <1>5, <1>6, <1>7, <1>8, <1>9, <1>10, <1>11

\* The server's answer to the page's tracks waits to be applied
LEMMA PublishedRead ==
    ASSUME NEW c, NEW pl, NEW f, NEW d, NEW u, NEW n, EndsAgree(c, pl, f, d, u, n),
           NEW e \in Seq(DownSignals), Shorter(d, e), c.named # 0, Coming(c, d, 1, "published"),
           NEW b \in Calls, b.live, b.named = c.named, b.state = c.state, b.up = c.up, b.heard = c.heard,
           Doing(b, "published")
    PROVE  EndsAgree(b, pl, f, e, u, n)
  <1> USE DEF EndsAgree, EndsTypeOK
  <1>0. /\ Len(d) \in Nat /\ 1 \in 1 .. Len(d) /\ \A i \in 1 .. Len(e) : i + 1 \in 1 .. Len(d) /\ i + 1 # 1 /\ e[i] = d[i + 1]
        /\ \A i \in 1 .. Len(d) : i = 1 \/ (i - 1 \in 1 .. Len(e) /\ e[i - 1] = d[i])
        /\ \A i, k \in 1 .. Len(e) : i + 1 = k + 1 => i = k
    BY ShorterIs
  <1>1. FarIsSo(c, f, e, u, n) /\ IceIsNew(c, f, e, u) /\ OneOffer(c, f, e, u)
    BY ReadDown
  <1>2. /\ c.state = "offered" /\ c.work = <<>>
        /\ \A k \in 1 .. Len(u) : ~Going(c, u, k, "publish")
        /\ \A k \in 1 .. Len(d) : Coming(c, d, k, "published") => k = 1
    BY <1>0 DEF PublishedOnce
  <1>3. \A k \in 1 .. Len(e) : ~Coming(c, e, k, "published")
    BY <1>0, <1>2 DEF Coming
  <1>4. ~b.up /\ ~c.up /\ Offering(b) = {} /\ Offering(c) = {} /\ ~Doing(b, "offer") /\ ~Doing(c, "offer")
    BY <1>2 DEF PageIsSo, Doing, Offering
  <1>5. PageIsSo(b, pl)
    BY <1>2, <1>4 DEF PageIsSo
  <1>6. FarIsSo(b, f, e, u, n)
    BY <1>1 DEF FarIsSo
  <1>7. IceIsNew(b, f, e, u)
    BY <1>1 DEF IceIsNew
  <1>8. PublishedOnce(b, e, u)
    BY <1>2, <1>3 DEF PublishedOnce, Going, Coming
  <1>9. OneOffer(b, f, e, u)
    BY <1>1, <1>4 DEF OneOffer, Going, Coming
  <1>10. LeavesFollow(b, f, u)
    BY DEF LeavesFollow
  <1>11. TracksFollow(b, pl, f, e)
    <2>1. \A m : ~Tells(c, d, 1, m)
      BY DEF Tells, Coming
    <2> QED
      BY <1>4, <2>1, TracksRead
  <1> QED
    BY <1>5, <1>6, <1>7, <1>8, <1>9, <1>10, <1>11

\* An offer names its speakers, and waits to be answered
LEMMA OfferRead ==
    ASSUME NEW c, NEW pl, NEW f, NEW d, NEW u, NEW n, EndsAgree(c, pl, f, d, u, n),
           NEW e \in Seq(DownSignals), Shorter(d, e), c.named # 0, Coming(c, d, 1, "offer"),
           NEW b \in Calls, b.live, b.named = c.named, b.state = c.state, b.up = c.up,
           b.heard = c.heard \cup d[1].mids, Doing(b, "offer"), b.work[1].mids = d[1].mids
    PROVE  EndsAgree(b, pl, f, e, u, n)
  <1> USE DEF EndsAgree, EndsTypeOK
  <1>0. /\ Len(d) \in Nat /\ 1 \in 1 .. Len(d) /\ \A i \in 1 .. Len(e) : i + 1 \in 1 .. Len(d) /\ i + 1 # 1 /\ e[i] = d[i + 1]
        /\ \A i \in 1 .. Len(d) : i = 1 \/ (i - 1 \in 1 .. Len(e) /\ e[i - 1] = d[i])
        /\ \A i, k \in 1 .. Len(e) : i + 1 = k + 1 => i = k
    BY ShorterIs
  <1>1. FarIsSo(c, f, e, u, n) /\ IceIsNew(c, f, e, u) /\ PublishedOnce(c, e, u)
    BY ReadDown
  <1>2. /\ c.up /\ c.work = <<>> /\ (f.id = c.named => f.waiting)
        /\ \A k \in 1 .. Len(u) : ~Going(c, u, k, "answer")
        /\ \A k \in 1 .. Len(d) : Coming(c, d, k, "offer") => k = 1
    BY <1>0 DEF OneOffer
  <1>3. \A k \in 1 .. Len(e) : ~Coming(c, e, k, "offer")
    BY <1>0, <1>2 DEF Coming
  <1>4. c.state = "connecting" /\ Offering(b) = d[1].mids /\ Offering(c) = {}
    BY <1>2 DEF PageIsSo, Doing, Offering
  <1>5. PageIsSo(b, pl)
    BY <1>2, <1>4 DEF PageIsSo
  <1>6. FarIsSo(b, f, e, u, n)
    BY <1>1 DEF FarIsSo
  <1>7. IceIsNew(b, f, e, u)
    BY <1>1 DEF IceIsNew
  <1>8. PublishedOnce(b, e, u)
    BY <1>1, <1>4 DEF PublishedOnce, Going, Coming
  <1>9. OneOffer(b, f, e, u)
    BY <1>2, <1>3 DEF OneOffer, Going, Coming
  <1>10. LeavesFollow(b, f, u)
    BY DEF LeavesFollow
  <1>11. TracksFollow(b, pl, f, e)
    <2>1. \A m : Tells(c, d, 1, m) <=> m \in d[1].mids
      BY DEF Tells, Coming
    <2>2. d[1].op = "offer"
      BY DEF Coming
    <2> QED
      BY <1>4, <2>1, <2>2, TracksRead
  <1> QED
    BY <1>5, <1>6, <1>7, <1>8, <1>9, <1>10, <1>11

\* Tracks are dropped at once, the ones that are being answered too
LEMMA DropRead ==
    ASSUME NEW c, NEW pl, NEW f, NEW d, NEW u, NEW n, EndsAgree(c, pl, f, d, u, n),
           NEW e \in Seq(DownSignals), Shorter(d, e), Coming(c, d, 1, "drop"),
           NEW b \in Calls, b.live, c.live, b.named = c.named, b.state = c.state, b.up = c.up,
           b.heard = c.heard \ d[1].mids, b.work = c.work
    PROVE  EndsAgree(b, pl \ d[1].mids, f, e, u, n)
  <1> USE DEF EndsAgree, EndsTypeOK
  <1>0. /\ Len(d) \in Nat /\ 1 \in 1 .. Len(d) /\ \A i \in 1 .. Len(e) : i + 1 \in 1 .. Len(d) /\ i + 1 # 1 /\ e[i] = d[i + 1]
        /\ \A i \in 1 .. Len(d) : i = 1 \/ (i - 1 \in 1 .. Len(e) /\ e[i - 1] = d[i])
        /\ \A i, k \in 1 .. Len(e) : i + 1 = k + 1 => i = k
    BY ShorterIs
  <1>1. FarIsSo(c, f, e, u, n) /\ IceIsNew(c, f, e, u) /\ PublishedOnce(c, e, u) /\ OneOffer(c, f, e, u)
    BY ReadDown
  <1>2. Offering(b) = Offering(c) \ d[1].mids /\ \A op : Doing(b, op) <=> Doing(c, op)
    BY DEF Doing, Offering
  <1>3. PageIsSo(b, pl \ d[1].mids)
    BY <1>2 DEF PageIsSo
  <1>4. FarIsSo(b, f, e, u, n)
    BY <1>1 DEF FarIsSo
  <1>5. IceIsNew(b, f, e, u)
    BY <1>1 DEF IceIsNew
  <1>6. PublishedOnce(b, e, u)
    BY <1>1 DEF PublishedOnce, Going, Coming
  <1>7. OneOffer(b, f, e, u)
    BY <1>1, <1>2 DEF OneOffer, Going, Coming
  <1>8. LeavesFollow(b, f, u)
    BY DEF LeavesFollow
  <1>9. TracksFollow(b, pl \ d[1].mids, f, e)
    <2>1. \A m : Tells(c, d, 1, m) <=> m \in d[1].mids
      BY DEF Tells, Coming
    <2>2. d[1].op = "drop"
      BY DEF Coming
    <2> QED
      BY <1>2, <2>1, <2>2, TracksRead
  <1> QED
    BY <1>3, <1>4, <1>5, <1>6, <1>7, <1>8, <1>9

\* A line that came up is the page's own, or its leave follows, whatever the page says next
LEMMA LeavesStay ==
    ASSUME NEW c, NEW f, NEW u \in Seq(UpSignals), NEW v \in Seq(UpSignals), NEW x \in UpSignals, Longer(u, v, x),
           LeavesFollow(c, f, u), NEW b, \A i \in 1 .. Len(u) : u[i].op = "leave" => u[i].line # b.named,
           x.op = "leave" => x.line # b.named, x.op = "connected" => b.up /\ b.named = x.line,
           c.up => (b.up /\ b.named = c.named) \/ (x.op = "leave" /\ x.line = c.named)
    PROVE  LeavesFollow(b, f, v)
  <1>0. /\ Len(v) \in 1 .. Len(v) /\ v[Len(v)] = x
        /\ \A i \in 1 .. Len(u) : i \in 1 .. Len(v) /\ i < Len(v) /\ i # Len(v) /\ v[i] = u[i]
        /\ \A i \in 1 .. Len(v) : i \in 1 .. Len(u) \/ i = Len(v)
    BY LongerIs
  <1>1. \A i \in 1 .. Len(v) : v[i].op = "leave" => v[i].line # b.named
    BY <1>0
  <1>2. ASSUME NEW i \in 1 .. Len(v), v[i].op = "connected"
        PROVE  \/ b.up /\ b.named = v[i].line
               \/ \E k \in 1 .. Len(v) : k > i /\ Left(v, k, v[i].line)
    <2>1. CASE i = Len(v)
      BY <1>0, <1>2, <2>1
    <2>2. CASE i \in 1 .. Len(u)
      <3>1. CASE c.up /\ c.named = u[i].line
        <4>1. CASE x.op = "leave" /\ x.line = c.named
          <5>1. Left(v, Len(v), v[i].line) /\ Len(v) > i /\ Len(v) \in 1 .. Len(v)
            BY <1>0, <2>2, <3>1, <4>1 DEF Left
          <5> QED
            BY <5>1
        <4> QED
          BY <1>0, <2>2, <3>1, <4>1
      <3>2. CASE \E k \in 1 .. Len(u) : k > i /\ Left(u, k, u[i].line)
        <4>1. PICK k \in 1 .. Len(u) : k > i /\ Left(u, k, u[i].line)
          BY <3>2
        <4>2. k \in 1 .. Len(v) /\ Left(v, k, v[i].line)
          BY <1>0, <2>2, <4>1 DEF Left
        <4> QED
          BY <4>1, <4>2
      <3> QED
        BY <1>0, <1>2, <2>2, <3>1, <3>2 DEF LeavesFollow
    <2> QED
      BY <1>0, <2>1, <2>2
  <1>3. ASSUME f.live
        PROVE  (b.named = f.id /\ b.up) \/ \E k \in 1 .. Len(v) : Left(v, k, f.id)
    <2>1. CASE c.named = f.id /\ c.up
      <3>1. CASE x.op = "leave" /\ x.line = c.named
        <4>1. Left(v, Len(v), f.id) /\ Len(v) \in 1 .. Len(v)
          BY <1>0, <2>1, <3>1 DEF Left
        <4> QED
          BY <4>1
      <3> QED
        BY <2>1, <3>1
    <2>2. CASE \E k \in 1 .. Len(u) : Left(u, k, f.id)
      <3>1. PICK k \in 1 .. Len(u) : Left(u, k, f.id)
        BY <2>2
      <3>2. k \in 1 .. Len(v) /\ Left(v, k, f.id)
        BY <1>0, <3>1 DEF Left
      <3> QED
        BY <3>2
    <2> QED
      BY <1>3, <2>1, <2>2 DEF LeavesFollow
  <1> QED
    BY <1>1, <1>2, <1>3 DEF LeavesFollow

\* A line starts with its join
LEMMA CallBegins ==
    ASSUME NEW c, NEW pl, NEW f, NEW d, NEW u, NEW n, EndsAgree(c, pl, f, d, u, n), ~c.live,
           NEW b \in Calls, b.live, b.named = c.named, b.state = c.state, b.up = c.up, b.heard = c.heard, b.work = c.work,
           NEW x \in UpSignals, x.op = "join", x.line = 0, NEW v \in Seq(UpSignals), Longer(u, v, x)
    PROVE  EndsAgree(b, pl, f, d, v, n)
  <1>t. d \in Seq(DownSignals) /\ u \in Seq(UpSignals)
    BY DEF EndsAgree, EndsTypeOK
  <1>0. /\ Len(v) \in 1 .. Len(v) /\ v[Len(v)] = x
        /\ \A i \in 1 .. Len(u) : i \in 1 .. Len(v) /\ i < Len(v) /\ i # Len(v) /\ v[i] = u[i]
        /\ \A i \in 1 .. Len(v) : i \in 1 .. Len(u) \/ i = Len(v)
    BY <1>t, LongerUp, LongerDown
  <1> USE DEF EndsAgree, EndsTypeOK
  <1>1. c.named = 0 /\ b.named = 0 /\ ~c.up /\ ~b.up
    BY DEF PageIsSo, NoCall
  <1>2. PageIsSo(b, pl)
    BY <1>1 DEF PageIsSo
  <1>3. FarIsSo(b, f, d, v, n)
    <2>1. 0 <= n
      OBVIOUS
    <2> QED
      BY <1>1, <2>1, FarIsTold
  <1>4. IceIsNew(b, f, d, v)
    <2>1. \A i \in 1 .. Len(d) : d[i].op = "ice" => d[i].line # 0
      BY DEF FarIsSo
    <2> QED
      BY <1>1, <2>1, IceUnsaid
  <1>5. PublishedOnce(b, d, v) /\ OneOffer(b, f, d, v) /\ TracksFollow(b, pl, f, d)
    BY <1>1 DEF PublishedOnce, OneOffer, TracksFollow
  <1>6. LeavesFollow(b, f, v)
    <2>1. \A i \in 1 .. Len(u) : u[i].op = "leave" => u[i].line # b.named
      BY <1>1 DEF LeavesFollow
    <2> QED
      BY <1>1, <2>1, LeavesStay
  <1> QED
    BY <1>2, <1>3, <1>4, <1>5, <1>6

\* A line that has no number is given up
LEMMA CallDropped ==
    ASSUME NEW c, NEW pl, NEW f, NEW d, NEW u, NEW n, EndsAgree(c, pl, f, d, u, n), c.named = 0
    PROVE  EndsAgree(NoCall, {}, f, d, u, n)
  <1> USE DEF EndsAgree, EndsTypeOK
  <1>1. /\ NoCall \in Calls /\ NoCall.named = 0 /\ ~NoCall.up /\ ~c.up /\ NoCall.work = <<>>
        /\ NoCall.state = "new" /\ {} \in SUBSET Mids
    BY DEF NoCall, Calls, PageIsSo
  <1>2. PageIsSo(NoCall, {})
    BY <1>1 DEF PageIsSo
  <1>3. FarIsSo(NoCall, f, d, u, n)
    BY <1>1 DEF FarIsSo
  <1>4. IceIsNew(NoCall, f, d, u)
    BY <1>1 DEF IceIsNew
  <1>5. PublishedOnce(NoCall, d, u) /\ OneOffer(NoCall, f, d, u) /\ TracksFollow(NoCall, {}, f, d)
    BY <1>1 DEF PublishedOnce, OneOffer, TracksFollow
  <1>6. LeavesFollow(NoCall, f, u)
    BY <1>1 DEF LeavesFollow
  <1> QED
    BY <1>1, <1>2, <1>3, <1>4, <1>5, <1>6

\* A line that has a number is given up, and its leave follows
LEMMA CallLeft ==
    ASSUME NEW c, NEW pl, NEW f, NEW d, NEW u, NEW n, EndsAgree(c, pl, f, d, u, n), c.named # 0,
           NEW x \in UpSignals, x.op = "leave", x.line = c.named, NEW v \in Seq(UpSignals), Longer(u, v, x)
    PROVE  EndsAgree(NoCall, {}, f, d, v, n)
  <1>t. d \in Seq(DownSignals) /\ u \in Seq(UpSignals)
    BY DEF EndsAgree, EndsTypeOK
  <1>0. /\ Len(v) \in 1 .. Len(v) /\ v[Len(v)] = x
        /\ \A i \in 1 .. Len(u) : i \in 1 .. Len(v) /\ i < Len(v) /\ i # Len(v) /\ v[i] = u[i]
        /\ \A i \in 1 .. Len(v) : i \in 1 .. Len(u) \/ i = Len(v)
    BY <1>t, LongerUp, LongerDown
  <1> USE DEF EndsAgree, EndsTypeOK
  <1>1. NoCall \in Calls /\ NoCall.named = 0 /\ ~NoCall.up /\ NoCall.work = <<>> /\ NoCall.state = "new" /\ {} \in SUBSET Mids
    BY DEF NoCall, Calls
  <1>2. PageIsSo(NoCall, {})
    BY <1>1 DEF PageIsSo
  <1>a. 0 <= n
    OBVIOUS
  <1>3. FarIsSo(NoCall, f, d, v, n)
    <2>1. c.named <= n
      BY DEF FarIsSo
    <2> QED
      BY <1>1, <1>a, <2>1, FarIsTold
  <1>4. IceIsNew(NoCall, f, d, v)
    <2>1. \A i \in 1 .. Len(d) : d[i].op = "ice" => d[i].line # 0 /\ d[i].line # c.named
      BY DEF FarIsSo, IceIsNew
    <2> QED
      BY <1>1, <2>1, IceUnsaid
  <1>5. PublishedOnce(NoCall, d, v) /\ OneOffer(NoCall, f, d, v) /\ TracksFollow(NoCall, {}, f, d)
    BY <1>1 DEF PublishedOnce, OneOffer, TracksFollow
  <1>6. LeavesFollow(NoCall, f, v)
    <2>1. \A i \in 1 .. Len(u) : u[i].op = "leave" => u[i].line # 0
      BY DEF FarIsSo
    <2> QED
      BY <1>1, <2>1, LeavesStay
  <1> QED
    BY <1>1, <1>2, <1>3, <1>4, <1>5, <1>6

\* The page's tracks are offered to the server
LEMMA PublishSent ==
    ASSUME NEW c, NEW pl, NEW f, NEW d, NEW u, NEW n, EndsAgree(c, pl, f, d, u, n), Doing(c, "publish"),
           NEW b \in Calls, b.live, b.named = c.named, b.state = "offered", b.up = c.up, b.heard = c.heard, b.work = <<>>,
           NEW x \in UpSignals, x.op = "publish", x.line = c.named, NEW v \in Seq(UpSignals), Longer(u, v, x)
    PROVE  EndsAgree(b, pl, f, d, v, n)
  <1>t. d \in Seq(DownSignals) /\ u \in Seq(UpSignals)
    BY DEF EndsAgree, EndsTypeOK
  <1>0. /\ Len(v) \in 1 .. Len(v) /\ v[Len(v)] = x
        /\ \A i \in 1 .. Len(u) : i \in 1 .. Len(v) /\ i < Len(v) /\ i # Len(v) /\ v[i] = u[i]
        /\ \A i \in 1 .. Len(v) : i \in 1 .. Len(u) \/ i = Len(v)
    BY <1>t, LongerUp, LongerDown
  <1> USE DEF EndsAgree, EndsTypeOK
  <1>1. c.named # 0 /\ c.state = "new" /\ ~c.up /\ pl = {} /\ c.work # <<>> /\ Offering(c) = {} /\ Offering(b) = {}
    BY DEF PageIsSo, Doing, Offering
  <1>2. PageIsSo(b, pl)
    BY <1>1 DEF PageIsSo
  <1>3. FarIsSo(b, f, d, v, n)
    <2>1. c.named <= n
      BY DEF FarIsSo
    <2> QED
      BY <1>1, <2>1, FarIsTold
  <1>4. IceIsNew(b, f, d, v)
    <2>1. \A i \in 1 .. Len(d) : d[i].op = "ice" => d[i].line # c.named
      BY DEF IceIsNew
    <2> QED
      BY <2>1, IceUnsaid
  <1>5. PublishedOnce(b, d, v)
    <2>1. /\ \A i \in 1 .. Len(v) : Going(b, v, i, "publish") => i = Len(v)
          /\ \A i \in 1 .. Len(d) : ~Coming(b, d, i, "published")
      BY <1>0, <1>1 DEF PublishedOnce, Going, Coming
    <2> QED
      BY <2>1 DEF PublishedOnce
  <1>6. OneOffer(b, f, d, v)
    <2>1. /\ \A i \in 1 .. Len(d) : ~Coming(b, d, i, "offer")
          /\ \A i \in 1 .. Len(u) : Going(b, v, i, "answer") <=> Going(c, u, i, "answer")
          /\ ~Going(b, v, Len(v), "answer") /\ ~Doing(b, "offer")
      BY <1>0, <1>1 DEF OneOffer, Going, Coming, Doing
    <2> QED
      BY <1>0, <1>1, <2>1 DEF OneOffer
  <1>7. LeavesFollow(b, f, v)
    <2>1. \A i \in 1 .. Len(u) : u[i].op = "leave" => u[i].line # b.named
      BY DEF LeavesFollow
    <2> QED
      BY <1>1, <2>1, LeavesStay
  <1>8. TracksFollow(b, pl, f, d)
    BY <1>1 DEF TracksFollow, Tells, Coming
  <1> QED
    BY <1>2, <1>3, <1>4, <1>5, <1>6, <1>7, <1>8

\* The server's answer is applied
LEMMA PublishedDone ==
    ASSUME NEW c, NEW pl, NEW f, NEW d, NEW u, NEW n, EndsAgree(c, pl, f, d, u, n), Doing(c, "published"),
           NEW b \in Calls, b.live, b.named = c.named, b.state = "connecting", b.up = c.up, b.heard = c.heard, b.work = <<>>
    PROVE  EndsAgree(b, pl, f, d, u, n)
  <1> USE DEF EndsAgree, EndsTypeOK
  <1>1. c.named # 0 /\ c.state = "offered" /\ ~c.up /\ pl = {} /\ c.work # <<>> /\ Offering(c) = {} /\ Offering(b) = {}
    BY DEF PageIsSo, Doing, Offering
  <1>2. PageIsSo(b, pl)
    BY <1>1 DEF PageIsSo
  <1>3. FarIsSo(b, f, d, u, n)
    BY DEF FarIsSo
  <1>4. IceIsNew(b, f, d, u)
    BY DEF IceIsNew
  <1>5. PublishedOnce(b, d, u)
    BY <1>1 DEF PublishedOnce, Going, Coming
  <1>6. OneOffer(b, f, d, u)
    BY <1>1 DEF OneOffer, Going, Coming, Doing
  <1>7. LeavesFollow(b, f, u)
    BY DEF LeavesFollow
  <1>8. TracksFollow(b, pl, f, d)
    BY <1>1 DEF TracksFollow, Tells, Coming
  <1> QED
    BY <1>2, <1>3, <1>4, <1>5, <1>6, <1>7, <1>8

\* The page's connection comes up, and the server is told
LEMMA CallIsUp ==
    ASSUME NEW c, NEW pl, NEW f, NEW d, NEW u, NEW n, EndsAgree(c, pl, f, d, u, n), c.state = "connecting", ~c.up,
           NEW b \in Calls, b.live, b.named = c.named, b.state = "connecting", b.up, b.heard = c.heard, b.work = c.work,
           NEW x \in UpSignals, x.op = "connected", x.line = c.named, NEW v \in Seq(UpSignals), Longer(u, v, x)
    PROVE  EndsAgree(b, pl, f, d, v, n)
  <1>t. d \in Seq(DownSignals) /\ u \in Seq(UpSignals)
    BY DEF EndsAgree, EndsTypeOK
  <1>0. /\ Len(v) \in 1 .. Len(v) /\ v[Len(v)] = x
        /\ \A i \in 1 .. Len(u) : i \in 1 .. Len(v) /\ i < Len(v) /\ i # Len(v) /\ v[i] = u[i]
        /\ \A i \in 1 .. Len(v) : i \in 1 .. Len(u) \/ i = Len(v)
    BY <1>t, LongerUp, LongerDown
  <1> USE DEF EndsAgree, EndsTypeOK
  <1>1. c.named # 0 /\ Offering(c) = Offering(b) /\ \A op : Doing(b, op) <=> Doing(c, op)
    BY DEF PageIsSo, Doing, Offering
  <1>2. PageIsSo(b, pl)
    BY <1>1 DEF PageIsSo
  <1>3. FarIsSo(b, f, d, v, n)
    <2>1. c.named <= n
      BY DEF FarIsSo
    <2> QED
      BY <1>1, <2>1, FarIsTold
  <1>4. IceIsNew(b, f, d, v)
    <2>1. \A i \in 1 .. Len(d) : d[i].op = "ice" => d[i].line # c.named
      BY DEF IceIsNew
    <2> QED
      BY <2>1, IceUnsaid
  <1>5. /\ \A i \in 1 .. Len(u) : /\ Going(b, v, i, "answer") <=> Going(c, u, i, "answer")
                                  /\ Going(b, v, i, "publish") <=> Going(c, u, i, "publish")
        /\ ~Going(b, v, Len(v), "answer") /\ ~Going(b, v, Len(v), "publish")
        /\ \A i \in 1 .. Len(d) : /\ Coming(b, d, i, "offer") <=> Coming(c, d, i, "offer")
                                  /\ Coming(b, d, i, "published") <=> Coming(c, d, i, "published")
    BY <1>0 DEF Going, Coming
  <1>6. PublishedOnce(b, d, v)
    BY <1>0, <1>1, <1>5 DEF PublishedOnce
  <1>7. OneOffer(b, f, d, v)
    BY <1>0, <1>1, <1>5 DEF OneOffer
  <1>8. LeavesFollow(b, f, v)
    <2>1. \A i \in 1 .. Len(u) : u[i].op = "leave" => u[i].line # b.named
      BY DEF LeavesFollow
    <2> QED
      BY <1>1, <2>1, LeavesStay
  <1>9. TracksFollow(b, pl, f, d)
    BY <1>1 DEF TracksFollow, Tells, Coming
  <1> QED
    BY <1>2, <1>3, <1>4, <1>6, <1>7, <1>8, <1>9

\* An offer is answered, and the tracks that still have a speaker are played
LEMMA OfferAnswered ==
    ASSUME NEW c, NEW pl, NEW f, NEW d, NEW u, NEW n, EndsAgree(c, pl, f, d, u, n), Doing(c, "offer"),
           NEW b \in Calls, b.live, b.named = c.named, b.state = c.state, b.up = c.up, b.heard = c.heard, b.work = <<>>,
           NEW x \in UpSignals, x.op = "answer", x.line = c.named, NEW v \in Seq(UpSignals), Longer(u, v, x)
    PROVE  EndsAgree(b, pl \cup Offering(c), f, d, v, n)
  <1>t. d \in Seq(DownSignals) /\ u \in Seq(UpSignals)
    BY DEF EndsAgree, EndsTypeOK
  <1>0. /\ Len(v) \in 1 .. Len(v) /\ v[Len(v)] = x
        /\ \A i \in 1 .. Len(u) : i \in 1 .. Len(v) /\ i < Len(v) /\ i # Len(v) /\ v[i] = u[i]
        /\ \A i \in 1 .. Len(v) : i \in 1 .. Len(u) \/ i = Len(v)
    BY <1>t, LongerUp, LongerDown
  <1> USE DEF EndsAgree, EndsTypeOK
  <1>1. c.named # 0 /\ c.state = "connecting" /\ c.work # <<>> /\ Offering(b) = {} /\ ~Doing(b, "offer")
    BY DEF PageIsSo, Doing, Offering
  <1>2. PageIsSo(b, pl \cup Offering(c))
    BY <1>1 DEF PageIsSo
  <1>3. FarIsSo(b, f, d, v, n)
    <2>1. c.named <= n
      BY DEF FarIsSo
    <2> QED
      BY <1>1, <2>1, FarIsTold
  <1>4. IceIsNew(b, f, d, v)
    <2>1. \A i \in 1 .. Len(d) : d[i].op = "ice" => d[i].line # c.named
      BY DEF IceIsNew
    <2> QED
      BY <2>1, IceUnsaid
  <1>5. /\ \A i \in 1 .. Len(u) : /\ Going(b, v, i, "answer") <=> Going(c, u, i, "answer")
                                  /\ Going(b, v, i, "publish") <=> Going(c, u, i, "publish")
        /\ ~Going(b, v, Len(v), "publish")
        /\ \A i \in 1 .. Len(d) : /\ Coming(b, d, i, "offer") <=> Coming(c, d, i, "offer")
                                  /\ Coming(b, d, i, "published") <=> Coming(c, d, i, "published")
    BY <1>0 DEF Going, Coming
  <1>6. PublishedOnce(b, d, v)
    BY <1>0, <1>1, <1>5 DEF PublishedOnce
  <1>7. OneOffer(b, f, d, v)
    <2>1. /\ \A i \in 1 .. Len(d) : ~Coming(c, d, i, "offer")
          /\ \A i \in 1 .. Len(u) : ~Going(c, u, i, "answer")
          /\ f.id = c.named => f.waiting
      BY <1>1 DEF OneOffer
    <2>2. \A i \in 1 .. Len(v) : Going(b, v, i, "answer") => i = Len(v)
      BY <1>0, <1>5, <2>1
    <2> QED
      BY <1>1, <1>5, <2>1, <2>2 DEF OneOffer
  <1>8. LeavesFollow(b, f, v)
    <2>1. \A i \in 1 .. Len(u) : u[i].op = "leave" => u[i].line # b.named
      BY DEF LeavesFollow
    <2> QED
      BY <1>1, <2>1, LeavesStay
  <1>9. TracksFollow(b, pl \cup Offering(c), f, d)
    BY <1>1 DEF TracksFollow, Tells, Coming
  <1>10. pl \cup Offering(c) \in SUBSET Mids
    BY DEF Offering, Calls
  <1> QED
    BY <1>2, <1>3, <1>4, <1>6, <1>7, <1>8, <1>9, <1>10

\* Signals joined to those on their way
LEMMA ConcatIs ==
    ASSUME NEW S, NEW s \in Seq(S), NEW x \in S
    PROVE  s \o <<>> = s /\ s \o <<x>> = Append(s, x)
  OBVIOUS

LineInv == plan \in SUBSET Mids /\ EndsAgree(call, playing, far, down, upward, minted)

\* Reconciling keeps the two ends agreed: a drop, then an offer
LEMMA ReconciledKeeps ==
    ASSUME NEW c, NEW pl, NEW f, NEW u, NEW n, NEW signals \in Seq(DownSignals), down \in Seq(DownSignals),
           EndsAgree(c, pl, f, down \o signals, u, n),
           NEW p \in SUBSET Mids, NEW given \in SUBSET Mids, Reconciled(f, p, given, signals)
    PROVE  EndsAgree(c, pl, far', down', u, n)
  <1> DEFINE gone == IF f.live THEN f.heard \ p ELSE {}
             kept == f.heard \ gone
             new == IF f.live /\ ~f.waiting THEN (p \ kept) \cap given ELSE {}
             dropped == [op |-> "drop", line |-> f.id, mids |-> gone]
             offered == [op |-> "offer", line |-> f.id, mids |-> new]
             d == down \o signals
             e == IF gone = {} THEN d ELSE Append(d, dropped)
             h == IF new = {} THEN e ELSE Append(e, offered)
             g == [f EXCEPT !.heard = kept]
             k == [f EXCEPT !.heard = kept \cup new, !.waiting = @ \/ new # {}]
  <1>1. f \in Fars /\ d \in Seq(DownSignals)
    BY DEF EndsAgree, EndsTypeOK
  <1>2. /\ gone \in SUBSET Mids /\ new \in SUBSET Mids /\ kept \in SUBSET Mids
        /\ (gone # {} => f.live) /\ (new # {} => f.live /\ ~f.waiting)
    BY <1>1 DEF Fars
  <1>3. far' = k
    BY DEF Reconciled
  <1>4. down' = (d \o (IF gone = {} THEN <<>> ELSE <<dropped>>)) \o (IF new = {} THEN <<>> ELSE <<offered>>)
    BY DEF Reconciled
  <1> HIDE DEF gone, new, kept
  <1>5. dropped \in DownSignals /\ dropped.op = "drop" /\ dropped.line = f.id /\ dropped.mids = gone
    BY <1>1, <1>2 DEF DownSignals, Fars
  <1>6. offered \in DownSignals /\ offered.op = "offer" /\ offered.line = f.id /\ offered.mids = new
    BY <1>1, <1>2 DEF DownSignals, Fars
  <1>7. g \in Fars /\ g.id = f.id /\ g.session = f.session /\ g.live = f.live /\ g.waiting = f.waiting /\ g.heard = kept
    BY <1>1, <1>2 DEF Fars
  <1>8. /\ k \in Fars /\ k.id = f.id /\ k.session = f.session /\ k.live = f.live /\ k.heard = kept \cup new
        /\ k.waiting = (f.waiting \/ new # {})
    BY <1>1, <1>2 DEF Fars
  <1>9. gone = {} => g = f
    <2>1. gone = {} => kept = f.heard
      BY DEF kept
    <2> QED
      BY <1>1, <2>1 DEF Fars
  <1>10. new = {} => k = g
    BY <1>1 DEF Fars
  <1> HIDE DEF dropped, offered, d, g, k
  <1>11. e \in Seq(DownSignals) /\ EndsAgree(c, pl, g, e, u, n)
    <2>1. CASE gone = {}
      <3>1. e = d /\ g = f
        BY <1>9, <2>1
      <3>2. EndsAgree(c, pl, f, d, u, n)
        BY DEF d
      <3> QED
        BY <1>1, <3>1, <3>2
    <2>2. CASE gone # {}
      <3>1. e = Append(d, dropped)
        BY <2>2
      <3>2. e \in Seq(DownSignals) /\ Longer(d, e, dropped)
        BY <1>1, <1>5, <3>1, AppendIs
      <3>3. EndsAgree(c, pl, f, d, u, n) /\ f.live /\ g.heard = f.heard \ gone
        BY <1>2, <1>7, <2>2 DEF d, kept
      <3> HIDE DEF e
      <3> QED
        BY <1>2, <1>5, <1>7, <3>2, <3>3, SaidDrop
    <2> QED
      BY <2>1, <2>2
  <1> HIDE DEF e
  <1>12. h \in Seq(DownSignals) /\ EndsAgree(c, pl, k, h, u, n)
    <2>1. CASE new = {}
      BY <1>10, <1>11, <2>1
    <2>2. CASE new # {}
      <3>1. h \in Seq(DownSignals) /\ Longer(e, h, offered)
        BY <1>6, <1>11, <2>2, AppendIs
      <3> HIDE DEF h
      <3> QED
        BY <1>2, <1>6, <1>7, <1>8, <1>11, <2>2, <3>1, SaidOffer
    <2> QED
      BY <2>1, <2>2
  <1>13. down' = h
    <2>1. d \o (IF gone = {} THEN <<>> ELSE <<dropped>>) = e
      BY <1>1, <1>5, ConcatIs DEF e
    <2>2. e \o (IF new = {} THEN <<>> ELSE <<offered>>) = h
      BY <1>6, <1>11, ConcatIs
    <2> QED
      BY <1>4, <2>1, <2>2
  <1> QED
    BY <1>3, <1>12, <1>13

\* A signal that names no track
Say(op, line) == [op |-> op, line |-> line, mids |-> {}]

\* It is a signal of the server, and makes what is on its way longer by one
LEMMA SaysIs ==
    ASSUME NEW op \in {"ice", "published", "failed"}, NEW line \in Nat
    PROVE  /\ Say(op, line) \in DownSignals /\ Say(op, line).op = op /\ Say(op, line).line = line
           /\ <<Say(op, line)>> \in Seq(DownSignals)
           /\ \A d \in Seq(DownSignals) : /\ d \o <<Say(op, line)>> \in Seq(DownSignals)
                                          /\ Longer(d, d \o <<Say(op, line)>>, Say(op, line))
  <1>1. Say(op, line) \in DownSignals /\ Say(op, line).op = op /\ Say(op, line).line = line
    BY DEF DownSignals, Say
  <1>2. ASSUME NEW d \in Seq(DownSignals)
        PROVE  d \o <<Say(op, line)>> \in Seq(DownSignals) /\ Longer(d, d \o <<Say(op, line)>>, Say(op, line))
    <2>1. d \o <<Say(op, line)>> = Append(d, Say(op, line))
      BY <1>1, ConcatIs
    <2>2. Append(d, Say(op, line)) \in Seq(DownSignals) /\ Longer(d, Append(d, Say(op, line)), Say(op, line))
      BY ONLY <1>1, d \in Seq(DownSignals), AppendIs
    <2> QED
      BY <2>1, <2>2
  <1>3. <<Say(op, line)>> \in Seq(DownSignals)
    BY <1>1
  <1> QED
    BY <1>1, <1>2, <1>3

\* The server reads that the tracks of its line are published, and says so
LEMMA PublishHeard ==
    ASSUME NEW c, NEW pl, NEW f, NEW d, NEW u, NEW n, EndsAgree(c, pl, f, d, u, n),
           NEW v \in Seq(UpSignals), Shorter(u, v), u[1].op = "publish", u[1].line = f.id, f.id # 0, ~f.session,
           NEW g \in Fars, g.id = f.id, g.session, g.live = f.live, g.waiting = f.waiting, g.heard = f.heard,
           NEW x \in DownSignals, x.op = "published", x.line = f.id, NEW e \in Seq(DownSignals), Longer(d, e, x)
    PROVE  EndsAgree(c, pl, g, e, v, n)
  <1>1. EndsAgree(c, pl, f, d, v, n)
    BY ReadUp
  <1>2. u \in Seq(UpSignals) /\ IceIsNew(c, f, d, u) /\ PublishedOnce(c, d, u)
    BY DEF EndsAgree, EndsTypeOK
  <1>3. 1 \in 1 .. Len(u) /\ \A i \in 1 .. Len(v) : i + 1 \in 1 .. Len(u) /\ i + 1 # 1 /\ v[i] = u[i + 1]
    BY <1>2, ShorterIs
  <1>4. \A i \in 1 .. Len(d) : ~(d[i].op = "ice" /\ d[i].line = f.id)
    BY <1>2, <1>3 DEF IceIsNew
  <1>5. ASSUME c.named = f.id
        PROVE  /\ c.state = "offered" /\ c.work = <<>>
               /\ \A i \in 1 .. Len(v) : ~Going(c, v, i, "publish")
               /\ \A i \in 1 .. Len(d) : ~Coming(c, d, i, "published")
    <2>1. Going(c, u, 1, "publish")
      BY <1>5 DEF Going
    <2>2. /\ c.state = "offered" /\ c.work = <<>>
          /\ \A k \in 1 .. Len(u) : Going(c, u, k, "publish") => k = 1
          /\ \A i \in 1 .. Len(d) : ~Coming(c, d, i, "published")
      BY <1>2, <1>3, <1>5, <2>1 DEF PublishedOnce
    <2>3. \A i \in 1 .. Len(v) : Going(c, v, i, "publish") => Going(c, u, i + 1, "publish")
      BY <1>3 DEF Going
    <2> QED
      BY <1>3, <2>2, <2>3
  <1> QED
    BY <1>1, <1>4, <1>5, SaidPublished

\* The server reads that the connection of its line is up
LEMMA ConnectedHeard ==
    ASSUME NEW c, NEW pl, NEW f, NEW d, NEW u, NEW n, EndsAgree(c, pl, f, d, u, n),
           NEW v \in Seq(UpSignals), Shorter(u, v), u[1].op = "connected", u[1].line = f.id, f.id # 0, f.session,
           NEW g \in Fars, g.id = f.id, g.session, g.live, g.waiting = f.waiting, g.heard = f.heard
    PROVE  EndsAgree(c, pl, g, d, v, n)
  <1>1. EndsAgree(c, pl, f, d, v, n)
    BY ReadUp
  <1>2. u \in Seq(UpSignals) /\ LeavesFollow(c, f, u)
    BY DEF EndsAgree, EndsTypeOK
  <1>3. 1 \in 1 .. Len(u) /\ \A k \in 1 .. Len(u) : k = 1 \/ (k - 1 \in 1 .. Len(v) /\ v[k - 1] = u[k])
    BY <1>2, ShorterIs
  <1>4. (c.named = f.id /\ c.up) \/ \E k \in 1 .. Len(v) : Left(v, k, f.id)
    <2>1. CASE c.up /\ c.named = u[1].line
      BY <2>1
    <2>2. CASE \E k \in 1 .. Len(u) : k > 1 /\ Left(u, k, u[1].line)
      <3>1. PICK k \in 1 .. Len(u) : k > 1 /\ Left(u, k, u[1].line)
        BY <2>2
      <3>2. k - 1 \in 1 .. Len(v) /\ v[k - 1] = u[k]
        BY <1>3, <3>1
      <3> QED
        BY <3>1, <3>2 DEF Left
    <2> QED
      BY <1>2, <1>3, <2>1, <2>2 DEF LeavesFollow
  <1> QED
    BY <1>1, <1>4, FarLives

\* The server reads the answer to its offer
LEMMA AnswerHeard ==
    ASSUME NEW c, NEW pl, NEW f, NEW d, NEW u, NEW n, EndsAgree(c, pl, f, d, u, n),
           NEW v \in Seq(UpSignals), Shorter(u, v), u[1].op = "answer", u[1].line = f.id, f.id # 0,
           NEW g \in Fars, g.id = f.id, g.session = f.session, g.live = f.live, ~g.waiting, g.heard = f.heard
    PROVE  EndsAgree(c, pl, g, d, v, n)
  <1>1. EndsAgree(c, pl, f, d, v, n)
    BY ReadUp
  <1>2. u \in Seq(UpSignals) /\ OneOffer(c, f, d, u)
    BY DEF EndsAgree, EndsTypeOK
  <1>3. 1 \in 1 .. Len(u) /\ \A i \in 1 .. Len(v) : i + 1 \in 1 .. Len(u) /\ i + 1 # 1 /\ v[i] = u[i + 1]
    BY <1>2, ShorterIs
  <1>4. ASSUME c.named = f.id
        PROVE  /\ ~Doing(c, "offer")
               /\ \A i \in 1 .. Len(v) : ~Going(c, v, i, "answer")
               /\ \A k \in 1 .. Len(d) : ~Coming(c, d, k, "offer")
    <2>1. Going(c, u, 1, "answer")
      BY <1>4 DEF Going
    <2>2. /\ ~Doing(c, "offer")
          /\ \A k \in 1 .. Len(u) : Going(c, u, k, "answer") => k = 1
          /\ \A k \in 1 .. Len(d) : ~Coming(c, d, k, "offer")
      BY <1>2, <1>3, <1>4, <2>1 DEF OneOffer
    <2>3. \A i \in 1 .. Len(v) : Going(c, v, i, "answer") => Going(c, u, i + 1, "answer")
      BY <1>3 DEF Going
    <2> QED
      BY <1>3, <2>2, <2>3
  <1> QED
    BY <1>1, <1>4, FarRests

\* The server reads one signal, whatever it says
LEMMA ServerSignalKeeps ==
    ASSUME LineInv, NEW given \in SUBSET Mids, NEW refused \in BOOLEAN, ServerSignal(given, refused)
    PROVE  LineInv'
  <1> DEFINE m == upward[1]
             v == Tail(upward)
             mine == far.id # 0 /\ m.line = far.id
             begun == [NoFar EXCEPT !.id = minted + 1]
             published == [far EXCEPT !.session = TRUE]
             living == [far EXCEPT !.live = TRUE]
             rested == [far EXCEPT !.waiting = FALSE]
  <1>1. /\ EndsAgree(call, playing, far, down, upward, minted)
        /\ call \in Calls /\ playing \in SUBSET Mids /\ far \in Fars /\ plan \in SUBSET Mids
        /\ down \in Seq(DownSignals) /\ upward \in Seq(UpSignals) /\ minted \in Nat
    BY DEF LineInv, EndsAgree, EndsTypeOK
  <1>2. upward # <<>> /\ upward' = v /\ call' = call /\ playing' = playing /\ plan' = plan
    BY DEF ServerSignal
  <1>3. v \in Seq(UpSignals) /\ Shorter(upward, v) /\ Head(upward) = m /\ m \in UpSignals
    BY <1>1, <1>2, TailIs
  <1>4. \/ m.op = "join" /\ minted' = minted + 1 /\ Reconciled(begun, plan, given, <<Say("ice", minted + 1)>>)
        \/ minted' = minted /\ m.op = "join" /\ Reconciled(far, plan, given, <<Say("failed", 0)>>)
        \/ /\ minted' = minted /\ m.op = "publish" /\ mine /\ ~far.session
           /\ Reconciled(published, plan, given, <<Say("published", far.id)>>)
        \/ minted' = minted /\ m.op = "connected" /\ mine /\ far.session /\ Reconciled(living, plan, given, <<>>)
        \/ minted' = minted /\ m.op = "answer" /\ mine /\ Reconciled(rested, plan, given, <<>>)
        \/ minted' = minted /\ m.op = "leave" /\ mine /\ far' = NoFar /\ down' = down
        \/ minted' = minted /\ ~(m.op = "leave" /\ mine) /\ far' = far /\ down' = down
    <2>1. CASE m.op = "join" /\ ~refused
      BY <1>3, <2>1 DEF ServerSignal, Say
    <2>2. CASE m.op = "join" /\ refused
      BY <1>3, <2>2 DEF ServerSignal, Say
    <2>3. CASE m.op # "join"
      <3>1. minted' = minted
        BY <1>3, <2>3 DEF ServerSignal
      <3>2. CASE m.op = "publish" /\ mine /\ ~far.session
        BY <1>3, <3>1, <3>2 DEF ServerSignal, Say, FarSays
      <3>3. CASE m.op = "connected" /\ mine /\ far.session
        BY <1>3, <3>1, <3>3 DEF ServerSignal
      <3>4. CASE m.op = "answer" /\ mine /\ far.waiting
        BY <1>3, <3>1, <3>4 DEF ServerSignal
      <3>5. CASE m.op = "leave" /\ mine
        BY <1>3, <3>1, <3>5 DEF ServerSignal
      <3>6. CASE /\ ~(m.op = "publish" /\ mine /\ ~far.session) /\ ~(m.op = "connected" /\ mine /\ far.session)
                 /\ ~(m.op = "answer" /\ mine /\ far.waiting) /\ ~(m.op = "leave" /\ mine)
        <4>2. UNCHANGED <<far, down>>
          BY ONLY ServerSignal(given, refused), Head(upward) = m, <2>3, <3>6 DEF ServerSignal
        <4> QED
          BY <3>1, <3>6, <4>2
      <3> QED
        BY <3>2, <3>3, <3>4, <3>5, <3>6
    <2> QED
      BY <2>1, <2>2, <2>3
  <1>5. begun \in Fars /\ begun.id = minted + 1 /\ ~begun.session /\ ~begun.live /\ ~begun.waiting /\ begun.heard = {}
    <2>1. /\ NoFar \in Fars /\ NoFar.session = FALSE /\ NoFar.live = FALSE /\ NoFar.waiting = FALSE /\ NoFar.heard = {}
          /\ minted + 1 \in Nat
      BY <1>1 DEF NoFar, Fars
    <2> QED
      BY <2>1 DEF Fars
  <1>6. /\ published \in Fars /\ published.id = far.id /\ published.session /\ published.live = far.live
        /\ published.waiting = far.waiting /\ published.heard = far.heard
    BY <1>1 DEF Fars
  <1>7. /\ living \in Fars /\ living.id = far.id /\ living.session = far.session /\ living.live
        /\ living.waiting = far.waiting /\ living.heard = far.heard
    BY <1>1 DEF Fars
  <1>8. /\ rested \in Fars /\ rested.id = far.id /\ rested.session = far.session /\ rested.live = far.live
        /\ ~rested.waiting /\ rested.heard = far.heard
    BY <1>1 DEF Fars
  <1>9. down \o <<>> = down /\ <<>> \in Seq(DownSignals) /\ far.id \in Nat /\ minted + 1 \in Nat /\ 0 <= minted
    BY <1>1 DEF Fars
  <1> HIDE DEF m, v, begun, published, living, rested
  <1>10. m.op # "leave" => EndsAgree(call, playing, far, down, v, minted)
    BY <1>1, <1>3, ReadUp DEF m
  <1>11. CASE m.op = "join" /\ minted' = minted + 1 /\ Reconciled(begun, plan, given, <<Say("ice", minted + 1)>>)
    <2>a. /\ Say("ice", minted + 1) \in DownSignals /\ Say("ice", minted + 1).op = "ice"
          /\ Say("ice", minted + 1).line = minted + 1 /\ down \o <<Say("ice", minted + 1)>> \in Seq(DownSignals)
          /\ Longer(down, down \o <<Say("ice", minted + 1)>>, Say("ice", minted + 1))
      BY <1>1, <1>9, SaysIs
    <2>1. EndsAgree(call, playing, begun, down \o <<Say("ice", minted + 1)>>, v, minted + 1)
      BY <1>5, <1>10, <1>11, <2>a, FarBegins
    <2>2. <<Say("ice", minted + 1)>> \in Seq(DownSignals)
      BY <1>9, SaysIs
    <2> QED
      BY <1>1, <1>2, <1>11, <2>1, <2>2, ReconciledKeeps DEF LineInv
  <1>12. CASE minted' = minted /\ m.op = "join" /\ Reconciled(far, plan, given, <<Say("failed", 0)>>)
    <2>a. /\ Say("failed", 0) \in DownSignals /\ Say("failed", 0).op = "failed" /\ Say("failed", 0).line = 0
          /\ down \o <<Say("failed", 0)>> \in Seq(DownSignals) /\ Longer(down, down \o <<Say("failed", 0)>>, Say("failed", 0))
      BY <1>1, SaysIs
    <2>1. EndsAgree(call, playing, far, down \o <<Say("failed", 0)>>, v, minted)
      BY <1>9, <1>10, <1>12, <2>a, SaidFailed
    <2>2. <<Say("failed", 0)>> \in Seq(DownSignals)
      BY SaysIs
    <2> QED
      BY <1>1, <1>2, <1>12, <2>1, <2>2, ReconciledKeeps DEF LineInv
  <1>13. CASE /\ minted' = minted /\ m.op = "publish" /\ mine /\ ~far.session
              /\ Reconciled(published, plan, given, <<Say("published", far.id)>>)
    <2>a. /\ Say("published", far.id) \in DownSignals /\ Say("published", far.id).op = "published"
          /\ Say("published", far.id).line = far.id /\ down \o <<Say("published", far.id)>> \in Seq(DownSignals)
          /\ Longer(down, down \o <<Say("published", far.id)>>, Say("published", far.id))
      BY <1>1, <1>9, SaysIs
    <2>1. EndsAgree(call, playing, published, down \o <<Say("published", far.id)>>, v, minted)
      BY <1>1, <1>3, <1>6, <1>13, <2>a, PublishHeard DEF m
    <2>2. <<Say("published", far.id)>> \in Seq(DownSignals)
      BY <1>9, SaysIs
    <2> QED
      BY <1>1, <1>2, <1>13, <2>1, <2>2, ReconciledKeeps DEF LineInv
  <1>14. CASE minted' = minted /\ m.op = "connected" /\ mine /\ far.session /\ Reconciled(living, plan, given, <<>>)
    <2>1. EndsAgree(call, playing, living, down, v, minted)
      BY <1>1, <1>3, <1>7, <1>14, ConnectedHeard DEF m
    <2> QED
      BY <1>1, <1>2, <1>9, <1>14, <2>1, ReconciledKeeps DEF LineInv
  <1>15. CASE minted' = minted /\ m.op = "answer" /\ mine /\ Reconciled(rested, plan, given, <<>>)
    <2>1. EndsAgree(call, playing, rested, down, v, minted)
      BY <1>1, <1>3, <1>8, <1>15, AnswerHeard DEF m
    <2> QED
      BY <1>1, <1>2, <1>9, <1>15, <2>1, ReconciledKeeps DEF LineInv
  <1>16. CASE minted' = minted /\ m.op = "leave" /\ mine /\ far' = NoFar /\ down' = down
    <2>1. EndsAgree(call, playing, NoFar, down, upward, minted) /\ ~NoFar.live
      BY <1>1, FarGone DEF NoFar
    <2>2. EndsAgree(call, playing, NoFar, down, v, minted)
      BY <1>3, <2>1, ReadUp
    <2> QED
      BY <1>2, <1>16, <2>2 DEF LineInv
  <1>17. CASE minted' = minted /\ ~(m.op = "leave" /\ mine) /\ far' = far /\ down' = down
    <2>1. far.live => far.id # 0
      BY <1>1 DEF EndsAgree, FarIsSo
    <2>2. EndsAgree(call, playing, far, down, v, minted)
      BY <1>1, <1>3, <1>17, <2>1, ReadUp DEF m
    <2> QED
      BY <1>2, <1>17, <2>2 DEF LineInv
  <1> QED
    BY <1>4, <1>11, <1>12, <1>13, <1>14, <1>15, <1>16, <1>17

\* The parts of the invariant the steps below start from
LEMMA LineParts ==
    ASSUME LineInv
    PROVE  /\ EndsAgree(call, playing, far, down, upward, minted)
           /\ call \in Calls /\ playing \in SUBSET Mids /\ far \in Fars /\ plan \in SUBSET Mids
           /\ down \in Seq(DownSignals) /\ upward \in Seq(UpSignals) /\ minted \in Nat /\ far.id \in Nat
           /\ far.id <= minted
  BY DEF LineInv, EndsAgree, EndsTypeOK, Fars, FarIsSo

\* A plan that changes is reconciled
LEMMA PlanChangesKeeps ==
    ASSUME LineInv, NEW p \in SUBSET Mids, NEW given \in SUBSET Mids, PlanChanges(p, given)
    PROVE  LineInv'
  <1>1. Reconciled(far, p, given, <<>>) /\ plan' = p /\ UNCHANGED <<call, minted, playing, upward>>
    BY DEF PlanChanges
  <1>2. down \o <<>> = down /\ <<>> \in Seq(DownSignals)
    BY LineParts
  <1>3. EndsAgree(call, playing, far', down', upward, minted)
    BY <1>1, <1>2, LineParts, ReconciledKeeps
  <1> QED
    BY <1>1, <1>3 DEF LineInv

\* A line the server gives up is told to the page
LEMMA ServerFailsKeeps ==
    ASSUME LineInv, ServerFails
    PROVE  LineInv'
  <1> DEFINE x == Say("failed", far.id)
  <1>1. far' = NoFar /\ down' = Append(down, x) /\ UNCHANGED <<call, minted, playing, upward, plan>>
    BY DEF ServerFails, FarSays, Say
  <1>2. x \in DownSignals /\ x.op = "failed" /\ x.line = far.id
    BY LineParts, SaysIs
  <1> HIDE DEF x
  <1>3. down' \in Seq(DownSignals) /\ Longer(down, down', x)
    BY <1>1, <1>2, LineParts, AppendIs
  <1>4. EndsAgree(call, playing, NoFar, down, upward, minted)
    BY LineParts, FarGone
  <1>5. EndsAgree(call, playing, NoFar, down', upward, minted)
    BY <1>2, <1>3, <1>4, LineParts, SaidFailed
  <1> QED
    BY <1>1, <1>5, LineParts DEF LineInv

\* What the page may say of its line
LEMMA CallSaysIs ==
    ASSUME NEW op \in {"join", "publish", "connected", "answer", "leave"}, NEW line \in Nat
    PROVE  /\ [op |-> op, line |-> line] \in UpSignals /\ [op |-> op, line |-> line].op = op
           /\ [op |-> op, line |-> line].line = line
  BY DEF UpSignals

\* A line starts with its join
LEMMA BeginCallKeeps ==
    ASSUME LineInv, BeginCall
    PROVE  LineInv'
  <1> DEFINE x == [op |-> "join", line |-> 0]
  <1>1. /\ ~call.live /\ call' = [NoCall EXCEPT !.live = TRUE] /\ upward' = Append(upward, x)
        /\ UNCHANGED <<minted, playing, down, far, plan>>
    BY DEF BeginCall
  <1>2. x \in UpSignals /\ x.op = "join" /\ x.line = 0
    BY CallSaysIs
  <1> HIDE DEF x
  <1>3. upward' \in Seq(UpSignals) /\ Longer(upward, upward', x)
    BY <1>1, <1>2, LineParts, AppendIs
  <1>4. call = NoCall /\ call \in Calls
    BY <1>1, LineParts DEF EndsAgree, PageIsSo
  <1>5. call' = [call EXCEPT !.live = TRUE]
    BY <1>1, <1>4
  <1>6. /\ call' \in Calls /\ call'.live /\ call'.named = call.named /\ call'.state = call.state /\ call'.up = call.up
        /\ call'.heard = call.heard /\ call'.work = call.work
    BY <1>4, <1>5 DEF Calls
  <1>7. EndsAgree(call', playing, far, down, upward', minted)
    BY <1>1, <1>2, <1>3, <1>6, LineParts, CallBegins
  <1> QED
    BY <1>1, <1>7, LineParts DEF LineInv

\* A line that is closed says so, if it has a number
LEMMA CloseCallKeeps ==
    ASSUME NEW f, NEW d, EndsAgree(call, playing, f, d, upward, minted), CloseCall
    PROVE  EndsAgree(call', playing', f, d, upward', minted)
  <1> DEFINE x == [op |-> "leave", line |-> call.named]
  <1>1. call' = NoCall /\ playing' = {} /\ call.named \in Nat /\ upward \in Seq(UpSignals)
    BY DEF CloseCall, EndsAgree, EndsTypeOK, Calls
  <1>2. CASE call.named = 0
    <2>1. upward' = upward
      BY <1>2 DEF CloseCall
    <2> QED
      BY <1>1, <1>2, <2>1, CallDropped
  <1>3. CASE call.named # 0
    <2>1. upward' = Append(upward, x)
      BY <1>3 DEF CloseCall, CallSays
    <2>2. x \in UpSignals /\ x.op = "leave" /\ x.line = call.named
      BY <1>1, CallSaysIs
    <2> HIDE DEF x
    <2>3. upward' \in Seq(UpSignals) /\ Longer(upward, upward', x)
      BY <1>1, <2>1, <2>2, AppendIs
    <2> QED
      BY <1>1, <1>3, <2>2, <2>3, CallLeft
  <1> QED
    BY <1>2, <1>3

\* The page's own line fails, or the player leaves
LEMMA CallFailsKeeps ==
    ASSUME LineInv, CallFails
    PROVE  LineInv'
  <1>1. CloseCall /\ UNCHANGED <<minted, down, far, plan>>
    BY DEF CallFails
  <1> QED
    BY <1>1, LineParts, CloseCallKeeps DEF LineInv

\* Nothing is on its way between two ends that gave up the line
LEMMA NothingAgrees == ASSUME NEW n \in Nat PROVE EndsAgree(NoCall, {}, NoFar, <<>>, <<>>, n)
  <1>1. NoCall \in Calls /\ NoCall.named = 0 /\ ~NoCall.up /\ NoCall.work = <<>> /\ NoCall.state = "new"
    BY DEF NoCall, Calls
  <1>2. NoFar \in Fars /\ NoFar.id = 0 /\ ~NoFar.live /\ ~NoFar.waiting /\ NoFar.heard = {}
    BY DEF NoFar, Fars
  <1>3. /\ <<>> \in Seq(DownSignals) /\ <<>> \in Seq(UpSignals) /\ Len(<<>>) = 0 /\ 0 <= n
        /\ \A i \in 1 .. Len(<<>>) : FALSE
    OBVIOUS
  <1>4. PageIsSo(NoCall, {}) /\ FarIsSo(NoCall, NoFar, <<>>, <<>>, n)
    BY <1>1, <1>2, <1>3 DEF PageIsSo, FarIsSo
  <1>5. IceIsNew(NoCall, NoFar, <<>>, <<>>) /\ LeavesFollow(NoCall, NoFar, <<>>)
    BY <1>2, <1>3 DEF IceIsNew, LeavesFollow
  <1>6. PublishedOnce(NoCall, <<>>, <<>>) /\ OneOffer(NoCall, NoFar, <<>>, <<>>) /\ TracksFollow(NoCall, {}, NoFar, <<>>)
    BY <1>1 DEF PublishedOnce, OneOffer, TracksFollow
  <1> QED
    BY <1>1, <1>2, <1>3, <1>4, <1>5, <1>6 DEF EndsAgree, EndsTypeOK

\* The game's connection drops
LEMMA BothHangUpKeeps == LineInv /\ BothHangUp => LineInv'
  BY LineParts, NothingAgrees DEF BothHangUp, LineInv

\* Nothing was ever said
LEMMA LineBegins == LineInit => LineInv
  BY NothingAgrees DEF LineInit, LineInv

\* The chain of work is a step at most
LEMMA OneStep == ASSUME call \in Calls, call.work # <<>> PROVE Tail(call.work) = <<>> /\ Head(call.work) = call.work[1]
  <1>1. PICK s \in ChainSteps : call.work = <<s>>
    BY DEF Calls
  <1> QED
    BY <1>1

\* The page publishes its tracks
LEMMA PublishTracksKeeps ==
    ASSUME LineInv, PublishTracks
    PROVE  LineInv'
  <1> DEFINE x == [op |-> "publish", line |-> call.named]
  <1>1. /\ Doing(call, "publish") /\ call.live /\ call' = [call EXCEPT !.work = Tail(@), !.state = "offered"]
        /\ upward' = Append(upward, x) /\ UNCHANGED <<minted, playing, down, far, plan>>
    BY DEF PublishTracks, AtHead, CallSays, Doing
  <1>2. call \in Calls /\ call.named \in Nat /\ call.work # <<>>
    BY <1>1, LineParts DEF Calls, Doing
  <1>3. Tail(call.work) = <<>>
    BY <1>2, OneStep
  <1>4. x \in UpSignals /\ x.op = "publish" /\ x.line = call.named
    BY <1>2, CallSaysIs
  <1> HIDE DEF x
  <1>5. upward' \in Seq(UpSignals) /\ Longer(upward, upward', x)
    BY <1>1, <1>4, LineParts, AppendIs
  <1>6. /\ call' \in Calls /\ call'.live /\ call'.named = call.named /\ call'.state = "offered" /\ call'.up = call.up
        /\ call'.heard = call.heard /\ call'.work = <<>>
    BY <1>1, <1>2, <1>3 DEF Calls
  <1>7. EndsAgree(call', playing, far, down, upward', minted)
    BY <1>1, <1>4, <1>5, <1>6, LineParts, PublishSent
  <1> QED
    BY <1>1, <1>7, LineParts DEF LineInv

\* The server's answer is applied
LEMMA TracksPublishedKeeps ==
    ASSUME LineInv, TracksPublished
    PROVE  LineInv'
  <1>1. /\ Doing(call, "published") /\ call.live /\ call' = [call EXCEPT !.work = Tail(@), !.state = "connecting"]
        /\ UNCHANGED <<minted, playing, down, far, plan, upward>>
    BY DEF TracksPublished, AtHead, Doing
  <1>2. call \in Calls /\ call.named \in Nat /\ call.work # <<>>
    BY <1>1, LineParts DEF Calls, Doing
  <1>3. Tail(call.work) = <<>>
    BY <1>2, OneStep
  <1>4. /\ call' \in Calls /\ call'.live /\ call'.named = call.named /\ call'.state = "connecting" /\ call'.up = call.up
        /\ call'.heard = call.heard /\ call'.work = <<>>
    BY <1>1, <1>2, <1>3 DEF Calls
  <1>5. EndsAgree(call', playing, far, down, upward, minted)
    BY <1>1, <1>4, LineParts, PublishedDone
  <1> QED
    BY <1>1, <1>5, LineParts DEF LineInv

\* The page's connection comes up
LEMMA CallConnectedKeeps ==
    ASSUME LineInv, CallConnected
    PROVE  LineInv'
  <1> DEFINE x == [op |-> "connected", line |-> call.named]
  <1>1. /\ call.live /\ call.state = "connecting" /\ ~call.up /\ call' = [call EXCEPT !.up = TRUE]
        /\ upward' = Append(upward, x) /\ UNCHANGED <<minted, playing, down, far, plan>>
    BY DEF CallConnected, CallSays
  <1>2. call \in Calls /\ call.named \in Nat
    BY LineParts DEF Calls
  <1>3. x \in UpSignals /\ x.op = "connected" /\ x.line = call.named
    BY <1>2, CallSaysIs
  <1> HIDE DEF x
  <1>4. upward' \in Seq(UpSignals) /\ Longer(upward, upward', x)
    BY <1>1, <1>3, LineParts, AppendIs
  <1>5. /\ call' \in Calls /\ call'.live /\ call'.named = call.named /\ call'.state = "connecting" /\ call'.up
        /\ call'.heard = call.heard /\ call'.work = call.work
    BY <1>1, <1>2 DEF Calls
  <1>6. EndsAgree(call', playing, far, down, upward', minted)
    BY <1>1, <1>3, <1>4, <1>5, LineParts, CallIsUp
  <1> QED
    BY <1>1, <1>6, LineParts DEF LineInv

\* The page answers an offer
LEMMA AnswerOfferKeeps ==
    ASSUME LineInv, AnswerOffer
    PROVE  LineInv'
  <1> DEFINE x == [op |-> "answer", line |-> call.named]
  <1>1. /\ Doing(call, "offer") /\ call.live /\ call' = [call EXCEPT !.answering = FALSE, !.work = Tail(@)]
        /\ playing' = playing \cup Offering(call)
        /\ upward' = Append(upward, x) /\ UNCHANGED <<minted, down, far, plan>>
    BY DEF AnswerOffer, AtHead, CallSays, Doing, Offering
  <1>2. call \in Calls /\ call.named \in Nat /\ call.work # <<>>
    BY <1>1, LineParts DEF Calls, Doing
  <1>3. Tail(call.work) = <<>>
    BY <1>2, OneStep
  <1>4. x \in UpSignals /\ x.op = "answer" /\ x.line = call.named
    BY <1>2, CallSaysIs
  <1> HIDE DEF x
  <1>5. upward' \in Seq(UpSignals) /\ Longer(upward, upward', x)
    BY <1>1, <1>4, LineParts, AppendIs
  <1>6. /\ call' \in Calls /\ call'.live /\ call'.named = call.named /\ call'.state = call.state /\ call'.up = call.up
        /\ call'.heard = call.heard /\ call'.work = <<>>
    BY <1>1, <1>2, <1>3 DEF Calls
  <1>7. EndsAgree(call', playing', far, down, upward', minted)
    BY <1>1, <1>4, <1>5, <1>6, LineParts, OfferAnswered
  <1> QED
    BY <1>1, <1>7, LineParts DEF LineInv

\* A step that joins the idle chain of work
LEMMA QueuedIs ==
    ASSUME call \in Calls, call.work = <<>>, NEW step \in ChainSteps, Queued(step)
    PROVE  /\ call' \in Calls => Doing(call', step.op) /\ call'.work[1] = step
           /\ call'.live = call.live /\ call'.named = call.named /\ call'.state = call.state /\ call'.up = call.up
           /\ step.op # "offer" => call' \in Calls /\ call'.heard = call.heard
           /\ step.op = "offer" => call' \in Calls /\ call'.heard = call.heard \cup step.mids
  <1>1. Append(call.work, step) = <<step>> /\ <<step>> # <<>> /\ <<step>>[1] = step
    OBVIOUS
  <1>2. CASE step.op # "offer"
    <2>1. call' = [call EXCEPT !.work = <<step>>, !.answering = @ \/ FALSE, !.heard = @]
      BY <1>1, <1>2 DEF Queued
    <2>2. /\ call' \in Calls /\ call'.work = <<step>> /\ call'.live = call.live /\ call'.named = call.named
          /\ call'.state = call.state /\ call'.up = call.up /\ call'.heard = call.heard
      BY <2>1 DEF Calls
    <2> QED
      BY <1>1, <1>2, <2>2 DEF Doing
  <1>3. CASE step.op = "offer"
    <2>1. call' = [call EXCEPT !.work = <<step>>, !.answering = @ \/ TRUE, !.heard = @ \cup step.mids]
      BY <1>1, <1>3 DEF Queued
    <2>2. step.mids \in SUBSET Mids
      BY <1>3 DEF ChainSteps
    <2>3. /\ call' \in Calls /\ call'.work = <<step>> /\ call'.live = call.live /\ call'.named = call.named
          /\ call'.state = call.state /\ call'.up = call.up /\ call'.heard = call.heard \cup step.mids
      BY <2>1, <2>2 DEF Calls
    <2> QED
      BY <1>1, <1>3, <2>3 DEF Doing
  <1> QED
    BY <1>2, <1>3

\* The page reads one signal, whatever it says
LEMMA ReceiveSignalKeeps ==
    ASSUME LineInv, ReceiveSignal
    PROVE  LineInv'
  <1> DEFINE m == down[1]
             e == Tail(down)
             mine == call.live /\ m.line = call.named
             said == [op |-> m.op, mids |-> m.mids]
  <1>1. down # <<>> /\ down' = e /\ UNCHANGED <<minted, far, plan>>
    BY DEF ReceiveSignal
  <1>2. e \in Seq(DownSignals) /\ Shorter(down, e) /\ Head(down) = m /\ m \in DownSignals /\ 1 \in 1 .. Len(down)
    BY <1>1, LineParts, TailIs, ShorterIs
  <1>3. \/ /\ call.live /\ call.named = 0 /\ m.op = "ice" /\ UNCHANGED <<playing, upward>>
           /\ call' = [call EXCEPT !.named = m.line, !.work = Append(@, [op |-> "publish"])]
        \/ mine /\ m.op \in {"published", "offer"} /\ Queued(said) /\ UNCHANGED <<playing, upward>>
        \/ mine /\ m.op = "drop" /\ call' = [call EXCEPT !.heard = @ \ m.mids] /\ playing' = playing \ m.mids /\ UNCHANGED upward
        \/ m.op = "failed" /\ CloseCall
        \/ (m.op \in {"ice", "failed"} \/ ~mine) /\ UNCHANGED <<call, playing, upward>>
    <2>1. CASE call.live /\ call.named = 0 /\ m.op = "ice"
      BY <1>2, <2>1 DEF ReceiveSignal
    <2>2. CASE mine /\ m.op \in {"published", "offer"}
      BY <1>2, <2>2 DEF ReceiveSignal
    <2>3. CASE mine /\ m.op = "drop"
      BY <1>2, <2>3 DEF ReceiveSignal
    <2>4. CASE mine /\ m.op = "failed"
      BY <1>2, <2>4 DEF ReceiveSignal
    <2>5. CASE /\ ~(call.live /\ call.named = 0 /\ m.op = "ice") /\ ~(mine /\ m.op \in {"published", "offer"})
               /\ ~(mine /\ m.op = "drop") /\ ~(mine /\ m.op = "failed")
      <3>1. UNCHANGED <<call, playing, upward>>
        BY ONLY ReceiveSignal, Head(down) = m, <2>5 DEF ReceiveSignal
      <3>2. m.op \in {"ice", "published", "offer", "drop", "failed"}
        BY <1>2 DEF DownSignals
      <3> QED
        BY <2>5, <3>1, <3>2
    <2> QED
      BY <2>1, <2>2, <2>3, <2>4, <2>5
  <1>4. m.line \in Nat /\ m.mids \in SUBSET Mids /\ (m.op # "failed" => m.line # 0) /\ call \in Calls
        /\ (~call.live => call.named = 0)
    <2>1. m.op # "failed" => m.line # 0
      BY <1>2, LineParts DEF EndsAgree, FarIsSo
    <2>2. ~call.live => call.named = 0
      BY LineParts DEF EndsAgree, PageIsSo, NoCall
    <2> QED
      BY <1>2, <2>1, <2>2, LineParts DEF DownSignals
  <1> HIDE DEF m, e, said
  <1>5. CASE /\ call.live /\ call.named = 0 /\ m.op = "ice" /\ UNCHANGED <<playing, upward>>
             /\ call' = [call EXCEPT !.named = m.line, !.work = Append(@, [op |-> "publish"])]
    <2>1. call.work = <<>>
      BY <1>5, LineParts DEF EndsAgree, PageIsSo
    <2> DEFINE step == [op |-> "publish"]
    <2>2. step \in ChainSteps /\ step.op = "publish"
      BY DEF ChainSteps
    <2>3. Append(call.work, step) = <<step>> /\ <<step>> # <<>> /\ <<step>>[1] = step
      BY <2>1
    <2>4. call' = [call EXCEPT !.named = m.line, !.work = <<step>>]
      BY <1>5, <2>3
    <2> HIDE DEF step
    <2>5. /\ call' \in Calls /\ call'.live /\ call'.named = m.line /\ call'.state = call.state /\ call'.up = call.up
          /\ call'.heard = call.heard /\ call'.work = <<step>>
      <3>1. <<step>> \in {<<s>> : s \in ChainSteps}
        BY <2>2
      <3> DEFINE chain == <<step>>
      <3>2. chain \in {<<>>} \cup {<<s>> : s \in ChainSteps} /\ call' = [call EXCEPT !.named = m.line, !.work = chain]
        BY <2>4, <3>1
      <3> HIDE DEF chain
      <3>3. /\ call' \in Calls /\ call'.live /\ call'.named = m.line /\ call'.state = call.state /\ call'.up = call.up
            /\ call'.heard = call.heard /\ call'.work = chain
        BY <1>4, <1>5, <3>2 DEF Calls
      <3> QED
        BY <3>3 DEF chain
    <2>6. Doing(call', "publish")
      BY <2>2, <2>3, <2>5 DEF Doing
    <2>7. EndsAgree(call', playing, far, e, upward, minted)
      BY <1>2, <1>5, <2>5, <2>6, LineParts, Named DEF m
    <2> QED
      BY <1>1, <1>5, <2>7, LineParts DEF LineInv
  <1>6. CASE mine /\ m.op \in {"published", "offer"} /\ Queued(said) /\ UNCHANGED <<playing, upward>>
    <2>1. said \in ChainSteps /\ said.op = m.op /\ said.mids = m.mids
      BY <1>4, <1>6 DEF said, ChainSteps
    <2>2. call.named # 0 /\ Coming(call, down, 1, m.op)
      BY <1>4, <1>6 DEF Coming, m
    <2>3. call.work = <<>>
      BY <1>2, <1>6, <2>2, LineParts DEF EndsAgree, PublishedOnce, OneOffer
    <2>4. /\ call' \in Calls /\ Doing(call', m.op) /\ call'.work[1] = said /\ call'.live /\ call'.named = call.named
          /\ call'.state = call.state /\ call'.up = call.up
          /\ m.op # "offer" => call'.heard = call.heard
          /\ m.op = "offer" => call'.heard = call.heard \cup m.mids
      BY <1>4, <1>6, <2>1, <2>3, QueuedIs
    <2>5. CASE m.op = "published"
      <3>1. EndsAgree(call', playing, far, e, upward, minted)
        BY <1>2, <2>2, <2>4, <2>5, LineParts, PublishedRead
      <3> QED
        BY <1>1, <1>6, <3>1, LineParts DEF LineInv
    <2>6. CASE m.op = "offer"
      <3>1. EndsAgree(call', playing, far, e, upward, minted)
        BY <1>2, <2>1, <2>2, <2>4, <2>6, LineParts, OfferRead DEF m
      <3> QED
        BY <1>1, <1>6, <3>1, LineParts DEF LineInv
    <2> QED
      BY <1>6, <2>5, <2>6
  <1>7. CASE /\ mine /\ m.op = "drop" /\ call' = [call EXCEPT !.heard = @ \ m.mids]
             /\ playing' = playing \ m.mids /\ UNCHANGED upward
    <2>1. Coming(call, down, 1, "drop")
      BY <1>7 DEF Coming, m
    <2>2. /\ call' \in Calls /\ call'.live /\ call'.named = call.named /\ call'.state = call.state /\ call'.up = call.up
          /\ call'.heard = call.heard \ m.mids /\ call'.work = call.work
      BY <1>4, <1>7 DEF Calls
    <2>3. EndsAgree(call', playing \ m.mids, far, e, upward, minted)
      BY <1>2, <1>7, <2>1, <2>2, LineParts, DropRead DEF m
    <2> QED
      BY <1>1, <1>7, <2>3, LineParts DEF LineInv
  <1>8. CASE m.op = "failed" /\ CloseCall
    <2>1. EndsAgree(call, playing, far, e, upward, minted)
      BY <1>2, <1>8, LineParts, Ignored DEF m
    <2> QED
      BY <1>1, <1>8, <2>1, LineParts, CloseCallKeeps DEF LineInv
  <1>9. CASE (m.op \in {"ice", "failed"} \/ ~mine) /\ UNCHANGED <<call, playing, upward>>
    <2>1. m.op \in {"ice", "published", "failed"} \/ m.line # call.named
      BY <1>4, <1>9
    <2>2. EndsAgree(call, playing, far, e, upward, minted)
      BY <1>2, <2>1, LineParts, Ignored DEF m
    <2> QED
      BY <1>1, <1>9, <2>2, LineParts DEF LineInv
  <1> QED
    BY <1>3, <1>5, <1>6, <1>7, <1>8, <1>9

\* Every step of either end keeps the invariant
LEMMA LineStep == LineInv /\ [LineNext]_lineVars => LineInv'
  <1> SUFFICES ASSUME LineInv, [LineNext]_lineVars PROVE LineInv'
    OBVIOUS
  <1>1. \/ \E given \in SUBSET Mids, refused \in BOOLEAN : ServerSignal(given, refused)
        \/ \E p, given \in SUBSET Mids : PlanChanges(p, given)
        \/ ServerFails
        \/ BeginCall \/ ReceiveSignal \/ PublishTracks \/ TracksPublished \/ CallConnected
        \/ AnswerOffer \/ CallFails \/ BothHangUp \/ UNCHANGED lineVars
    BY DEF LineNext
  <1>2. CASE UNCHANGED lineVars
    BY <1>2 DEF LineInv, lineVars
  <1> QED
    BY ONLY LineInv, <1>1, <1>2, ServerSignalKeeps, PlanChangesKeeps, ServerFailsKeeps, BeginCallKeeps, ReceiveSignalKeeps,
       PublishTracksKeeps, TracksPublishedKeeps, CallConnectedKeeps, AnswerOfferKeeps, CallFailsKeeps, BothHangUpKeeps

\* What the invariant says of the runs' property
LEMMA LineKept == LineInv => LineAgrees
  <1> SUFFICES ASSUME LineInv PROVE LineAgrees
    OBVIOUS
  <1>1. LineTypeOK
    BY LineParts DEF LineTypeOK, Fars, Calls
  <1>2. FarIsNear
    <2> SUFFICES ASSUME far.live, ~(call.named = far.id /\ call.up)
                 PROVE  \E i \in DOMAIN upward : upward[i] = [op |-> "leave", line |-> far.id]
      BY DEF FarIsNear
    <2>1. PICK k \in 1 .. Len(upward) : Left(upward, k, far.id)
      BY LineParts DEF EndsAgree, LeavesFollow
    <2>2. upward[k] \in UpSignals /\ k \in DOMAIN upward
      BY LineParts
    <2>3. upward[k] = [op |-> "leave", line |-> far.id]
      BY <2>1, <2>2 DEF UpSignals, Left
    <2> QED
      BY <2>2, <2>3
  <1>3. PlaysWhatIsSent
    <2> SUFFICES ASSUME call.up, call.work = <<>>, down = <<>>, far.id = call.named
                 PROVE  playing = far.heard
      BY DEF PlaysWhatIsSent
    <2>1. call.named # 0
      BY LineParts DEF EndsAgree, PageIsSo
    <2>2. Offering(call) = {} /\ \A i \in 1 .. Len(down) : FALSE
      BY DEF Offering, Doing
    <2>3. \A m \in Mids : m \in far.heard <=> m \in playing
      BY <2>1, <2>2, LineParts DEF EndsAgree, TracksFollow
    <2>4. playing \subseteq Mids /\ far.heard \subseteq Mids
      BY LineParts DEF Fars
    <2> QED
      BY <2>3, <2>4
  <1> QED
    BY <1>1, <1>2, <1>3 DEF LineAgrees

-----------------------------------------------------------------------------
\* Both, in the terminal: MCTerminal

\* The intercom and its line, each with its invariant; the other parts touch neither
VoiceAndLine == VoiceInv /\ LineInv

\* Nothing is said and nothing is on its way
LEMMA TerminalBegins == TerminalInit => VoiceAndLine
  BY VoiceBegins, LineBegins DEF TerminalInit, VoiceAndLine

\* A step of the voice leaves the line where it is, and the other way round
LEMMA TerminalKeeps ==
    ASSUME VoiceAndLine, [TerminalNext]_terminalVars
    PROVE  VoiceAndLine'
  <1>1. \/ VoiceNext /\ UNCHANGED lineVars
        \/ LineNext /\ UNCHANGED voiceVars
        \/ UNCHANGED <<voiceVars, lineVars>>
    <2>1. \/ UNCHANGED terminalVars
          \/ VoiceAlone /\ VoiceNext
          \/ LineAlone /\ LineNext
          \/ DeskAlone
          \/ TableAlone
          \/ NotebookAlone
          \/ WritingAlone
          \/ KeysAlone
      BY DEF TerminalNext
    <2>2. UNCHANGED terminalVars => UNCHANGED <<voiceVars, lineVars>>
      BY DEF terminalVars
    <2>3. /\ (DeskAlone \/ TableAlone \/ NotebookAlone \/ WritingAlone \/ KeysAlone) => UNCHANGED <<voiceVars, lineVars>>
          /\ VoiceAlone => UNCHANGED lineVars
          /\ LineAlone => UNCHANGED voiceVars
      BY DEF DeskAlone, TableAlone, NotebookAlone, WritingAlone, KeysAlone, VoiceAlone, LineAlone
    <2> QED
      BY <2>1, <2>2, <2>3
  <1>2. [VoiceNext]_voiceVars /\ [LineNext]_lineVars
    BY <1>1
  <1>3. VoiceInv'
    BY <1>2, VoiceStep DEF VoiceAndLine
  <1>4. LineInv'
    BY <1>2, LineStep DEF VoiceAndLine
  <1> QED
    BY <1>3, <1>4 DEF VoiceAndLine

\* The two invariants hold of every behaviour of the terminal
THEOREM VoiceInvariant == TerminalSpec => []VoiceAndLine
  <1>1. VoiceAndLine /\ [TerminalNext]_terminalVars => VoiceAndLine'
    BY TerminalKeeps
  <1> QED
    BY <1>1, TerminalBegins, PTL DEF TerminalSpec

\* Whichever of key, page, game and line came first: the line publishes the pair that
\* keys and rules govern, or one whose place another answer of the browser took
\* (replaced), and only of such a join anything is captured or carried once the line
\* is left; a voice is heard where the rules let it be; a line is up, opened or timed
\* unless it was lost while the browser asked, and then none of these
\* (LostWhileAsking); and once nothing is on its way the page plays what the server
\* sends it, no track more (voice.ts, cloudflareVoice.ts, cloudflare.go)
THEOREM RuledVoice == TerminalSpec => []VoiceByTheRules
  <1>1. VoiceAndLine => VoiceByTheRules
    BY VoiceKept, LineKept DEF VoiceAndLine, VoiceByTheRules
  <1> QED
    BY <1>1, VoiceInvariant, PTL
=============================================================================
