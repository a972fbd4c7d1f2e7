# A TLA+ verification of Decrypto

Decrypto is a word game for two teams, played in the browser against a Go server. The server
decides everything: it deals the hands, runs the clock, keeps the rooms, writes the state of every
room and game to a database, and brings both back after a restart. A page keeps a connection to it,
a copy of what it was told, and a machine of screens, disks, paper, lamps and sounds that shows the
copy. This directory models both, checks the models with TLC on small instances and proves what
matters most with TLAPS for instances of any size.

Paths below are relative to the repository; `core/`, `game/`, `room/`, `server/`, `ws/`, `store/`
and `voice/` are directories of `server/internal/`, and `services/`, `store/gameStore.ts` and
`console/` belong to `web/src/`.

1. [The system](#1-the-system)
2. [The modules](#2-the-modules)
3. [The runs](#3-the-runs)
4. [What the code does otherwise than its documents say](#4-what-the-code-does-otherwise-than-its-documents-say)
5. [The proofs](#5-the-proofs)
6. [What is not modelled](#6-what-is-not-modelled)
7. [The plan](#7-the-plan)

## 1. The system

### The server

| Component | Code | State it keeps | Operations |
|---|---|---|---|
| game rules | `core/` | the rounds of a game, each team's tokens, who forwards it | start a round, forward it through its states, set a guess, reveal, end the game; `Snapshot`, `Restore`, `Resume` |
| running game | `game/` | phase, the actions of the phase with deadlines and drafts, what each seat is shown, the timeouts of the round, three answer channels | submissions and drafts of players, AI workers, deadlines, saving, `Stop`, `Restore`, `Start` |
| room | `room/room.go`, `lifecycle.go`, `state.go` | members and their tokens, who is online, teams, host, whether a game runs | join, resume, disconnect, release, choose and leave a team, add and remove AI players, begin and abort a game, reopen, `State`, `Restore` |
| room manager | `room/manager.go` | the rooms by their codes | create, find, remove |
| message handler | `server/handler.go` | which client speaks for a player, the timer of each seat and room | one handler per message, `_disconnect`, two kinds of timer callback |
| persistence | `server/persist.go`, `store/` | one row per room: its state and its game's; the state last written | save room, save game, close, restore |
| connections | `ws/hub.go`, `client.go` | the clients, the broadcast groups, two channels, a queue per client | register, unregister, join a room's group, send |
| voice service | `voice/`, `server/voice.go` | lines, what each publishes and hears, offers that wait | plan, sync, signals |
| AI player | `ai/` | notes of a game | ask a model for clues or a guess |

A socket's reader goroutine (`ReadPump`) calls the handler directly; the handler takes one lock,
`h.mu`, for the whole message. The hub's goroutine (`Run`) also calls it, with the `_disconnect` of a
client that left. Timers (`holdSeat`, `expireLater`) start a goroutine that waits for the same lock.
Of a game message the handler keeps nothing: it passes through to the Bridge, which has a lock of its
own, `b.mu`. A Bridge owns one goroutine, which forwards the session and waits in its handlers;
answers reach it over three channels of capacity one, sent with `b.mu` held. AI workers are further
goroutines. Every change of a room and every step of a game is written to the row of that room at
once, room and game as two separate writes. The views of a game go back to the pages through the hub.

### The page

| Component | Code | State it keeps | Operations |
|---|---|---|---|
| web session | `services/websocket.ts`, `store/gameStore.ts` | one socket, its retry timer, the seat kept for a reload; the room and the game as the page was told | connect, retry, disconnect, resume; one handler per server message |
| web voice | `services/voice.ts`, `cloudflareVoice.ts`, `console/voice.ts` | the captured microphone, two outgoing tracks, a gate per voice, the line and its redial timer | join, talk, whisper, leave; answer offers, drop tracks |
| desk | `console/Console.tsx`, `model.ts`, `hooks.ts`, `shortcuts.ts`, `actions.ts` | drafts, what is on its way, the request that waits, pages and panels over the machine, the key disk | write, enter, submit, join or create by invitation, a key of the keyboard or the keypad |
| notebook | `console/FieldNotebook.tsx`, `NotebookWriting.tsx`, `page-turn.ts` and neighbours | pages, strokes, undo, notes, the surfaces shown | draw, erase, undo, write, drag, turn the page, show and hide |
| record of the game | `console/ArchiveSheet.tsx`, `tearing.ts`, `parts/printer.ts` | the strip of paper, the sheet, who reads | open, feed, read, tear, refill, close |
| drawing loop | `console/engine.ts`, `partialRedraw.ts`, `partialFrame.ts`, `quality.ts` | the frame that is due, the copy, the level of quality | tick, sleep, wake, resize, measure |
| displays | `console/crtMotion.ts`, `crtSound.ts`, `dotMatrix.ts`, `parts/displays.ts` | the level of the tube and of each module, the picture shown and the one wanted | power, exchange the picture, change the palette |
| sound and music | `console/sound.ts`, `music.ts`, `soundBank.ts` | one audio context, its gate, pending starts, the motor, the wanted track | unlock, play, silence, want, load, end |
| indicators | `console/scoreFlagMotion.ts`, `rosterMotion.ts`, `scoreFeedback.ts`, `parts/lamps.ts` | flags, name cards, pulses, the lamp test | update, tick |
| turning the machine | `console/Controls.tsx`, `parts/viewpoint.ts` | the face, the angle, who holds a handle | press, pull, let go, turn |
| tour and notices | `console/OperationTour.tsx`, `onboarding.ts`, `TourSpotlight.tsx`, `StationToast.tsx` | the steps seen, the step shown, the target, the notice's clock | start, next, skip, follow the page |

Server messages run to completion in the store's `onMessage`; what they change reaches the
console when React renders, and its effects run later still, so a timer or a callback may
find a page that has gone on. The console hands each of its moving parts the state it is to show
(`update`) and a step per frame (`tick`); the parts share nothing else, which is why the models of the
parts are separate modules.

The word providers, the message types, the pictures and shaders, the texts and the asset scripts keep
no state that another part depends on; `PROJECT.json` lists them with the reason they are left out.

**What is hard.** Five things make this program hard to test.

- *Interleavings.* Submissions, deadlines, AI answers and the closing of a room race in `game/`, and
  half of the selects do not take the lock the other half is made under. Timer callbacks in
  `server/` survive the `Stop` that was meant for them. `Run` takes two channels in either order.
- *Restarts.* The process may be killed between any two steps, in particular between the two writes of
  one message, and what it finds later is whatever combination of the two was stored. Tokens are not
  stored but counted again; phases are entered again; a stored state may be refused.
- *Long legal sequences.* Hosts and seats change hands among players who come, leave, resume, are
  released and are reopened away in any order; a team's turn comes round after several games' worth
  of rounds; writes fail now and then.
- *Lost connections.* A page may lose its socket with messages on the way in both directions, and gets
  its seat back later, in another phase, another game or no room at all. Events of an old socket, a
  throttled draft, a redial and a microphone that was asked for arrive after the page has moved on.
- *Movement.* Every part of the console takes time to get where it is told to go and is told again
  meanwhile: the mains fail half-way through an exchange, a seat changes under a moving card, a track is
  loaded that nobody wants any more. What must hold in between (a secret is not read off a
  screen whose reader changed) and where it ends are easy to state and nearly impossible to test.

**What makes each part correct.**

- *Rules*: restarts change no token and take back no guess, code or clue; whatever is saved can be
  restored; players encrypt in turn; the game stops as soon as it is decided, by the rules.
- *Running game*: it plays one match whatever races and restarts there are; nothing waits for ever
  under the lock; an answer is used in its own round or not at all; what a team was told is what
  counts; the game ends.
- *Room and handler*: who is online is who is connected; an absent player's seat and role are given
  away, after the grace time, and not before; a room has a host while anybody is there; a room nobody
  is in goes away; the roster of a running game stands.
- *Persistence*: a restart finds the room and its game, or its lobby, never half of them.
- *Connections*: a player is reached by their present client; a client that goes is noticed.
- *Web session*: one line at most, and never none without a timer for the next; the page ends up showing
  what the server has; a score is announced when it happens, once.
- *Voice*: a microphone is on the air only where rules and keys put it, is heard only by those the plan
  names, and nothing stays on the air when the line is left.
- *Desk, table, notebook*: what is shown as submitted was sent and what was written reaches the server; the
  guesses of a team stay private; ink, notes and numbers stay where they were put.
- *Moving parts*: nothing secret can be read by its next reader; effects answer something that happened, once;
  whatever is switched meanwhile, the part comes to rest on the latest state.

`PROJECT.json` lists the hazards behind these one by one, each at its line, with the properties that
would catch it.

## 2. The modules

| Module | Models | Extends |
|---|---|---|
| `Session` | `core/`: the rules, snapshot and restart | |
| `Match` | the abstract game: a log of rounds and a verdict | |
| `Bridge` | `game/`: the running game around a session, and its refinement mapping to `Match` | `Session` |
| `Room` | `room/`: a room, as functions from rooms to rooms | |
| `Lobby` | `server/`, the store, one room and its game from outside | `Room` |
| `Hub` | `ws/`: sockets, the hub's goroutine, the broadcast group | |
| `Socket` | `services/websocket.ts`: the sockets of one page and the retry timer | |
| `Page` | `store/gameStore.ts` against the server as this page meets it | `Socket` |
| `Desk` | `Console.tsx`: drafts, submission, requests, the invitation | |
| `Keys` | `shortcuts.ts`, `actions.ts`, the key handler: which layer a key reaches | |
| `Table` | `game/state.go`'s relay, the store's and `model.ts`'s view of one guessing phase | |
| `Voice` | `services/voice.ts`, `console/voice.ts`: microphone, tracks, gates, the line | |
| `VoiceLine` | `cloudflareVoice.ts` against `voice/cloudflare/` of the same player | |
| `Notebook` | the leaf, strokes and undo, the surfaces of the reader | |
| `Writing` | notes on the paper along one axis | |
| `Archive` | the record on its strip of paper | |
| `KeyDisk` | the encryptor's disk, its timers and the hand that pulls it | |
| `Tube`, `Bank` | the picture tube; the LED modules on one palette bus | |
| `Speaker`, `Music` | effects behind one gate; the wanted track | |
| `Panel` | score flags, name cards, pulses, the lamp test | |
| `Turnover` | the handles and the turning machine | |
| `Tour` | the operation tour, its cutout, the notices | |
| `Frames` | the drawing loop, partial frames, the choice of a quality | |
| `MCSession`, `MCTerminal`, `MCConsole` | several machines each, for TLC | see below |
| `MCBridge`, `MCLobby`, `MCHub` | instances for TLC | |
| `SessionProofs`, `LobbyProofs`, `TableProofs` | theorems | the module they are about |
| `BridgeProofs` | theorems about `Bridge` from its beginning and from a restored game | `MCBridge`, `SessionProofs` |
| `ConnectionProofs` | theorems about both ends of the connection and the drawing loop | `Hub`, `Page`, `Frames` |
| `OperatorProofs` | theorems about `Desk`, `Keys`, `Notebook` and `Writing` | `MCTerminal` |
| `VoiceProofs` | theorems about both ends of the voice | `MCTerminal` |
| `ConsoleProofs` | theorems about the moving parts | `MCConsole` |

An operator with the comment *Broken variant* stands directly before the definition it is a bug of,
and is used by nothing: put in that definition's place, it makes a run fail. Each property of a
passing run has at least one such variant (`mutants` in `PROJECT.json`), so every property depends
on the code.

**Machines side by side.** `MCSession` (rules, hub, page, frames), `MCTerminal` (desk, voice, line, table,
notebook, writing, keys) and `MCConsole` (archive, disk, tube, speaker, music, panel, tour, turn, bank)
check several machines in one run. Each of the machines is closed: what it shares with others is part of its own
environment (what the server may send, when the mains may fail). So a behaviour follows one of them,
named by `part`, while the others rest in one fixed initial state, and the run has the sum of their
states and not the product. Fairness is conjoined per machine, as `WF(part = "..." /\ Moves)`. An
invariant of such a run is a conjunction of named, separately commented invariants of its machines.

### Session

`rounds` is `Session.rounds`, its last element the current round; `tokens` are the counters of the
two teams; `control` says where the one goroutine is: in `StartRound`, in a phase of the current
round, at the end, or stopped by its context. Each action is one step of `AutoForward`/`Next` or a
call of a handler into the session: `StartRound`, `EnterInit`, `InitDone`, `EncryptDone`,
`GiveDecrypt`, `GiveIntercept`, `GuessDone` (which fills what was not given and reveals),
`RoundDone`, `GameOver`, `Cancel`. `saved` is the last `Snapshot`; `Save` takes one and `Restart` is a kill
followed by `Restore` and `Resume`, possible at every step. `ValidRound` translates
`RoundSnapshot.validate` field by field.

A code is a member of `Codes`, clues are a member of `Clues`: the digits of a code and the words of a
clue are told apart by nothing in the rules. A guess equal to the secret is right.

### Match

The abstract specification of a game: a finished round appends one line to a log (was it decoded,
was it intercepted), nothing rewrites the log, no round follows one that decided the game, and the
verdict follows from the log. It knows neither phases nor clocks, players or restarts.

### Bridge

The session's variables plus the bridge's: `phase`, `round`, `timeouts` (what the seats are shown),
`acts`, `accepted`, `late`, `draft` (the actions of the phase, with the deadline as the fact that it has
passed), `ch` (the three channels), `thinking` and `answers` (the AI workers), `kept` (the bridge's
half of the last snapshot), and the game goroutine's place `at` with its locals `pick` and `todo`.

One action is one critical section of `b.mu`, one channel operation, or one step of `core` that only
the goroutine takes. A submission is two actions, `CheckSubmission` and `AcceptSubmission`, with the
lock held in between (`sub # Idle`), because the goroutine's selects do not take it and may run in
the middle of the submission. The clock is abstract: `Expire` makes an action late at any moment,
which covers every deadline and every grace. `Crash` drops everything in memory and restores the two
halves of the snapshot; `Start` resumes. `told` is a history variable: what the players were told
was accepted.

`Published`, at the end of `Bridge`, maps a state to the abstract game: the log is what the *snapshot* says of the
finished rounds, because that is what survives, and the verdict is open until the snapshot says the
game is over. Under this mapping `Bridge` implements `Match`.

### Room and Lobby

In `Room` each operation of `room/` is a function from a room record to a room record, since each
takes `r.mu` once; where the code chooses by random IDs (the next host among players without seats)
the function has several results. `Lobby` applies them as the handler does. `at` is the handler: the
actions of a message run with `h.mu` held and are atomic, except that `start_game` and `reopen_room`
write the store twice: between the two writes `at` is `starting` or `forgetting`, and only the game's
own goroutine, a timer running out, or a kill can happen. `active` is `h.active`; `open` the sockets
whose `_disconnect` is still to come.

A timer goes through three places: `entry` is the map (`h.release`, `h.expiry`), `due` counts callbacks
that have been started and wait for `h.mu`, `loose` counts timers that still run but were dropped
from their map by an older callback. `Stop` reaches only the first. The duration is abstract: a timer
may run out at any moment.

`stored` is the row of the room, `cache` is `h.stored`. A write may fail (`Fails`), and the message
goes on as in the code, which only logs it. `Crash` keeps nothing but the row; `Restart` is
`Handler.Restore`. Of the game only what the handler sees is kept: which of the room's games it is,
its roster, whether it has begun and whether it is over; `PlayOn` is any step of the Bridge that saves.

### Hub

A socket is in `ServeWS`, in `ReadPump`, in its defer, or gone (`pump`). `register` and `unregister` are the
two channels with their capacity, `clients` and `group` the hub's maps, `run` the client whose
`_disconnect` `Run` is about to hand to the handler. `Enter` is the first message of a socket that
enters a room: `attach` closes the client its player had, then the new one joins the group. It does not
go through `Run`, which is what makes the orders interesting.

### Socket and Page

`Socket` numbers the WebSockets of a tab as they are opened. Every browser event names the line it happened
on, since callbacks hold on to their socket after the service has moved on. `service` is the line in use,
`timer` the retry with its delay, which doubles up to its cap. `Page` adds the store and the kept seat, and on
the other side one room with its games, cut to what the messages to this page are made of; `wire` and `asks` are
the messages on the way, lost when their line closes. A resume takes its view under the lock and sends it
later (`syncing`); a message broadcast in between overtakes it, which `overtaken` remembers.

`KeepsItsSeat` is about the connection (one line, a timer for the next, a reload that finds the seat),
`PageFollows` about the store (what it shows once nothing is on the way, scores announced as they happen,
the final screen left only by its player), `PageSettles` about liveness (`Recovers`).

### Desk, Keys and Table

`Desk` follows what a player writes: the draft in the console (`desk`), in the tab's storage (`drawer`), in the
window of `progress()` (`throttle`), on its way (`requests`) and at the server (`host`), through losses of
the connection, reloads, a machine without power, beats and games. A draft is one of `MaxTexts`
texts, so an older text and the present one can be told apart.

`Keys` follows the keyboard: the layers that may lie over the working page (manual, about, briefing, records,
a panel), the face that is turned to the player, the code that is being entered, and the request that waits.
`Press` is `shortcuts.ts` with the key handler, `Act` is `act()`.

`Table` is one guessing phase with five seats and an observer: what each seat sends, what the
game goroutine records and tells (`RecordGuess`), what `relayProgress` passes to whom, what a live page and a page that begins with a snapshot make of it.

### Voice and VoiceLine

`Voice` is one page: `getUserMedia` answers late, perhaps for two joins at once, the game's connection comes and goes, and each change of a
control or of the game opens or shuts two outgoing tracks and a gate per voice heard. Whatever a callback
finds (a newer generation, a closed context) is part of its action. The line is what `VoiceLink` may report.

`VoiceLine` is the line itself: the server's plan for this player, offers with one outstanding at a time, drops,
failures, hang-ups, and the page's chain of promises, against one another over signals in order.

### The parts of the machine

`Archive`, `KeyDisk`, `Tube`, `Bank`, `Speaker`, `Music`, `Panel`, `Turnover`, `Tour`, `Frames`, `Notebook` and
`Writing` have one action per call of the page (`update`, a press, a setting), one per callback (a timer, a
load, an `ended` event) and one per frame. What moves by a differential equation or an easing is a level with the
thresholds its readers ask for (`Tube`: dark, past recognising, recognisable, raster, steady), and a frame may
bring it any number of levels on: the models hold for every frame rate and every constant of the motion.
`KeyDisk` also says where the disk is drawn (`mechanics.ts`, `parts/diskDrive.ts`) as a function of its phase, its
age and the hand: `NeverJumps` asks that a phase begin where the one before it left the disk.
Geometry is one axis (`Writing`) or whether a point is inside (`Notebook`); pixels are fresh or stale (`Frames`).

## 3. The runs

Twelve runs: seven pass, and five show the disagreements of section 4. Deadlock is checked in none,
since games end, rooms are removed, sockets close for good and bounded environments fall silent; the liveness
properties say instead what must not be waited for in vain. Symmetry is declared only in runs of safety
properties and of properties of single steps or of the refinement (which has no fairness), on sets nothing in the
modules orders.

| Run | Instance | What it shows |
|---|---|---|
| `session` | one code, six rounds, teams of two and three, restarts at every step; three sockets of two players, one slot per channel; a page with two sockets, a game of three rounds or two short ones; the drawing loop | the recounted tokens are the running ones, no third token of a kind and no round after the decision (`TokensRight`); every snapshot is accepted (`SnapshotsAccepted`); seats encrypt in turn (`TurnsRotate`); a player's present client is reached (`PlayersAreReached`) and every socket that closes is noticed (`GoneIsNoticed`); the tab keeps its line and seat (`KeepsItsSeat`), shows what the server has (`PageFollows`) and recovers, and what changed comes to be drawn (`PageSettles`); a partial frame shows what a full one would (`CanvasIsCurrent`) |
| `terminal` | two texts, three beats, two rooms of two games, one cut; three lines of the intercom, two tracks and calls; five seats, two digits; three gestures; three notes; three digits in two places | what is shown as submitted was sent and the draft is where it was typed (`DeskIsKept`); who hears whom (`VoiceByTheRules`); guesses stay private, one answer counts, everybody sees the same verdict (`TableIsTrue`); ink, notes and entries stand (`EntriesStand`) |
| `console` | small sets of pictures, palettes, fibers, tracks, people and steps | nothing secret glows or is read early (`SecretsStayDark`), every effect answers an event once (`EffectsAnswerEvents`), sounds belong to now (`SoundsAreOfNow`), movements are whole (`MovesAreWhole`) and everything comes to rest where the page is (`ConsoleSettles`) |
| `bridge` | two codes, rounds 1 to 3, one AI decoder, crashes at every step | sends under the lock never wait (`SendNeverBlocks`), no answer leaks into another round (`TakenInItsRound`), a saved timeout has its answer (`SavedTimeoutsSettled`), the snapshots a bridge takes at the moments it takes them never take anything back (`SavedStands`), the game implements `Match` (`ImplementsMatch`) |
| `bridge_ai` | round 3 played by a team of AI players against humans, fairness, the room may close | the accepted guess is the scored one (`GuessesStand`) and every closed action is settled (`ClosedIsSettled`) with AI workers racing humans and deadlines; a restored game goes on as a match (`RestoredMatch`); the game ends, and its goroutine does after `Stop` (`GameComesToAnEnd`) |
| `lobby` | two humans, two sockets each, an AI name a side, two games, one kill | who is online, and who goes offline (`OnlineIsConnected`, `OnlyTheLastLeaves`); absent players and empty rooms are on their way out (`AbsentAreReleased`, `EmptyRoomExpires`); there is a host while anybody is there and a roster is frozen (`RoomKeepsOrder`); a restart finds room and game (`RestartFindsAll`) |
| `lobby_failures` | one socket each, one game, a failing write, one kill, fair timers | the handler's idea of the row is right (`CacheIsStored`), the row can be restored (`StoredIsRestorable`), the host role is handed over (`HostHandedOver`) and an abandoned room closes (`AbandonedRoomCloses`), past the failed write too |
| `clues_lost`, `guess_forgotten`, `seat_taken`, `hub_ghost`, `on_air` | small (`on_air`: two joins, three lines) | section 4 |

Type invariants: `TypeOK`, `BridgeTypeOK` and `LobbyTypeOK` are checked by name; those of the other modules are
the first conjunct of the first property of their machine (`HubTypeOK` in `PlayersAreReached`, `PageTypeOK` in
`KeepsItsSeat`, those of the console in `MovesAreWhole`).

**What the properties of several parts say.** Each conjunct has a comment and the place in the source above it, in
its own module.

| Property | Parts |
|---|---|
| `DeskIsKept` | `SubmittedIsSent`, `DraftIsOfThisBeat`, `ServerHasDraft`, `SeatComesFirst` |
| `VoiceByTheRules` | `PublishedByTheRules`, `LampIsTrue`, `HeardByTheRules`, `OffIsSilent`, `LineComesBack` (`Voice`); `PlaysWhatIsSent`, `FarIsNear` (`VoiceLine`) |
| `TableIsTrue` | `GuessesStayPrivate`, `OneWinner`, `AirIsAccepted`, `AwaitedIsActing`, `SeatsAgree`, `VerdictSurvives` |
| `EntriesStand` | `InkStands` (`DrawsOnTheOpenPage`, `UndoUndoes`, `FinishedStrokesStand`, `LeafLandsOnThePage`, `OnlyLeavingIsInert`, `ClosedIsStill`), `NotesStand` (`NotesAreOnThePaper`, `NotesAreNew`, `CutOffIsUndone`, `GripComesFree`), `KeysObey` (`NumbersStandOnce`, `AnswersGoOnce`, `NobodyIsLockedOut`, `NothingLeaks`, `WholeAnswers`) |
| `CanvasIsCurrent` | `PartialIsWhole`, `AsleepIsCurrent`, `DrawnAsChosen`, `AutoStepsDown` |
| `PageSettles` | `Recovers` (`Page`), `ChangesAreShown` (`Frames`) |
| `SecretsStayDark` | `NothingSecretGlows` (tube), `NoOldWords` (modules), `ReadableOnlyWhole` (disk) |
| `EffectsAnswerEvents` | `DegaussedOnce`, `OneMotor`, `EndingOnce`, `OneClickPerStroke`, `PulseIsOurs`, `TestWasAskedFor`, `NothingTwice`, `SeenWasShown`, `NoticeCanBeRead` |
| `SoundsAreOfNow` | `QuietWhileOff`, `NothingFromBefore`, `OpenedByGesture`, `CuesHaveTheirTransition`, `SilentWhileClosed`, `PlaysWhatIsWanted`, `PlaceIsItsOwn` |
| `MovesAreWhole` | `ReaderHasItsStock`, `FadesOnlyDetached`, `OutWhileOut`, `HeldByAHand`, `NothingReachedMidTurn`, `StockKeepsItsLength`, `NoticeIsRead`, `PulledIsNoClick`, `NeverJumps`, `TurnsOneWay`, `OnlyAPullTurns`, `PictureWaits`, `NamesChangeUnseen`, `ColoursChangeInTheDark` |
| `ConsoleSettles` | one liveness property or two per machine: `RecordComes`, `PageIsGivenBack`, `ComesToRest`, `Delivered`, `ComesUp`, `MotorComes`, `MusicComes`, `PanelComesToRest`, `TourCatchesUp`, `LightFindsTarget`, `EndsOnItsFace`, `BankComesUp` |

**Bounds, and why they are enough.**

- `Codes`, `MaxRounds`, `Size`. A guess is right, wrong or empty, and the rules treat the last two alike;
  `session` has one code, which a guess names or not, and the runs of the Bridge have two, so that a wrong
  guess, a guess that replaced another and a code drawn anew can be told apart. The first interception is in
  round 3, and by round 4 both teams may have intercepted and failed twice; six rounds leave room for every way
  to win and to draw and let each team of two come round to its first encryptor while one of three has had all
  of its seats. The proofs cover every other number.
- The Bridge's runs are cut at the phases that differ. `bridge` plays rounds 1 and 2, which have no interception, in
  every way, and goes on to round 3 where the two left nothing behind but a score (`ScoreIsLeft`, its constraint: one code, dashes
  for clues, each round decrypted or not); a third round asks nothing else of them. `bridge_ai` follows the third round of a game restored after two rounds with
  every possible score (`RestoredInit`, a state `Restore` does produce). What one round hands to the next is
  what setPhase must clear and the snapshot must hold, and both boundaries (1 to 2, 2 to 3) are inside `bridge`.
- `Clues` are two values, one of which is the dash the server sends for somebody who wrote nothing.
- In `Lobby` `MaxTeam` is 2 instead of 4, so that full teams occur, and the minimum for a start is the
  code's 2. Two humans are enough for a replacement, a roster with one of them absent, and a host who
  goes while another is there or not. (A third, who gives a choice of the next host, was tried without failing
  writes and with one socket each, and broke nothing; it is too large to be combined with the rest.) `MaxTimers` bounds the callbacks that wait and the forgotten
  timers of one key: one of each, besides the one in the map, is what it takes for a callback of an old
  absence to meet a new one. `MaxGames` is 2 so that a restart can find a game that is not the
  last. `MaxFailures` is 1: what a failed write leaves behind is met by every later step, a restart among them.
- The sockets of one player in `Lobby` may be used again after they closed: only their identity while
  open matters. In `Hub` and `Socket` each socket is opened once, as in the code.
- `Slots` is 1 instead of 16: a full channel is the case of interest, and one entry fills it. The proofs
  cover every capacity.
- `Page`: `MaxLines` 2, an old line and a new one; `Wire` 1, so that a message is on the way while the server
  moves on; the games are one of three rounds, the last with an interception and two timeouts, or two of one
  round, which is what a reopened room needs; the page is an encryptor, an opponent or an observer. No real game ends
  before its third round, so `PageAssumption` lets nothing be late in one cut to a single round: the page of somebody who
  stayed on the final screen tells the notices of two games apart by their rounds alone.
- `Desk`: an old text and a new one, a beat that writes clues, one that guesses and one that waits, two rooms and
  two games for what must not be carried over, and one loss or reload. `Keys`: three digits for two places, so that
  a number can be a second choice and a code be complete without using all.
- `Voice`: `MaxJoins` 2 lets a second join meet the microphone of the first; `MaxLinks` 3 lets a line be lost
  while its successor is opened. `VoiceLine`: two tracks, two lines, three plans.
- `Table`: two digits (one right, one wrong), one message of the seats (`MaxEdits`: a draft or a piece of advice) besides
  the answers they submit, two messages on the way. `TableAssumption` bounds a code to 32 digits: the page ranks an answer at 100 and a draft by
  its digits, three apart, so that a longer code would let a draft outrank the answer. The game's codes have three. `Notebook`: three gestures, two of which can be undone, so that one cannot.
  `Writing`: a paper of five units and three notes, which touch both edges and each other.
- `console`: two of everything that can be confused with another, three palettes (one that is overtaken), and as many
  updates as it takes to interrupt an exchange that interrupted one (`MaxUpdates` 5, `MaxTurns` 5,
  `MaxPulls` 6, `MaxFeeds` 3).

**Fairness.** Everywhere it is weak, and of the least that has to happen; players owe nothing.

- `Bridge` (`bridge_ai`): the game goroutine and the handler that holds `b.mu`
  (Go runs what can run, and the lock is released on every path), each deadline (they are
  `time.After` of a finite remainder), AI workers (each model call has a context with a
  deadline, `aiStepWithStatus`), and `Start` (a restored game waits for the first human to come back: the
  promise is about a game somebody came back to).
- `Lobby` (`lobby_failures`): timers run out, callbacks get `h.mu`, the second write of a message follows
  the first, and a killed process is started again. A player
  may come back over and over, which is why the properties end in somebody being there.
- `Hub` (`session`, `hub_ghost`): some goroutine that can go on does (`HubMoves`: readers that have a slot, reads
  of a closed socket, which fail, and `Run`). Which of them goes first is not assumed: the weakest
  condition under which anything happens at all.
- `Page` (`session`): the browser delivers events, closes what is closing and fires its timer, a socket is let
  through in the end, the server handles what it receives (`PageMoves`).
- `Frames` and the console: the loop gives frames to a visible page, timers and loads end, React runs the effects
  it owes, a hand lets go of the disk. In `Tube`, `Panel` and `Bank` it is the frames in which something arrives,
  since a level that may stay where it is for any number of frames would never get anywhere.

## 4. What the code does otherwise than its documents say

Each but the last is a run that finds the counterexample; `PROJECT.json` quotes both sides.

- `clues_lost` (`CluesStand`): clues accepted, and shown as submitted, just before the deadline are
  replaced by the draft or a dash when `encryptHandler`'s select takes its timer. `guessHandler` asks
  `accepted` under the lock and has no such race (`GuessesStand` in `bridge_ai`).
- `guess_forgotten` (`GuessesStand` with crashes): `SubmitGuess` shows the seats that a guess is in; the
  snapshot has it only once the game goroutine has recorded it. A kill in between asks again, against
  `game/snapshot.go` and `docs/protocol.md`.
- `seat_taken` (`LobbySeatKept`): a release callback that waits for `h.mu` while its player resumes and
  leaves again takes the seat at the beginning of the new grace time, and forgets the new timer.
- `hub_ghost` (`ClosedLeaveTheRoom`): a client whose unregistration is taken before its registration is
  never removed from the room's group.
- `on_air` (`OnAirByTheRules`): a player joins, leaves and joins again while the browser still asks for the microphone. Two
  answers come for one line (`voice.ts:143`). The first opens it with its tracks; the second puts its own tracks in use, and
  `connect` returns because there is a line (`voice.ts:323`). From then on `apply` (`voice.ts:405`) opens and shuts tracks
  nobody publishes, while the first ones stay on the air as they were left: muting, whispering, the guessing phase and being
  the encryptor no longer act on what is heard, and the lamp shows the wrong tracks. The first capture is not
  stopped when the player leaves, either. `replaced` names these joins: `VoiceByTheRules` holds of every other one, and
  says that no other is ever published.
- `LineComesBack`, in `terminal`: if the connection breaks while the browser asks for the microphone, the line is not joined
  again when the seat is back (`voice.ts:143`, `voice.ts:323`); the status stays `reconnecting` until the player turns the intercom
  off and on, against `voice.ts:354` and `docs/protocol.md:432`. The property passes because it names that state
  (`LostWhileAsking`) and says that of every other one the line is up, being opened or timed.

Other things met while modelling are no run, since no sentence of the repository is plainly against them. The models
do what the code does, and where a property would otherwise fail its definition names the exception.

*Server.* Reopening a room takes the seat of a player whose short disconnection has just begun (`Reopen`). If
forgetting a finished game and storing the next one both fail, a restart takes the old game for the new, since
nothing in a snapshot tells one game of a room from another (`Playable` compares the roster only). Between `attach`
and the unregistration of the client it replaced, `SendToPlayer` may pick the closed one, so that a message is
dropped. The view of a resume is taken before it is sent (`sendSync`, `server/handler.go:359`) and may be overtaken by
a broadcast, whose effect it then hides until the next message (`overtaken` in `Page`).

*Web session.* A page that stays on the final screen while the others reopen the room and start keeps the old score,
history and result (`gameStore.ts:269`; `ScoresAgreeUnlessStayed` says so), and a `full_sync` of the reopened room
moves it to the lobby. `pendingLobby` stays set if the request to reopen is refused. `requestSync` is called
nowhere, so what the 256-entry queue of a slow page drops is made good only by a new connection.

*Desk and keys.* A lost request to create or join leaves `pending` set at home; changing between the two modes clears
it, so that a second request can go out. A draft typed in the throttle window when the connection fails does not
reach the server (`model.ts:463`), and the drawer may offer a draft of the room's previous game. An `ACTION` pressed
between the deadline and the next paint sets `pending` though nothing is sent (`Console.tsx:761`), until the
next beat.

*Machine.* Deleting a note while its grip is held leaves `drag.current` set (`NotebookWriting.tsx:49`). The
ending of a game that finishes while the next loop loads sets `desired` to null (`music.ts:177`), and the status of
the music stays `loading` after a load was cancelled. A press of the keyboard while a handle is held removes that
handle, and its drag stays behind (`Controls.tsx:30`). After a loss of the graphics context, closing the record
plays the sound of tearing twice.

## 5. The proofs

Forty-one theorems. `tlapm` checks the eight modules to the last leaf; nothing is assumed but the named assumptions on
the constants, in two theorems that the process is not killed, and in two that a game may have two rounds.

| Theorem | States |
|---|---|
| `SessionTypeOK`, `SessionTokensRight`, `SessionSnapshotsAccepted`, `SessionTurnsRotate`, `SessionSavedStands` | the properties of these names, of `SessionSpec` |
| `BridgePlaysASession` | `Bridge`'s `Spec => SessionSpec`: every step of a running game is one step of the session or none |
| `BridgeImplementsMatch` | `Spec => ImplementsMatch`: under the mapping of section 2 every step is one of `Match` or none |
| `BridgeSavedStands`, `BridgeSendNeverBlocks`, `BridgeTakenInItsRound`, `BridgeClosedIsSettled`, `BridgeSavedTimeoutsSettled`, `BridgeTypes` | the properties of these names (`BridgeTypeOK` the last), of `Bridge` |
| `BridgeGuessesStand` | `GuessesStand`, of a process that is not killed (`ASSUME ~CanCrash`) |
| `RestoredGoesOn` | of a game restored after two rounds, `MaxRounds >= 2`: `RestoredMatch`, its steps are those of `Match`; `SavedStands`, `SavedTimeoutsSettled`, `ClosedIsSettled` |
| `RestoredGuessesStand` | `GuessesStand` of the same games, of a process that is not killed again |
| `LobbyOnlineIsConnected`, `LobbyOnlyTheLastLeaves`, `LobbyEmptyRoomExpires`, `LobbyCacheIsStored`, `LobbyStoredIsRestorable`, `LobbyRoomKeepsOrder`, `LobbyAbsentAreReleased`, `LobbyRestartFindsAll`, `LobbyTypes` | the properties of these names (`LobbyTypeOK` the last), of `Lobby` |
| `HubPlayersAreReached` | `PlayersAreReached` |
| `PageKeepsItsSeat` | `KeepsItsSeat`; `PageHasOneLine` is its part about the connection |
| `PageFollowsServer` | `PageFollows`: what the page shows against what the server has, across every message on its way |
| `FramesAreCurrent` | `CanvasIsCurrent` |
| `TableTellsTruth` | `TableIsTrue` |
| `DeskIsAlwaysKept` | `DeskIsKept` |
| `KeysKeepOrder` | `NumbersStandOnce`, `AnswersGoOnce` and `NobodyIsLockedOut`, the invariants in `KeysObey` |
| `EntriesKept` | `EntriesStand`: strokes (`InkStands`), notes (`NotesStand`) and the keypad (`KeysObey`), with their action properties |
| `RuledVoice` | `VoiceByTheRules`: the intercom of the page and both ends of its line, but for the two cases of section 4 by their names (`replaced`, `LostWhileAsking`); from the invariant of `VoiceInvariant` |
| `DarkSecrets`, `AnsweredEvents`, `PresentSounds` | `SecretsStayDark`, `EffectsAnswerEvents`, `SoundsAreOfNow`; from the invariant of `ConsoleInvariant` |
| `WholeMoves` | `MovesAreWhole`, what no step of a moving part does |

**Session** (`SessionAssumption`: there is a code and a clue, teams have two to four players, at least one
round): for any code book, any team sizes and any `MaxRounds`. None of the properties is inductive alone, because a
restart puts `saved` in the place of `rounds`: what is to hold of the session must hold of its last snapshot as
well. The invariant `Inv` is therefore stated about a list of rounds and conjoined for both:

- `Shape`: the rounds are rounds, the list is one `Restore` accepts, and each is encrypted by the player
  whose turn it is. `TurnsRotate` needs it of the round two back, which after a restart is a saved one.
- between rounds the current round is `DONE`, so that the next one may be appended to a valid list;
- `TokensAgree`, which turns facts about `tokens` into facts about the list;
- `Bounded`: nobody has more than two tokens of a kind, and if anybody has won the last round is `DONE`.
  One reveal adds one token at most, to a count below two.
- `SessionContinues(saved, rounds)`: the session has only added to its snapshot. `SavedStands` is then one
  step: the next snapshot is the session.

`Recount` is defined with cardinalities, not by recursion, so the lemmas about it (`ChangeCount`, `RevealCount` and their
neighbours: a `DONE` round adds its own index to the counted sets, any other change adds nothing) follow from
the library's facts about finite sets.

**Bridge**, for any clues, codes, rounds, team sizes, AI seats and crashes. Each layer rests on those above it:

- `RoomInChannels`: what lies in a channel has closed its action, and a submission that holds the lock was let in
  by an open one. Hence `SendNeverBlocks`. `setPhase` is the only step that opens actions, and it empties the
  channels.
- `BridgeInv` adds what relates the bridge to its session: an answer in a channel, or about to be sent, or
  in the goroutine's hands, is of the round shown (`SentInRound`, `HeldInRound`), and the round shown is
  the one played, in the state the phase belongs to (`ShownIsPlayed`). Without the last,
  a guess could be given to a round that does not take it; with it each call into the session meets the guard of the
  session's action (`StepOfSession`), and `Inv` carries over with every theorem about sessions. `BridgeSavedStands` is
  the first use of that.
- `SettledInv` adds where the goroutine is: which actions are open in which phase (`OpenInPhase`), that
  what it is about to settle is in `todo` (`TodoKept`) and what it has taken from a channel in `pick`
  (`GuessHeld`). `ClosedIsSettled` is then inductive: an action that closes does so by an answer that is on its way, or by a
  deadline that the goroutine still has in its list.
- `RunningInv` adds what a snapshot may say. `Placed` ties the goroutine's place to the state of the round, `Shown`
  the number shown to the number saved (a snapshot is always of the round its half of the bridge shows).
  `OpenIsNeeded`: while guesses are awaited the round has no answer to an action that is open or in `todo`, so that the
  goroutine never gives the round a second answer. `TimeoutsKept` is `SavedTimeoutsSettled` with the lists it speaks of, for
  memory and snapshot alike.
- `MatchInv` is what the refinement needs. The log of `Match` is read off the *snapshot*, so most steps are stutters, and
  only those that save add a line or the verdict. `Behind`: the snapshot is at most one round behind, and that
  round was started in a game nobody had won, so that what a save adds is one line and follows no decision.
  `DecidedRight`: the verdict in memory follows from the tokens, which `TokensAgree` makes those of the log.
  `OverIsLast`: after the end nothing is saved any more. `Crash` and `Start` are stutters: they change neither
  half of the snapshot.
- `ToldInv`, for `GuessesStand`: nobody was told of a guess that is still open (`OpenIsAsked`), what was told is what lies in
  the channel, or in the goroutine's hands (`ToldIsHeld`), or already in the round (`ToldIsGiven`). It is stated for
  a process that is not killed, since a kill between telling and recording forgets the guess: `guess_forgotten` finds
  that in the model with crashes, where the invariant fails in one step.

*Restored games.* The games of `RestoredSpec` (`bridge_ai`) begin with two rounds that were played, saved and restored. Their theorems need that the same
invariant, `MatchInv` (and `ToldInv`), holds there too (`RestoredMatchInv`); the rest is the same induction. The point is that
two finished rounds decide nothing: each leaves its team one miscommunication at most (`SavedRounds`), so a restored game may deal its
third round, and its verdict, still open, is right.

**Room.** The first half of `LobbyProofs` holds the lemmas about the operations of a room, for any
players and team size: each turns a room that `room.Restore` accepts into one that it accepts. `Kept`, who remains when
somebody leaves a team, is defined by places and cardinalities and not by recursion; `KeptPlaces` shows once that it picks
places of the list in their order, and the other lemmas (nobody twice, nobody else, no more than there were) follow.

**Lobby** (`RoomAssumption`, `LobbyAssumption`, `NothingAssumption`: the markers for nothing are no rooms, states, games
or connections), for any players, sockets, team size, and any number of timers, failures, games and kills:

- `LobbyCacheIsStored`: what `h.stored` claims is what the row holds. It needs only that the row is a record;
  one lemma per kind of write (`SaveRoomAgrees`, `SaveGameAgrees`, `CloseAgrees`).
- `LobbyOnlineIsConnected`: who is online is who has a client that was not reported closed. The invariant
  `Connected` adds that nobody speaks for a player while there is no room or the process is down. The lemmas
  `Keeps...` say of every operation of a room what it does to those online; the four that change it
  (`Create`, `JoinRoom`, `ResumeRoom`, `Leave`) have a proof of their own.
- `LobbyOnlyTheLastLeaves`: the same invariant and the lemmas `Keeps...` again; of all steps in a room that goes
  on only `Leave` of the present client makes those online fewer.
- `LobbyEmptyRoomExpires`: an empty room has a timer in the map, a forgotten one, or a waiting callback.
  `Timed` adds that the timer maps are total, and the proof uses `Connected` for the shape of the room. Each
  step either leaves `RoomTimer` alone, moves it from one place to the next, or puts somebody into the room.
- `LobbyStoredIsRestorable`: `Housed` says of the room in memory what `Restore` would ask of it (`SoundRoom`), and of
  the row that it is closed or holds such a room (`RowSound`). The two need each other: a write copies the room to the row,
  a restart the row to the room. A failed write keeps a row that was sound before.
- `LobbyRoomKeepsOrder`: `Ordered` adds what the game is between the two writes of a message, in which host and roster must
  stand too.
- `LobbyAbsentAreReleased`: as for the empty room, but per player (`Released`). Besides leaving, which sets the timer, and the
  callbacks, which take what it was set for, two things could disturb it: a role that passes to somebody absent (an heir is
  online), and a game that ends, after which a seat that was safe counts again (`Reopen` takes it in the same step).
- `LobbyRestartFindsAll`: `Written` says what the row holds in each phase of the handler as long as no write failed: between the
  two writes of a message exactly one half is the old one, and the room is never stored as started beside another game.

**Hub** (`HubAssumption`), for any sockets, players and slots: `HubTypes`, with the bound on both channels, and
`HubReaches` (`ActiveIsReached`): a client named by `active` has that player's name and is in the group, or in
`run`. Only `Enter`, `RunUnregister` and `Notify` can disturb it.

**Page** (`SocketAssumption`), for any number of sockets, seats, games and messages. Every step of `Page` is a step of `Socket` or
leaves it alone (`StepOfSocket`), so the proof of `PageHasOneLine` is about `Socket`. `InUse`, that a service in use has not
been hung up, is what makes `NeverStranded` inductive: a socket that closes under a service that was hung up sets no timer.
`PageKeepsItsSeat` needs the store: `page.token = kept` while the service is in use. That holds only if every message the
store may meet leaves it well-formed, so `PageInv` says so of the store (`StoreInv`), of the server's state the messages are cut from
(`SrvInv`) and of everything on the wire, the view of a resume included (`WireInv`).

`PageFollowsServer` (`PageAssumption` besides) compares a page with the server at moments when nothing is on its way; the
invariant must say it of every other moment. `Agrees` is what the page then shows, and `EndsAgree` says of the queue that
it leads there: along every sequence of stores the page can go through as it receives what is on its way (`IsTrail`), with the wish
to go back coming in between any two messages, the last one agrees. So the server's step is the only one with something to show,
that its messages bring a page that agrees to one that agrees with what it has now (`StartTold`, `RoundTold`, `GuessTold`, `AnswerTold`,
`AnnounceTold`, `FinishTold`, `OverTold`, `RestTold`), and receiving one only shortens the sequence (`Received`).
`EventsFit` says the same of a result on its way: the store it will meet is one token behind it. `FollowInv` puts them together for a page
that holds its seat: while a snapshot is still to be sent, only that it is the present view and that any well-formed page may
meet it (`SyncTold`); afterwards `EndsAgree`, and `Waits`, that nobody who wished to go back is left on the final screen
of a lobby unless the wish is still on its way. Two more invariants carry it. `SrvPlays` describes the room's games (`Goes`: answers belong
to the phase, timeouts to the round). `OrderInv` says what may be on its way and when: a page without a seat has at most the news
that it expired, one request is out at a time, a page without a room has nothing of a game (`AtHome`).
A page that stays on the final screen keeps the last game's score until the first result of the next; `ScoreFits` is
that exception, and `Counts` (the new game has no score yet, or the page shows it) why its first result is still announced as one
step.

**Frames** (`FramesAssumption`), for any number of frames before one is measured. `CanvasIsCurrent` is not inductive: a frame may be
partial, and a loop may sleep, only because of what the loop still has to do. `FramesInv` says that of everything that may be
behind: where a copy is stale, or the rest of the canvas old, the loop is `dirty` or the pane has no size yet (`CopyIsDue`, `RestIsDue`); where
regions are old the loop may also owe a frame, something be live, the machine be turned away, or a movement go on (`RegionsAreDue`), which keeps
frames coming (`MovesInFrames`). A full frame pays all of it, a partial one only the regions, and it needs a fresh copy. Only Auto measures (`AutoMeasures`), so
that a measurement that ends late finds its own level or none.

**Table** (`TableAssumption`), for codes of up to 32 digits, and any number of edits and messages on the way. The six parts of
`TableIsTrue` compare what the page shows with what the server accepted, while messages are under way. `TableInv` says
why they agree: what the server has recorded of a seat fits the answers (`Recorded`), what is on its way is the
truth (`Delivered`) and so is what the page keeps (`Seen`), each hidden from those who may not know it. That
is still too weak for a page that waits for the last message of an action: `Reaches` says that a closed action is
known to the page or a message that tells it is on its way, and `LastWord` that nothing sent later about that action can
hide the answer. `StageRank` puts an answer above all drafts only up to 32 digits, which is where the bound
comes from.

**Desk** (`DeskAssumption`), for any number of texts, beats, rooms, games, losses and messages on their way. The parts of
`DeskIsKept` speak of a page where nothing is on its way; why they hold then is a matter of everything that was. `DeskInv`
orders it: a place is a room, a game in it and a beat, the room reopened coming after the last beat (`Before`). The store is
never ahead of the server and the news between them come in order, each of a later place than the last (`Ordered`); two news
that follow each other differ in their beat (`Differ`), so that the console, which compares only phase, room and beat, notices
each; and the last of them, or the store if there is none, is where the server is (`Synced`), with the answer known or told behind
it. `LineOK` says what a connection begins with: after a loss nothing is asked before the seat is resumed. On these rest

- `Sent`: what is shown as sent is in the store, or told and on its way, or asked and on its way, or an error is on its
  way that takes the mark back. A request that is refused is one whose beat is over or whose answer was taken;
- `Kept`: the drawer holds the last text there is, under the name of its beat, and the desk reads from it;
- `Wrote`: the last text was written at one place, which the game has reached (`Latest`, `Reached`), and every sheet that is
  written on is of that place or an earlier one. Hence a later game of the room can show only a draft of an earlier one in the
  same beat. While the connection held (`There`) the text waits for the end of the window, or is the last draft
  asked, or is with the server (`Reported`): a draft that is dropped or overtaken would break this in one step.

**Keys** (`KeysAssumption`), for any keypad and length of a code. `SentIsKnown` (an answer that went out is known on
this side, unless the line is lost) makes "once" inductive across losses and recoveries, and `NotLocked` says that a request
that is out belongs to a seat that may not act.

`Briefed`, that a briefing lies only before a seat with nothing to do, is what the guards of an answer need: with it
nothing is entered or sent under a sheet that covers the page.

**Notebook** (`NotebookAssumption`), for any number of gestures and undo states, any hinge. `NotebookInv` describes what an
undo returns to. While a stroke is drawn the ink is not yet an undo state, so the state before the gesture (`InkBefore`) is
what the history is compared with; every undo state differs from the next and shows the strokes it shares with the present
as the present does (`Alike`); the stroke that grows has a number of its own and is in none of them (`Without`). Without these
an undo could bring back another form of a finished stroke, which `InkStands` forbids. `ViewsOK` and `LeafOK` say why no page
stays inert: what an animation took from a page is written down until it is given back.

**Writing** (`WritingAssumption`: the paper is wider than two insets), for any notes and sizes. `Numbered` (every number
in use was given out, and is below the next) makes a note that appears a new one, an undone one included; `Pencilled` (a
drag belongs to a page that can be written on) makes a page that loses its right end the drag where it began.

**Voice** (`VoiceAssumption`), for any number of joins and links. What is carried (`out` and its pair of tracks) and what is
heard are functions of the controls and the game (`Carried`, `RightlyHeard`), and each action keeps them so. `CaptureIsSo` is
the part with a history: every stream and every open pair belongs to the join in use or to one whose tracks another answer
replaced (`replaced`), so that a page whose voice is off holds no microphone but of such a join; `LineIsJoined` says that the
line in use publishes the pair in use or a replaced one, and that a page with a pair has its line, up or timed, whenever
the connection is, so that one without either is asking or lost its line while it asked (`LostWhileAsking`). Neither case is assumed away: the theorem covers them,
and states what holds of them. `LineIsSo` gives the line in use its number, so that the report of an older line changes nothing.

**VoiceLine**, for any set of tracks and plans, and any losses. That a page plays what the server sends it (`PlaysWhatIsSent`) and
that the server holds no line the page does not know (`FarIsNear`) speak of moments at which nothing is on its way; alone
they are not inductive. `EndsAgree` says what each signal on its way stands for:

- `TracksFollow`: the last signal that names a track says whether the server sends it, and where none does, the
  page plays it, or is about to;
- `OneOffer`: one offer is on its way, being answered, or answered, and never two. It is why an offer and a drop of the same
  track cannot pass each other;
- `PublishedOnce`, `IceIsNew`: an answer to a publication finds the page that waits for it, and a number on its way was given
  out once and has had nothing done for it;
- `LeavesFollow`: a line that came up is the page's, or the page's leave is behind it.

Its lemmas are about one signal more (`Longer`), one signal less (`Shorter`) and each thing either end does; an action is two or
three of them in a row.

**The moving parts.** `ConsoleProofs` has a section per part, for any number of updates, scores, sounds, tracks and pulls. A
property of a part usually is not its invariant:

- *Archive* (`ArchiveAssumption`): the fibers that are torn are those of the paper that is out, and no phase outlasts its time.
- *KeyDisk* (`KeyDiskAssumption`): two invariants. `DiskInv` says of the disk that a phase that has run so far has been
  seen or read so long (`Counted`), which is `ready` only after a second that was read. `HandInv` says of the hand
  which click of the browser is still to come, and that a pull under way is the pull of this disk.
- *Tube* and *Bank* (`TubeAssumption`, `BankAssumption`): the key of the picture is the key that is wanted, whether lit or not,
  since words are exchanged at once and only forms wait for the dark; hence no old word is lit. A driver that rests does so in the state its
  power asks for.
- *Speaker* (`SpeakerAssumption`): every voice is of a start under way or of the feed, a start that was cut is never heard, and the tube's
  sounds are only there while its transition is open.
- *Music* (`MusicAssumption`): a track that is not the wanted one plays only while the wanted one loads or fades in, or while
  the device sleeps; a load of an older wish is stale.
- *Panel* (`PanelAssumption`): a score is pulsed once at most, and not before it was given.
- *Tour* (`TourAssumption`): what is stored is what the tour has in memory, and what it shows is a step the present room has.
- *Turnover* (`TurnAssumption`): a pull belongs to a grip, and the machine goes where the grip does unless that is stale.

**Only model-checked.** Liveness, everywhere (`GameComesToAnEnd`, `HostHandedOver`, `AbandonedRoomCloses`, `GoneIsNoticed`,
`PageSettles`, `ConsoleSettles`): fairness and `ENABLED` are out of the prover's reach. Every safety property of the runs
is proved. No theorem rests on an induction over data, which the prover cannot do: where one would be needed the models count
members (`Recount`, `Kept`) or quantify over the sequence of states a recursion would compute (`IsTrail`).

## 6. What is not modelled

*On the server*

- *Rooms.* `Lobby` follows one room, `Hub` one broadcast group: a second room, the use of a code after its room is
  gone, and the exhaustion of codes are out of sight. Members are bounded by the two humans, so that the limit of 32
  is never met.
- *The outbound queue of a client*: no message is dropped by a full one, except in what `Page` says of a lost line.
- *Voice*: one player's line at a time. The registry of rooms, several players under one plan, and the requests to the
  SFU, which may fail without anybody noticing (`closeTracks`), are not there.
- *Views.* What a seat is shown beyond what `Page` and `Table` hold: history rows, notices and AI
  status are formatting of state the models have.
- *Time.* Durations are abstract: any timer may run out at any moment. Nothing here says that a grace time is
  twenty seconds.
- *Dealing.* Words and hands are data. Their failure is an undone start (`AbortStart`), after which nothing
  has changed.
- *AI answers.* Prompts, parsing and HTTP: in `Bridge` a worker may answer anything, late or not at all.
- *The store* is one row that is written or not. That SQLite keeps what it has committed is taken for granted.

*In the page*

- *Pictures*: `paint.ts`, `paintScreen.ts`, `paintFaces.ts`, the shaders, fonts and texts (`i18n.ts`) are functions of the state without a state of
  their own. The preview states at the end of `model.ts` are fixtures. The pages of the manual are text.
- *Geometry and physics*: curves of strokes, the cloth of the paper, the electronics of the tube. The models keep the
  thresholds that other code asks for.
- *The clock*: the estimate of the server's time; deadlines are passed or not.
- *Meters and statistics* of the voice.
- *Assets, scripts, tests*: no protocol.

Hazards known and covered by no property: a member list full of players who left (`room/lifecycle.go:114`); a code used again
(`server/handler.go:106`); `start_game` waiting under `h.mu` for a model that writes the hands
(`handler.go:290`); a slow page whose queue overflows (`ws/client.go:65`); `SendToPlayer` finding a closed client
(`ws/hub.go:120`); a stale game that outlives its room's lobby after two failed writes (`server/persist.go:63`); reopening within
a short disconnection (`room/lifecycle.go:237`); `closeTracks` failing, and a plan that changes while a pass over the line
fails half-way (`voice/cloudflare/cloudflare.go:371`, `:383`, `:504`).

## 7. The plan

Done: the server of one room with its game, its refinement and its proofs, which now cover every safety property of
the server's modules; the page from its socket to its moving parts; proofs of the connection, the kept seat, the store against the server, the
guessing table, the desk, the keys, the notebook, the voice at both ends, the drawing loop, and of every moving part.

1. *Voice with several players*: the registry of rooms, the plan of a whole room against its phases, requests to the SFU that
   fail, in particular `closeTracks`. Property: nobody hears the other team's private channel once the plan has
   changed and been settled.
2. *Lobby with two rooms* on the same code, one after the other: the registry, the group and late callbacks
   of the first must not touch the second.
3. *Abstract specifications* of the lobby (a set of players with a host, that loses only those who stay
   away) and of storing (one atomic write per message), shown to be implemented where no write fails.

The runs are kept to a dozen, so that all of them, and a run of each broken variant, stay a matter of minutes.
