----------------------------- MODULE MCConsole ------------------------------
(***************************************************************************)
(* The moving parts of the console on small instances.  They share nothing *)
(* that the page does not hand to each of them, so a behaviour follows one *)
(* of them (part) while the others rest where they begin.                  *)
(***************************************************************************)
EXTENDS Archive, KeyDisk, Tube, Speaker, Music, Panel, Tour, Turnover, Bank

VARIABLE part

Parts == {"archive", "disk", "tube", "speaker", "music", "panel", "tour", "turn", "bank"}

\* One of the states a part may begin in, where it rests
ArchiveRests == machine = [powered |-> TRUE, reduced |-> FALSE, portable |-> FALSE, failed |-> FALSE, engine |-> TRUE]
TubeRests == tube = SettleTube(TRUE) /\ ~glass.reduced /\ glass.current = CHOOSE picture \in Pictures : TRUE
SpeakerRests == gate.enabled /\ gate.visible
MusicRests == gates.enabled /\ gates.powered /\ gates.loud /\ station.scene = CHOOSE s \in Scenes : TRUE
PanelRests == watched = "flag" /\ view.powered /\ view.linked
TourRests == notice = "toast" /\ room.phase = "home" /\ room.voice /\ room.target
BankRests == bank.powered /\ ~still /\ bank.current = CHOOSE picture \in Snapshots : TRUE

ConsoleInit ==
    /\ part \in Parts
    /\ ArchiveInit /\ (part # "archive" => ArchiveRests)
    /\ KeyDiskInit /\ (part # "disk" => ~reduced)
    /\ TubeInit /\ (part # "tube" => TubeRests)
    /\ SpeakerInit /\ (part # "speaker" => SpeakerRests)
    /\ MusicInit /\ (part # "music" => MusicRests)
    /\ PanelInit /\ (part # "panel" => PanelRests)
    /\ TourInit /\ (part # "tour" => TourRests)
    /\ TurnInit
    /\ BankInit /\ (part # "bank" => BankRests)

ArchiveAlone == part = "archive" /\ UNCHANGED <<part, diskVars, tubeVars, speakerVars, musicVars, panelVars,
                        tourVars, turnVars, bankVars>>
DiskAlone == part = "disk" /\ UNCHANGED <<part, archiveVars, tubeVars, speakerVars, musicVars, panelVars,
                        tourVars, turnVars, bankVars>>
TubeAlone == part = "tube" /\ UNCHANGED <<part, archiveVars, diskVars, speakerVars, musicVars, panelVars,
                        tourVars, turnVars, bankVars>>
SpeakerAlone == part = "speaker" /\ UNCHANGED <<part, archiveVars, diskVars, tubeVars, musicVars, panelVars,
                        tourVars, turnVars, bankVars>>
MusicAlone == part = "music" /\ UNCHANGED <<part, archiveVars, diskVars, tubeVars, speakerVars, panelVars,
                        tourVars, turnVars, bankVars>>
PanelAlone == part = "panel" /\ UNCHANGED <<part, archiveVars, diskVars, tubeVars, speakerVars, musicVars,
                        tourVars, turnVars, bankVars>>
TourAlone == part = "tour" /\ UNCHANGED <<part, archiveVars, diskVars, tubeVars, speakerVars, musicVars,
                        panelVars, turnVars, bankVars>>
TurnAlone == part = "turn" /\ UNCHANGED <<part, archiveVars, diskVars, tubeVars, speakerVars, musicVars,
                        panelVars, tourVars, bankVars>>
BankAlone == part = "bank" /\ UNCHANGED <<part, archiveVars, diskVars, tubeVars, speakerVars, musicVars,
                        panelVars, tourVars, turnVars>>

ConsoleNext ==
    \/ ArchiveAlone /\ ArchiveNext
    \/ DiskAlone /\ KeyDiskNext
    \/ TubeAlone /\ TubeNext
    \/ SpeakerAlone /\ SpeakerNext
    \/ MusicAlone /\ MusicNext
    \/ PanelAlone /\ PanelNext
    \/ TourAlone /\ TourNext
    \/ TurnAlone /\ TurnNext
    \/ BankAlone /\ BankNext

consoleVars == <<part, archiveVars, diskVars, tubeVars, speakerVars, musicVars, panelVars,
                 tourVars, turnVars, bankVars>>

\* What each part assumes of its scheduling, in its own module
ConsoleFairness ==
    /\ WF_archiveVars(part = "archive" /\ PaperMoves)
    /\ WF_diskVars(part = "disk" /\ DiskMoves)
    /\ WF_tubeVars(part = "tube" /\ Passing)
    /\ WF_speakerVars(part = "speaker" /\ SpeakerMoves)
    /\ WF_musicVars(part = "music" /\ MusicMoves)
    /\ WF_panelVars(part = "panel" /\ Arrive)
    /\ WF_tourVars(part = "tour" /\ TourMoves)
    /\ WF_turnVars(part = "turn" /\ TurnFrame)
    /\ WF_bankVars(part = "bank" /\ BankEnded)

ConsoleSpec == ConsoleInit /\ [][ConsoleNext]_consoleVars /\ ConsoleFairness

-----------------------------------------------------------------------------
\* Properties of several parts

\* Nothing can be read by somebody it is not for: not in the afterglow of the
\* tube, not on the modules that wait for their turn, nor from a disk that was
\* not read in full since the power came on (crtMotion.ts, displayBank.ts,
\* keyDisk.ts)
SecretsStayDark == NothingSecretGlows /\ NoOldWords /\ ReadableOnlyWhole

\* Each thing that is heard, lit or told answers something that happened, and
\* answers it once: the coil, the motor, the ending of a game, the click of a
\* flag, a pulse, the lamp test, the steps of the tour (crtSound.ts, sound.ts,
\* music.ts, scoreFlagMotion.ts, scoreFeedback.ts, tour.ts)
EffectsAnswerEvents ==
    /\ DegaussedOnce /\ OneMotor /\ EndingOnce /\ OneClickPerStroke /\ PulseIsOurs /\ TestWasAskedFor
    /\ NothingTwice /\ SeenWasShown /\ NoticeCanBeRead

\* What sounds was asked for since the last silence, with the gates open, and
\* belongs to where the player is: cues, the tube, the music and its place
\* (sound.ts, crtSound.ts, music.ts)
SoundsAreOfNow ==
    /\ QuietWhileOff /\ NothingFromBefore /\ OpenedByGesture /\ CuesHaveTheirTransition
    /\ SilentWhileClosed /\ PlaysWhatIsWanted /\ PlaceIsItsOwn

\* Nothing that moves is taken for what it is not yet: paper is read, disks are
\* kept, handles are held and faces are pressed only as a whole, a disk stays
\* where its last movement left it, and pictures, names and colours change
\* out of sight (tearing.ts, model.ts, mechanics.ts, Controls.tsx,
\* turnover.ts, crtMotion.ts, rosterMotion.ts, displayBank.ts)
MovesAreWhole ==
    /\ [](/\ ArchiveTypeOK /\ KeyDiskTypeOK /\ TubeTypeOK /\ SpeakerTypeOK /\ MusicTypeOK
          /\ PanelTypeOK /\ TourTypeOK /\ TurnTypeOK /\ BankTypeOK)
    /\ [](/\ ReaderHasItsStock /\ FadesOnlyDetached /\ OutWhileOut
          /\ HeldByAHand /\ NothingReachedMidTurn)
    /\ StockKeepsItsLength /\ NoticeIsRead /\ PulledIsNoClick /\ NeverJumps /\ TurnsOneWay /\ OnlyAPullTurns
    /\ PictureWaits /\ NamesChangeUnseen /\ ColoursChangeInTheDark

\* However inputs, frames, timers and late callbacks interleave, every part comes
\* to rest where the page is: paper, disk, tube, motor, music, flags and cards,
\* tour, faces and modules
ConsoleSettles ==
    /\ RecordComes /\ PageIsGivenBack /\ ComesToRest /\ Delivered /\ ComesUp /\ MotorComes /\ MusicComes
    /\ PanelComesToRest /\ TourCatchesUp /\ LightFindsTarget /\ EndsOnItsFace /\ BankComesUp
=============================================================================
