------------------------------ MODULE Archive ------------------------------
(***************************************************************************)
(* The record of the game on its strip of paper: the console that opens    *)
(* and closes it (Console.tsx), the sheet the page shows over the machine  *)
(* (ArchiveSheet.tsx), the printer (parts/printer.ts) and the stock it     *)
(* feeds, lets be read, tears off and feeds again (tearing.ts). Time is in *)
(* frames of about 90 ms.                                                  *)
(***************************************************************************)
EXTENDS Integers, FiniteSets

CONSTANTS
    Fibers,     \* the columns of the tooth line the stock hangs from
    MaxPrinted  \* rounds on record: a bound

ASSUME ArchiveAssumption == IsFiniteSet(Fibers) /\ MaxPrinted \in Nat

VARIABLES
    archive,    \* the console: wanted, shown, by the paper or at once; the dialog; the focus to give back
    receipt,    \* ReceiptTransport
    torn,       \* the fibers of the torn sheet that have snapped
    started,    \* Printer.readerStarted
    printed,    \* rounds on record
    machine     \* power, motion, and what draws: the machine or the page of a phone

archiveVars == <<archive, receipt, torn, started, printed, machine>>

\* paperFeedDuration 260 ms, paperCutDuration 280 ms less 10, the fade from a
\* fifth of the 520 ms after the cut, paperTearDuration 800 ms, paperRefillDuration 520 ms
Feed == 3
CutEnd == 3
FadeFrom == 4
TearEnd == 9
Refill == 6

Still == [phase |-> "idle", wanted |-> FALSE, records |-> 0, length |-> 0, elapsed |-> 0, from |-> 0, fed |-> 0]
\* TornSheet: a new sheet hangs from every fiber, and the hand's pull may
\* overload any that still hold
NewSheet == {}
Attached == Fibers \ torn
Overloaded == SUBSET Attached
\* The engine is there; its sounds and pictures are for the wide page only
Drawn == machine.engine
Direct == ~machine.engine \/ machine.failed \/ machine.portable

-----------------------------------------------------------------------------
\* The stock

\* A new sheet has the length of the record when it starts to feed
StartFibers(r, phase) ==
    [r EXCEPT !.phase = phase, !.elapsed = 0, !.from = r.fed,
              !.length = IF phase = "feeding" /\ r.phase = "idle" THEN r.records ELSE @]

\* Opening again during the disposal waits for a fresh leader
Sync(r, open) ==
    LET s == [r EXCEPT !.wanted = open, !.records = printed'] IN
    CASE open /\ r.phase = "idle" -> StartFibers(s, "feeding")
      [] ~open /\ r.phase \in {"feeding", "reading"} -> StartFibers(s, "tearing")
      [] OTHER -> s

\* The sheet fades once it travels
Opacity(r) == IF r.phase = "tearing" /\ r.elapsed > FadeFrom THEN "fading" ELSE "solid"

\* TornSheet.step: fibers part as the hand loads them; what holds at the end of the cut is cut
Snap(r) == IF r.phase # "tearing" THEN torn' = NewSheet
           ELSE IF r.elapsed >= CutEnd THEN torn' = Fibers
           ELSE \E more \in Overloaded : torn' = torn \union more

\* ReceiptTransport.advance, one frame; with reduced motion all that is left in one
Done(r, now, duration) == machine.reduced \/ now >= duration

\* Broken variant: what was asked for during the disposal is forgotten
RefilledIdle(r) == [r EXCEPT !.phase = "idle", !.elapsed = 0]

Refilled(r) == LET idle == [r EXCEPT !.phase = "idle", !.elapsed = 0] IN
               IF r.wanted THEN StartFibers(idle, "feeding") ELSE idle

Phase(r) ==
    LET now == r.elapsed + 1
        on  == [r EXCEPT !.elapsed = now]
    IN  CASE r.phase = "feeding" ->
                 IF Done(r, now, Feed - r.from) THEN [on EXCEPT !.phase = "reading", !.fed = Feed]
                 ELSE [on EXCEPT !.fed = r.from + now]
          [] r.phase = "tearing" -> IF Done(r, now, TearEnd) THEN StartFibers([on EXCEPT !.fed = 0], "refilling") ELSE on
          [] r.phase = "refilling" -> IF Done(r, now, Refill) THEN Refilled(on) ELSE on
          [] OTHER -> r

\* Without power only the disposal goes on, and then waits with the stock not fed
Goes(r) == IF machine.powered \/ r.phase = "tearing" THEN Phase(r) ELSE r
Advance(r) == IF machine.reduced THEN Goes(Goes(Goes(r))) ELSE Goes(r)

-----------------------------------------------------------------------------
\* The reader opens once for a sheet that comes out of a machine with power

BeginReader(r, was, open, powered) == powered /\ open /\ ~was /\ r.phase \in {"feeding", "reading"}

\* hooks.onPaperPull
Pulled(a, begins) == IF begins /\ a.open THEN [a EXCEPT !.visible = TRUE, !.paper = @ \/ ~a.visible] ELSE a

\* The dialog follows what is shown; it is left open while the sheet slides out
Dialog(a) == [a EXCEPT !.dialog = @ \/ a.visible, !.exit = a.dialog /\ ~a.visible]
Focus(a) == IF a.open \/ a.dialog THEN a ELSE [a EXCEPT !.focus = FALSE]

\* Every render of the console reaches the engine, Printer.sync
Rendered(a) ==
    LET r == Sync(receipt, a.open)
        was == started /\ a.open /\ machine'.powered
        begins == BeginReader(r, was, a.open, machine'.powered)
    IN  IF Drawn
        THEN /\ receipt' = r /\ started' = (was \/ begins)
             /\ archive' = Focus(Dialog(Pulled(a, begins)))
             /\ IF r.phase = receipt.phase THEN UNCHANGED torn ELSE torn' = NewSheet
        ELSE archive' = Focus(Dialog(a)) /\ UNCHANGED <<receipt, torn, started>>

\* archive-toggle
OpenArchive ==
    /\ machine.powered /\ ~archive.open /\ ~archive.dialog
    /\ UNCHANGED <<printed, machine>>
    /\ Rendered([archive EXCEPT !.open = TRUE, !.visible = Direct, !.paper = FALSE])

\* closeArchive, from the sheet or from the keyboard before it is shown
CloseArchive ==
    /\ archive.open /\ (archive.visible \/ ~archive.dialog)
    /\ UNCHANGED <<printed, machine>>
    /\ Rendered([archive EXCEPT !.open = FALSE, !.visible = FALSE, !.paper = FALSE, !.focus = TRUE])

\* The console is inert while the archive is open, and behind a dialog
Blocked == (archive.open /\ machine.powered) \/ archive.dialog

PowerSwitch ==
    /\ ~Blocked
    /\ machine' = [machine EXCEPT !.powered = ~@]
    /\ UNCHANGED printed
    /\ Rendered([archive EXCEPT !.visible = @ /\ machine'.powered, !.paper = @ /\ machine'.powered])

\* A round ends
Prints ==
    /\ printed < MaxPrinted /\ printed' = printed + 1
    /\ UNCHANGED machine /\ Rendered(archive)

\* The window is resized, the preference for less motion set, the graphics lost
Surroundings ==
    /\ \E m \in [powered : {machine.powered}, reduced : BOOLEAN, portable : BOOLEAN, failed : BOOLEAN,
                 engine : {machine.engine}] : machine' = m /\ m # machine /\ (machine.failed => m.failed)
    /\ UNCHANGED <<archive, receipt, torn, started, printed>>

\* The dialog's own timer
DialogCloses ==
    /\ archive.exit
    /\ archive' = Focus([archive EXCEPT !.dialog = FALSE, !.exit = FALSE])
    /\ UNCHANGED <<receipt, torn, started, printed, machine>>

\* Another room or seat mounts a dialog of its own
Remount ==
    /\ archive.dialog
    /\ archive' = [archive EXCEPT !.dialog = archive.visible, !.exit = FALSE]
    /\ UNCHANGED <<receipt, torn, started, printed, machine>>

\* Printer.tick: an unpowered printer only lets go of the sheet that is torn off
PaperFrame ==
    /\ Drawn /\ receipt.phase \notin {"idle", "reading"}
    /\ machine.powered \/ receipt.phase = "tearing"
    /\ receipt' = Advance(receipt)
    /\ Snap(receipt')
    /\ LET begins == BeginReader(receipt', started, archive.open, machine.powered) IN
       started' = (started \/ begins) /\ archive' = Focus(Dialog(Pulled(archive, begins)))
    /\ UNCHANGED <<printed, machine>>

ArchiveInit ==
    /\ archive = [open |-> FALSE, visible |-> FALSE, paper |-> FALSE, dialog |-> FALSE, exit |-> FALSE, focus |-> FALSE]
    /\ receipt = Still /\ torn = NewSheet /\ started = FALSE /\ printed = 0
    /\ machine \in [powered : {TRUE}, reduced : BOOLEAN, portable : BOOLEAN, failed : {FALSE}, engine : BOOLEAN]

ArchiveNext ==
    \/ OpenArchive \/ CloseArchive \/ PowerSwitch \/ Prints \/ Surroundings
    \/ DialogCloses \/ Remount \/ PaperFrame

PaperMoves == PaperFrame \/ DialogCloses

ArchiveSpec == ArchiveInit /\ [][ArchiveNext]_archiveVars /\ WF_archiveVars(PaperMoves)

-----------------------------------------------------------------------------
ArchiveTypeOK ==
    /\ receipt.phase \in {"idle", "feeding", "reading", "tearing", "refilling"}
    /\ receipt.elapsed \in 0 .. TearEnd /\ receipt.fed \in 0 .. Feed /\ receipt.length \in 0 .. MaxPrinted
    /\ torn \subseteq Fibers /\ printed \in 0 .. MaxPrinted
    /\ archive.visible => archive.open /\ archive.dialog /\ machine.powered
    /\ archive.exit => archive.dialog

\* "Reopening during disposal waits for a fresh leader instead of reattaching a
\* torn sheet or showing the previous reader again": what the paper brought up
\* is read from stock that is out and whole
ReaderHasItsStock ==
    archive.visible /\ archive.paper => receipt.phase \in {"feeding", "reading"} /\ receipt.wanted /\ torn = {}

\* "Let the detached sheet visibly travel out before it starts fading": whatever
\* frames were lost and whenever the fibers parted
FadesOnlyDetached == Opacity(receipt) = "fading" => Attached = {}

\* "Never resize stock being read or torn", however many rounds end meanwhile
StockKeepsItsLength ==
    [][receipt'.phase \in {"reading", "tearing"} /\ receipt.phase \in {"feeding", "reading", "tearing"}
       /\ ~(receipt.phase = "tearing" /\ receipt'.phase = "reading")
          => receipt'.length = receipt.length]_archiveVars

\* Opening the record shows it or is taken back: the console, inert meanwhile,
\* is never left waiting for paper
RecordComes == []<>(archive.visible \/ ~archive.open)

\* A closed record gives the page back
PageIsGivenBack == []<>(~archive.dialog \/ archive.visible)
=============================================================================
