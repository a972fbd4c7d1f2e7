---------------------------- MODULE ConsoleProofs ----------------------------
(***************************************************************************)
(* What the moving parts of the console promise, proved for every instance *)
(* of theirs.  Each part has a section: its inductive invariant, a lemma   *)
(* for each operator that makes a new record of its state, one for each    *)
(* action, and XBegins, XStep and XKept at its end.  The last section puts *)
(* the parts together, as MCConsole does.                                  *)
(***************************************************************************)
EXTENDS MCConsole, TLAPS

-----------------------------------------------------------------------------
\* The record of the game: Archive

Papers == [phase : {"idle", "feeding", "reading", "tearing", "refilling"}, wanted : BOOLEAN, records : 0 .. MaxPrinted,
           length : 0 .. MaxPrinted, elapsed : 0 .. TearEnd, from : 0 .. Feed, fed : 0 .. Feed]
Sheets == [open : BOOLEAN, visible : BOOLEAN, paper : BOOLEAN, dialog : BOOLEAN, exit : BOOLEAN, focus : BOOLEAN]
Printers == [powered : BOOLEAN, reduced : BOOLEAN, portable : BOOLEAN, failed : BOOLEAN, engine : BOOLEAN]
Out == {"feeding", "reading"}

\* The stock is fed from its leader, and no phase outlasts its time
PaperIsSo(r) ==
    /\ r \in Papers
    /\ r.phase \in {"idle", "refilling"} => r.fed = 0
    /\ r.phase = "feeding" => r.from = 0 /\ r.elapsed < Feed
    /\ r.phase = "tearing" => r.elapsed < TearEnd
    /\ r.phase = "refilling" => r.elapsed < Refill
\* Only a sheet that is torn off lets go of its fibers, and of all of them by the end of the cut
FibersAreSo(t, r) ==
    /\ t \subseteq Fibers
    /\ r.phase # "tearing" => t = {}
    /\ r.phase = "tearing" /\ r.elapsed >= CutEnd => t = Fibers
\* The page opens a sheet with the power on, and what the paper brought up is out
SheetIsAsked(a, r, m) ==
    /\ a \in Sheets /\ (a.visible => a.open) /\ (a.paper => a.visible) /\ (a.open => m.powered)
    /\ ~m.engine => ~a.paper
    /\ a.paper => r.phase \in Out
SheetIsSo(a, r, m) ==
    /\ SheetIsAsked(a, r, m)
    /\ a.visible => a.dialog
    /\ a.exit => a.dialog /\ ~a.visible
    /\ m.engine => (r.wanted <=> a.open)

ArchiveInv ==
    /\ PaperIsSo(receipt) /\ FibersAreSo(torn, receipt) /\ machine \in Printers /\ printed \in 0 .. MaxPrinted
    /\ SheetIsSo(archive, receipt, machine)

\* The stock that is out stays out, and only what was torn goes on being torn
StaysOut(r, g) ==
    /\ g.phase = "tearing" => r.phase = "tearing" /\ g.length = r.length
    /\ r.phase \in Out => g.phase \in Out /\ g.length = r.length
\* What a step does to the length of the stock
LengthStays ==
    receipt'.phase \in {"reading", "tearing"} /\ receipt.phase \in {"feeding", "reading", "tearing"}
    /\ ~(receipt.phase = "tearing" /\ receipt'.phase = "reading") => receipt'.length = receipt.length

\* The stock begins a phase
LEMMA StartedIs ==
    ASSUME NEW r \in Papers, NEW phase \in {"feeding", "tearing", "refilling"}, NEW g, g = StartFibers(r, phase)
    PROVE  /\ g \in Papers /\ g.phase = phase /\ g.elapsed = 0 /\ g.from = r.fed /\ g.fed = r.fed /\ g.wanted = r.wanted
           /\ phase # "feeding" => g.length = r.length
  <1> DEFINE none == 0
             fed == r.fed
             length == IF phase = "feeding" /\ r.phase = "idle" THEN r.records ELSE r.length
  <1>1. g = [[[[r EXCEPT !.phase = phase] EXCEPT !.elapsed = none] EXCEPT !.from = fed] EXCEPT !.length = length]
    BY DEF StartFibers, Papers
  <1>2. length \in 0 .. MaxPrinted /\ fed \in 0 .. Feed /\ none \in 0 .. TearEnd /\ none = 0
    BY DEF Papers, TearEnd
  <1> HIDE DEF none, length, fed
  <1>3. g \in Papers /\ g.phase = phase /\ g.elapsed = none /\ g.from = fed /\ g.length = length /\ g.fed = r.fed /\ g.wanted = r.wanted
    BY <1>1, <1>2 DEF Papers
  <1> QED
    BY <1>2, <1>3 DEF length, fed

\* The page's wish reaches the stock
LEMMA SyncIs ==
    ASSUME NEW r, PaperIsSo(r), NEW open \in BOOLEAN, printed' \in 0 .. MaxPrinted, NEW g, g = Sync(r, open)
    PROVE  /\ PaperIsSo(g) /\ (g.wanted <=> open)
           /\ g.phase # r.phase => (open /\ r.phase = "idle" /\ g.phase = "feeding")
                                   \/ (~open /\ r.phase \in Out /\ g.phase = "tearing" /\ g.elapsed = 0 /\ g.length = r.length)
           /\ g.phase = r.phase => g.elapsed = r.elapsed /\ g.length = r.length
  <1> DEFINE now == printed'
             s == [[r EXCEPT !.wanted = open] EXCEPT !.records = now]
  <1>0. r \in Papers
    BY DEF PaperIsSo
  <1>1. \/ open /\ r.phase = "idle" /\ g = StartFibers(s, "feeding")
        \/ ~open /\ r.phase \in Out /\ g = StartFibers(s, "tearing")
        \/ ~(open /\ r.phase = "idle") /\ ~(~open /\ r.phase \in Out) /\ g = s
    BY DEF Sync, Out
  <1>2. now \in 0 .. MaxPrinted
    OBVIOUS
  <1> HIDE DEF now
  <1>3. /\ s \in Papers /\ s.phase = r.phase /\ (s.wanted <=> open) /\ s.length = r.length /\ s.elapsed = r.elapsed /\ s.from = r.from
        /\ s.fed = r.fed
    BY <1>0, <1>2 DEF Papers
  <1> HIDE DEF s
  <1>4. CASE open /\ r.phase = "idle" /\ g = StartFibers(s, "feeding")
    <2>1. g \in Papers /\ g.phase = "feeding" /\ g.elapsed = 0 /\ g.from = s.fed /\ g.fed = s.fed /\ g.wanted = s.wanted
      BY <1>3, <1>4, StartedIs
    <2>2. r.fed = 0
      BY <1>4 DEF PaperIsSo
    <2>3. PaperIsSo(g)
      BY <1>3, <2>1, <2>2 DEF PaperIsSo, Feed
    <2> QED
      BY <1>3, <1>4, <2>1, <2>3
  <1>5. CASE ~open /\ r.phase \in Out /\ g = StartFibers(s, "tearing")
    <2>1. g \in Papers /\ g.phase = "tearing" /\ g.elapsed = 0 /\ g.wanted = s.wanted /\ g.length = s.length
      BY <1>3, <1>5, StartedIs
    <2> QED
      BY <1>3, <1>5, <2>1 DEF PaperIsSo, TearEnd, Out
  <1>6. CASE ~(open /\ r.phase = "idle") /\ ~(~open /\ r.phase \in Out) /\ g = s
    BY <1>3, <1>6 DEF PaperIsSo
  <1> QED
    BY <1>1, <1>4, <1>5, <1>6

\* The leader is fed again, or waits
LEMMA RefilledIs ==
    ASSUME NEW r \in Papers, r.fed = 0, NEW g, g = Refilled(r)
    PROVE  PaperIsSo(g) /\ g.wanted = r.wanted /\ g.phase \in {"idle", "feeding"}
  <1> DEFINE none == 0
             rests == [[r EXCEPT !.phase = "idle"] EXCEPT !.elapsed = none]
             begun == StartFibers(rests, "feeding")
  <1>1. g = IF r.wanted THEN begun ELSE rests
    BY DEF Refilled
  <1>2. none \in 0 .. TearEnd /\ none = 0
    BY DEF TearEnd
  <1> HIDE DEF none
  <1>3. rests \in Papers /\ rests.phase = "idle" /\ rests.fed = 0 /\ rests.wanted = r.wanted
    BY <1>2 DEF Papers
  <1> HIDE DEF rests
  <1>4. begun \in Papers /\ begun.phase = "feeding" /\ begun.elapsed = 0 /\ begun.from = 0 /\ begun.wanted = r.wanted
    BY <1>3, StartedIs
  <1> HIDE DEF begun
  <1> QED
    BY <1>1, <1>3, <1>4 DEF PaperIsSo, Feed

\* One frame of one phase
LEMMA PhaseIs ==
    ASSUME NEW r, PaperIsSo(r), NEW g, g = Phase(r)
    PROVE  PaperIsSo(g) /\ g.wanted = r.wanted /\ StaysOut(r, g)
  <1> DEFINE now == r.elapsed + 1
             on == [r EXCEPT !.elapsed = now]
  <1>0. r \in Papers
    BY DEF PaperIsSo
  <1>1. CASE r.phase = "feeding"
    <2> DEFINE fed == r.from + now
               full == Feed
               done == [[on EXCEPT !.phase = "reading"] EXCEPT !.fed = full]
               more == [on EXCEPT !.fed = fed]
    <2>1. r.from = 0 /\ r.elapsed \in 0 .. TearEnd /\ r.elapsed < Feed
      BY <1>0, <1>1 DEF PaperIsSo, Papers
    <2>2. (g = done) \/ (g = more /\ ~(now >= Feed))
      <3>1. g = done \/ (g = more /\ ~Done(r, now, Feed - r.from))
        BY <1>1 DEF Phase
      <3> QED
        BY <2>1, <3>1 DEF Done, Feed
    <2>3. now \in 0 .. TearEnd /\ fed \in Nat /\ fed = now /\ full \in 0 .. Feed
      BY <2>1 DEF Feed, TearEnd
    <2> HIDE DEF fed, now, full
    <2>4. on \in Papers /\ on.elapsed = now /\ on.phase = r.phase /\ on.wanted = r.wanted /\ on.length = r.length /\ on.from = r.from
      BY <1>0, <2>3 DEF Papers
    <2> HIDE DEF on
    <2>5. CASE g = done
      <3>1. g \in Papers /\ g.phase = "reading" /\ g.wanted = on.wanted /\ g.length = on.length
        BY <2>3, <2>4, <2>5 DEF Papers
      <3> QED
        BY <1>1, <2>4, <3>1 DEF PaperIsSo, StaysOut, Out
    <2>6. CASE g = more /\ ~(now >= Feed)
      <3>1. fed \in 0 .. Feed
        BY <2>3, <2>6 DEF Feed
      <3>2. g \in Papers /\ g.phase = on.phase /\ g.wanted = on.wanted /\ g.length = on.length /\ g.elapsed = now /\ g.from = on.from
        BY <2>4, <2>6, <3>1 DEF Papers
      <3> QED
        BY <1>1, <2>1, <2>3, <2>4, <2>6, <3>2 DEF PaperIsSo, StaysOut, Out, Feed
    <2> QED
      BY <2>2, <2>5, <2>6
  <1>2. CASE r.phase = "tearing"
    <2> DEFINE none == 0
               off == [on EXCEPT !.fed = none]
    <2>1. r.elapsed \in 0 .. TearEnd /\ r.elapsed < TearEnd
      BY <1>0, <1>2 DEF PaperIsSo, Papers
    <2>2. (g = StartFibers(off, "refilling")) \/ (g = on /\ ~(now >= TearEnd))
      BY <1>2 DEF Phase, Done
    <2>3. now \in 0 .. TearEnd /\ now \in Nat /\ none \in 0 .. Feed /\ none = 0
      BY <2>1 DEF TearEnd, Feed
    <2> HIDE DEF now, none
    <2>4. on \in Papers /\ on.elapsed = now /\ on.phase = r.phase /\ on.wanted = r.wanted /\ on.length = r.length
      BY <1>0, <2>3 DEF Papers
    <2> HIDE DEF on
    <2>5. off \in Papers /\ off.fed = 0 /\ off.wanted = r.wanted
      BY <2>3, <2>4 DEF Papers
    <2> HIDE DEF off
    <2>6. CASE g = StartFibers(off, "refilling")
      <3>1. g \in Papers /\ g.phase = "refilling" /\ g.elapsed = 0 /\ g.fed = 0 /\ g.wanted = off.wanted
        BY <2>5, <2>6, StartedIs
      <3> QED
        BY <1>2, <2>5, <3>1 DEF PaperIsSo, StaysOut, Out, Refill
    <2>7. CASE g = on /\ ~(now >= TearEnd)
      BY <1>2, <2>3, <2>4, <2>7 DEF PaperIsSo, StaysOut, Out, TearEnd
    <2> QED
      BY <2>2, <2>6, <2>7
  <1>3. CASE r.phase = "refilling"
    <2>1. r.elapsed \in 0 .. TearEnd /\ r.elapsed < Refill /\ r.fed = 0
      BY <1>0, <1>3 DEF PaperIsSo, Papers
    <2>2. (g = Refilled(on)) \/ (g = on /\ ~(now >= Refill))
      BY <1>3 DEF Phase, Done
    <2>3. now \in 0 .. TearEnd /\ now \in Nat
      BY <2>1 DEF TearEnd, Refill
    <2> HIDE DEF now
    <2>4. on \in Papers /\ on.elapsed = now /\ on.phase = r.phase /\ on.wanted = r.wanted /\ on.fed = 0
      BY <1>0, <2>1, <2>3 DEF Papers
    <2> HIDE DEF on
    <2>5. CASE g = Refilled(on)
      <3>1. PaperIsSo(g) /\ g.wanted = on.wanted /\ g.phase \in {"idle", "feeding"}
        BY <2>4, <2>5, RefilledIs
      <3> QED
        BY <1>3, <2>4, <3>1 DEF StaysOut, Out
    <2>6. CASE g = on /\ ~(now >= Refill)
      BY <1>3, <2>3, <2>4, <2>6 DEF PaperIsSo, StaysOut, Out, Refill
    <2> QED
      BY <2>2, <2>5, <2>6
  <1>4. CASE r.phase \notin {"feeding", "tearing", "refilling"}
    <2>1. g = r
      BY <1>4 DEF Phase
    <2> QED
      BY <1>4, <2>1 DEF StaysOut, Out
  <1> QED
    BY <1>1, <1>2, <1>3, <1>4

\* The phase goes on, or waits for power
LEMMA GoesIs ==
    ASSUME NEW r, PaperIsSo(r), NEW g, g = Goes(r)
    PROVE  PaperIsSo(g) /\ g.wanted = r.wanted /\ StaysOut(r, g)
  <1>1. CASE machine.powered \/ r.phase = "tearing"
    BY <1>1, PhaseIs DEF Goes
  <1>2. CASE ~(machine.powered \/ r.phase = "tearing")
    BY <1>2 DEF Goes, StaysOut
  <1> QED
    BY <1>1, <1>2

\* One frame, which with reduced motion is all that is left
LEMMA AdvanceIs ==
    ASSUME NEW r, PaperIsSo(r), NEW g, g = Advance(r)
    PROVE  PaperIsSo(g) /\ g.wanted = r.wanted /\ StaysOut(r, g)
  <1> DEFINE one == Goes(r)
             two == Goes(one)
             three == Goes(two)
  <1>1. g = one \/ g = three
    BY DEF Advance
  <1>2. PaperIsSo(one) /\ one.wanted = r.wanted /\ StaysOut(r, one)
    BY GoesIs
  <1> HIDE DEF one
  <1>3. PaperIsSo(two) /\ two.wanted = one.wanted /\ StaysOut(one, two)
    BY <1>2, GoesIs
  <1> HIDE DEF two
  <1>4. PaperIsSo(three) /\ three.wanted = two.wanted /\ StaysOut(two, three)
    BY <1>3, GoesIs
  <1> HIDE DEF three
  <1> QED
    BY <1>1, <1>2, <1>3, <1>4 DEF StaysOut

\* The dialog follows the sheet, and the paper may bring it up
LEMMA ShownIs ==
    ASSUME NEW a, NEW r, NEW m \in Printers, SheetIsAsked(a, r, m), m.engine => (r.wanted <=> a.open),
           NEW begins \in BOOLEAN, begins => r.phase \in Out /\ m.engine,
           NEW g, g = Focus(Dialog(Pulled(a, begins)))
    PROVE  SheetIsSo(g, r, m) /\ g.open = a.open
  <1> DEFINE p == Pulled(a, begins)
             d == Dialog(p)
             yes == TRUE
             no == FALSE
             paper == a.paper \/ ~a.visible
             shows == p.dialog \/ p.visible
             leaves == p.dialog /\ ~p.visible
  <1>0. a \in Sheets /\ yes \in BOOLEAN /\ no \in BOOLEAN /\ yes /\ ~no /\ paper \in BOOLEAN
    BY DEF SheetIsAsked
  <1>00. g = Focus(d)
    OBVIOUS
  <1>1. p = IF begins /\ a.open THEN [[a EXCEPT !.visible = yes] EXCEPT !.paper = paper] ELSE a
    BY <1>0 DEF Pulled, Sheets
  <1> HIDE DEF yes, paper
  <1>2. /\ p \in Sheets /\ p.open = a.open /\ p.dialog = a.dialog
        /\ IF begins /\ a.open THEN p.visible = yes /\ p.paper = paper ELSE p.visible = a.visible /\ p.paper = a.paper
    BY <1>0, <1>1 DEF Sheets
  <1>3. SheetIsAsked(p, r, m)
    BY <1>0, <1>2 DEF SheetIsAsked
  <1> HIDE DEF p
  <1>4. d = [[p EXCEPT !.dialog = shows] EXCEPT !.exit = leaves]
    BY <1>2 DEF Dialog, Sheets
  <1>5. shows \in BOOLEAN /\ leaves \in BOOLEAN /\ (leaves => shows /\ ~p.visible) /\ (p.visible => shows)
    OBVIOUS
  <1> HIDE DEF shows, leaves
  <1>6. d \in Sheets /\ d.open = p.open /\ d.visible = p.visible /\ d.paper = p.paper /\ d.dialog = shows /\ d.exit = leaves
    BY <1>2, <1>4, <1>5 DEF Sheets
  <1> HIDE DEF d
  <1>7. g = IF d.open \/ d.dialog THEN d ELSE [d EXCEPT !.focus = no]
    BY <1>00 DEF Focus
  <1> HIDE DEF no
  <1>8. g \in Sheets /\ g.open = d.open /\ g.visible = d.visible /\ g.paper = d.paper /\ g.dialog = d.dialog /\ g.exit = d.exit
    BY <1>0, <1>6, <1>7 DEF Sheets
  <1> QED
    BY <1>2, <1>3, <1>5, <1>6, <1>8 DEF SheetIsSo, SheetIsAsked

\* Every render of the console reaches the engine
LEMMA RenderedKeeps ==
    ASSUME PaperIsSo(receipt), FibersAreSo(torn, receipt), machine' \in Printers, machine'.engine = machine.engine,
           printed' \in 0 .. MaxPrinted, NEW a, SheetIsAsked(a, receipt, machine'), Rendered(a)
    PROVE  ArchiveInv' /\ LengthStays
  <1> DEFINE open == a.open
             r == Sync(receipt, open)
             was == started /\ a.open /\ machine'.powered
             begins == BeginReader(r, was, a.open, machine'.powered)
  <1>0. open \in BOOLEAN
    BY DEF SheetIsAsked, Sheets
  <1>1. CASE machine.engine
    <2>1. /\ receipt' = r /\ archive' = Focus(Dialog(Pulled(a, begins)))
          /\ IF r.phase = receipt.phase THEN UNCHANGED torn ELSE torn' = {}
      BY <1>1 DEF Rendered, Drawn, NewSheet
    <2> HIDE DEF open
    <2>2. /\ PaperIsSo(r) /\ (r.wanted <=> open)
          /\ r.phase # receipt.phase => (open /\ receipt.phase = "idle" /\ r.phase = "feeding")
                                   \/ (~open /\ receipt.phase \in Out /\ r.phase = "tearing" /\ r.elapsed = 0 /\ r.length = receipt.length)
          /\ r.phase = receipt.phase => r.elapsed = receipt.elapsed /\ r.length = receipt.length
      BY <1>0, SyncIs
    <2>3. begins \in BOOLEAN /\ (begins => r.phase \in Out)
      BY DEF BeginReader, Out
    <2> HIDE DEF r, was, begins
    <2>4. SheetIsAsked(a, r, machine')
      BY <2>2 DEF SheetIsAsked, Out, open
    <2>5. SheetIsSo(archive', r, machine')
      BY <1>1, <2>1, <2>2, <2>3, <2>4, ShownIs DEF open
    <2>6. FibersAreSo(torn', r)
      BY <2>1, <2>2 DEF FibersAreSo, CutEnd
    <2>7. LengthStays
      BY <2>1, <2>2 DEF LengthStays, Out
    <2>8. PaperIsSo(receipt') /\ FibersAreSo(torn', receipt') /\ SheetIsSo(archive', receipt', machine')
      BY <2>1, <2>2, <2>5, <2>6
    <2> QED
      BY <2>7, <2>8 DEF ArchiveInv, PaperIsSo, FibersAreSo, SheetIsSo, SheetIsAsked
  <1>2. CASE ~machine.engine
    <2> DEFINE no == FALSE
    <2>1. archive' = Focus(Dialog(a)) /\ UNCHANGED <<receipt, torn, started>>
      BY <1>2 DEF Rendered, Drawn
    <2>2. no \in BOOLEAN /\ ~no /\ Pulled(a, no) = a
      BY DEF Pulled
    <2> HIDE DEF no
    <2>3. SheetIsSo(archive', receipt, machine')
      BY <1>2, <2>1, <2>2, ShownIs
    <2>4. PaperIsSo(receipt') /\ FibersAreSo(torn', receipt') /\ SheetIsSo(archive', receipt', machine')
      BY <2>1, <2>3
    <2> QED
      BY <2>1, <2>4 DEF ArchiveInv, PaperIsSo, FibersAreSo, SheetIsSo, SheetIsAsked, LengthStays
  <1> QED
    BY <1>1, <1>2

\* The record is opened and closed, the power switched, a round printed
LEMMA RendersKeep == ArchiveInv /\ (OpenArchive \/ CloseArchive \/ PowerSwitch \/ Prints) => ArchiveInv' /\ LengthStays
  <1> SUFFICES ASSUME ArchiveInv, OpenArchive \/ CloseArchive \/ PowerSwitch \/ Prints PROVE ArchiveInv' /\ LengthStays
    OBVIOUS
  <1> DEFINE yes == TRUE
             no == FALSE
  <1>0. /\ PaperIsSo(receipt) /\ FibersAreSo(torn, receipt) /\ machine \in Printers /\ printed \in 0 .. MaxPrinted
        /\ SheetIsSo(archive, receipt, machine) /\ archive \in Sheets
    BY DEF ArchiveInv, SheetIsSo, SheetIsAsked
  <1>00. yes \in BOOLEAN /\ no \in BOOLEAN /\ yes /\ ~no
    OBVIOUS
  <1>1. CASE OpenArchive
    <2> DEFINE direct == Direct
               a == [[[archive EXCEPT !.open = yes] EXCEPT !.visible = direct] EXCEPT !.paper = no]
    <2>1. machine.powered /\ UNCHANGED <<printed, machine>> /\ Rendered(a)
      BY <1>1 DEF OpenArchive
    <2>2. direct \in BOOLEAN
      BY DEF Direct
    <2> HIDE DEF yes, no, direct
    <2>3. a \in Sheets /\ a.open = yes /\ a.visible = direct /\ a.paper = no
      BY <1>0, <1>00, <2>2 DEF Sheets
    <2> HIDE DEF a
    <2>4. SheetIsAsked(a, receipt, machine')
      BY <1>00, <2>1, <2>3 DEF SheetIsAsked
    <2> QED
      BY <1>0, <2>1, <2>4, RenderedKeeps
  <1>2. CASE CloseArchive
    <2> DEFINE a == [[[[archive EXCEPT !.open = no] EXCEPT !.visible = no] EXCEPT !.paper = no] EXCEPT !.focus = yes]
    <2>1. UNCHANGED <<printed, machine>> /\ Rendered(a)
      BY <1>2 DEF CloseArchive
    <2> HIDE DEF yes, no
    <2>3. a \in Sheets /\ a.open = no /\ a.visible = no /\ a.paper = no
      BY <1>0, <1>00 DEF Sheets
    <2> HIDE DEF a
    <2>4. SheetIsAsked(a, receipt, machine')
      BY <1>00, <2>1, <2>3 DEF SheetIsAsked
    <2> QED
      BY <1>0, <2>1, <2>4, RenderedKeeps
  <1>3. CASE PowerSwitch
    <2> DEFINE off == ~machine.powered
               shows == archive.visible /\ machine'.powered
               papers == archive.paper /\ machine'.powered
               a == [[archive EXCEPT !.visible = shows] EXCEPT !.paper = papers]
    <2>1. ~(archive.open /\ machine.powered) /\ ~archive.dialog /\ UNCHANGED printed
      BY <1>3 DEF PowerSwitch, Blocked
    <2>2. machine' = [machine EXCEPT !.powered = off] /\ off \in BOOLEAN
      BY <1>3 DEF PowerSwitch
    <2>3. Rendered(a)
      <3>1. Rendered([archive EXCEPT !.visible = @ /\ machine'.powered, !.paper = @ /\ machine'.powered])
        BY <1>3 DEF PowerSwitch
      <3>2. [archive EXCEPT !.visible = @ /\ machine'.powered, !.paper = @ /\ machine'.powered] = a
        BY <1>0 DEF Sheets
      <3> QED
        BY <3>1, <3>2
    <2> HIDE DEF off
    <2>4. machine' \in Printers /\ machine'.engine = machine.engine
      BY <1>0, <2>2 DEF Printers
    <2>5. ~archive.open /\ ~archive.visible /\ ~archive.paper
      BY <1>0, <2>1 DEF SheetIsSo, SheetIsAsked
    <2>6. ~shows /\ ~papers /\ shows \in BOOLEAN /\ papers \in BOOLEAN
      BY <2>5
    <2> HIDE DEF shows, papers
    <2>7. a \in Sheets /\ a.open = archive.open /\ a.visible = shows /\ a.paper = papers
      BY <1>0, <2>6 DEF Sheets
    <2> HIDE DEF a
    <2>8. SheetIsAsked(a, receipt, machine')
      BY <2>5, <2>6, <2>7 DEF SheetIsAsked
    <2> QED
      BY <1>0, <2>1, <2>3, <2>4, <2>8, RenderedKeeps
  <1>4. CASE Prints
    <2>1. printed < MaxPrinted /\ printed' = printed + 1 /\ UNCHANGED machine /\ Rendered(archive)
      BY <1>4 DEF Prints
    <2>2. printed' \in 0 .. MaxPrinted
      BY <1>0, <2>1, ArchiveAssumption
    <2>3. SheetIsAsked(archive, receipt, machine')
      BY <1>0, <2>1 DEF SheetIsSo
    <2> QED
      BY <1>0, <2>1, <2>2, <2>3, RenderedKeeps
  <1> QED
    BY <1>1, <1>2, <1>3, <1>4

\* A frame of the printer
LEMMA PaperFrameKeeps == ArchiveInv /\ PaperFrame => ArchiveInv' /\ LengthStays
  <1> SUFFICES ASSUME ArchiveInv, PaperFrame PROVE ArchiveInv' /\ LengthStays
    OBVIOUS
  <1> DEFINE r == Advance(receipt)
             begins == BeginReader(receipt', started, archive.open, machine.powered)
  <1>0. /\ PaperIsSo(receipt) /\ FibersAreSo(torn, receipt) /\ machine \in Printers /\ printed \in 0 .. MaxPrinted
        /\ SheetIsSo(archive, receipt, machine) /\ archive \in Sheets
    BY DEF ArchiveInv, SheetIsSo, SheetIsAsked
  <1>1. /\ machine.engine /\ receipt' = r /\ Snap(receipt') /\ archive' = Focus(Dialog(Pulled(archive, begins)))
        /\ UNCHANGED <<printed, machine>>
    BY DEF PaperFrame, Drawn
  <1>2. PaperIsSo(r) /\ r.wanted = receipt.wanted /\ StaysOut(receipt, r)
    BY <1>0, AdvanceIs
  <1> HIDE DEF r
  <1>3. begins \in BOOLEAN /\ (begins => r.phase \in Out)
    BY <1>1 DEF BeginReader, Out
  <1> HIDE DEF begins
  <1>4. SheetIsAsked(archive, r, machine) /\ (machine.engine => (r.wanted <=> archive.open))
    BY <1>0, <1>2 DEF SheetIsSo, SheetIsAsked, StaysOut
  <1>5. SheetIsSo(archive', receipt', machine')
    BY <1>0, <1>1, <1>3, <1>4, ShownIs
  <1>6. FibersAreSo(torn', r)
    <2>1. CASE r.phase # "tearing"
      BY <1>1, <2>1 DEF Snap, FibersAreSo, NewSheet
    <2>2. CASE r.phase = "tearing" /\ r.elapsed >= CutEnd
      BY <1>1, <2>2 DEF Snap, FibersAreSo
    <2>3. CASE r.phase = "tearing" /\ ~(r.elapsed >= CutEnd)
      <3>1. PICK more \in SUBSET (Fibers \ torn) : torn' = torn \union more
        BY <1>1, <2>3 DEF Snap, Overloaded, Attached
      <3> QED
        BY <1>0, <2>3, <3>1 DEF FibersAreSo
    <2> QED
      BY <2>1, <2>2, <2>3
  <1>7. LengthStays
    BY <1>1, <1>2 DEF LengthStays, StaysOut, Out
  <1>8. PaperIsSo(receipt') /\ FibersAreSo(torn', receipt')
    BY <1>1, <1>2, <1>6
  <1> QED
    BY <1>0, <1>1, <1>5, <1>7, <1>8 DEF ArchiveInv, PaperIsSo, FibersAreSo, SheetIsSo, SheetIsAsked

\* The page around the record
LEMMA AroundTheRecordKeeps == ArchiveInv /\ (Surroundings \/ DialogCloses \/ Remount) => ArchiveInv' /\ LengthStays
  <1> SUFFICES ASSUME ArchiveInv, Surroundings \/ DialogCloses \/ Remount PROVE ArchiveInv' /\ LengthStays
    OBVIOUS
  <1> DEFINE no == FALSE
  <1>0. /\ PaperIsSo(receipt) /\ FibersAreSo(torn, receipt) /\ machine \in Printers /\ printed \in 0 .. MaxPrinted
        /\ SheetIsSo(archive, receipt, machine) /\ archive \in Sheets /\ no \in BOOLEAN /\ ~no
    BY DEF ArchiveInv, SheetIsSo, SheetIsAsked
  <1>1. CASE Surroundings
    <2>1. PICK m \in [powered : {machine.powered}, reduced : BOOLEAN, portable : BOOLEAN, failed : BOOLEAN,
                      engine : {machine.engine}] : machine' = m
      BY <1>1 DEF Surroundings
    <2> DEFINE powers == {machine.powered}
               engines == {machine.engine}
    <2>2. m \in [powered : powers, reduced : BOOLEAN, portable : BOOLEAN, failed : BOOLEAN, engine : engines]
      BY <2>1
    <2>3. /\ \A b \in powers : b \in BOOLEAN /\ b = machine.powered
          /\ \A b \in engines : b \in BOOLEAN /\ b = machine.engine
      BY <1>0 DEF Printers
    <2> HIDE DEF powers, engines
    <2>4. m \in Printers /\ m.powered = machine.powered /\ m.engine = machine.engine
      BY <2>2, <2>3 DEF Printers
    <2>5. UNCHANGED <<archive, receipt, torn, started, printed>>
      BY <1>1 DEF Surroundings
    <2> QED
      BY <1>0, <2>1, <2>4, <2>5 DEF ArchiveInv, PaperIsSo, FibersAreSo, SheetIsSo, SheetIsAsked, LengthStays
  <1>2. CASE DialogCloses
    <2> DEFINE d == [[archive EXCEPT !.dialog = no] EXCEPT !.exit = no]
    <2>1. archive.exit /\ archive' = Focus(d) /\ UNCHANGED <<receipt, torn, started, printed, machine>>
      BY <1>2 DEF DialogCloses
    <2> HIDE DEF no
    <2>2. d \in Sheets /\ d.open = archive.open /\ d.visible = archive.visible /\ d.paper = archive.paper /\ d.dialog = no /\ d.exit = no
      BY <1>0 DEF Sheets
    <2> HIDE DEF d
    <2>3. archive' = IF d.open \/ d.dialog THEN d ELSE [d EXCEPT !.focus = no]
      BY <2>1 DEF Focus, no
    <2>4. /\ archive' \in Sheets /\ archive'.open = d.open /\ archive'.visible = d.visible /\ archive'.paper = d.paper
          /\ archive'.dialog = d.dialog /\ archive'.exit = d.exit
      BY <1>0, <2>2, <2>3 DEF Sheets
    <2> QED
      BY <1>0, <2>1, <2>2, <2>4 DEF ArchiveInv, PaperIsSo, FibersAreSo, SheetIsSo, SheetIsAsked, LengthStays
  <1>3. CASE Remount
    <2> DEFINE shows == archive.visible
    <2>1. archive' = [[archive EXCEPT !.dialog = shows] EXCEPT !.exit = no] /\ UNCHANGED <<receipt, torn, started, printed, machine>>
      BY <1>3 DEF Remount
    <2>2. shows \in BOOLEAN
      BY <1>0 DEF Sheets
    <2> HIDE DEF no
    <2>3. /\ archive' \in Sheets /\ archive'.open = archive.open /\ archive'.visible = archive.visible /\ archive'.paper = archive.paper
          /\ archive'.dialog = shows /\ archive'.exit = no
      BY <1>0, <2>1, <2>2 DEF Sheets
    <2> QED
      BY <1>0, <2>1, <2>3 DEF ArchiveInv, PaperIsSo, FibersAreSo, SheetIsSo, SheetIsAsked, LengthStays
  <1> QED
    BY <1>1, <1>2, <1>3

\* The record is closed, and the stock lies at its leader
LEMMA ArchiveBegins == ArchiveInit => ArchiveInv
  <1> SUFFICES ASSUME ArchiveInit PROVE ArchiveInv
    OBVIOUS
  <1>1. archive \in Sheets /\ ~archive.visible /\ ~archive.exit /\ ~archive.paper /\ ~archive.open
    BY DEF ArchiveInit, Sheets
  <1>2. PaperIsSo(receipt) /\ receipt.phase = "idle" /\ ~receipt.wanted
    BY ArchiveAssumption DEF ArchiveInit, Still, PaperIsSo, Papers, TearEnd, Feed
  <1>3. machine \in Printers
    <2> DEFINE on == {TRUE}
               off == {FALSE}
    <2>1. machine \in [powered : on, reduced : BOOLEAN, portable : BOOLEAN, failed : off, engine : BOOLEAN]
      BY DEF ArchiveInit
    <2>2. on \subseteq BOOLEAN /\ off \subseteq BOOLEAN
      OBVIOUS
    <2> HIDE DEF on, off
    <2> QED
      BY <2>1, <2>2 DEF Printers
  <1>4. printed \in 0 .. MaxPrinted /\ torn = {}
    BY ArchiveAssumption DEF ArchiveInit, NewSheet
  <1> QED
    BY <1>1, <1>2, <1>3, <1>4 DEF ArchiveInv, SheetIsSo, SheetIsAsked, FibersAreSo

\* Every step of the record keeps the invariant
LEMMA ArchiveStep == ArchiveInv /\ [ArchiveNext]_archiveVars => ArchiveInv' /\ LengthStays
  <1> SUFFICES ASSUME ArchiveInv, [ArchiveNext]_archiveVars PROVE ArchiveInv' /\ LengthStays
    OBVIOUS
  <1>1. \/ OpenArchive \/ CloseArchive \/ PowerSwitch \/ Prints \/ Surroundings
        \/ DialogCloses \/ Remount \/ PaperFrame \/ UNCHANGED archiveVars
    BY DEF ArchiveNext
  <1>2. CASE UNCHANGED archiveVars
    BY <1>2 DEF ArchiveInv, PaperIsSo, FibersAreSo, SheetIsSo, SheetIsAsked, LengthStays, archiveVars
  <1> QED
    BY ONLY ArchiveInv, <1>1, <1>2, RendersKeep, PaperFrameKeeps, AroundTheRecordKeeps

\* What the invariant says of the runs' properties
LEMMA ArchiveKept == ArchiveInv => ArchiveTypeOK /\ ReaderHasItsStock /\ FadesOnlyDetached
  <1> SUFFICES ASSUME ArchiveInv PROVE ArchiveTypeOK /\ ReaderHasItsStock /\ FadesOnlyDetached
    OBVIOUS
  <1>1. /\ PaperIsSo(receipt) /\ FibersAreSo(torn, receipt) /\ machine \in Printers /\ printed \in 0 .. MaxPrinted
        /\ SheetIsSo(archive, receipt, machine) /\ receipt \in Papers
    BY DEF ArchiveInv, PaperIsSo
  <1>2. ArchiveTypeOK
    BY <1>1 DEF ArchiveTypeOK, Papers, FibersAreSo, SheetIsSo, SheetIsAsked
  <1>3. ReaderHasItsStock
    BY <1>1 DEF ReaderHasItsStock, FibersAreSo, SheetIsSo, SheetIsAsked, Out
  <1>4. FadesOnlyDetached
    <2>1. receipt.elapsed \in 0 .. TearEnd
      BY <1>1 DEF Papers
    <2>2. Opacity(receipt) = "fading" => receipt.phase = "tearing" /\ receipt.elapsed >= CutEnd
      BY <2>1 DEF Opacity, FadeFrom, CutEnd, TearEnd
    <2> QED
      BY <1>1, <2>2 DEF FadesOnlyDetached, Attached, FibersAreSo
  <1> QED
    BY <1>2, <1>3, <1>4

-----------------------------------------------------------------------------
\* The key disk: KeyDisk

Timed == {"announcing", "arriving", "returning", "inserting", "reading", "ejecting", "settling"}
AllPhases == {"absent", "queued", "ready", "ejected", "removed", "pulling"} \cup Timed
Pulls == [origin : Loose \cup {"none"}, amount : 0 .. 2, target : None .. 2]
Seen(e) == e.shown /\ Online(e)
Since(d) == IF d.held = None THEN d.age ELSE d.held
Hands == [on : BOOLEAN, disk : KeyDisks, moved : BOOLEAN]

Whole(d) ==
    /\ d \in KeyDisks
    /\ d.id = 0 <=> d.phase = "absent"
    /\ d.phase = "settling" => d.pull.target # None
IsOut(d, out) == d.id # 0 => (out <=> OutOf(d) \/ d.phase = "ejecting")
\* What was paused is paused for a reason, and what was read or seen took its time
Counted(d, e, calm, noticed, counted) ==
    /\ d.held # None => d.phase \in {"announcing", "reading"}
    /\ d.phase = "ready" => e.powered /\ (calm \/ counted >= 1)
    /\ d.phase = "reading" => (d.held = None <=> e.powered) /\ counted >= Since(d)
    /\ d.phase = "announcing" => (d.held = None <=> Seen(e)) /\ noticed >= Since(d)

DiskInv ==
    /\ env \in Environments /\ reduced \in BOOLEAN /\ diskOut \in BOOLEAN /\ seen \in Nat /\ read \in Nat
    /\ Whole(disk) /\ disk.id = env.round
    /\ IsOut(disk, diskOut)
    /\ Counted(disk, env, reduced, seen, read)
HandInv ==
    /\ hand \in Hands /\ pressed \in BOOLEAN /\ clickDue \in BOOLEAN /\ suppress \in BOOLEAN /\ tap \in BOOLEAN
    /\ hand.disk.phase \in {"absent", "pulling"} \cup Loose
    /\ hand.on => pressed /\ Enabled(disk, env) /\ hand.disk.id # 0 /\ hand.disk.phase # "absent"
    /\ hand.moved => hand.on /\ hand.disk.phase = "pulling"
    /\ ~reduced /\ hand.moved =>
         disk.id = hand.disk.id /\ disk.phase = "pulling" /\ disk.pull = hand.disk.pull
    /\ ~(pressed /\ clickDue)
    /\ hand.on => tap \/ hand.moved
    /\ ~hand.on /\ (pressed \/ clickDue) /\ ~tap => suppress

\* The phases that have a time, and how long each of them takes
LEMMA TimeIs ==
    /\ DOMAIN Time = Timed /\ Phases = AllPhases
    /\ \A p \in Timed : Time[p] = IF p = "announcing" THEN 2 ELSE 1
  <1>1. DOMAIN Time = Timed
    BY DEF Time, Timed
  <1>2. \A p \in Timed : Time[p] = IF p = "announcing" THEN 2 ELSE 1
    BY DEF Time, Timed
  <1> QED
    BY <1>1, <1>2 DEF Phases, AllPhases

\* What a disk is made of
LEMMA DiskFields ==
    ASSUME NEW d \in KeyDisks
    PROVE  /\ d.id \in 0 .. MaxDisks /\ d.phase \in AllPhases /\ d.age \in 0 .. 2 /\ d.held \in None .. 2
           /\ d.pull \in Pulls
           /\ d = [id |-> d.id, phase |-> d.phase, age |-> d.age, held |-> d.held, pull |-> d.pull]
  BY TimeIs DEF KeyDisks, Pulls

\* A disk made of its fields
LEMMA DiskMade ==
    ASSUME NEW id \in 0 .. MaxDisks, NEW phase \in AllPhases, NEW age \in 0 .. 2, NEW held \in None .. 2, NEW p \in Pulls
    PROVE  [id |-> id, phase |-> phase, age |-> age, held |-> held, pull |-> p] \in KeyDisks
  BY TimeIs DEF KeyDisks, Pulls

\* No pull is a pull record
LEMMA NoPullOK == NoPull \in Pulls
  BY DEF NoPull, Pulls, None

\* A phase begins at its first instant, and the hold is kept
LEMMA EnteredDisk ==
    ASSUME NEW d \in KeyDisks, NEW phase \in AllPhases
    PROVE  /\ Entered(d, phase) \in KeyDisks
           /\ Entered(d, phase) = [id |-> d.id, phase |-> phase, age |-> 0, held |-> d.held, pull |-> d.pull]
  <1>1. Entered(d, phase) = [[d EXCEPT !.phase = phase] EXCEPT !.age = 0]
    BY DEF Entered
  <1>2. Entered(d, phase) = [id |-> d.id, phase |-> phase, age |-> 0, held |-> d.held, pull |-> d.pull]
    BY <1>1 DEF KeyDisks
  <1> QED
    BY <1>2, DiskFields, DiskMade

\* A disk that comes new is neither held nor pulled
LEMMA FreshDisk ==
    ASSUME NEW id \in 0 .. MaxDisks, NEW phase \in AllPhases
    PROVE  /\ Fresh(id, phase) \in KeyDisks
           /\ Fresh(id, phase) = [id |-> id, phase |-> phase, age |-> 0, held |-> None, pull |-> NoPull]
  <1>1. Fresh(id, phase) = [[EmptyKeyDisk EXCEPT !.id = id] EXCEPT !.phase = phase]
    BY DEF Fresh
  <1>2. Fresh(id, phase) = [id |-> id, phase |-> phase, age |-> 0, held |-> None, pull |-> NoPull]
    BY <1>1 DEF EmptyKeyDisk
  <1> QED
    BY <1>2, DiskMade, NoPullOK DEF None

\* The slot without a disk is of the shape of one
LEMMA EmptyDisk == EmptyKeyDisk \in KeyDisks
  <1>1. EmptyKeyDisk = [id |-> 0, phase |-> "absent", age |-> 0, held |-> None, pull |-> NoPull]
    BY DEF EmptyKeyDisk
  <1> QED
    BY <1>1, DiskMade, NoPullOK, KeyDiskAssumption DEF None, AllPhases

\* A hold keeps the age of the phase, and its end resumes there
LEMMA HeldDisk ==
    ASSUME NEW d \in KeyDisks
    PROVE  /\ Paused(d) \in KeyDisks /\ Resumed(d) \in KeyDisks
           /\ Paused(d) = [id |-> d.id, phase |-> d.phase, age |-> d.age,
                           held |-> IF d.held = None THEN d.age ELSE d.held, pull |-> d.pull]
           /\ Resumed(d) = [id |-> d.id, phase |-> d.phase, age |-> IF d.held = None THEN d.age ELSE d.held,
                            held |-> None, pull |-> d.pull]
           /\ [d EXCEPT !.held = None] = [id |-> d.id, phase |-> d.phase, age |-> d.age, held |-> None, pull |-> d.pull]
  <1>1. [d EXCEPT !.held = None] = [id |-> d.id, phase |-> d.phase, age |-> d.age, held |-> None, pull |-> d.pull]
    BY DEF KeyDisks
  <1>2. Paused(d) = [id |-> d.id, phase |-> d.phase, age |-> d.age,
                     held |-> IF d.held = None THEN d.age ELSE d.held, pull |-> d.pull]
    <2>1. CASE d.held = None
      <3>1. Paused(d) = [d EXCEPT !.held = d.age]
        BY <2>1 DEF Paused
      <3> QED
        BY <2>1, <3>1 DEF KeyDisks
    <2>2. CASE d.held # None
      BY <2>2, DiskFields DEF Paused
    <2> QED
      BY <2>1, <2>2
  <1>3. Resumed(d) = [id |-> d.id, phase |-> d.phase, age |-> IF d.held = None THEN d.age ELSE d.held,
                      held |-> None, pull |-> d.pull]
    <2>1. CASE d.held = None
      BY <2>1, DiskFields DEF Resumed
    <2>2. CASE d.held # None
      <3>1. Resumed(d) = [[d EXCEPT !.age = d.held] EXCEPT !.held = None]
        BY <2>2 DEF Resumed
      <3> QED
        BY <2>2, <3>1 DEF KeyDisks
    <2> QED
      BY <2>1, <2>2
  <1>4. (IF d.held = None THEN d.age ELSE d.held) \in 0 .. 2 /\ None \in None .. 2
    BY DiskFields DEF None
  <1>5. Paused(d) \in KeyDisks /\ Resumed(d) \in KeyDisks
    BY <1>2, <1>3, <1>4, DiskFields, DiskMade DEF None
  <1> QED
    BY <1>1, <1>2, <1>3, <1>5

\* A disk that is not this round's, and one that waits and can come, is made anew
Renewed(s, d, id, calm) ==
    /\ s.age = 0 /\ s.held = None
    /\ s.phase \in {"absent", "queued", "announcing", "ready", "arriving"}
    /\ s.phase = "ready" => calm
    /\ s.phase = "absent" <=> id = 0
    /\ d.id = id => d.phase = "queued" \/ id = 0

\* The page's round either leaves the disk alone or brings another
LEMMA SyncedDisk ==
    ASSUME NEW d \in KeyDisks, NEW id \in 0 .. MaxDisks, NEW available \in BOOLEAN, NEW calm \in BOOLEAN,
           NEW announce \in BOOLEAN
    PROVE  LET s == SyncKeyDisk(d, id, available, calm, announce) IN
           /\ s \in KeyDisks /\ s.id = id
           /\ (s = d /\ id # 0) \/ Renewed(s, d, id, calm)
  <1> DEFINE s == SyncKeyDisk(d, id, available, calm, announce)
             own == IF d.id = id THEN d ELSE Fresh(id, "queued")
             kind == IF announce THEN "announcing" ELSE IF calm THEN "ready" ELSE "arriving"
  <1>0. /\ Fresh(id, "queued") \in KeyDisks /\ Fresh(id, kind) \in KeyDisks
        /\ Fresh(id, "queued") = [id |-> id, phase |-> "queued", age |-> 0, held |-> None, pull |-> NoPull]
        /\ Fresh(id, kind) = [id |-> id, phase |-> kind, age |-> 0, held |-> None, pull |-> NoPull]
    BY FreshDisk DEF AllPhases, Timed
  <1>1. CASE id = 0
    <2>1. s = EmptyKeyDisk
      BY <1>1 DEF SyncKeyDisk
    <2> QED
      BY <1>1, <2>1, EmptyDisk DEF EmptyKeyDisk, Renewed
  <1>2. CASE id # 0 /\ own.phase = "queued" /\ available
    <2>1. s = Fresh(id, kind)
      BY <1>2 DEF SyncKeyDisk
    <2>2. d.id = id => d.phase = "queued"
      BY <1>2
    <2> HIDE DEF own, s
    <2>3. s \in KeyDisks /\ s.id = id /\ s.age = 0 /\ s.held = None /\ s.phase = kind
      BY <1>0, <2>1
    <2>4. Renewed(s, d, id, calm)
      BY <1>2, <2>2, <2>3 DEF Renewed
    <2> QED
      BY <2>3, <2>4 DEF s
  <1>3. CASE id # 0 /\ ~(own.phase = "queued" /\ available)
    <2>1. s = own
      BY <1>3 DEF SyncKeyDisk
    <2>2. CASE d.id = id
      BY <1>3, <2>1, <2>2
    <2>3. CASE d.id # id
      <3>1. s = Fresh(id, "queued")
        BY <2>1, <2>3
      <3> HIDE DEF s
      <3> QED
        BY <1>0, <1>3, <2>3, <3>1 DEF Renewed, s
    <2> QED
      BY <2>2, <2>3
  <1> QED
    BY <1>1, <1>2, <1>3

\* What the power and the view make of a disk, and what they leave as it is
Followed(f, s, power, visible) ==
    /\ f.id = s.id /\ f.pull = s.pull
    /\ \/ /\ s.phase = "ready" /\ ~power
          /\ f.phase = "reading" /\ f.age = 0 /\ f.held = 0
       \/ /\ s.phase = "reading" /\ f.phase = "reading"
          /\ power => f.held = None /\ f.age = IF s.held = None THEN s.age ELSE s.held
          /\ ~power => f.age = s.age /\ f.held = IF s.held = None THEN s.age ELSE s.held
       \/ /\ s.phase = "announcing" /\ f.phase = "announcing"
          /\ visible => f.held = None /\ f.age = IF s.held = None THEN s.age ELSE s.held
          /\ ~visible => f.age = s.age /\ f.held = IF s.held = None THEN s.age ELSE s.held
       \/ /\ s.phase \notin {"reading", "announcing"} /\ (s.phase = "ready" => power)
          /\ f.phase = s.phase /\ f.age = s.age /\ f.held = None

\* What the power and the visibility of the page make of a disk: held or resumed, its phase kept
LEMMA FollowedDisk ==
    ASSUME NEW s \in KeyDisks, NEW power \in BOOLEAN, NEW visible \in BOOLEAN
    PROVE  LET f == SyncDiskPresentation(SyncDiskPower(s, power), visible) IN
           f \in KeyDisks /\ Followed(f, s, power, visible)
  <1> DEFINE p == SyncDiskPower(s, power)
             f == SyncDiskPresentation(p, visible)
  <1>1. CASE s.phase = "announcing"
    <2>1. p = s
      BY <1>1 DEF SyncDiskPower
    <2>2. f = IF visible THEN Resumed(s) ELSE Paused(s)
      BY <1>1, <2>1 DEF SyncDiskPresentation
    <2> HIDE DEF f
    <2>3. f \in KeyDisks /\ Followed(f, s, power, visible)
      <3>1. CASE visible
        <4>1. f = [id |-> s.id, phase |-> s.phase, age |-> IF s.held = None THEN s.age ELSE s.held,
                   held |-> None, pull |-> s.pull] /\ f \in KeyDisks
          BY <2>2, <3>1, HeldDisk
        <4> QED
          BY <1>1, <3>1, <4>1 DEF Followed
      <3>2. CASE ~visible
        <4>1. f = [id |-> s.id, phase |-> s.phase, age |-> s.age,
                   held |-> IF s.held = None THEN s.age ELSE s.held, pull |-> s.pull] /\ f \in KeyDisks
          BY <2>2, <3>2, HeldDisk
        <4> QED
          BY <1>1, <3>2, <4>1 DEF Followed
      <3> QED
        BY <3>1, <3>2
    <2> QED
      BY <2>3 DEF f
  <1>2. CASE s.phase = "ready" /\ ~power
    <2> DEFINE e == Entered(s, "reading")
    <2>1. e \in KeyDisks /\ e = [id |-> s.id, phase |-> "reading", age |-> 0, held |-> s.held, pull |-> s.pull]
      BY EnteredDisk DEF AllPhases, Timed
    <2>2. p = [e EXCEPT !.held = 0]
      BY <1>2 DEF SyncDiskPower
    <2> HIDE DEF e, p
    <2>3. p = [id |-> s.id, phase |-> "reading", age |-> 0, held |-> 0, pull |-> s.pull]
      BY <2>1, <2>2
    <2>4. p \in KeyDisks
      <3>1. s.id \in 0 .. MaxDisks /\ s.pull \in Pulls
        BY DiskFields
      <3>2. "reading" \in AllPhases /\ 0 \in 0 .. 2 /\ 0 \in None .. 2
        BY DEF AllPhases, Timed, None
      <3> QED
        BY <2>3, <3>1, <3>2, DiskMade
    <2>5. f = p
      BY <2>3 DEF SyncDiskPresentation
    <2>6. Followed(p, s, power, visible)
      BY <1>2, <2>3 DEF Followed
    <2> QED
      BY <2>4, <2>5, <2>6 DEF p
  <1>3. CASE s.phase = "reading"
    <2>1. p = IF power THEN Resumed(s) ELSE Paused(s)
      BY <1>3 DEF SyncDiskPower
    <2> HIDE DEF p
    <2>2. p \in KeyDisks /\ p.phase = "reading" /\ Followed(p, s, power, visible)
      <3>1. CASE power
        <4>1. p = [id |-> s.id, phase |-> s.phase, age |-> IF s.held = None THEN s.age ELSE s.held,
                   held |-> None, pull |-> s.pull] /\ p \in KeyDisks
          BY <2>1, <3>1, HeldDisk
        <4> QED
          BY <1>3, <3>1, <4>1 DEF Followed
      <3>2. CASE ~power
        <4>1. p = [id |-> s.id, phase |-> s.phase, age |-> s.age,
                   held |-> IF s.held = None THEN s.age ELSE s.held, pull |-> s.pull] /\ p \in KeyDisks
          BY <2>1, <3>2, HeldDisk
        <4> QED
          BY <1>3, <3>2, <4>1 DEF Followed
      <3> QED
        BY <3>1, <3>2
    <2>3. f = p
      BY <2>2 DEF SyncDiskPresentation
    <2> QED
      BY <2>2, <2>3 DEF p
  <1>4. CASE s.phase \notin {"reading", "announcing"} /\ (s.phase = "ready" => power)
    <2>1. p = [s EXCEPT !.held = None]
      BY <1>4 DEF SyncDiskPower
    <2> HIDE DEF p
    <2>2. p = [id |-> s.id, phase |-> s.phase, age |-> s.age, held |-> None, pull |-> s.pull]
      BY <2>1, HeldDisk
    <2>3. p \in KeyDisks
      BY <2>2, DiskMade, DiskFields DEF None
    <2>4. f = p
      BY <1>4, <2>2 DEF SyncDiskPresentation
    <2>5. Followed(p, s, power, visible)
      BY <1>4, <2>2 DEF Followed
    <2> QED
      BY <2>3, <2>4, <2>5 DEF p
  <1> QED
    BY <1>1, <1>2, <1>3, <1>4

\* What a disk may be when the page takes it up
Earned(d) ==
    /\ Whole(d) /\ d.id = disk.id
    /\ d.phase = "ready" => reduced \/ (read >= 1 /\ disk.phase \in {"ready", "reading"})
    /\ d.phase = "reading" => d = disk \/ (d.age = 0 /\ d.held \in {None, 0})
    /\ d.phase = "announcing" => d = disk

\* Every update of the page ends in Settle, which keeps the disk's invariant
LEMMA SettleKeeps ==
    ASSUME DiskInv, NEW e \in Environments, NEW d, NEW out \in BOOLEAN, NEW h \in Hands,
           Earned(d), IsOut(d, out), Settle(e, d, out, h)
    PROVE  /\ DiskInv' /\ env' = e
           /\ hand' = IF h.on /\ ~Enabled(disk', e) THEN NoHand ELSE h
           /\ disk'.id = disk.id /\ disk.id # 0 /\ d.phase # "queued" => Followed(disk', d, e.powered, Seen(e))
           /\ disk'.id # disk.id /\ ~reduced => ~Enabled(disk', e)
  <1> DEFINE s == SyncKeyDisk(d, e.round, e.shown /\ Online(e) /\ e.loaded, reduced, e.writing)
             f == SyncDiskPresentation(SyncDiskPower(s, e.powered), e.shown /\ Online(e))
             same == f.id = disk.id
  <1>1. /\ env' = e /\ disk' = f /\ diskOut' = (out /\ s = d)
        /\ hand' = IF h.on /\ ~Enabled(f, e) THEN NoHand ELSE h
        /\ seen' = IF same /\ f.phase = "announcing" /\ disk.phase = "announcing" THEN seen ELSE 0
        /\ read' = IF same /\ {f.phase, disk.phase} \subseteq {"reading", "ready"}
                      /\ ~(disk.phase = "ready" /\ ~e.powered) THEN read ELSE 0
        /\ reduced' = reduced
    BY DEF Settle
  <1>2. /\ e.round \in 0 .. MaxDisks /\ e.powered \in BOOLEAN /\ Seen(e) \in BOOLEAN
        /\ (e.shown /\ Online(e) /\ e.loaded) \in BOOLEAN /\ e.writing \in BOOLEAN
    BY DEF Environments, Seen, Online
  <1>3. d \in KeyDisks /\ reduced \in BOOLEAN /\ disk \in KeyDisks /\ seen \in Nat /\ read \in Nat
    BY DEF Earned, Whole, DiskInv
  <1>4. s \in KeyDisks /\ s.id = e.round /\ ((s = d /\ e.round # 0) \/ Renewed(s, d, e.round, reduced))
    <2> DEFINE r == e.round
               available == e.shown /\ Online(e) /\ e.loaded
               announce == e.writing
               made == SyncKeyDisk(d, r, available, reduced, announce)
    <2>1. r \in 0 .. MaxDisks /\ available \in BOOLEAN /\ announce \in BOOLEAN
      BY <1>2
    <2>2. s = made
      OBVIOUS
    <2> HIDE DEF r, available, announce, s
    <2>3. made \in KeyDisks /\ made.id = r /\ ((made = d /\ r # 0) \/ Renewed(made, d, r, reduced))
      BY <1>3, <2>1, SyncedDisk
    <2> HIDE DEF made
    <2> QED
      BY <2>2, <2>3 DEF r
  <1> HIDE DEF s
  <1>5. f \in KeyDisks /\ Followed(f, s, e.powered, Seen(e))
    BY <1>2, <1>4, FollowedDisk DEF Seen
  <1> HIDE DEF f
  <1>6. /\ s.age \in 0 .. 2 /\ s.held \in None .. 2 /\ f.age \in 0 .. 2 /\ f.held \in None .. 2
        /\ d.age \in 0 .. 2 /\ d.held \in None .. 2
    BY <1>3, <1>4, <1>5, DiskFields
  <1>7. Whole(f) /\ f.id = e.round
    BY <1>4, <1>5 DEF Whole, Followed, Renewed, Earned
  <1>8. IsOut(f, out /\ s = d)
    <2>1. CASE s = d /\ e.round # 0
      BY <1>4, <1>5, <2>1 DEF IsOut, OutOf, Followed
    <2>2. CASE Renewed(s, d, e.round, reduced)
      BY <1>4, <1>5, <2>2 DEF IsOut, OutOf, Followed, Renewed
    <2> QED
      BY <1>4, <2>1, <2>2
  <1>9. f.held # None => f.phase \in {"announcing", "reading"}
    BY <1>5 DEF Followed
  <1>10. f.phase = "ready" => e.powered /\ (reduced \/ read' >= 1)
    <2>1. SUFFICES ASSUME f.phase = "ready", ~reduced PROVE e.powered /\ read' >= 1
      BY <1>5 DEF Followed
    <2>2. s.phase = "ready" /\ e.powered
      BY <1>5, <2>1 DEF Followed
    <2>3. s = d
      BY <1>4, <2>1, <2>2 DEF Renewed
    <2>4. read >= 1 /\ disk.phase \in {"ready", "reading"} /\ same
      BY <1>4, <1>5, <2>1, <2>2, <2>3 DEF Earned, Followed
    <2>5. read' = read
      BY <1>1, <2>1, <2>2, <2>4
    <2> QED
      BY <2>2, <2>4, <2>5
  <1>11. f.phase = "reading" => (f.held = None <=> e.powered) /\ read' >= Since(f)
    <2>1. SUFFICES ASSUME f.phase = "reading" PROVE (f.held = None <=> e.powered) /\ read' >= Since(f)
      OBVIOUS
    <2>2. f.held = None <=> e.powered
      BY <1>5, <1>6, <2>1 DEF Followed, None
    <2>3. read' \in Nat
      BY <1>1, <1>3
    <2>4. CASE s.phase = "ready"
      <3>1. Since(f) = 0
        BY <1>5, <2>1, <2>4 DEF Followed, Since, None
      <3> QED
        BY <2>2, <2>3, <3>1
    <2>5. CASE s.phase = "reading"
      <3>1. s = d /\ e.round # 0
        BY <1>4, <2>5 DEF Renewed
      <3>2. Since(f) = Since(s)
        BY <1>5, <1>6, <2>1, <2>5 DEF Followed, Since, None
      <3>3. CASE d = disk
        <4>1. read' = read
          BY <1>1, <1>4, <1>5, <2>1, <2>5, <3>1, <3>3 DEF Followed
        <4>2. read >= Since(disk)
          BY <2>5, <3>1, <3>3 DEF DiskInv, Counted
        <4> QED
          BY <2>2, <3>1, <3>2, <3>3, <4>1, <4>2
      <3>4. CASE d.age = 0 /\ d.held \in {None, 0}
        BY <2>2, <2>3, <3>1, <3>2, <3>4 DEF Since
      <3> QED
        BY <2>5, <3>1, <3>3, <3>4 DEF Earned
    <2> QED
      BY <1>5, <2>1, <2>4, <2>5 DEF Followed
  <1>12. f.phase = "announcing" => (f.held = None <=> Seen(e)) /\ seen' >= Since(f)
    <2>1. SUFFICES ASSUME f.phase = "announcing" PROVE (f.held = None <=> Seen(e)) /\ seen' >= Since(f)
      OBVIOUS
    <2>2. f.held = None <=> Seen(e)
      BY <1>5, <1>6, <2>1 DEF Followed, None
    <2>3. seen' \in Nat
      BY <1>1, <1>3
    <2>4. s.phase = "announcing" /\ Since(f) = Since(s)
      BY <1>5, <1>6, <2>1 DEF Followed, Since, None
    <2>5. CASE s = d /\ e.round # 0
      <3>1. d = disk
        BY <2>4, <2>5 DEF Earned
      <3>2. seen' = seen
        BY <1>1, <1>4, <1>5, <2>1, <2>4, <2>5, <3>1 DEF Followed
      <3>3. seen >= Since(disk)
        BY <2>4, <2>5, <3>1 DEF DiskInv, Counted
      <3> QED
        BY <2>2, <2>4, <2>5, <3>1, <3>2, <3>3
    <2>6. CASE Renewed(s, d, e.round, reduced)
      BY <2>2, <2>3, <2>4, <2>6 DEF Renewed, Since
    <2> QED
      BY <1>4, <2>5, <2>6
  <1>13. Counted(f, e, reduced, seen', read')
    BY <1>9, <1>10, <1>11, <1>12 DEF Counted
  <1>14. DiskInv'
    <2>1. seen' \in Nat /\ read' \in Nat /\ reduced' \in BOOLEAN /\ diskOut' \in BOOLEAN
      BY <1>1, <1>3
    <2>2. Whole(disk)' /\ IsOut(disk, diskOut)' /\ Counted(disk, env, reduced, seen, read)'
      BY <1>1, <1>7, <1>8, <1>13 DEF Whole, IsOut, OutOf, Counted, Seen, Online, Since
    <2> QED
      BY <1>1, <1>7, <2>1, <2>2 DEF DiskInv
  <1>15. ASSUME f.id = disk.id, disk.id # 0, d.phase # "queued" PROVE Followed(f, d, e.powered, Seen(e))
    BY <1>4, <1>5, <1>7, <1>15 DEF Renewed, Earned
  <1>16. ASSUME f.id # disk.id, ~reduced PROVE ~Enabled(f, e)
    <2>1. s.phase \in {"absent", "queued", "announcing", "arriving"}
      BY <1>4, <1>7, <1>16 DEF Renewed, Earned
    <2>2. f.phase = s.phase
      BY <1>5, <2>1 DEF Followed
    <2> QED
      BY <2>1, <2>2 DEF Enabled, Loose
  <1> QED
    BY <1>1, <1>14, <1>15, <1>16
-----------------------------------------------------------------------------

\* A phase is over when it reaches its time
LEMMA ElapsedIs ==
    ASSUME NEW d \in KeyDisks
    PROVE  /\ d.phase \in Timed => (Elapsed(d) <=> d.age >= IF d.phase = "announcing" THEN 2 ELSE 1)
           /\ d.phase \notin Timed => ~Elapsed(d)
  BY TimeIs DEF Elapsed

\* Where a disk is drawn, phase by phase
PoseOf(d) ==
    /\ d.phase \in {"absent", "queued"} => DrawnPose(d) = Nowhere
    /\ d.phase = "announcing" => DrawnPose(d) = IF Since(d) >= 2 THEN Beside ELSE CloseUp
    /\ d.phase \in {"reading", "ready"} => DrawnPose(d) = 0
    /\ d.phase = "pulling" => DrawnPose(d) = d.pull.amount
    /\ d.phase = "ejected" => DrawnPose(d) = 1
    /\ d.phase = "removed" => DrawnPose(d) = 2
    /\ d.phase = "settling" => DrawnPose(d) = IF d.age >= 1 THEN d.pull.target ELSE d.pull.amount
    /\ d.phase = "returning" => DrawnPose(d) = IF d.age >= 1 THEN 1 ELSE 2
    /\ d.phase = "arriving" => DrawnPose(d) = IF d.age >= 1 THEN 1 ELSE Beside
    /\ d.phase = "inserting" => DrawnPose(d) = IF d.age >= 1 THEN 0 ELSE 1
    /\ d.phase = "ejecting" => DrawnPose(d) = IF d.age >= 1 THEN 1 ELSE 0

\* Where a disk is drawn, phase by phase
LEMMA PoseIs == ASSUME NEW d \in KeyDisks, ~reduced PROVE PoseOf(d)
  <1>1. CASE d.phase = "announcing"
    <2> DEFINE freed == Resumed(d)
               gone == Entered(d, "arriving")
    <2>1. freed \in KeyDisks /\ freed.phase = "announcing" /\ freed.age = Since(d)
      <3>1. freed = [id |-> d.id, phase |-> d.phase, age |-> IF d.held = None THEN d.age ELSE d.held,
                     held |-> None, pull |-> d.pull] /\ freed \in KeyDisks
        BY HeldDisk
      <3> HIDE DEF freed
      <3> QED
        BY <1>1, <3>1 DEF Since
    <2>2. DrawnPose(d) = IF Elapsed(freed) /\ ~reduced THEN KeyDiskPose(gone) ELSE CloseUp
      <3>1. DrawnPose(d) = Announced(d)
        BY <1>1 DEF DrawnPose
      <3> QED
        BY <3>1 DEF Announced
    <2> HIDE DEF freed
    <2>3. gone \in KeyDisks /\ gone.phase = "arriving" /\ gone.age = 0
      <3>1. gone = [id |-> d.id, phase |-> "arriving", age |-> 0, held |-> d.held, pull |-> d.pull]
            /\ gone \in KeyDisks
        BY <2>1, EnteredDisk DEF AllPhases, Timed
      <3> HIDE DEF gone
      <3> QED
        BY <3>1
    <2> HIDE DEF gone
    <2>4. Elapsed(freed) <=> Since(d) >= 2
      BY <2>1, ElapsedIs DEF Timed
    <2>5. ~Elapsed(gone)
      BY <2>3, ElapsedIs DEF Timed
    <2>6. KeyDiskPose(gone) = Beside
      BY <2>3, <2>5 DEF KeyDiskPose
    <2> QED
      BY <1>1, <2>2, <2>4, <2>6 DEF PoseOf
  <1>2. CASE d.phase # "announcing" /\ d.phase \in Timed
    <2>1. DrawnPose(d) = KeyDiskPose(d)
      BY <1>2 DEF DrawnPose
    <2>2. Elapsed(d) <=> d.age >= 1
      BY <1>2, ElapsedIs
    <2> QED
      BY <1>2, <2>1, <2>2 DEF PoseOf, KeyDiskPose, InsertPose, EjectPose, Timed
  <1>3. CASE d.phase \notin Timed
    <2>1. DrawnPose(d) = KeyDiskPose(d)
      BY <1>3 DEF DrawnPose, Timed
    <2>2. d.phase \in {"absent", "queued", "ready", "ejected", "removed", "pulling"}
      BY <1>3, DiskFields DEF AllPhases
    <2> QED
      BY <2>1, <2>2 DEF PoseOf, KeyDiskPose
  <1> QED
    BY <1>1, <1>2, <1>3

\* A hold and its end leave the disk where it is drawn
LEMMA FollowedPose ==
    ASSUME NEW s \in KeyDisks, NEW f \in KeyDisks, NEW power \in BOOLEAN, NEW visible \in BOOLEAN,
           ~reduced, Followed(f, s, power, visible)
    PROVE  DrawnPose(f) = DrawnPose(s)
  <1>1. PoseOf(f) /\ PoseOf(s)
    BY PoseIs
  <1>2. s.phase \in AllPhases /\ s.age \in 0 .. 2 /\ s.held \in None .. 2
    BY DiskFields
  <1>3. CASE s.phase = "announcing"
    <2>1. f.phase = "announcing" /\ Since(f) = Since(s)
      BY <1>2, <1>3 DEF Followed, Since, None
    <2> QED
      BY <1>1, <1>3, <2>1 DEF PoseOf
  <1>4. CASE s.phase \in {"reading", "ready"}
    <2>1. f.phase \in {"reading", "ready"}
      BY <1>4 DEF Followed
    <2> QED
      BY <1>1, <1>4, <2>1 DEF PoseOf
  <1>5. CASE s.phase \notin {"announcing", "reading", "ready"}
    <2>1. f.phase = s.phase /\ f.age = s.age /\ f.pull = s.pull
      BY <1>5 DEF Followed
    <2> QED
      BY <1>1, <1>2, <1>5, <2>1 DEF PoseOf, AllPhases, Timed
  <1> QED
    BY <1>3, <1>4, <1>5

\* What a step may do to the disk that is drawn, and to the notice
StaysPut ==
    ~reduced /\ disk'.id = disk.id /\ DrawnPose(disk) # Nowhere =>
      \/ DrawnPose(disk') = DrawnPose(disk)
      \/ disk'.phase = "pulling"
      \/ disk'.phase = disk.phase /\ disk'.age = disk.age + 1
Noticed ==
    disk.phase = "announcing" /\ disk'.phase \in {"arriving", "ready"} /\ disk'.id = disk.id
      => seen >= Time["announcing"]

\* Settle moves a disk that is seen no further than the hand or its own movement did
LEMMA SettleSteady ==
    ASSUME DiskInv, NEW e \in Environments, NEW d, NEW out \in BOOLEAN, NEW h \in Hands,
           Earned(d), IsOut(d, out), Settle(e, d, out, h),
           ~reduced => \/ DrawnPose(d) = DrawnPose(disk)
                       \/ d.phase = "pulling",
           disk.phase = "announcing" /\ d # disk => seen >= 2
    PROVE  StaysPut /\ Noticed
  <1>1. /\ DiskInv' /\ disk' \in KeyDisks /\ d \in KeyDisks /\ disk \in KeyDisks
        /\ e.powered \in BOOLEAN /\ Seen(e) \in BOOLEAN
    BY SettleKeeps DEF DiskInv, Whole, Earned, Environments, Seen, Online
  <1>2. disk'.id = disk.id /\ disk.id # 0 /\ d.phase # "queued" => Followed(disk', d, e.powered, Seen(e))
    BY SettleKeeps
  <1>3. ASSUME ~reduced, disk'.id = disk.id, DrawnPose(disk) # Nowhere
        PROVE  DrawnPose(disk') = DrawnPose(disk) \/ disk'.phase = "pulling"
    <2>1. PoseOf(disk) /\ PoseOf(d)
      BY <1>1, <1>3, PoseIs
    <2>2. disk.id # 0 /\ d.phase # "queued"
      BY <1>3, <2>1 DEF PoseOf, DiskInv, Whole
    <2>3. Followed(disk', d, e.powered, Seen(e))
      BY <1>2, <1>3, <2>2
    <2>4. CASE d.phase = "pulling"
      BY <2>3, <2>4 DEF Followed
    <2>5. CASE DrawnPose(d) = DrawnPose(disk)
      BY <1>1, <1>3, <2>3, <2>5, FollowedPose
    <2> QED
      BY <1>3, <2>4, <2>5
  <1>4. ASSUME disk.phase = "announcing", disk'.phase \in {"arriving", "ready"}, disk'.id = disk.id
        PROVE  seen >= 2
    <2>1. CASE d = disk
      <3>1. disk.id # 0
        BY <1>4 DEF DiskInv, Whole
      <3>2. Followed(disk', d, e.powered, Seen(e))
        BY <1>2, <1>4, <2>1, <3>1
      <3> QED
        BY <1>4, <2>1, <3>2 DEF Followed
    <2> QED
      BY <1>4, <2>1
  <1>5. Time["announcing"] = 2
    BY TimeIs DEF Timed
  <1> QED
    BY <1>3, <1>4, <1>5 DEF StaysPut, Noticed
-----------------------------------------------------------------------------
\* What the hand, the keys and the timer make of a disk

\* The phase a pulled disk comes to rest in
LEMMA RestingIs ==
    ASSUME NEW target \in 0 .. 2
    PROVE  Resting(target) = IF target = 2 THEN "removed" ELSE IF target = 1 THEN "ejected" ELSE "reading"
  BY DEF Resting

Anew(a, d, phase) == a.id = d.id /\ a.phase = phase /\ a.age = 0

\* What a press makes of a disk: it ejects, is inserted, or returns
LEMMA ActedDisk ==
    ASSUME NEW d \in KeyDisks, NEW eject \in BOOLEAN, NEW calm \in BOOLEAN
    PROVE  LET a == ActKeyDisk(d, eject, calm) IN
           a = d \/ (/\ a \in KeyDisks
                     /\ \/ d.phase \in {"ready", "reading"} /\ Anew(a, d, IF calm THEN "ejected" ELSE "ejecting")
                        \/ d.phase = "ejected" /\ Anew(a, d, IF calm THEN "ready" ELSE "inserting")
                        \/ d.phase = "removed" /\ Anew(a, d, IF calm THEN "ready" ELSE "returning"))
  <1> DEFINE a == ActKeyDisk(d, eject, calm)
  <1>0. \A phase \in AllPhases : Entered(d, phase) \in KeyDisks /\ Anew(Entered(d, phase), d, phase)
    <2>1. SUFFICES ASSUME NEW phase \in AllPhases
                   PROVE  Entered(d, phase) \in KeyDisks /\ Anew(Entered(d, phase), d, phase)
      OBVIOUS
    <2> DEFINE n == Entered(d, phase)
    <2>2. n \in KeyDisks /\ n = [id |-> d.id, phase |-> phase, age |-> 0, held |-> d.held, pull |-> d.pull]
      BY EnteredDisk
    <2> HIDE DEF n
    <2>3. n \in KeyDisks /\ Anew(n, d, phase)
      BY <2>2 DEF Anew
    <2> QED
      BY <2>3 DEF n
  <1>1. CASE eject /\ d.phase \in {"ready", "reading"}
    <2>1. a = Entered(d, IF calm THEN "ejected" ELSE "ejecting")
      BY <1>1 DEF ActKeyDisk
    <2> HIDE DEF a
    <2>2. a \in KeyDisks /\ Anew(a, d, IF calm THEN "ejected" ELSE "ejecting")
      BY <1>0, <2>1 DEF AllPhases, Timed
    <2> QED
      BY <1>1, <2>2 DEF a
  <1>2. CASE ~eject /\ d.phase = "ejected"
    <2>1. a = Entered(d, IF calm THEN "ready" ELSE "inserting")
      BY <1>2 DEF ActKeyDisk
    <2> HIDE DEF a
    <2>2. a \in KeyDisks /\ Anew(a, d, IF calm THEN "ready" ELSE "inserting")
      BY <1>0, <2>1 DEF AllPhases, Timed
    <2> QED
      BY <1>2, <2>2 DEF a
  <1>3. CASE ~eject /\ d.phase = "removed"
    <2>1. a = Entered(d, IF calm THEN "ready" ELSE "returning")
      BY <1>3 DEF ActKeyDisk
    <2> HIDE DEF a
    <2>2. a \in KeyDisks /\ Anew(a, d, IF calm THEN "ready" ELSE "returning")
      BY <1>0, <2>1 DEF AllPhases, Timed
    <2> QED
      BY <1>3, <2>2 DEF a
  <1>4. CASE ~(eject /\ d.phase \in {"ready", "reading"}) /\ ~(~eject /\ d.phase = "ejected")
             /\ ~(~eject /\ d.phase = "removed")
    BY <1>4 DEF ActKeyDisk
  <1> QED
    BY <1>1, <1>2, <1>3, <1>4

\* A pulled disk follows the hand
LEMMA PulledDisk ==
    ASSUME NEW d \in KeyDisks, NEW amount \in 0 .. 2, d.phase \in Loose \cup {"pulling"}
    PROVE  LET p == PullKeyDisk(d, amount) IN
           p \in KeyDisks /\ p.id = d.id /\ p.phase = "pulling" /\ p.pull.amount = amount
  <1> DEFINE p == PullKeyDisk(d, amount)
  <1>0. /\ d.id \in 0 .. MaxDisks /\ d.age \in 0 .. 2 /\ d.held \in None .. 2
        /\ d.pull \in Pulls /\ 0 \in 0 .. 2 /\ "pulling" \in AllPhases
    BY DiskFields DEF AllPhases
  <1>1. CASE d.phase = "pulling"
    <2> DEFINE drawn == [d.pull EXCEPT !.amount = amount]
    <2>1. drawn \in Pulls /\ drawn.amount = amount
      BY <1>0 DEF Pulls
    <2>2. p = [d EXCEPT !.pull.amount = amount]
      BY <1>1 DEF PullKeyDisk, Loose
    <2>3. p = [id |-> d.id, phase |-> d.phase, age |-> d.age, held |-> d.held, pull |-> drawn]
      BY <2>2 DEF KeyDisks
    <2> HIDE DEF p, drawn
    <2>4. p \in KeyDisks
      BY <1>0, <1>1, <2>1, <2>3, DiskMade
    <2>5. p.id = d.id /\ p.phase = "pulling" /\ p.pull.amount = amount
      BY <1>1, <2>1, <2>3
    <2> QED
      BY <2>4, <2>5 DEF p
  <1>2. CASE d.phase \in Loose
    <2> DEFINE n == Entered(d, "pulling")
               drawn == [origin |-> d.phase, amount |-> amount, target |-> None]
    <2>1. n = [id |-> d.id, phase |-> "pulling", age |-> 0, held |-> d.held, pull |-> d.pull]
      BY <1>0, EnteredDisk
    <2>2. p = [n EXCEPT !.pull = drawn]
      BY <1>2 DEF PullKeyDisk, Loose
    <2>3. drawn \in Pulls /\ drawn.amount = amount
      BY <1>2 DEF Pulls, None
    <2> HIDE DEF n, p, drawn
    <2>4. p = [id |-> d.id, phase |-> "pulling", age |-> 0, held |-> d.held, pull |-> drawn]
      BY <2>1, <2>2
    <2>5. p \in KeyDisks
      BY <1>0, <2>3, <2>4, DiskMade
    <2>6. p.id = d.id /\ p.phase = "pulling" /\ p.pull.amount = amount
      BY <2>3, <2>4
    <2> QED
      BY <2>5, <2>6 DEF p
  <1> QED
    BY <1>1, <1>2

\* A disk that is let go settles where the hand left it, or at once
LEMMA ReleasedDisk ==
    ASSUME NEW d \in KeyDisks, NEW cancelled \in BOOLEAN, NEW calm \in BOOLEAN, d.phase = "pulling"
    PROVE  LET a == ReleaseKeyDisk(d, cancelled, calm) IN
           /\ a \in KeyDisks /\ a.id = d.id /\ a.age = 0
           /\ \/ calm /\ a.phase \in {"reading", "ejected", "removed"} /\ a.held = None
              \/ ~calm /\ a.phase = "settling" /\ a.pull.target # None /\ a.pull.amount = d.pull.amount
  <1> DEFINE a == ReleaseKeyDisk(d, cancelled, calm)
             target == IF ~cancelled THEN d.pull.amount
                       ELSE CASE d.pull.origin = "removed" -> 2 [] d.pull.origin = "ejected" -> 1 [] OTHER -> 0
  <1>0. /\ d.id \in 0 .. MaxDisks /\ d.held \in None .. 2 /\ d.pull \in Pulls /\ 0 \in 0 .. 2
        /\ {"settling", "reading", "ejected", "removed"} \subseteq AllPhases
    BY DiskFields DEF AllPhases, Timed
  <1>1. target \in 0 .. 2
    BY <1>0 DEF Pulls
  <1>2. a = IF calm THEN Fresh(d.id, Resting(target)) ELSE [Entered(d, "settling") EXCEPT !.pull.target = target]
    BY DEF ReleaseKeyDisk
  <1> HIDE DEF target, a
  <1>3. CASE calm
    <2> DEFINE phase == Resting(target)
    <2>1. phase \in {"reading", "ejected", "removed"}
      BY <1>1, RestingIs
    <2>2. a = Fresh(d.id, phase)
      BY <1>2, <1>3
    <2> HIDE DEF phase
    <2>3. a \in KeyDisks /\ a = [id |-> d.id, phase |-> phase, age |-> 0, held |-> None, pull |-> NoPull]
      BY <1>0, <2>1, <2>2, FreshDisk
    <2>4. a.id = d.id /\ a.age = 0 /\ a.phase \in {"reading", "ejected", "removed"} /\ a.held = None
      BY <2>1, <2>3
    <2> QED
      BY <1>3, <2>3, <2>4 DEF a
  <1>4. CASE ~calm
    <2> DEFINE n == Entered(d, "settling")
               drawn == [d.pull EXCEPT !.target = target]
    <2>1. n \in KeyDisks /\ n = [id |-> d.id, phase |-> "settling", age |-> 0, held |-> d.held, pull |-> d.pull]
      BY <1>0, EnteredDisk
    <2>2. a = [n EXCEPT !.pull.target = target]
      BY <1>2, <1>4
    <2>3. drawn \in Pulls /\ drawn.amount = d.pull.amount /\ drawn.target # None
      BY <1>0, <1>1 DEF Pulls, None
    <2>4. d.pull = n.pull
      BY <2>1
    <2>5. a = [id |-> n.id, phase |-> n.phase, age |-> n.age, held |-> n.held, pull |-> [n.pull EXCEPT !.target = target]]
      BY <2>1, <2>2 DEF KeyDisks
    <2> HIDE DEF n
    <2>6. a = [id |-> d.id, phase |-> "settling", age |-> 0, held |-> d.held, pull |-> drawn]
      BY <2>1, <2>4, <2>5
    <2> HIDE DEF drawn
    <2>7. a \in KeyDisks
      BY <1>0, <2>3, <2>6, DiskMade
    <2>8. /\ a.id = d.id /\ a.age = 0 /\ a.phase = "settling"
          /\ a.pull.target # None /\ a.pull.amount = d.pull.amount
      BY <2>3, <2>6
    <2> QED
      BY <1>4, <2>7, <2>8 DEF a
  <1> QED
    BY <1>3, <1>4

\* What the end of a phase makes of a disk
LEMMA AdvancedDisk ==
    ASSUME NEW d \in KeyDisks, NEW calm \in BOOLEAN, d.phase \in Timed, d.held = None,
           (calm /\ d.phase # "announcing") \/ d.age >= Time[d.phase],
           d.phase = "settling" => d.pull.target # None
    PROVE  LET a == AdvanceKeyDisk(d, calm) IN
           /\ a \in KeyDisks /\ a.id = d.id /\ a.age = 0 /\ a.held = None
           /\ \/ d.phase = "announcing" /\ d.age >= 2 /\ a.phase = IF calm THEN "ready" ELSE "arriving"
              \/ /\ d.phase = "settling" /\ (calm \/ d.age >= 1)
                 /\ a.phase = IF d.pull.target = 2 THEN "removed" ELSE IF d.pull.target = 1 THEN "ejected" ELSE "reading"
              \/ d.phase = "ejecting" /\ (calm \/ d.age >= 1) /\ a.phase = "ejected"
              \/ d.phase = "reading" /\ (calm \/ d.age >= 1) /\ a.phase = "ready"
              \/ d.phase \in {"arriving", "returning"} /\ (calm \/ d.age >= 1)
                 /\ a.phase = IF calm THEN "ready" ELSE "inserting"
              \/ d.phase = "inserting" /\ (calm \/ d.age >= 1) /\ a.phase = IF calm THEN "ready" ELSE "reading"
  <1> DEFINE a == AdvanceKeyDisk(d, calm)
             over == d.phase \in DOMAIN Time /\ d.age >= Time[d.phase]
  <1>0. \A phase \in AllPhases : LET n == Entered(d, phase) IN
             n \in KeyDisks /\ n.id = d.id /\ n.age = 0 /\ n.held = None /\ n.phase = phase
    <2>1. SUFFICES ASSUME NEW phase \in AllPhases
                   PROVE  LET n == Entered(d, phase) IN
                          n \in KeyDisks /\ n.id = d.id /\ n.age = 0 /\ n.held = None /\ n.phase = phase
      OBVIOUS
    <2> DEFINE n == Entered(d, phase)
    <2>2. n \in KeyDisks /\ n = [id |-> d.id, phase |-> phase, age |-> 0, held |-> d.held, pull |-> d.pull]
      BY EnteredDisk
    <2> HIDE DEF n
    <2>3. n \in KeyDisks /\ n.id = d.id /\ n.age = 0 /\ n.held = None /\ n.phase = phase
      BY <2>2
    <2> QED
      BY <2>3 DEF n
  <1>1. over <=> d.age >= IF d.phase = "announcing" THEN 2 ELSE 1
    BY TimeIs
  <1>2. d.phase \in DOMAIN Time
    BY TimeIs
  <1>3. (calm /\ d.phase # "announcing") \/ over
    BY <1>2
  <1> HIDE DEF over
  <1>4. a = IF d.phase = "announcing"
            THEN IF over THEN Entered(d, IF calm THEN "ready" ELSE "arriving") ELSE d
            ELSE IF ~calm /\ ~over THEN d
            ELSE IF d.phase = "settling" THEN Fresh(d.id, Resting(d.pull.target))
            ELSE IF d.phase = "ejecting" THEN Entered(d, "ejected")
            ELSE IF calm \/ d.phase = "reading" THEN Entered(d, "ready")
            ELSE Entered(d, IF d.phase \in {"arriving", "returning"} THEN "inserting" ELSE "reading")
    BY <1>2 DEF AdvanceKeyDisk, over
  <1> HIDE DEF a
  <1>5. {"ready", "arriving", "ejected", "inserting", "reading", "removed"} \subseteq AllPhases
    BY DEF AllPhases, Timed
  <1>6. CASE d.phase = "announcing"
    <2>1. over /\ d.age >= 2
      BY <1>1, <1>3, <1>6
    <2>2. a = Entered(d, IF calm THEN "ready" ELSE "arriving")
      BY <1>4, <1>6, <2>1
    <2>3. a \in KeyDisks /\ a.id = d.id /\ a.age = 0 /\ a.held = None /\ a.phase = IF calm THEN "ready" ELSE "arriving"
      BY <1>0, <1>5, <2>2
    <2> QED
      BY <1>6, <2>1, <2>3 DEF a
  <1>7. CASE d.phase = "settling"
    <2> DEFINE phase == Resting(d.pull.target)
    <2>1. d.pull.target \in 0 .. 2
      BY <1>7, DiskFields DEF Pulls, None
    <2>2. phase = IF d.pull.target = 2 THEN "removed" ELSE IF d.pull.target = 1 THEN "ejected" ELSE "reading"
      BY <2>1, RestingIs
    <2>3. a = Fresh(d.id, phase)
      BY <1>3, <1>4, <1>7
    <2> HIDE DEF phase
    <2>4. phase \in AllPhases /\ d.id \in 0 .. MaxDisks
      BY <1>5, <2>2, DiskFields
    <2>5. a \in KeyDisks /\ a = [id |-> d.id, phase |-> phase, age |-> 0, held |-> None, pull |-> NoPull]
      BY <2>3, <2>4, FreshDisk
    <2>6. a.id = d.id /\ a.age = 0 /\ a.held = None /\ a.phase = phase
      BY <2>5
    <2>7. calm \/ d.age >= 1
      BY <1>1, <1>3, <1>7
    <2> QED
      BY <1>7, <2>2, <2>5, <2>6, <2>7 DEF a
  <1>8. CASE d.phase \in {"ejecting", "reading", "arriving", "returning", "inserting"}
    <2>1. calm \/ d.age >= 1
      BY <1>1, <1>3, <1>8
    <2>2. a = IF d.phase = "ejecting" THEN Entered(d, "ejected")
              ELSE IF calm \/ d.phase = "reading" THEN Entered(d, "ready")
              ELSE Entered(d, IF d.phase \in {"arriving", "returning"} THEN "inserting" ELSE "reading")
      BY <1>3, <1>4, <1>8
    <2> DEFINE phase == IF d.phase = "ejecting" THEN "ejected" ELSE IF calm \/ d.phase = "reading" THEN "ready"
                        ELSE IF d.phase \in {"arriving", "returning"} THEN "inserting" ELSE "reading"
    <2>3. a = Entered(d, phase) /\ phase \in AllPhases
      BY <1>5, <2>2
    <2>4. a \in KeyDisks /\ a.id = d.id /\ a.age = 0 /\ a.held = None /\ a.phase = phase
      <3> HIDE DEF phase
      <3> QED
        BY <1>0, <2>3
    <2> QED
      BY <1>8, <2>1, <2>4 DEF a
  <1> QED
    BY <1>6, <1>7, <1>8 DEF Timed

-----------------------------------------------------------------------------

\* No hand holds a disk
LEMMA NoHandIs == NoHand \in Hands /\ ~NoHand.on /\ ~NoHand.moved /\ NoHand.disk.phase = "absent"
  <1>1. NoHand = [on |-> FALSE, disk |-> EmptyKeyDisk, moved |-> FALSE] /\ EmptyKeyDisk.phase = "absent"
    BY DEF NoHand, EmptyKeyDisk
  <1> QED
    BY <1>1, EmptyDisk DEF Hands

\* A hand that may hold what becomes of d: it is pressed, and not gone
Holds(h, d, plain) ==
    /\ h \in Hands /\ plain \in BOOLEAN
    /\ h.disk.phase \in {"absent", "pulling"} \cup Loose
    /\ h.on => pressed /\ h.disk.id # 0 /\ h.disk.phase # "absent"
    /\ h.moved => h.on /\ h.disk.phase = "pulling"
    /\ ~reduced /\ h.moved => d.id = h.disk.id /\ d.phase = "pulling" /\ d.pull = h.disk.pull
    /\ h.on => plain \/ h.moved
    /\ ~h.on /\ (pressed \/ clickDue) /\ ~plain => suppress

\* The hand's invariant through Settle: what it holds is the disk that was pressed
LEMMA HandKeeps ==
    ASSUME DiskInv, HandInv, NEW e \in Environments, NEW d, NEW out \in BOOLEAN, NEW h, NEW plain,
           Earned(d), IsOut(d, out), Settle(e, d, out, h), Holds(h, d, plain), Pressing(h, suppress, plain),
           pressed' = pressed, clickDue' \in BOOLEAN, clickDue' => clickDue
    PROVE  HandInv'
  <1>0. h \in Hands /\ e.powered \in BOOLEAN /\ Seen(e) \in BOOLEAN
    BY DEF Holds, Environments, Seen, Online
  <1>1. /\ DiskInv' /\ env' = e /\ reduced' = reduced
        /\ hand' = IF h.on /\ ~Enabled(disk', e) THEN NoHand ELSE h
        /\ disk'.id = disk.id /\ disk.id # 0 /\ d.phase # "queued" => Followed(disk', d, e.powered, Seen(e))
        /\ disk'.id # disk.id /\ ~reduced => ~Enabled(disk', e)
    BY <1>0, SettleKeeps DEF Settle
  <1>2. suppress' = (suppress \/ (h.on /\ ~hand'.on)) /\ tap' = (plain /\ ~(h.on /\ ~hand'.on))
    BY DEF Pressing
  <1>3. CASE h.on /\ ~Enabled(disk', e)
    <2>1. hand' = NoHand
      BY <1>1, <1>3
    <2> QED
      BY <1>1, <1>2, <1>3, <2>1, NoHandIs DEF HandInv, Holds
  <1>4. CASE ~(h.on /\ ~Enabled(disk', e))
    <2>1. hand' = h
      BY <1>1, <1>4
    <2>2. suppress' = suppress /\ tap' = plain
      BY <1>0, <1>2, <2>1 DEF Holds, Hands, HandInv
    <2>3. ASSUME ~reduced, h.moved
          PROVE  disk'.id = h.disk.id /\ disk'.phase = "pulling" /\ disk'.pull = h.disk.pull
      <3>1. h.on /\ d.phase = "pulling" /\ d.pull = h.disk.pull /\ d.id = h.disk.id /\ d.id # 0
        BY <2>3 DEF Holds
      <3>2. Enabled(disk', e)
        BY <1>4, <3>1
      <3>3. disk'.id = disk.id /\ disk.id = d.id
        BY <1>1, <2>3, <3>2 DEF Earned
      <3>4. Followed(disk', d, e.powered, Seen(e))
        BY <1>1, <3>1, <3>3
      <3> QED
        BY <3>1, <3>3, <3>4 DEF Followed
    <2>4. Enabled(disk, env)' <=> Enabled(disk', e)
      BY <1>1 DEF Enabled
    <2>5. h.on => Enabled(disk, env)'
      BY <1>4, <2>4
    <2>6. ~(pressed /\ clickDue)'
      BY DEF HandInv
    <2>7. (~hand.on /\ (pressed \/ clickDue) /\ ~tap => suppress)'
      BY <2>1, <2>2 DEF Holds
    <2> QED
      BY <1>0, <1>1, <2>1, <2>2, <2>3, <2>5, <2>6, <2>7 DEF HandInv, Holds
  <1> QED
    BY <1>3, <1>4

-----------------------------------------------------------------------------
\* The actions

\* The disk as it is satisfies what Settle asks of one
LEMMA OwnDisk ==
    ASSUME DiskInv
    PROVE  Earned(disk) /\ IsOut(disk, diskOut) /\ disk \in KeyDisks /\ env \in Environments
  BY DEF DiskInv, Earned, Counted, Whole

\* The page around the disk changes: round, power, link, visibility
LEMMA AroundKeeps ==
    ASSUME DiskInv, HandInv, NEW e \in Environments, Around(e)
    PROVE  DiskInv' /\ HandInv' /\ StaysPut /\ Noticed
  <1>1. Settle(e, disk, diskOut, hand) /\ Pressing(hand, suppress, tap) /\ pressed' = pressed /\ clickDue' = clickDue
    BY DEF Around
  <1>2. Holds(hand, disk, tap) /\ hand \in Hands /\ clickDue' \in BOOLEAN /\ diskOut \in BOOLEAN
    BY <1>1 DEF HandInv, Holds, DiskInv
  <1>3. DiskInv'
    BY <1>1, <1>2, OwnDisk, SettleKeeps
  <1>4. HandInv'
    BY <1>1, <1>2, OwnDisk, HandKeeps
  <1>5. StaysPut /\ Noticed
    BY <1>1, <1>2, OwnDisk, SettleSteady
  <1> QED
    BY <1>3, <1>4, <1>5

\* A disk that is left alone stays put
LEMMA RestIsSteady == UNCHANGED <<disk, reduced>> => StaysPut /\ Noticed
  BY DEF StaysPut, Noticed

\* The gesture ends, by the pointer or taken back
LEMMA FinishKeeps ==
    ASSUME DiskInv, HandInv, NEW cancelled \in BOOLEAN, NEW e \in Environments, FinishDrag(cancelled, e)
    PROVE  /\ DiskInv' /\ StaysPut /\ Noticed
           /\ hand' = NoHand /\ hand.on /\ (~tap' => suppress') /\ tap' \in BOOLEAN /\ suppress' \in BOOLEAN
           /\ reduced' = reduced
  <1> DEFINE own == hand.moved /\ hand.disk.id = disk.id /\ disk.id = env.round
             left == ReleaseKeyDisk(hand.disk, cancelled, reduced)
  <1>1. /\ hand.on
        /\ own => Settle(e, left, OutOf(left), NoHand)
        /\ ~own => Settle(e, disk, diskOut, NoHand)
        /\ suppress' = (hand.moved \/ cancelled)
        /\ tap' = (tap /\ ~cancelled)
    BY DEF FinishDrag
  <1>2. hand.disk \in KeyDisks /\ hand.moved \in BOOLEAN /\ tap \in BOOLEAN /\ reduced \in BOOLEAN /\ diskOut \in BOOLEAN
    BY DEF HandInv, Hands, DiskInv
  <1>3. (~tap' => suppress') /\ tap' \in BOOLEAN /\ suppress' \in BOOLEAN
    BY <1>1, <1>2 DEF HandInv
  <1>4. hand.on /\ disk.phase # "announcing"
    BY <1>1 DEF HandInv, Enabled, Loose
  <1>5. CASE own
    <2>1. hand.disk.phase = "pulling" /\ disk.id # 0
      BY <1>4, <1>5 DEF HandInv
    <2>2. /\ left \in KeyDisks /\ left.id = hand.disk.id /\ left.age = 0
          /\ \/ reduced /\ left.phase \in {"reading", "ejected", "removed"} /\ left.held = None
             \/ ~reduced /\ left.phase = "settling" /\ left.pull.target # None
                /\ left.pull.amount = hand.disk.pull.amount
      BY <1>2, <2>1, ReleasedDisk
    <2> HIDE DEF left
    <2>3. Earned(left)
      BY <1>5, <2>1, <2>2 DEF Earned, Whole
    <2>4. IsOut(left, OutOf(left)) /\ OutOf(left) \in BOOLEAN
      BY <2>2 DEF IsOut, OutOf
    <2>5. Settle(e, left, OutOf(left), NoHand)
      BY <1>1, <1>5 DEF left
    <2>6. /\ DiskInv'
          /\ hand' = IF NoHand.on /\ ~Enabled(disk', e) THEN NoHand ELSE NoHand
      BY <2>3, <2>4, <2>5, NoHandIs, SettleKeeps
    <2>7. ASSUME ~reduced PROVE DrawnPose(left) = DrawnPose(disk)
      <3>1. disk.phase = "pulling" /\ disk.pull = hand.disk.pull
        BY <1>5, <2>7 DEF HandInv
      <3>2. PoseOf(left) /\ PoseOf(disk)
        BY <2>2, <2>7, OwnDisk, PoseIs
      <3> QED
        BY <2>2, <2>7, <3>1, <3>2 DEF PoseOf
    <2>8. StaysPut /\ Noticed
      BY <1>4, <2>3, <2>4, <2>5, <2>7, NoHandIs, SettleSteady
    <2> QED
      BY <1>1, <1>3, <2>5, <2>6, <2>8 DEF Settle
  <1>6. CASE ~own
    <2>1. Settle(e, disk, diskOut, NoHand)
      BY <1>1, <1>6
    <2>2. /\ DiskInv'
          /\ hand' = IF NoHand.on /\ ~Enabled(disk', e) THEN NoHand ELSE NoHand
      BY <1>2, <2>1, OwnDisk, NoHandIs, SettleKeeps
    <2>3. StaysPut /\ Noticed
      BY <1>2, <2>1, OwnDisk, NoHandIs, SettleSteady
    <2> QED
      BY <1>1, <1>3, <2>1, <2>2, <2>3 DEF Settle
  <1> QED
    BY <1>5, <1>6

\* A gesture that is over leaves no hand
LEMMA LeftHand ==
    ASSUME HandInv, NoHand = hand', reduced' = reduced, ~tap' => suppress', tap' \in BOOLEAN, suppress' \in BOOLEAN,
           pressed' \in BOOLEAN, clickDue' \in BOOLEAN, ~(pressed' /\ clickDue')
    PROVE  HandInv'
  BY NoHandIs DEF HandInv

\* A press that is no pull acts on the disk
LEMMA ActKeeps ==
    ASSUME DiskInv, HandInv, NEW out \in BOOLEAN, Act(out),
           pressed' = pressed, clickDue' \in BOOLEAN, clickDue' => clickDue
    PROVE  DiskInv' /\ HandInv' /\ StaysPut /\ Noticed
  <1> DEFINE acted == ActKeyDisk(disk, out, reduced)
  <1>1. CASE disk.id # env.round \/ acted = disk
    <2>1. UNCHANGED <<env, reduced, disk, diskOut, hand, suppress, seen, read, tap>>
      BY <1>1 DEF Act
    <2>2. DiskInv'
      BY <2>1 DEF DiskInv, Whole, IsOut, OutOf, Counted, Seen, Online, Since
    <2>3. HandInv'
      BY <2>1 DEF HandInv, Enabled
    <2> QED
      BY <2>1, <2>2, <2>3, RestIsSteady
  <1>2. CASE disk.id = env.round /\ acted # disk
    <2>1. Settle(env, acted, out, hand) /\ Pressing(hand, suppress, tap)
      BY <1>2 DEF Act
    <2>0. reduced \in BOOLEAN /\ disk \in KeyDisks /\ hand \in Hands
      BY DEF DiskInv, Whole, HandInv
    <2>2. /\ acted \in KeyDisks
          /\ \/ disk.phase \in {"ready", "reading"} /\ Anew(acted, disk, IF reduced THEN "ejected" ELSE "ejecting")
             \/ disk.phase = "ejected" /\ Anew(acted, disk, IF reduced THEN "ready" ELSE "inserting")
             \/ disk.phase = "removed" /\ Anew(acted, disk, IF reduced THEN "ready" ELSE "returning")
      BY <1>2, <2>0, ActedDisk
    <2>4. acted.phase \in {"ejected", "ejecting"} => out
      BY <1>2, <2>2 DEF ActKeyDisk, Anew
    <2>5. ~out => acted.phase \in {"ready", "inserting", "returning"}
      BY <1>2, <2>2 DEF ActKeyDisk, Anew
    <2>6. out => acted.phase \in {"ejected", "ejecting"}
      BY <1>2, <2>2 DEF ActKeyDisk, Anew
    <2> HIDE DEF acted
    <2>7. disk.id # 0
      BY <2>2 DEF DiskInv, Whole
    <2>8. Earned(acted) /\ IsOut(acted, out)
      BY <2>2, <2>4, <2>5, <2>6, <2>7 DEF Earned, Whole, IsOut, OutOf, Anew
    <2>9. ~reduced => ~hand.moved
      BY <2>2 DEF HandInv
    <2>10. Holds(hand, acted, tap)
      BY <2>9 DEF HandInv, Holds
    <2>11. ASSUME ~reduced PROVE DrawnPose(acted) = DrawnPose(disk)
      <3>1. PoseOf(acted) /\ PoseOf(disk)
        BY <2>0, <2>2, <2>11, PoseIs
      <3> QED
        BY <2>2, <2>11, <3>1 DEF PoseOf, Anew
    <2>12. disk.phase # "announcing"
      BY <2>2
    <2> QED
      BY <2>0, <2>1, <2>8, <2>10, <2>11, <2>12, OwnDisk, SettleKeeps, HandKeeps, SettleSteady
  <1> QED
    BY <1>1, <1>2

\* The hand pulls the disk
LEMMA PullKeeps ==
    ASSUME DiskInv, HandInv, NEW amount \in 0 .. 2, Pull(amount)
    PROVE  DiskInv' /\ HandInv' /\ StaysPut /\ Noticed
  <1> DEFINE pulled == PullKeyDisk(hand.disk, amount)
             gripped == [on |-> TRUE, disk |-> pulled, moved |-> TRUE]
  <1>1. /\ hand.on /\ pressed /\ hand.disk.id = disk.id /\ disk.id = env.round
        /\ Settle(env, pulled, OutOf(pulled), gripped)
        /\ Pressing(gripped, suppress, FALSE)
        /\ pressed' = pressed /\ clickDue' = clickDue
    BY DEF Pull
  <1>2. hand.disk \in KeyDisks /\ hand.disk.phase \in Loose \cup {"pulling"} /\ disk.id # 0
    BY <1>1 DEF HandInv, Hands
  <1>3. pulled \in KeyDisks /\ pulled.id = hand.disk.id /\ pulled.phase = "pulling"
    BY <1>2, PulledDisk
  <1> HIDE DEF pulled
  <1>4. gripped \in Hands /\ gripped.on /\ gripped.moved /\ gripped.disk = pulled /\ gripped.on = TRUE
    BY <1>3 DEF Hands
  <1> HIDE DEF gripped
  <1>5. Earned(pulled) /\ IsOut(pulled, OutOf(pulled)) /\ OutOf(pulled) \in BOOLEAN
    BY <1>1, <1>2, <1>3 DEF Earned, Whole, IsOut, OutOf
  <1>6. Holds(gripped, pulled, FALSE)
    BY <1>1, <1>2, <1>3, <1>4 DEF Holds
  <1>7. clickDue' \in BOOLEAN
    BY <1>1 DEF HandInv
  <1>8. disk.phase # "announcing"
    BY <1>1 DEF HandInv, Enabled, Loose
  <1>9. DiskInv'
    BY <1>1, <1>4, <1>5, OwnDisk, SettleKeeps
  <1>10. HandInv'
    BY <1>1, <1>4, <1>5, <1>6, <1>7, OwnDisk, HandKeeps
  <1>11. StaysPut /\ Noticed
    BY <1>1, <1>3, <1>4, <1>5, <1>8, OwnDisk, SettleSteady
  <1> QED
    BY <1>9, <1>10, <1>11

\* The hand takes the disk
LEMMA PressKeeps == DiskInv /\ HandInv /\ Press => DiskInv' /\ HandInv' /\ StaysPut /\ Noticed
  <1> SUFFICES ASSUME DiskInv, HandInv, Press PROVE DiskInv' /\ HandInv' /\ StaysPut /\ Noticed
    OBVIOUS
  <1>1. /\ ~pressed /\ ~clickDue /\ ~hand.on /\ Enabled(disk, env) /\ disk.phase \in Loose
        /\ pressed' = TRUE /\ hand' = [on |-> TRUE, disk |-> disk, moved |-> FALSE]
        /\ suppress' = FALSE /\ tap' = TRUE
        /\ UNCHANGED <<env, reduced, disk, diskOut, clickDue, seen, read>>
    BY DEF Press
  <1>2. DiskInv'
    BY <1>1 DEF DiskInv, Whole, IsOut, OutOf, Counted, Seen, Online, Since
  <1>3. hand' \in Hands /\ hand'.on /\ ~hand'.moved /\ hand'.disk = disk
    BY <1>1, OwnDisk DEF Hands
  <1>4. Enabled(disk, env)' /\ disk.id # 0
    BY <1>1 DEF Enabled, Loose, DiskInv, Whole
  <1>5. HandInv'
    BY <1>1, <1>3, <1>4 DEF HandInv, Loose
  <1> QED
    BY <1>1, <1>2, <1>5, RestIsSteady

\* The timer of a phase fires
LEMMA TimerKeeps == DiskInv /\ HandInv /\ Timer => DiskInv' /\ HandInv' /\ StaysPut /\ Noticed
  <1> SUFFICES ASSUME DiskInv, HandInv, Timer PROVE DiskInv' /\ HandInv' /\ StaysPut /\ Noticed
    OBVIOUS
  <1> DEFINE following == SyncDiskPresentation(disk, env.shown /\ Online(env))
             next == AdvanceKeyDisk(following, reduced)
  <1>1. /\ disk.phase \in DOMAIN Time /\ disk.held = None
        /\ disk.phase = "reading" => env.powered
        /\ (reduced /\ disk.phase # "announcing") \/ disk.age >= Time[disk.phase]
        /\ Settle(env, next, next.phase \in {"ejected", "removed"}, hand)
        /\ Pressing(hand, suppress, tap)
        /\ pressed' = pressed /\ clickDue' = clickDue
    BY DEF Timer
  <1>2. /\ disk \in KeyDisks /\ disk.phase \in Timed /\ reduced \in BOOLEAN /\ hand \in Hands /\ clickDue' \in BOOLEAN
        /\ disk.id # 0 /\ disk.age \in 0 .. 2 /\ seen \in Nat /\ read \in Nat
    <2>1. disk \in KeyDisks /\ disk.phase \in Timed
      BY <1>1, TimeIs DEF DiskInv, Whole
    <2>2. disk.age \in 0 .. 2
      BY <2>1, DiskFields
    <2> QED
      BY <1>1, <2>1, <2>2 DEF DiskInv, HandInv, Whole, Timed
  <1>3. following = disk
    <2>1. CASE disk.phase = "announcing"
      <3>1. env.shown /\ Online(env)
        BY <1>1, <2>1 DEF DiskInv, Counted, Seen
      <3>2. following = Resumed(disk)
        BY <2>1, <3>1 DEF SyncDiskPresentation
      <3> QED
        BY <1>1, <3>2 DEF Resumed
    <2>2. CASE disk.phase # "announcing"
      BY <2>2 DEF SyncDiskPresentation
    <2> QED
      BY <2>1, <2>2
  <1> DEFINE n == AdvanceKeyDisk(disk, reduced)
  <1>4. next = n
    BY <1>3
  <1>5. /\ n \in KeyDisks /\ n.id = disk.id /\ n.age = 0 /\ n.held = None
        /\ \/ disk.phase = "announcing" /\ disk.age >= 2 /\ n.phase = IF reduced THEN "ready" ELSE "arriving"
           \/ /\ disk.phase = "settling" /\ (reduced \/ disk.age >= 1)
              /\ n.phase = IF disk.pull.target = 2 THEN "removed" ELSE IF disk.pull.target = 1 THEN "ejected" ELSE "reading"
           \/ disk.phase = "ejecting" /\ (reduced \/ disk.age >= 1) /\ n.phase = "ejected"
           \/ disk.phase = "reading" /\ (reduced \/ disk.age >= 1) /\ n.phase = "ready"
           \/ disk.phase \in {"arriving", "returning"} /\ (reduced \/ disk.age >= 1)
              /\ n.phase = IF reduced THEN "ready" ELSE "inserting"
           \/ disk.phase = "inserting" /\ (reduced \/ disk.age >= 1)
              /\ n.phase = IF reduced THEN "ready" ELSE "reading"
    <2>1. disk.phase = "settling" => disk.pull.target # None
      BY DEF DiskInv, Whole
    <2> QED
      BY <1>1, <1>2, <2>1, AdvancedDisk
  <1> DEFINE left == n.phase \in {"ejected", "removed"}
  <1>6. Settle(env, n, left, hand)
    BY <1>1, <1>4
  <1> HIDE DEF n, next, following
  <1>7. disk.phase = "reading" => read >= disk.age
    BY <1>1 DEF DiskInv, Counted, Since
  <1>8. disk.phase = "announcing" => seen >= disk.age
    BY <1>1 DEF DiskInv, Counted, Since
  <1>9. Earned(n)
    BY <1>2, <1>5, <1>7 DEF Earned, Whole
  <1>10. IsOut(n, left) /\ left \in BOOLEAN
    BY <1>5 DEF IsOut, OutOf
  <1> HIDE DEF left
  <1>11. ASSUME ~reduced PROVE DrawnPose(n) = DrawnPose(disk)
    <2>1. PoseOf(n) /\ PoseOf(disk)
      BY <1>2, <1>5, <1>11, PoseIs
    <2>2. disk.phase = "settling" => disk.pull.target \in 0 .. 2
      BY <1>2, DiskFields DEF DiskInv, Whole, Pulls, None
    <2> QED
      BY <1>1, <1>2, <1>5, <1>11, <2>1, <2>2 DEF PoseOf, Since
  <1>12. disk.phase = "announcing" => seen >= 2
    BY <1>2, <1>5, <1>8
  <1>13. ~reduced => ~hand.moved
    BY <1>2 DEF HandInv, Timed
  <1>14. Holds(hand, n, tap)
    BY <1>13 DEF HandInv, Holds
  <1> QED
    BY <1>1, <1>2, <1>6, <1>9, <1>10, <1>11, <1>12, <1>14, OwnDisk, SettleKeeps, HandKeeps, SettleSteady

\* Time passes for a disk that is not held
LEMMA TickKeeps == DiskInv /\ HandInv /\ DiskTick => DiskInv' /\ HandInv' /\ StaysPut /\ Noticed
  <1> SUFFICES ASSUME DiskInv, HandInv, DiskTick PROVE DiskInv' /\ HandInv' /\ StaysPut /\ Noticed
    OBVIOUS
  <1>1. /\ disk.phase \in DOMAIN Time /\ disk.age < Time[disk.phase]
        /\ disk' = [disk EXCEPT !.age = @ + 1]
        /\ seen' = IF disk.phase = "announcing" /\ env.shown /\ Online(env) THEN seen + 1 ELSE seen
        /\ read' = IF disk.phase = "reading" /\ env.powered THEN read + 1 ELSE read
        /\ UNCHANGED <<env, reduced, diskOut, hand, pressed, clickDue, suppress, tap>>
    BY DEF DiskTick
  <1>2. /\ disk \in KeyDisks /\ seen \in Nat /\ read \in Nat /\ disk.phase \in Timed
        /\ disk.age \in 0 .. 2 /\ disk.id \in 0 .. MaxDisks /\ disk.held \in None .. 2 /\ disk.pull \in Pulls
    <2>1. disk \in KeyDisks /\ disk.phase \in Timed
      BY <1>1, TimeIs DEF DiskInv, Whole
    <2> QED
      BY <2>1, DiskFields DEF DiskInv
  <1>3. disk.age + 1 \in 0 .. 2
    BY <1>1, <1>2, TimeIs
  <1>4. disk' = [id |-> disk.id, phase |-> disk.phase, age |-> disk.age + 1, held |-> disk.held, pull |-> disk.pull]
    BY <1>1, <1>2 DEF KeyDisks
  <1>5. disk' \in KeyDisks
    BY <1>2, <1>3, <1>4, DiskMade DEF AllPhases
  <1>6. /\ disk'.id = disk.id /\ disk'.phase = disk.phase /\ disk'.age = disk.age + 1
        /\ disk'.held = disk.held /\ disk'.pull = disk.pull
    BY <1>4
  <1>7. Since(disk') = IF disk.held = None THEN disk.age + 1 ELSE disk.held
    BY <1>6 DEF Since
  <1>8. Counted(disk, env, reduced, seen, read)'
    BY <1>1, <1>2, <1>6, <1>7 DEF DiskInv, Counted, Since, Seen, Online, Timed
  <1>9. Whole(disk)' /\ IsOut(disk, diskOut)'
    BY <1>1, <1>5, <1>6 DEF DiskInv, Whole, IsOut, OutOf
  <1>10. DiskInv'
    BY <1>1, <1>2, <1>6, <1>8, <1>9 DEF DiskInv
  <1>11. HandInv'
    BY <1>1, <1>6 DEF HandInv, Enabled
  <1>12. StaysPut /\ Noticed
    BY <1>2, <1>6 DEF StaysPut, Noticed, Timed
  <1> QED
    BY <1>10, <1>11, <1>12

-----------------------------------------------------------------------------

Unclicked == clickDue /\ ~clickDue' /\ ~tap => disk' = disk

\* The page's inputs keep their shape
LEMMA EnvironmentIs ==
    ASSUME NEW e \in Environments
    PROVE  /\ \A r \in 0 .. MaxDisks, w \in BOOLEAN : [e EXCEPT !.round = r, !.writing = w] \in Environments
           /\ [e EXCEPT !.writing = FALSE] \in Environments
           /\ [e EXCEPT !.powered = ~@] \in Environments /\ [e EXCEPT !.linked = ~@] \in Environments
           /\ [e EXCEPT !.loaded = TRUE] \in Environments
           /\ [e EXCEPT !.shown = TRUE] \in Environments /\ [e EXCEPT !.shown = FALSE] \in Environments
  BY DEF Environments

\* Every step of the disk keeps its invariants, and is none of the moves that are ruled out
LEMMA KeyDiskStep ==
    DiskInv /\ HandInv /\ [KeyDiskNext]_diskVars => DiskInv' /\ HandInv' /\ StaysPut /\ Noticed /\ Unclicked
  <1> SUFFICES ASSUME DiskInv, HandInv, [KeyDiskNext]_diskVars
               PROVE  DiskInv' /\ HandInv' /\ StaysPut /\ Noticed /\ Unclicked
    OBVIOUS
  <1>1. ASSUME NEW e \in Environments, Around(e) PROVE DiskInv' /\ HandInv' /\ StaysPut /\ Noticed /\ Unclicked
    <2>1. clickDue' = clickDue
      BY <1>1 DEF Around
    <2> QED
      BY <1>1, <2>1, AroundKeeps DEF Unclicked
  <1>2. env \in Environments
    BY OwnDisk
  <1>3. CASE RoundBegins
    <2>1. PICK r \in (1 .. MaxDisks) \ {env.round}, w \in BOOLEAN : Around([env EXCEPT !.round = r, !.writing = w])
      BY <1>3 DEF RoundBegins
    <2>2. r \in 0 .. MaxDisks
      OBVIOUS
    <2>3. [env EXCEPT !.round = r, !.writing = w] \in Environments
      BY <1>2, <2>2, EnvironmentIs
    <2> QED
      BY <1>1, <2>1, <2>3
  <1>4. CASE GuessesBegin
    BY <1>1, <1>2, <1>4, EnvironmentIs DEF GuessesBegin
  <1>5. CASE RoundEnds
    <2>0. 0 \in 0 .. MaxDisks /\ FALSE \in BOOLEAN
      BY KeyDiskAssumption
    <2>1. [env EXCEPT !.round = 0, !.writing = FALSE] \in Environments
      BY <1>2, <2>0, EnvironmentIs
    <2> QED
      BY <1>1, <1>5, <2>1 DEF RoundEnds
  <1>6. CASE PowerFlips \/ LinkFlips \/ Loads \/ Uncovered \/ Covered
    BY <1>1, <1>2, <1>6, EnvironmentIs DEF PowerFlips, LinkFlips, Loads, Uncovered, Covered
  <1>7. CASE Press
    BY <1>7, PressKeeps DEF Press, Unclicked
  <1>8. CASE CancelDrag \/ Hides
    <2>1. PICK e \in Environments : FinishDrag(TRUE, e) /\ pressed' = pressed /\ clickDue' = clickDue
      <3>1. CASE CancelDrag
        BY <1>2, <3>1 DEF CancelDrag
      <3>2. CASE Hides
        BY <1>2, <3>2, EnvironmentIs DEF Hides
      <3> QED
        BY <1>8, <3>1, <3>2
    <2>2. /\ DiskInv' /\ StaysPut /\ Noticed
          /\ hand' = NoHand /\ hand.on /\ (~tap' => suppress') /\ tap' \in BOOLEAN /\ suppress' \in BOOLEAN
          /\ reduced' = reduced
      BY <2>1, FinishKeeps
    <2>3. pressed' \in BOOLEAN /\ clickDue' \in BOOLEAN /\ ~(pressed' /\ clickDue')
      BY <2>1 DEF HandInv
    <2> QED
      BY <2>1, <2>2, <2>3, LeftHand DEF Unclicked
  <1>9. CASE LetDiskGo
    <2>1. pressed /\ pressed' = FALSE /\ clickDue' = TRUE
      BY <1>9 DEF LetDiskGo
    <2>2. CASE FinishDrag(FALSE, env)
      <3>1. /\ DiskInv' /\ StaysPut /\ Noticed
            /\ hand' = NoHand /\ hand.on /\ (~tap' => suppress') /\ tap' \in BOOLEAN /\ suppress' \in BOOLEAN
            /\ reduced' = reduced
        BY <1>2, <2>2, FinishKeeps
      <3> QED
        BY <2>1, <3>1, LeftHand DEF Unclicked
    <2>3. CASE ~hand.on /\ UNCHANGED <<env, reduced, disk, diskOut, hand, suppress, seen, read, tap>>
      <3>1. DiskInv'
        BY <2>3 DEF DiskInv, Whole, IsOut, OutOf, Counted, Seen, Online, Since
      <3>2. HandInv'
        BY <2>1, <2>3 DEF HandInv, Enabled
      <3> QED
        BY <2>1, <2>3, <3>1, <3>2, RestIsSteady DEF Unclicked
    <2> QED
      BY <1>9, <2>2, <2>3 DEF LetDiskGo
  <1>10. CASE Click
    <2>1. clickDue /\ clickDue' = FALSE /\ pressed' = pressed
      BY <1>10 DEF Click
    <2>2. CASE suppress
      <3>1. UNCHANGED <<env, reduced, disk, diskOut, hand, suppress, seen, read, tap>>
        BY <1>10, <2>2 DEF Click
      <3>2. DiskInv'
        BY <3>1 DEF DiskInv, Whole, IsOut, OutOf, Counted, Seen, Online, Since
      <3>3. HandInv'
        BY <2>1, <3>1 DEF HandInv, Enabled
      <3> QED
        BY <3>1, <3>2, <3>3, RestIsSteady DEF Unclicked
    <2>3. CASE ~suppress
      <3>1. Act(disk.phase \notin {"ejected", "removed"})
        BY <1>10, <2>3 DEF Click, Toggle
      <3>2. (disk.phase \notin {"ejected", "removed"}) \in BOOLEAN
        OBVIOUS
      <3>3. DiskInv' /\ HandInv' /\ StaysPut /\ Noticed
        BY <2>1, <3>1, <3>2, ActKeeps
      <3>4. tap
        BY <2>1, <2>3 DEF HandInv
      <3> QED
        BY <3>3, <3>4 DEF Unclicked
    <2> QED
      BY <2>2, <2>3
  <1>11. CASE Keyed
    <2>1. PICK out \in BOOLEAN : Act(out) /\ pressed' = pressed /\ clickDue' = clickDue
      BY <1>11 DEF Keyed, Toggle
    <2>2. clickDue' \in BOOLEAN
      BY <2>1 DEF HandInv
    <2>3. DiskInv' /\ HandInv' /\ StaysPut /\ Noticed
      BY <2>1, <2>2, ActKeeps
    <2> QED
      BY <2>1, <2>3 DEF Unclicked
  <1>12. CASE \E amount \in 0 .. 2 : Pull(amount)
    <2>1. PICK amount \in 0 .. 2 : Pull(amount)
      BY <1>12
    <2>2. DiskInv' /\ HandInv' /\ StaysPut /\ Noticed
      BY <2>1, PullKeeps
    <2>3. clickDue' = clickDue
      BY <2>1 DEF Pull
    <2> QED
      BY <2>2, <2>3 DEF Unclicked
  <1>13. CASE Timer
    BY <1>13, TimerKeeps DEF Timer, Unclicked
  <1>14. CASE DiskTick
    BY <1>14, TickKeeps DEF DiskTick, Unclicked
  <1>15. CASE UNCHANGED diskVars
    <2>1. DiskInv'
      BY <1>15 DEF diskVars, DiskInv, Whole, IsOut, OutOf, Counted, Seen, Online, Since
    <2>2. HandInv'
      BY <1>15 DEF diskVars, HandInv, Enabled
    <2> QED
      BY <1>15, <2>1, <2>2, RestIsSteady DEF diskVars, Unclicked
  <1>16. CASE KeyDiskNext
    <2>1. \/ RoundBegins \/ GuessesBegin \/ RoundEnds
          \/ (PowerFlips \/ LinkFlips \/ Loads \/ Uncovered \/ Covered)
          \/ Press \/ (CancelDrag \/ Hides) \/ LetDiskGo
          \/ Click \/ Keyed \/ (\E amount \in 0 .. 2 : Pull(amount))
          \/ Timer \/ DiskTick
      BY <1>16 DEF KeyDiskNext
    <2>2. CASE RoundBegins \/ GuessesBegin \/ RoundEnds
      BY ONLY <1>3, <1>4, <1>5, <2>2
    <2>3. CASE PowerFlips \/ LinkFlips \/ Loads \/ Uncovered \/ Covered
      BY ONLY <1>6, <2>3
    <2>4. CASE Press \/ (CancelDrag \/ Hides) \/ LetDiskGo
      BY ONLY <1>7, <1>8, <1>9, <2>4
    <2>5. CASE Click \/ Keyed \/ (\E amount \in 0 .. 2 : Pull(amount))
      BY ONLY <1>10, <1>11, <1>12, <2>5
    <2>6. CASE Timer \/ DiskTick
      BY ONLY <1>13, <1>14, <2>6
    <2> QED
      BY ONLY <2>1, <2>2, <2>3, <2>4, <2>5, <2>6
  <1> QED
    BY <1>15, <1>16

\* The slot is empty and nothing is held
LEMMA KeyDiskBegins == KeyDiskInit => DiskInv /\ HandInv
  <1> SUFFICES ASSUME KeyDiskInit PROVE DiskInv /\ HandInv
    OBVIOUS
  <1>1. /\ EmptyKeyDisk \in KeyDisks /\ EmptyKeyDisk.id = 0 /\ EmptyKeyDisk.phase = "absent" /\ EmptyKeyDisk.held = None
    BY EmptyDisk DEF EmptyKeyDisk
  <1>2. env \in Environments /\ env.round = 0
    BY KeyDiskAssumption DEF KeyDiskInit, Environments
  <1>3. DiskInv
    BY <1>1, <1>2 DEF KeyDiskInit, DiskInv, Whole, IsOut, Counted
  <1>4. HandInv
    BY NoHandIs DEF KeyDiskInit, HandInv
  <1> QED
    BY <1>3, <1>4

\* What the invariant says of the runs' properties
LEMMA KeyDiskKept ==
    DiskInv /\ HandInv => KeyDiskTypeOK /\ ReadableOnlyWhole /\ OutWhileOut
  <1> SUFFICES ASSUME DiskInv, HandInv PROVE KeyDiskTypeOK /\ ReadableOnlyWhole /\ OutWhileOut
    OBVIOUS
  <1>1. KeyDiskTypeOK
    BY DEF DiskInv, HandInv, Hands, Whole, Counted, KeyDiskTypeOK
  <1>2. Time["reading"] = 1
    BY TimeIs DEF Timed
  <1>3. ReadableOnlyWhole
    BY <1>2 DEF DiskInv, Counted, ReadableOnlyWhole, KeyDiskReadable
  <1>4. OutWhileOut
    BY DEF DiskInv, IsOut, OutWhileOut
  <1> QED
    BY <1>1, <1>3, <1>4

-----------------------------------------------------------------------------
\* The tube and its sound: Tube

Tubes == [on : BOOLEAN, level : 0 .. 4, hot : BOOLEAN, resting : BOOLEAN]
Glasses == [current : Pictures, desired : Pictures, same : BOOLEAN, powered : BOOLEAN, reduced : BOOLEAN]
Buzzes == [powered : BOOLEAN, on : BOOLEAN, reduced : BOOLEAN, mains : BOOLEAN,
           stage : {"none", "opening", "closing"}, cues : SUBSET {"warmup", "collapse", "discharge"}]
Ears == [open : BOOLEAN, loose : BOOLEAN, coil : 0 .. 2, hot : BOOLEAN]

\* A tube at rest is settled; one object is one picture; its key is the one that should be there
GoodTube(t) == t \in Tubes /\ (t.resting => t = SettleTube(t.on))
GoodGlass(g) == g \in Glasses /\ (g.same => g.current = g.desired)
KeyIsRight(g) == g.current.key = g.desired.key

\* The sound knows the mains; a stage is a transition that is open; the coil is
\* due only where it was not heard since the mains were switched
Answers(s, h, powered) ==
    /\ s \in Buzzes /\ h \in Ears
    /\ s.powered = powered
    /\ s.stage # "none" => h.open
    /\ ~h.loose /\ ~h.hot /\ h.coil <= 1
    /\ s.mains => h.coil = 0

TubeInv ==
    /\ GoodTube(tube) /\ GoodGlass(glass) /\ KeyIsRight(glass)
    /\ Answers(sound, heard, glass.powered)
    /\ updates \in 0 .. MaxUpdates

\* A tube at rest is one
LEMMA SettledIsGood == ASSUME NEW on \in BOOLEAN PROVE GoodTube(SettleTube(on))
  BY DEF GoodTube, Tubes, SettleTube

\* The power of a tube changes what it goes to, not its light
LEMMA PoweredTube ==
    ASSUME NEW t, GoodTube(t), NEW on \in BOOLEAN
    PROVE  /\ GoodTube(PowerTube(t, on)) /\ PowerTube(t, on).on = on
           /\ PowerTube(t, on).level = t.level
           /\ ~on /\ ~Moving(PowerTube(t, on)) => t.level = 0
  <1>1. t \in Tubes
    BY DEF GoodTube
  <1>2. PowerTube(t, on) = IF t.on = on THEN t ELSE [on |-> on, level |-> t.level, hot |-> t.hot, resting |-> FALSE]
    <2>1. CASE t.on = on
      BY <2>1 DEF PowerTube
    <2>2. CASE t.on # on
      <3>1. PowerTube(t, on) = [[t EXCEPT !.on = on] EXCEPT !.resting = FALSE]
        BY <2>2 DEF PowerTube
      <3> QED
        BY <1>1, <2>2, <3>1 DEF Tubes
    <2> QED
      BY <2>1, <2>2
  <1>3. PowerTube(t, on) \in Tubes /\ PowerTube(t, on).on = on /\ PowerTube(t, on).level = t.level
    BY <1>1, <1>2 DEF Tubes
  <1>4. PowerTube(t, on).resting => PowerTube(t, on) = t
    BY <1>1, <1>2 DEF Tubes
  <1>5. GoodTube(PowerTube(t, on))
    BY <1>3, <1>4 DEF GoodTube
  <1>6. ASSUME ~on, ~Moving(PowerTube(t, on)) PROVE t.level = 0
    <2>1. CASE PowerTube(t, on).resting
      <3>1. PowerTube(t, on) = SettleTube(FALSE)
        BY <1>3, <1>5, <1>6, <2>1 DEF GoodTube
      <3> QED
        BY <1>3, <3>1 DEF SettleTube
    <2>2. CASE ~PowerTube(t, on).resting
      <3>1. t.level \in 0 .. 4
        BY <1>1 DEF Tubes
      <3> QED
        BY <1>3, <1>6, <2>2, <3>1 DEF Moving
    <2> QED
      BY <2>1, <2>2
  <1> QED
    BY <1>3, <1>5, <1>6

\* A disturbance leaves the power
LEMMA DisturbedTube ==
    ASSUME NEW t, GoodTube(t)
    PROVE  GoodTube(Disturb(t)) /\ Disturb(t).on = t.on
  <1>1. t \in Tubes
    BY DEF GoodTube
  <1> DEFINE level == IF t.level = 4 THEN 3 ELSE t.level
  <1>2. level \in 0 .. 4
    BY <1>1 DEF Tubes
  <1>3. Disturb(t) = IF t.on /\ t.level > 0 THEN [[t EXCEPT !.level = level] EXCEPT !.resting = FALSE] ELSE t
    BY DEF Disturb
  <1> HIDE DEF level
  <1>4. CASE t.on /\ t.level > 0
    <2>1. Disturb(t) = [on |-> t.on, level |-> level, hot |-> t.hot, resting |-> FALSE]
      BY <1>1, <1>3, <1>4 DEF Tubes
    <2> QED
      BY <1>1, <1>2, <2>1 DEF GoodTube, Tubes
  <1>5. CASE ~(t.on /\ t.level > 0)
    BY <1>3, <1>5
  <1> QED
    BY <1>4, <1>5

\* A step of a tube that goes out never adds light
LEMMA SteppedTube ==
    ASSUME NEW t, GoodTube(t), NEW u \in Substeps(t)
    PROVE  GoodTube(u) /\ u.on = t.on /\ (~t.on => u.level <= t.level)
  BY DEF GoodTube, Tubes, Substeps, SettleTube

\* The exchange puts up the picture that is wanted
LEMMA ExchangedGlass ==
    ASSUME NEW g, GoodGlass(g)
    PROVE  /\ GoodGlass(Exchange(g)) /\ KeyIsRight(Exchange(g))
           /\ Exchange(g) = [current |-> g.desired, desired |-> g.desired, same |-> TRUE,
                             powered |-> g.powered, reduced |-> g.reduced]
  <1>1. g \in Glasses
    BY DEF GoodGlass
  <1>2. Exchange(g) = [current |-> g.desired, desired |-> g.desired, same |-> TRUE,
                       powered |-> g.powered, reduced |-> g.reduced]
    <2>1. Exchange(g) = [[g EXCEPT !.current = g.desired] EXCEPT !.same = TRUE]
      BY DEF Exchange
    <2> QED
      BY <1>1, <2>1 DEF Glasses
  <1> QED
    BY <1>1, <1>2 DEF GoodGlass, Glasses, KeyIsRight

\* A route leaves what is wanted alone, shows nothing else, and exchanges a
\* picture for one of another palette only on a glass dark enough for it
LEMMA RoutedTube ==
    ASSUME NEW g, GoodGlass(g), NEW t, GoodTube(t)
    PROVE  LET r == RouteTube(g, t) IN
           /\ GoodGlass(r.glass) /\ GoodTube(r.tube)
           /\ r.tube.on = Alike(g) /\ r.tube.level = t.level
           /\ r.glass = g \/ r.glass = Exchange(g)
           /\ r.glass.current.id # g.current.id => t.level <= IF g.powered THEN 1 ELSE 0
  <1> DEFINE lit == PowerTube(t, Alike(g))
             dark == IF g.powered THEN Blank(lit) ELSE ~Moving(lit)
             r == RouteTube(g, t)
  <1>1. Alike(g) \in BOOLEAN
    BY DEF Alike, GoodGlass, Glasses
  <1>2. /\ GoodTube(lit) /\ lit.on = Alike(g) /\ lit.level = t.level
        /\ ~Alike(g) /\ ~Moving(lit) => t.level = 0
    BY <1>1, PoweredTube
  <1>3. r = [glass |-> IF ~g.same /\ (dark \/ Alike(g)) THEN Exchange(g) ELSE g, tube |-> lit]
    BY DEF RouteTube
  <1>4. r.tube = lit /\ r.glass = IF ~g.same /\ (dark \/ Alike(g)) THEN Exchange(g) ELSE g
    BY <1>3
  <1> HIDE DEF lit, r
  <1>5. r.glass = g \/ r.glass = Exchange(g)
    BY <1>4
  <1>6. GoodGlass(r.glass)
    BY <1>5, ExchangedGlass
  <1>7. ASSUME r.glass.current.id # g.current.id PROVE t.level <= IF g.powered THEN 1 ELSE 0
    <2>1. r.glass = Exchange(g) /\ g.current.id # g.desired.id
      BY <1>5, <1>7, ExchangedGlass
    <2>2. ~Alike(g) /\ dark
      BY <1>4, <1>7, <2>1 DEF Alike
    <2> QED
      BY <1>2, <2>2 DEF Blank, GoodTube, Tubes
  <1> QED
    BY <1>2, <1>4, <1>5, <1>6, <1>7 DEF r

-----------------------------------------------------------------------------

\* What the tube's sound makes of its ghost records
LEMMA HeardRecords ==
    ASSUME NEW h \in Ears, NEW t \in Tubes
    PROVE  /\ Begin(h) = [open |-> TRUE, loose |-> h.loose, coil |-> h.coil, hot |-> h.hot]
           /\ FrameEnd(h) = [open |-> FALSE, loose |-> h.loose, coil |-> h.coil, hot |-> h.hot]
           /\ Cue(h) = [open |-> h.open, loose |-> h.loose \/ ~h.open, coil |-> h.coil, hot |-> h.hot]
           /\ Coil(h) = [open |-> h.open, loose |-> h.loose \/ ~h.open,
                         coil |-> IF h.coil < 2 THEN h.coil + 1 ELSE h.coil, hot |-> h.hot]
           /\ Degauss(h, t) = [open |-> h.open, loose |-> h.loose \/ ~h.open,
                               coil |-> IF h.coil < 2 THEN h.coil + 1 ELSE h.coil, hot |-> h.hot \/ t.hot]
  <1>1. Begin(h) = [open |-> TRUE, loose |-> h.loose, coil |-> h.coil, hot |-> h.hot]
    <2>1. Begin(h) = [h EXCEPT !.open = TRUE]
      BY DEF Begin
    <2> QED
      BY <2>1 DEF Ears
  <1>2. FrameEnd(h) = [open |-> FALSE, loose |-> h.loose, coil |-> h.coil, hot |-> h.hot]
    <2>1. FrameEnd(h) = [h EXCEPT !.open = FALSE]
      BY DEF FrameEnd
    <2> QED
      BY <2>1 DEF Ears
  <1>3. Cue(h) = [open |-> h.open, loose |-> h.loose \/ ~h.open, coil |-> h.coil, hot |-> h.hot]
    <2>1. Cue(h) = [h EXCEPT !.loose = h.loose \/ ~h.open]
      BY DEF Cue
    <2> QED
      BY <2>1 DEF Ears
  <1>4. Coil(h) = [open |-> h.open, loose |-> h.loose \/ ~h.open,
                   coil |-> IF h.coil < 2 THEN h.coil + 1 ELSE h.coil, hot |-> h.hot]
    <2> DEFINE k == Cue(h)
    <2>1. Coil(h) = [k EXCEPT !.coil = IF k.coil < 2 THEN k.coil + 1 ELSE k.coil]
      BY DEF Coil
    <2>2. k = [open |-> h.open, loose |-> h.loose \/ ~h.open, coil |-> h.coil, hot |-> h.hot]
      BY <1>3
    <2> HIDE DEF k
    <2>3. k.open = h.open /\ k.loose = (h.loose \/ ~h.open) /\ k.coil = h.coil /\ k.hot = h.hot
      BY <2>2
    <2>4. Coil(h) = [open |-> k.open, loose |-> k.loose,
                     coil |-> IF k.coil < 2 THEN k.coil + 1 ELSE k.coil, hot |-> k.hot]
      BY <2>1, <2>2
    <2> QED
      BY <2>3, <2>4
  <1>5. Degauss(h, t) = [open |-> h.open, loose |-> h.loose \/ ~h.open,
                         coil |-> IF h.coil < 2 THEN h.coil + 1 ELSE h.coil, hot |-> h.hot \/ t.hot]
    <2> DEFINE k == Coil(h)
    <2>1. Degauss(h, t) = [k EXCEPT !.hot = k.hot \/ t.hot]
      BY DEF Degauss
    <2>2. k = [open |-> h.open, loose |-> h.loose \/ ~h.open,
               coil |-> IF h.coil < 2 THEN h.coil + 1 ELSE h.coil, hot |-> h.hot]
      BY <1>4
    <2> HIDE DEF k
    <2>3. /\ k.open = h.open /\ k.loose = (h.loose \/ ~h.open) /\ k.hot = h.hot
          /\ k.coil = IF h.coil < 2 THEN h.coil + 1 ELSE h.coil
      BY <2>2
    <2>4. Degauss(h, t) = [open |-> k.open, loose |-> k.loose, coil |-> k.coil, hot |-> k.hot \/ t.hot]
      BY <2>1, <2>2
    <2> QED
      BY <2>3, <2>4
  <1> QED
    BY <1>1, <1>2, <1>3, <1>4, <1>5

\* Without motion the sound still answers the power
LEMMA ReducedAnswers ==
    ASSUME NEW s, NEW h, NEW was, Answers(s, h, was), NEW t \in Tubes, NEW powered \in BOOLEAN,
           powered # was => h.coil = 0
    PROVE  LET x == ReducedSound(s, h, t, powered) IN Answers(x.sound, x.heard, powered)
  <1> DEFINE x == ReducedSound(s, h, t, powered)
             c == [open |-> TRUE, loose |-> h.loose \/ ~TRUE, coil |-> h.coil, hot |-> h.hot]
             d == [open |-> TRUE, loose |-> h.loose \/ ~TRUE,
                   coil |-> IF h.coil < 2 THEN h.coil + 1 ELSE h.coil, hot |-> h.hot]
             e == [open |-> FALSE, loose |-> h.loose, coil |-> h.coil, hot |-> h.hot]
             off == [powered |-> powered, on |-> powered, reduced |-> TRUE, mains |-> FALSE,
                     stage |-> "none", cues |-> s.cues]
  <1>0. s \in Buzzes /\ h \in Ears /\ s.powered = was
    BY DEF Answers
  <1> DEFINE b == Begin(h)
  <1>a. b = [open |-> TRUE, loose |-> h.loose, coil |-> h.coil, hot |-> h.hot] /\ FrameEnd(h) = e
    BY <1>0, HeardRecords
  <1>b. b \in Ears /\ b.open = TRUE /\ b.loose = h.loose /\ b.coil = h.coil /\ b.hot = h.hot
    BY <1>0, <1>a DEF Ears
  <1>c. /\ Cue(b) = [open |-> b.open, loose |-> b.loose \/ ~b.open, coil |-> b.coil, hot |-> b.hot]
        /\ Coil(b) = [open |-> b.open, loose |-> b.loose \/ ~b.open,
                      coil |-> IF b.coil < 2 THEN b.coil + 1 ELSE b.coil, hot |-> b.hot]
    BY <1>b, HeardRecords
  <1>1. Cue(Begin(h)) = c /\ Coil(Begin(h)) = d /\ FrameEnd(h) = e
    BY <1>a, <1>b, <1>c
  <1>2. x.sound = off
    <2>1. x.sound = [[[[[s EXCEPT !.stage = "none"] EXCEPT !.mains = FALSE] EXCEPT !.powered = powered]
                       EXCEPT !.on = powered] EXCEPT !.reduced = TRUE]
      BY DEF ReducedSound
    <2> QED
      BY <1>0, <2>1 DEF Buzzes
  <1>3. x.heard \in {c, e, h} \/ (powered # was /\ x.heard = d)
    BY <1>0, <1>1 DEF ReducedSound
  <1>4. off \in Buzzes
    BY <1>0 DEF Buzzes
  <1>5. \A k \in {c, e, h} : k \in Ears /\ ~k.loose /\ ~k.hot /\ k.coil <= 1
    <2>1. h.open \in BOOLEAN /\ h.loose = FALSE /\ h.hot = FALSE /\ h.coil \in 0 .. 2 /\ h.coil <= 1
      BY <1>0 DEF Ears, Answers
    <2>2. c \in Ears /\ ~c.loose /\ ~c.hot /\ c.coil <= 1
      BY <2>1 DEF Ears
    <2>3. e \in Ears /\ ~e.loose /\ ~e.hot /\ e.coil <= 1
      BY <2>1 DEF Ears
    <2> QED
      BY <1>0, <2>1, <2>2, <2>3
  <1>d. powered # was => d \in Ears /\ ~d.loose /\ ~d.hot /\ d.coil <= 1
    BY <1>0 DEF Ears, Answers
  <1> HIDE DEF x, c, d, e
  <1>6. x.heard \in Ears /\ ~x.heard.loose /\ ~x.heard.hot /\ x.heard.coil <= 1
    BY <1>3, <1>5, <1>d
  <1>7. Answers(off, x.heard, powered)
    BY <1>4, <1>6 DEF Answers
  <1> QED
    BY <1>2, <1>7 DEF x

\* The power's own sound comes once for each change of it
LEMMA StageAnswers ==
    ASSUME NEW s, NEW h, NEW was, Answers(s, h, was), NEW t \in Tubes, NEW powered \in BOOLEAN,
           powered # was => h.coil = 0
    PROVE  LET x == Stage(s, h, t, powered) IN Answers(x.sound, x.heard, powered)
  <1> DEFINE x == Stage(s, h, t, powered)
             switched == powered # s.powered
             mains == IF switched THEN powered ELSE s.mains
             first == t.on /\ mains
             begun == [powered |-> powered, on |-> t.on, reduced |-> FALSE, mains |-> mains /\ ~first,
                       stage |-> IF t.on THEN "opening" ELSE "closing", cues |-> {}]
  <1>0. s \in Buzzes /\ h \in Ears /\ t.on \in BOOLEAN /\ t.hot \in BOOLEAN /\ s.powered = was
    BY DEF Answers, Tubes
  <1>1. CASE ~switched /\ t.on = s.on
    <2>1. x.sound = [s EXCEPT !.reduced = FALSE] /\ x.heard = h
      BY <1>1 DEF Stage
    <2>2. x.sound = [powered |-> s.powered, on |-> s.on, reduced |-> FALSE, mains |-> s.mains,
                     stage |-> s.stage, cues |-> s.cues]
      BY <1>0, <2>1 DEF Buzzes
    <2> QED
      BY <1>0, <1>1, <2>1, <2>2 DEF Answers, Buzzes
  <1>2. ASSUME ~(~switched /\ t.on = s.on) PROVE Answers(x.sound, x.heard, powered)
    <2>1. x.sound = begun
      <3>1. x.sound = [[[[[[s EXCEPT !.stage = IF t.on THEN "opening" ELSE "closing"] EXCEPT !.cues = {}]
                           EXCEPT !.mains = mains /\ ~first] EXCEPT !.powered = powered]
                         EXCEPT !.on = t.on] EXCEPT !.reduced = FALSE]
        BY <1>2 DEF Stage
      <3> HIDE DEF mains, first
      <3> QED
        BY <1>0, <3>1 DEF Buzzes
    <2>2. x.heard = IF first /\ ~t.hot THEN Degauss(Begin(h), t) ELSE Begin(h)
      BY <1>2 DEF Stage
    <2>3. mains \in BOOLEAN /\ (mains => h.coil = 0)
      BY <1>0 DEF Answers, Buzzes
    <2>4. begun \in Buzzes
      BY <1>0, <2>3 DEF Buzzes
    <2>c. x.sound.powered = powered /\ x.sound.mains = (mains /\ ~first)
      <3> HIDE DEF x, mains, first
      <3> QED
        BY <2>1
    <2> HIDE DEF mains, x
    <2>6. h.loose = FALSE /\ h.hot = FALSE /\ h.coil \in 0 .. 1
      BY <1>0 DEF Answers, Ears
    <2> DEFINE b == Begin(h)
    <2>a. b = [open |-> TRUE, loose |-> h.loose, coil |-> h.coil, hot |-> h.hot]
      BY <1>0, HeardRecords
    <2>5. b \in Ears /\ b.open = TRUE /\ b.loose = FALSE /\ b.coil = h.coil /\ b.hot = FALSE
      BY <1>0, <2>a, <2>6 DEF Ears
    <2>7. CASE first /\ ~t.hot
      <3>1. h.coil = 0 /\ x.heard = Degauss(b, t)
        BY <2>2, <2>3, <2>7
      <3>2. Degauss(b, t) = [open |-> b.open, loose |-> b.loose \/ ~b.open,
                             coil |-> IF b.coil < 2 THEN b.coil + 1 ELSE b.coil, hot |-> b.hot \/ t.hot]
        BY <2>5, HeardRecords
      <3>3. x.heard = [open |-> TRUE, loose |-> FALSE, coil |-> 1, hot |-> FALSE]
        <4>1. b.coil = 0 /\ t.hot = FALSE
          BY <1>0, <2>5, <2>7, <3>1
        <4> HIDE DEF b
        <4>2. (b.loose \/ ~b.open) = FALSE /\ (b.hot \/ t.hot) = FALSE
          BY <2>5, <4>1
        <4>3. (IF b.coil < 2 THEN b.coil + 1 ELSE b.coil) = 1
          BY <4>1
        <4> QED
          BY <2>5, <3>1, <3>2, <4>2, <4>3
      <3>4. x.heard \in Ears /\ x.heard.open /\ ~x.heard.loose /\ ~x.heard.hot /\ x.heard.coil = 1
        BY <3>3 DEF Ears
      <3>5. x.sound.powered = powered /\ ~x.sound.mains
        BY <2>c, <2>7
      <3> QED
        BY <2>1, <2>4, <3>4, <3>5 DEF Answers
    <2>8. CASE ~(first /\ ~t.hot)
      <3>1. x.heard = b
        BY <2>2, <2>8
      <3>2. x.sound.powered = powered /\ (x.sound.mains => mains)
        BY <2>c
      <3> QED
        BY <2>1, <2>3, <2>4, <2>5, <2>6, <3>1, <3>2 DEF Answers
    <2> QED
      BY <2>7, <2>8
  <1> QED
    BY <1>1, <1>2 DEF x

\* The sound of a tube on its way answers the change that sent it
LEMMA ProgressAnswers ==
    ASSUME NEW x, NEW powered, Answers(x.sound, x.heard, powered), NEW t \in Tubes
    PROVE  LET y == Progress(x, t) IN Answers(y.sound, y.heard, powered)
  <1> DEFINE s == x.sound
             h == x.heard
             y == Progress(x, t)
             due == CASE s.stage = "opening" /\ t.level >= 1 -> {"warmup"}
                      [] s.stage = "closing" /\ t.level <= 1 -> {"collapse", "discharge"}
                      [] OTHER -> {}
             over == (s.stage = "opening" /\ Steady(t)) \/ (s.stage = "closing" /\ ~Moving(t))
  <1>0. s \in Buzzes /\ h \in Ears
    BY DEF Answers
  <1>1. y = IF over THEN [sound |-> [s EXCEPT !.stage = "none"], heard |-> FrameEnd(h)]
            ELSE [sound |-> [s EXCEPT !.cues = s.cues \union due],
                  heard |-> IF due \subseteq s.cues THEN h ELSE Cue(h)]
    BY DEF Progress
  <1>2. due \subseteq {"warmup", "collapse", "discharge"} /\ (s.stage = "none" => due = {})
    OBVIOUS
  <1> HIDE DEF due, y
  <1>3. ASSUME over PROVE Answers(y.sound, y.heard, powered)
    <2>1. y.sound = [s EXCEPT !.stage = "none"] /\ y.heard = FrameEnd(h)
      BY <1>1, <1>3
    <2>2. y.sound = [powered |-> s.powered, on |-> s.on, reduced |-> s.reduced, mains |-> s.mains,
                     stage |-> "none", cues |-> s.cues]
      BY <1>0, <2>1 DEF Buzzes
    <2>3. y.heard = [open |-> FALSE, loose |-> h.loose, coil |-> h.coil, hot |-> h.hot]
      BY <1>0, <2>1, HeardRecords
    <2>4. y.sound \in Buzzes
      BY <1>0, <2>2 DEF Buzzes
    <2>5. y.heard \in Ears
      BY <1>0, <2>3 DEF Ears
    <2>6. y.sound.powered = s.powered /\ y.sound.stage = "none" /\ y.sound.mains = s.mains
      BY <2>2
    <2>7. y.heard.loose = h.loose /\ y.heard.hot = h.hot /\ y.heard.coil = h.coil
      BY <2>3
    <2> QED
      BY <2>4, <2>5, <2>6, <2>7 DEF Answers
  <1>4. ASSUME ~over PROVE Answers(y.sound, y.heard, powered)
    <2>1. y.sound = [s EXCEPT !.cues = s.cues \union due] /\ y.heard = IF due \subseteq s.cues THEN h ELSE Cue(h)
      BY <1>1, <1>4
    <2>2. y.sound = [powered |-> s.powered, on |-> s.on, reduced |-> s.reduced, mains |-> s.mains,
                     stage |-> s.stage, cues |-> s.cues \union due]
      BY <1>0, <2>1 DEF Buzzes
    <2>a. s.cues \union due \in SUBSET {"warmup", "collapse", "discharge"}
      BY <1>0, <1>2 DEF Buzzes
    <2>3. y.sound \in Buzzes
      BY <1>0, <2>2, <2>a DEF Buzzes
    <2>b. y.sound.powered = s.powered /\ y.sound.stage = s.stage /\ y.sound.mains = s.mains
      BY <2>2
    <2>4. CASE due \subseteq s.cues
      BY <2>1, <2>3, <2>4, <2>b DEF Answers
    <2>5. CASE ~(due \subseteq s.cues)
      <3>1. h.open
        BY <1>2, <2>5 DEF Answers
      <3>2. y.heard = [open |-> TRUE, loose |-> h.loose, coil |-> h.coil, hot |-> h.hot]
        BY <1>0, <2>1, <2>5, <3>1, HeardRecords DEF Ears
      <3>3. y.heard \in Ears
        BY <1>0, <3>2 DEF Ears
      <3>4. y.heard.open /\ y.heard.loose = h.loose /\ y.heard.hot = h.hot /\ y.heard.coil = h.coil
        BY <3>2
      <3> QED
        BY <2>3, <2>b, <3>3, <3>4 DEF Answers
    <2> QED
      BY <2>4, <2>5
  <1> QED
    BY <1>3, <1>4 DEF y

\* Whatever the tube does, what is heard of it answers the mains and a transition
LEMMA SoundAnswers ==
    ASSUME NEW s, NEW h, NEW was, Answers(s, h, was), NEW t, GoodTube(t), NEW powered \in BOOLEAN,
           powered # was => h.coil = 0, NEW calm \in BOOLEAN
    PROVE  LET x == SyncSound(s, h, t, powered, calm) IN Answers(x.sound, x.heard, powered)
  <1>0. t \in Tubes
    BY DEF GoodTube
  <1>1. CASE calm
    BY <1>0, <1>1, ReducedAnswers DEF SyncSound
  <1>2. CASE ~calm
    BY <1>0, <1>2, StageAnswers, ProgressAnswers DEF SyncSound
  <1> QED
    BY <1>1, <1>2

-----------------------------------------------------------------------------

\* The tube rests
LEMMA TubeInitInv == TubeInit => TubeInv
  <1> SUFFICES ASSUME TubeInit PROVE TubeInv
    OBVIOUS
  <1>1. PICK on \in BOOLEAN, picture \in Pictures, calm \in BOOLEAN :
          /\ tube = SettleTube(on)
          /\ glass = [current |-> picture, desired |-> picture, same |-> TRUE, powered |-> on, reduced |-> calm]
          /\ sound = [powered |-> on, on |-> on, reduced |-> calm, mains |-> FALSE, stage |-> "none", cues |-> {}]
    BY DEF TubeInit
  <1>2. GoodTube(tube)
    BY <1>1, SettledIsGood
  <1>3. GoodGlass(glass) /\ KeyIsRight(glass)
    BY <1>1 DEF GoodGlass, KeyIsRight, Glasses
  <1>4. heard = [open |-> FALSE, loose |-> FALSE, coil |-> 0, hot |-> FALSE] /\ updates = 0
    BY DEF TubeInit
  <1>5. sound \in Buzzes /\ heard \in Ears
    BY <1>1, <1>4 DEF Buzzes, Ears
  <1>6. Answers(sound, heard, glass.powered)
    BY <1>1, <1>4, <1>5 DEF Answers
  <1> QED
    BY <1>2, <1>3, <1>4, <1>6, TubeAssumption DEF TubeInv

\* A picture whose key is gone is taken down, and what shows is one the viewer may see
LEMMA RevokedGlass ==
    ASSUME NEW g, GoodGlass(g), NEW k, g.desired.key = k
    PROVE  LET r == Revoked(g, k) IN
           GoodGlass(r) /\ KeyIsRight(r) /\ r.desired = g.desired /\ r.powered = g.powered /\ r.reduced = g.reduced
           /\ r.current.id = g.current.id
  <1> DEFINE r == Revoked(g, k)
  <1>1. g \in Glasses /\ g.current \in Pictures /\ g.desired \in Pictures
    BY DEF GoodGlass, Glasses
  <1>2. CASE k = g.current.key
    BY <1>1, <1>2 DEF Revoked, KeyIsRight
  <1>3. CASE k # g.current.key
    <2> DEFINE p == [g.current EXCEPT !.key = k]
    <2>1. p = [id |-> g.current.id, key |-> k] /\ p \in Pictures
      BY <1>1 DEF Pictures
    <2>2. r = [[g EXCEPT !.current.key = k] EXCEPT !.same = FALSE]
      BY <1>3 DEF Revoked
    <2>3. [g EXCEPT !.current.key = k] = [g EXCEPT !.current = p]
      OBVIOUS
    <2> HIDE DEF p, r
    <2>4. r = [current |-> p, desired |-> g.desired, same |-> FALSE, powered |-> g.powered, reduced |-> g.reduced]
      BY <1>1, <2>2, <2>3 DEF Glasses
    <2>5. r \in Glasses /\ r.current = p /\ ~r.same
      BY <1>1, <2>1, <2>4 DEF Glasses
    <2> QED
      BY <2>1, <2>4, <2>5 DEF GoodGlass, KeyIsRight, r
  <1> QED
    BY <1>2, <1>3

\* A picture of another palette takes the glass only when it is dark enough for it
Waits == ~glass'.reduced /\ glass'.current.id # glass.current.id => tube'.level <= IF glass'.powered THEN 1 ELSE 0

\* A render of the page reaches the tube
LEMMA UpdateKeeps == TubeInv /\ UpdateTube => TubeInv' /\ Waits
  <1> SUFFICES ASSUME TubeInv, UpdateTube PROVE TubeInv' /\ Waits
    OBVIOUS
  <1>0. /\ GoodTube(tube) /\ GoodGlass(glass) /\ Answers(sound, heard, glass.powered)
        /\ glass \in Glasses /\ heard \in Ears
        /\ updates' \in 0 .. MaxUpdates
    BY TubeAssumption DEF TubeInv, GoodGlass, Answers, UpdateTube
  <1>1. PICK next \in Pictures, powered \in BOOLEAN, calm \in BOOLEAN, signal \in BOOLEAN :
          LET r1 == RouteTube([glass EXCEPT !.desired = next, !.powered = powered, !.reduced = calm, !.same = FALSE], tube)
              t1 == IF signal /\ powered /\ ~calm /\ Steady(r1.tube) /\ r1.glass.same
                    THEN Disturb(r1.tube) ELSE r1.tube
              g1 == Revoked(r1.glass, next.key)
              h1 == IF powered # glass.powered THEN [heard EXCEPT !.coil = 0] ELSE heard
              s1 == SyncSound(sound, h1, t1, powered, calm)
              g2 == IF calm THEN Exchange(g1) ELSE g1
              t2 == IF calm THEN SettleTube(powered) ELSE t1
              s2 == SyncSound(s1.sound, s1.heard, t2, powered, calm)
          IN  glass' = g2 /\ tube' = t2 /\ sound' = s2.sound /\ heard' = s2.heard
    BY DEF UpdateTube
  <1> DEFINE g0 == [glass EXCEPT !.desired = next, !.powered = powered, !.reduced = calm, !.same = FALSE]
             r1 == RouteTube(g0, tube)
             t1 == IF signal /\ powered /\ ~calm /\ Steady(r1.tube) /\ r1.glass.same THEN Disturb(r1.tube) ELSE r1.tube
             g1 == Revoked(r1.glass, next.key)
             h1 == IF powered # glass.powered THEN [heard EXCEPT !.coil = 0] ELSE heard
             s1 == SyncSound(sound, h1, t1, powered, calm)
             g2 == IF calm THEN Exchange(g1) ELSE g1
             t2 == IF calm THEN SettleTube(powered) ELSE t1
             s2 == SyncSound(s1.sound, s1.heard, t2, powered, calm)
  <1>2. glass' = g2 /\ tube' = t2 /\ sound' = s2.sound /\ heard' = s2.heard
    BY <1>1
  <1>3. g0 = [current |-> glass.current, desired |-> next, same |-> FALSE, powered |-> powered, reduced |-> calm]
    <2>1. g0 = [[[[glass EXCEPT !.desired = next] EXCEPT !.powered = powered] EXCEPT !.reduced = calm]
                EXCEPT !.same = FALSE]
      OBVIOUS
    <2> HIDE DEF g0
    <2> QED
      BY <1>0, <2>1 DEF Glasses
  <1>4. /\ GoodGlass(g0)
        /\ g0.current = glass.current /\ g0.desired = next /\ g0.powered = powered /\ g0.reduced = calm
    <2> HIDE DEF g0
    <2>1. g0 \in Glasses
      BY <1>0, <1>3 DEF Glasses
    <2> QED
      BY <1>3, <2>1 DEF GoodGlass
  <1> HIDE DEF g0
  <1>5. /\ GoodGlass(r1.glass) /\ GoodTube(r1.tube) /\ r1.tube.level = tube.level
        /\ r1.glass = g0 \/ r1.glass = Exchange(g0)
        /\ r1.glass.current.id # g0.current.id => tube.level <= IF g0.powered THEN 1 ELSE 0
    BY <1>0, <1>4, RoutedTube
  <1>6. r1.glass.desired = next /\ r1.glass.powered = powered /\ r1.glass.reduced = calm
    <2>1. Exchange(g0) = [current |-> g0.desired, desired |-> g0.desired, same |-> TRUE,
                          powered |-> g0.powered, reduced |-> g0.reduced]
      BY <1>4, ExchangedGlass
    <2> QED
      BY <1>4, <1>5, <2>1
  <1> HIDE DEF r1
  <1>7. GoodTube(t1) /\ (t1.level # r1.tube.level => r1.tube.level = 4)
    BY <1>5, DisturbedTube DEF Steady
  <1>8. /\ GoodGlass(g1) /\ KeyIsRight(g1) /\ g1.desired = next /\ g1.powered = powered /\ g1.reduced = calm
        /\ g1.current.id = r1.glass.current.id
    BY <1>5, <1>6, RevokedGlass
  <1> HIDE DEF g1, t1
  <1>9. Answers(sound, h1, glass.powered) /\ (powered # glass.powered => h1.coil = 0)
    <2>1. CASE powered # glass.powered
      <3>1. h1 = [open |-> heard.open, loose |-> heard.loose, coil |-> 0, hot |-> heard.hot]
        BY <1>0, <2>1 DEF Ears
      <3> HIDE DEF h1
      <3>2. h1 \in Ears
        BY <1>0, <3>1 DEF Ears
      <3> QED
        BY <1>0, <3>1, <3>2 DEF Answers
    <2>2. CASE powered = glass.powered
      BY <1>0, <2>2
    <2> QED
      BY <2>1, <2>2
  <1> HIDE DEF h1
  <1>10. Answers(s1.sound, s1.heard, powered)
    BY <1>7, <1>9, SoundAnswers
  <1> HIDE DEF s1
  <1>11. GoodTube(t2)
    BY <1>7, SettledIsGood
  <1>12. GoodGlass(g2) /\ KeyIsRight(g2) /\ g2.powered = powered /\ g2.reduced = calm
    <2>1. Exchange(g1) = [current |-> g1.desired, desired |-> g1.desired, same |-> TRUE,
                          powered |-> g1.powered, reduced |-> g1.reduced] /\ GoodGlass(Exchange(g1)) /\ KeyIsRight(Exchange(g1))
      BY <1>8, ExchangedGlass
    <2>2. Exchange(g1).powered = powered /\ Exchange(g1).reduced = calm
      BY <1>8, <2>1
    <2> QED
      BY <1>8, <2>1, <2>2
  <1>13. Answers(s2.sound, s2.heard, powered)
    <2> HIDE DEF t2
    <2> QED
      BY <1>10, <1>11, SoundAnswers
  <1>14. TubeInv'
    <2> HIDE DEF g2, t2, s2
    <2> QED
      BY <1>0, <1>2, <1>11, <1>12, <1>13 DEF TubeInv
  <1>15. ASSUME ~glass'.reduced, glass'.current.id # glass.current.id
         PROVE  tube'.level <= IF glass'.powered THEN 1 ELSE 0
    <2>1. ~calm /\ glass' = g1 /\ tube' = t1 /\ glass'.powered = powered
      BY <1>2, <1>12, <1>15
    <2>2. r1.glass.current.id # g0.current.id
      BY <1>4, <1>8, <1>15, <2>1
    <2>3. r1.tube.level <= IF powered THEN 1 ELSE 0
      BY <1>4, <1>5, <2>2
    <2> QED
      BY <1>7, <2>1, <2>3
  <1> QED
    BY <1>14, <1>15 DEF Waits

\* A frame of the tube
LEMMA FrameKeeps == TubeInv /\ Frame => TubeInv' /\ Waits
  <1> SUFFICES ASSUME TubeInv, Frame PROVE TubeInv' /\ Waits
    OBVIOUS
  <1>0. /\ GoodTube(tube) /\ GoodGlass(glass) /\ KeyIsRight(glass) /\ Answers(sound, heard, glass.powered)
        /\ glass \in Glasses /\ glass.powered \in BOOLEAN /\ glass.reduced \in BOOLEAN
        /\ updates' \in 0 .. MaxUpdates
    BY DEF TubeInv, GoodGlass, Glasses, Frame
  <1>1. ASSUME NEW g, GoodGlass(g), KeyIsRight(g)
        PROVE  /\ GoodGlass(Exchange(g)) /\ KeyIsRight(Exchange(g))
               /\ Exchange(g).powered = g.powered /\ Exchange(g).reduced = g.reduced
               /\ Exchange(g).current = g.desired /\ Exchange(g).desired = g.desired
    BY <1>1, ExchangedGlass
  <1>2. /\ GoodTube(tube') /\ GoodGlass(glass') /\ KeyIsRight(glass')
        /\ glass'.powered = glass.powered /\ glass'.reduced = glass.reduced
        /\ Waits
    <2>1. CASE glass.reduced
      <3>1. glass' = Exchange(glass) /\ tube' = SettleTube(glass.powered)
        BY <2>1 DEF Frame
      <3> QED
        BY <1>0, <1>1, <2>1, <3>1, SettledIsGood DEF Waits
    <2>2. CASE ~glass.reduced
      <3> DEFINE r1 == RouteTube(glass, tube)
      <3>1. PICK t \in Substeps(r1.tube) :
              LET r2 == RouteTube(r1.glass, t) IN glass' = r2.glass /\ tube' = r2.tube
        BY <2>2 DEF Frame
      <3> DEFINE r2 == RouteTube(r1.glass, t)
      <3>2. glass' = r2.glass /\ tube' = r2.tube
        BY <3>1
      <3>3. /\ GoodGlass(r1.glass) /\ GoodTube(r1.tube)
            /\ r1.tube.on = Alike(glass) /\ r1.tube.level = tube.level
            /\ r1.glass = glass \/ r1.glass = Exchange(glass)
            /\ r1.glass.current.id # glass.current.id => tube.level <= IF glass.powered THEN 1 ELSE 0
        BY <1>0, RoutedTube
      <3>4. /\ KeyIsRight(r1.glass) /\ r1.glass.powered = glass.powered /\ r1.glass.reduced = glass.reduced
        BY <1>0, <1>1, <3>3
      <3> HIDE DEF r1
      <3>5. GoodTube(t) /\ (~r1.tube.on => t.level <= r1.tube.level)
        BY <3>1, <3>3, SteppedTube
      <3>6. /\ GoodGlass(r2.glass) /\ GoodTube(r2.tube) /\ r2.tube.level = t.level
            /\ r2.glass = r1.glass \/ r2.glass = Exchange(r1.glass)
            /\ r2.glass.current.id # r1.glass.current.id => t.level <= IF r1.glass.powered THEN 1 ELSE 0
        BY <3>3, <3>5, RoutedTube
      <3>7. KeyIsRight(r2.glass) /\ r2.glass.powered = glass.powered /\ r2.glass.reduced = glass.reduced
        BY <1>1, <3>3, <3>4, <3>6
      <3> HIDE DEF r2
      <3>8. ASSUME glass'.current.id # glass.current.id PROVE tube'.level <= IF glass'.powered THEN 1 ELSE 0
        <4>1. CASE r2.glass.current.id # r1.glass.current.id
          BY <3>2, <3>4, <3>6, <3>7, <4>1
        <4>2. CASE r2.glass.current.id = r1.glass.current.id
          <5>1. r1.glass.current.id # glass.current.id
            BY <3>2, <3>8, <4>2
          <5>2. ~Alike(glass)
            BY <1>0, <1>1, <3>3, <5>1 DEF Alike
          <5>3. t.level \in 0 .. 4 /\ tube.level \in 0 .. 4
            BY <1>0, <3>5 DEF GoodTube, Tubes
          <5>4. t.level <= tube.level
            BY <3>3, <3>5, <5>2
          <5> QED
            BY <3>2, <3>3, <3>6, <3>7, <5>1, <5>3, <5>4
        <4> QED
          BY <4>1, <4>2
      <3> QED
        BY <3>2, <3>6, <3>7, <3>8 DEF Waits
    <2> QED
      BY <2>1, <2>2
  <1> DEFINE s == SyncSound(sound, heard, tube', glass.powered, glass.reduced)
  <1>3. sound' = s.sound /\ heard' = s.heard
    BY DEF Frame
  <1>4. Answers(s.sound, s.heard, glass.powered)
    BY <1>0, <1>2, SoundAnswers
  <1> HIDE DEF s
  <1> QED
    BY <1>0, <1>2, <1>3, <1>4 DEF TubeInv

\* Every step of the tube keeps the invariant
LEMMA TubeStep == TubeInv /\ [TubeNext]_tubeVars => TubeInv' /\ Waits
  <1>1. CASE UNCHANGED tubeVars
    BY <1>1 DEF tubeVars, TubeInv, GoodTube, GoodGlass, KeyIsRight, Answers, Waits
  <1> QED
    BY <1>1, UpdateKeeps, FrameKeeps DEF TubeNext

\* What the invariant says of the runs' properties
LEMMA TubeInvKept == TubeInv => TubeTypeOK /\ NothingSecretGlows /\ CuesHaveTheirTransition /\ DegaussedOnce
  BY DEF TubeInv, GoodTube, GoodGlass, KeyIsRight, Answers, Tubes, Glasses, Buzzes, TubeTypeOK,
         NothingSecretGlows, CuesHaveTheirTransition, DegaussedOnce

-----------------------------------------------------------------------------
\* The cues and the motor: Speaker

Feeds == [wanted : BOOLEAN, starting : BOOLEAN, voice : 0 .. MaxVoices, rollers : BOOLEAN]
Gates == [enabled : BOOLEAN, visible : BOOLEAN, disposed : BOOLEAN]
Devices == [context : {"none", "suspended", "running", "closed"}, resuming : BOOLEAN,
            bank : {"none", "decoding", "ready"}, touched : BOOLEAN]

\* Starts have numbers, and the one of the motor is its own
GoodStarts(cs) ==
    /\ cs \subseteq Calls
    /\ \A c, other \in cs : c.n = other.n => c = other
    /\ \A c \in cs : c.cue = Motor <=> c.n = 0
\* A start of the tube that is not cut is of the transition under way
OfTheTube(cs, open) == \A c \in cs : c.cue = Crt /\ ~c.cut => open
StartingIsSo(f, cs) == f.starting <=> \E c \in cs : c.cue = Motor
HeardIsFed(f, vs) == f.voice # NoVoice => \E v \in vs : v.n = f.voice /\ v.cue = Motor /\ ~v.fading
OnlyFed(f, vs) == \A v \in vs : v.cue = Motor /\ ~v.fading => v.n = f.voice /\ f.wanted /\ f.rollers
GoodFeed(f) == f \in Feeds /\ (f.wanted => f.rollers) /\ (f.starting => f.voice = NoVoice)
OfNow(vs, open) == \A v \in vs : ~v.stale /\ (v.cue = Crt /\ ~v.fading => ~v.cut /\ open)

SpeakerInv ==
    /\ gate \in Gates /\ device \in Devices /\ tail \in BOOLEAN
    /\ voices \subseteq Voices /\ recent \subseteq Cues
    /\ GoodStarts(sounds) /\ OfTheTube(sounds, tail)
    /\ GoodFeed(feed) /\ StartingIsSo(feed, sounds) /\ HeardIsFed(feed, voices) /\ OnlyFed(feed, voices)
    /\ QuietWhileOff /\ OfNow(voices, tail) /\ OpenedByGesture

\* What happens to a start under way leaves which it is
LEMMA CallIs ==
    ASSUME NEW c \in Calls
    PROVE  /\ [c EXCEPT !.stale = TRUE, !.cut = TRUE] \in Calls /\ [c EXCEPT !.cut = TRUE] \in Calls
           /\ [c EXCEPT !.stage = "decoding"] \in Calls /\ [c EXCEPT !.late = TRUE] \in Calls
           /\ LET s == [c EXCEPT !.stale = TRUE, !.cut = TRUE] IN s.n = c.n /\ s.cue = c.cue /\ s.cut
           /\ LET s == [c EXCEPT !.cut = TRUE] IN s.n = c.n /\ s.cue = c.cue /\ s.cut
           /\ LET s == [c EXCEPT !.stage = "decoding"] IN s.n = c.n /\ s.cue = c.cue /\ s.cut = c.cut
           /\ LET s == [c EXCEPT !.late = TRUE] IN s.n = c.n /\ s.cue = c.cue /\ s.cut = c.cut
  BY DEF Calls

\* A voice that fades is still of its cue
LEMMA VoiceIs ==
    ASSUME NEW v \in Voices
    PROVE  LET f == [v EXCEPT !.fading = TRUE] IN
           f \in Voices /\ f.n = v.n /\ f.cue = v.cue /\ f.fading /\ f.stale = v.stale /\ f.cut = v.cut
  BY DEF Voices

\* Every start is cut, and keeps its number and its cue
LEMMA CutStarts ==
    ASSUME NEW cs, GoodStarts(cs), NEW now,
           now = {[c EXCEPT !.stale = TRUE, !.cut = TRUE] : c \in cs} \/ now = {[c EXCEPT !.cut = TRUE] : c \in cs}
    PROVE  /\ GoodStarts(now) /\ \A open \in BOOLEAN : OfTheTube(now, open)
           /\ (\E c \in now : c.cue = Motor) <=> (\E c \in cs : c.cue = Motor)
  <1> DEFINE Silenced(c) == [c EXCEPT !.stale = TRUE, !.cut = TRUE]
             Cut(c) == [c EXCEPT !.cut = TRUE]
  <1>0. ASSUME NEW c \in cs
        PROVE  /\ Silenced(c) \in Calls /\ Silenced(c).n = c.n /\ Silenced(c).cue = c.cue /\ Silenced(c).cut
               /\ Cut(c) \in Calls /\ Cut(c).n = c.n /\ Cut(c).cue = c.cue /\ Cut(c).cut
    <2>1. c \in Calls
      BY DEF GoodStarts
    <2> QED
      BY <2>1, CallIs
  <1>1. CASE now = {Silenced(c) : c \in cs}
    <2> HIDE DEF Silenced
    <2>0. /\ \A s \in now : \E c \in cs : s = Silenced(c)
          /\ \A c \in cs : Silenced(c) \in now
      BY <1>1
    <2>1. GoodStarts(now)
      <3>1. ASSUME NEW s \in now PROVE s \in Calls /\ (s.cue = Motor <=> s.n = 0)
        <4>1. PICK c \in cs : s = Silenced(c)
          BY <2>0
        <4>2. c.cue = Motor <=> c.n = 0
          BY DEF GoodStarts
        <4> QED
          BY <1>0, <4>1, <4>2
      <3>2. ASSUME NEW s \in now, NEW other \in now, s.n = other.n PROVE s = other
        <4>1. PICK c \in cs : s = Silenced(c)
          BY <2>0
        <4>2. PICK k \in cs : other = Silenced(k)
          BY <2>0
        <4>3. c.n = k.n
          BY <1>0, <3>2, <4>1, <4>2
        <4> QED
          BY <4>1, <4>2, <4>3 DEF GoodStarts
      <3> QED
        BY <3>1, <3>2 DEF GoodStarts
    <2>2. \A open \in BOOLEAN : OfTheTube(now, open)
      BY <1>0, <2>0 DEF OfTheTube
    <2>3. (\E c \in now : c.cue = Motor) => (\E c \in cs : c.cue = Motor)
      <3>1. SUFFICES ASSUME NEW s \in now, s.cue = Motor PROVE \E c \in cs : c.cue = Motor
        OBVIOUS
      <3>2. PICK c \in cs : s = Silenced(c)
        BY <2>0
      <3>3. c.cue = Motor
        BY <1>0, <3>1, <3>2
      <3> QED
        BY <3>3
    <2>4. (\E c \in cs : c.cue = Motor) => (\E c \in now : c.cue = Motor)
      <3>1. SUFFICES ASSUME NEW c \in cs, c.cue = Motor PROVE \E s \in now : s.cue = Motor
        OBVIOUS
      <3>2. Silenced(c) \in now /\ Silenced(c).cue = Motor
        BY <1>0, <2>0, <3>1
      <3> QED
        BY <3>2
    <2> QED
      BY <2>1, <2>2, <2>3, <2>4
  <1>2. CASE now = {Cut(c) : c \in cs}
    <2> HIDE DEF Cut
    <2>0. /\ \A s \in now : \E c \in cs : s = Cut(c)
          /\ \A c \in cs : Cut(c) \in now
      BY <1>2
    <2>1. GoodStarts(now)
      <3>1. ASSUME NEW s \in now PROVE s \in Calls /\ (s.cue = Motor <=> s.n = 0)
        <4>1. PICK c \in cs : s = Cut(c)
          BY <2>0
        <4>2. c.cue = Motor <=> c.n = 0
          BY DEF GoodStarts
        <4> QED
          BY <1>0, <4>1, <4>2
      <3>2. ASSUME NEW s \in now, NEW other \in now, s.n = other.n PROVE s = other
        <4>1. PICK c \in cs : s = Cut(c)
          BY <2>0
        <4>2. PICK k \in cs : other = Cut(k)
          BY <2>0
        <4>3. c.n = k.n
          BY <1>0, <3>2, <4>1, <4>2
        <4> QED
          BY <4>1, <4>2, <4>3 DEF GoodStarts
      <3> QED
        BY <3>1, <3>2 DEF GoodStarts
    <2>2. \A open \in BOOLEAN : OfTheTube(now, open)
      BY <1>0, <2>0 DEF OfTheTube
    <2>3. (\E c \in now : c.cue = Motor) => (\E c \in cs : c.cue = Motor)
      <3>1. SUFFICES ASSUME NEW s \in now, s.cue = Motor PROVE \E c \in cs : c.cue = Motor
        OBVIOUS
      <3>2. PICK c \in cs : s = Cut(c)
        BY <2>0
      <3>3. c.cue = Motor
        BY <1>0, <3>1, <3>2
      <3> QED
        BY <3>3
    <2>4. (\E c \in cs : c.cue = Motor) => (\E c \in now : c.cue = Motor)
      <3>1. SUFFICES ASSUME NEW c \in cs, c.cue = Motor PROVE \E s \in now : s.cue = Motor
        OBVIOUS
      <3>2. Cut(c) \in now /\ Cut(c).cue = Motor
        BY <1>0, <2>0, <3>1
      <3> QED
        BY <3>2
    <2> QED
      BY <2>1, <2>2, <2>3, <2>4
  <1> QED
    BY <1>1, <1>2

\* A start goes on: the same but for its stage or its age
LEMMA SwappedStart ==
    ASSUME NEW cs, GoodStarts(cs), NEW c \in cs, NEW s \in Calls, s.n = c.n, s.cue = c.cue, s.cut = c.cut,
           NEW now, now = (cs \ {c}) \union {s}
    PROVE  /\ GoodStarts(now) /\ \A open \in BOOLEAN : OfTheTube(cs, open) => OfTheTube(now, open)
           /\ (\E k \in now : k.cue = Motor) <=> (\E k \in cs : k.cue = Motor)
  BY DEF GoodStarts, OfTheTube

\* A start that is over is gone, and the others are as they were
LEMMA EndedStart ==
    ASSUME NEW cs, GoodStarts(cs), NEW c \in cs
    PROVE  /\ GoodStarts(cs \ {c}) /\ \A open \in BOOLEAN : OfTheTube(cs, open) => OfTheTube(cs \ {c}, open)
           /\ c.cue = Motor => ~\E k \in cs \ {c} : k.cue = Motor
           /\ c.cue # Motor => ((\E k \in cs \ {c} : k.cue = Motor) <=> \E k \in cs : k.cue = Motor)
  BY DEF GoodStarts, OfTheTube

-----------------------------------------------------------------------------

\* Everything is cut, and what decodes meanwhile is told to stop
LEMMA SilenceKeeps ==
    ASSUME SpeakerInv, NEW g \in Gates, SilenceAll(g), device' \in Devices, OpenedByGesture'
    PROVE  SpeakerInv'
  <1>1. /\ gate' = g /\ voices' = {} /\ recent' = {} /\ tail' = FALSE
        /\ feed' = [feed EXCEPT !.wanted = FALSE, !.voice = NoVoice]
        /\ sounds' = {[c EXCEPT !.stale = TRUE, !.cut = TRUE] : c \in sounds}
    BY DEF SilenceAll
  <1>2. /\ GoodStarts(sounds') /\ OfTheTube(sounds', FALSE)
        /\ (\E c \in sounds' : c.cue = Motor) <=> (\E c \in sounds : c.cue = Motor)
    BY <1>1, CutStarts DEF SpeakerInv
  <1>3. feed \in Feeds
    BY DEF SpeakerInv, GoodFeed
  <1>4. feed' = [wanted |-> FALSE, starting |-> feed.starting, voice |-> 0, rollers |-> feed.rollers]
    <2>1. feed' = [[feed EXCEPT !.wanted = FALSE] EXCEPT !.voice = 0]
      BY <1>1 DEF NoVoice
    <2> QED
      BY <1>3, <2>1 DEF Feeds
  <1>5. feed' \in Feeds /\ ~feed'.wanted /\ feed'.voice = 0 /\ feed'.starting = feed.starting
    BY <1>3, <1>4, SpeakerAssumption DEF Feeds
  <1>6. GoodFeed(feed') /\ StartingIsSo(feed', sounds') /\ HeardIsFed(feed', {}) /\ OnlyFed(feed', {})
    BY <1>2, <1>5 DEF SpeakerInv, GoodFeed, StartingIsSo, HeardIsFed, OnlyFed, NoVoice
  <1>7. QuietWhileOff' /\ OfNow(voices', tail')
    BY <1>1 DEF QuietWhileOff, OfNow
  <1> QED
    BY <1>1, <1>2, <1>6, <1>7 DEF SpeakerInv

\* What output makes of the device
LEMMA OutputIs ==
    ASSUME device \in Devices, OpenedByGesture, NEW gesture \in BOOLEAN, NEW d \in Output(gesture)
    PROVE  d \in Devices /\ (d.context \in {"suspended", "running"} => d.touched)
  <1> DEFINE touched == device.touched \/ gesture
             old == [device EXCEPT !.touched = touched]
  <1>1. old \in Devices /\ old.context = device.context /\ old.touched = touched
    BY DEF Devices
  <1>2. CASE device.context = "running"
    <2>1. d = old
      BY <1>2 DEF Output
    <2> QED
      BY <1>1, <1>2, <2>1 DEF OpenedByGesture
  <1>3. CASE device.context # "running"
    <2>1. gesture /\ d = [old EXCEPT !.context = "suspended", !.resuming = TRUE]
      BY <1>3 DEF Output
    <2>2. d = [[old EXCEPT !.context = "suspended"] EXCEPT !.resuming = TRUE]
      BY <2>1
    <2> HIDE DEF old
    <2>3. d = [context |-> "suspended", resuming |-> TRUE, bank |-> old.bank, touched |-> old.touched]
      BY <1>1, <2>2 DEF Devices
    <2> QED
      BY <1>1, <2>1, <2>3 DEF Devices
  <1> QED
    BY <1>2, <1>3

\* What start leaves: nothing, or one more start
LEMMA StartIs ==
    ASSUME SpeakerInv, NEW cue \in Cues, NEW gesture \in BOOLEAN, Start(cue, gesture),
           cue = Motor => ~feed.starting, cue = Crt => tail
    PROVE  /\ device' \in Devices /\ (device'.context \in {"suspended", "running"} => device'.touched)
           /\ GoodStarts(sounds') /\ OfTheTube(sounds', tail)
           /\ cue # Motor => ((\E c \in sounds' : c.cue = Motor) <=> \E c \in sounds : c.cue = Motor)
           /\ cue = Motor => ((\E c \in sounds' : c.cue = Motor) <=> sounds' # sounds)
  <1> DEFINE opened == IF Allowed THEN Output(gesture) ELSE {}
             n == IF cue = Motor THEN 0 ELSE OneOf(FreeCall(sounds))
             made == [n |-> n, cue |-> cue, stage |-> "output", stale |-> FALSE, cut |-> FALSE, late |-> FALSE]
  <1>0. device \in Devices /\ OpenedByGesture /\ GoodStarts(sounds) /\ OfTheTube(sounds, tail) /\ StartingIsSo(feed, sounds)
    BY DEF SpeakerInv
  <1>1. CASE opened = {}
    <2>1. sounds' = sounds /\ device' = device
      BY <1>1 DEF Start
    <2> QED
      BY <1>0, <2>1 DEF OpenedByGesture, StartingIsSo
  <1>2. CASE opened # {}
    <2>1. /\ cue # Motor => FreeCall(sounds) # {}
          /\ sounds' = sounds \union {made} /\ device' \in opened
      BY <1>2 DEF Start
    <2>2. device' \in Devices /\ (device'.context \in {"suspended", "running"} => device'.touched)
      BY <1>0, <2>1, OutputIs
    <2>3. n \in 0 .. MaxSounds /\ (cue = Motor <=> n = 0) /\ (\A c \in sounds : c.n # n)
      <3>1. CASE cue = Motor
        BY <1>0, <3>1, SpeakerAssumption DEF GoodStarts, StartingIsSo
      <3>2. CASE cue # Motor
        <4>1. n \in FreeCall(sounds)
          BY <2>1, <3>2 DEF OneOf
        <4> QED
          BY <3>2, <4>1, SpeakerAssumption DEF FreeCall
      <3> QED
        BY <3>1, <3>2
    <2> HIDE DEF n
    <2>4. made \in Calls /\ made.n = n /\ made.cue = cue /\ ~made.cut
      BY <2>3 DEF Calls
    <2> HIDE DEF made
    <2>5. GoodStarts(sounds') /\ OfTheTube(sounds', tail)
      BY <1>0, <2>1, <2>3, <2>4 DEF GoodStarts, OfTheTube
    <2> QED
      BY <1>0, <2>1, <2>2, <2>3, <2>4, <2>5 DEF StartingIsSo
  <1> QED
    BY <1>1, <1>2

\* What an update leaves of feed
FeedNow(g, w, begun, n, moving) ==
    g \in Feeds /\ g.wanted = w /\ g.starting = begun /\ g.voice = n /\ g.rollers = moving

\* The fields of the motor after each way it is set
LEMMA FeedIs ==
    ASSUME NEW f \in Feeds, NEW n \in 0 .. MaxVoices, NEW moving \in BOOLEAN, NEW begun \in BOOLEAN, NEW g
    PROVE  /\ g = [f EXCEPT !.starting = FALSE] => FeedNow(g, f.wanted, FALSE, f.voice, f.rollers)
           /\ g = [f EXCEPT !.starting = FALSE, !.voice = n] => FeedNow(g, f.wanted, FALSE, n, f.rollers)
           /\ g = [f EXCEPT !.wanted = FALSE, !.voice = NoVoice, !.rollers = moving] =>
                FeedNow(g, FALSE, f.starting, 0, moving)
           /\ g = [f EXCEPT !.wanted = TRUE, !.rollers = TRUE] => FeedNow(g, TRUE, f.starting, f.voice, TRUE)
           /\ g = [f EXCEPT !.wanted = TRUE, !.rollers = TRUE, !.starting = begun] =>
                FeedNow(g, TRUE, begun, f.voice, TRUE)
  <1>0. 0 \in 0 .. MaxVoices
    BY SpeakerAssumption
  <1>1. g = [f EXCEPT !.starting = FALSE] => FeedNow(g, f.wanted, FALSE, f.voice, f.rollers)
    BY DEF FeedNow, Feeds
  <1>2. g = [[f EXCEPT !.starting = FALSE] EXCEPT !.voice = n] => FeedNow(g, f.wanted, FALSE, n, f.rollers)
    BY DEF FeedNow, Feeds
  <1>3. g = [[[f EXCEPT !.wanted = FALSE] EXCEPT !.voice = 0] EXCEPT !.rollers = moving] =>
          FeedNow(g, FALSE, f.starting, 0, moving)
    BY <1>0 DEF FeedNow, Feeds
  <1>4. g = [[f EXCEPT !.wanted = TRUE] EXCEPT !.rollers = TRUE] => FeedNow(g, TRUE, f.starting, f.voice, TRUE)
    BY DEF FeedNow, Feeds
  <1>5. g = [[[f EXCEPT !.wanted = TRUE] EXCEPT !.rollers = TRUE] EXCEPT !.starting = begun] =>
          FeedNow(g, TRUE, begun, f.voice, TRUE)
    BY DEF FeedNow, Feeds
  <1> QED
    BY <1>0, <1>1, <1>2, <1>3, <1>4, <1>5 DEF NoVoice

\* What fades of a set of voices: goes(v) is said of each by its cue or by its number
Fades(v, cue, n) == v.cue = cue \/ v.n = n
FadedVoice(v, cue, n) == IF Fades(v, cue, n) THEN [v EXCEPT !.fading = TRUE] ELSE v

\* The voices of a cue, or one of them, fade: the others go on
LEMMA FadedVoices ==
    ASSUME voices \subseteq Voices, tail \in BOOLEAN, OfNow(voices, tail), NEW cue, NEW n,
           \A s \in voices' : \E v \in voices : s = FadedVoice(v, cue, n),
           \A v \in voices : FadedVoice(v, cue, n) \in voices'
    PROVE  /\ voices' \subseteq Voices
           /\ voices = {} => voices' = {}
           /\ OfNow(voices', tail)
           /\ cue = Crt => \A begun \in BOOLEAN : OfNow(voices', begun)
           /\ \A v \in voices : ~Fades(v, cue, n) => v \in voices'
           /\ \A s \in voices' : s.cue = Motor /\ ~s.fading => s \in voices /\ ~Fades(s, cue, n)
  <1> DEFINE Fade(v) == [v EXCEPT !.fading = TRUE]
  <1>1. ASSUME NEW v \in voices
        PROVE  /\ Fade(v) \in Voices /\ Fade(v).n = v.n /\ Fade(v).cue = v.cue /\ Fade(v).fading
               /\ Fade(v).stale = v.stale /\ Fade(v).cut = v.cut
    BY VoiceIs
  <1>2. \A v \in voices : FadedVoice(v, cue, n) = IF Fades(v, cue, n) THEN Fade(v) ELSE v
    BY DEF FadedVoice
  <1>3. \A s \in voices' : \E v \in voices : s = FadedVoice(v, cue, n)
    OBVIOUS
  <1>4. \A v \in voices : FadedVoice(v, cue, n) \in voices'
    OBVIOUS
  <1> HIDE DEF Fade
  <1>5. ASSUME NEW s \in voices'
        PROVE  /\ s \in Voices /\ ~s.stale
               /\ s.cue = Crt /\ ~s.fading => ~s.cut /\ tail /\ cue # Crt
               /\ ~s.fading => s \in voices /\ ~Fades(s, cue, n)
    <2>1. PICK v \in voices : s = FadedVoice(v, cue, n)
      BY <1>3
    <2>2. v \in Voices /\ ~v.stale /\ (v.cue = Crt /\ ~v.fading => ~v.cut /\ tail)
      BY DEF OfNow
    <2>3. CASE Fades(v, cue, n)
      <3>1. s = Fade(v)
        BY <1>2, <2>1, <2>3
      <3> QED
        BY <1>1, <2>2, <3>1
    <2>4. CASE ~Fades(v, cue, n)
      <3>1. s = v
        BY <1>2, <2>1, <2>4
      <3> QED
        BY <2>2, <2>4, <3>1 DEF Fades
    <2> QED
      BY <2>3, <2>4
  <1>6. OfNow(voices', tail) /\ (cue = Crt => \A begun \in BOOLEAN : OfNow(voices', begun))
    BY <1>5 DEF OfNow
  <1>7. \A v \in voices : ~Fades(v, cue, n) => v \in voices'
    BY <1>2, <1>4
  <1>8. voices = {} => voices' = {}
    BY <1>3
  <1> QED
    BY <1>5, <1>6, <1>7, <1>8

-----------------------------------------------------------------------------

\* The gates keep their shape
LEMMA GateIs ==
    ASSUME NEW g \in Gates
    PROVE  /\ [g EXCEPT !.enabled = ~@] \in Gates /\ [g EXCEPT !.visible = ~@] \in Gates
           /\ [g EXCEPT !.disposed = TRUE] \in Gates
  BY DEF Gates

\* The gates that close silence everything
LEMMA SilencesKeep == SpeakerInv /\ (SetEnabled \/ SetVisible \/ Mains \/ DisposeSpeaker) => SpeakerInv'
  <1> SUFFICES ASSUME SpeakerInv, SetEnabled \/ SetVisible \/ Mains \/ DisposeSpeaker PROVE SpeakerInv'
    OBVIOUS
  <1>0. gate \in Gates /\ device \in Devices /\ OpenedByGesture
    BY DEF SpeakerInv
  <1>1. CASE SetEnabled \/ SetVisible \/ Mains
    <2>1. device' = device /\ OpenedByGesture'
      BY <1>0, <1>1 DEF SetEnabled, SetVisible, Mains, OpenedByGesture
    <2>2. PICK g \in Gates : SilenceAll(g)
      BY <1>0, <1>1, GateIs DEF SetEnabled, SetVisible, Mains
    <2> QED
      BY <1>0, <2>1, <2>2, SilenceKeeps
  <1>2. CASE DisposeSpeaker
    <2> DEFINE g == [gate EXCEPT !.disposed = TRUE]
    <2>1. SilenceAll(g) /\ device' = [device EXCEPT !.context = "closed", !.bank = IF @ = "decoding" THEN @ ELSE "none"]
      BY <1>2 DEF DisposeSpeaker
    <2>2. g \in Gates
      BY <1>0, GateIs
    <2> HIDE DEF g
    <2> DEFINE left == IF device.bank = "decoding" THEN "decoding" ELSE "none"
    <2>3. device' = [context |-> "closed", resuming |-> device.resuming, bank |-> left, touched |-> device.touched]
      BY <1>0, <2>1 DEF Devices
    <2>4. device' \in Devices /\ OpenedByGesture'
      BY <1>0, <2>3 DEF Devices, OpenedByGesture
    <2> QED
      BY <2>1, <2>2, <2>4, SilenceKeeps
  <1> QED
    BY <1>1, <1>2

\* A cue is asked for, or the player's first gesture
LEMMA PlaysKeep == SpeakerInv /\ (Play \/ CrtPlays \/ Unlock) => SpeakerInv'
  <1> SUFFICES ASSUME SpeakerInv, Play \/ CrtPlays \/ Unlock PROVE SpeakerInv'
    OBVIOUS
  <1>1. CASE Play \/ CrtPlays
    <2>1. PICK cue \in {"key", Crt}, gesture \in BOOLEAN : Start(cue, gesture) /\ (cue = Crt => tail)
      BY <1>1 DEF Play, CrtPlays, Crt
    <2>2. UNCHANGED <<gate, voices, recent, tail, feed>>
      BY <1>1 DEF Play, CrtPlays
    <2>3. cue \in Cues /\ cue # Motor
      BY DEF Cues, Motor, Crt
    <2>4. /\ device' \in Devices /\ (device'.context \in {"suspended", "running"} => device'.touched)
          /\ GoodStarts(sounds') /\ OfTheTube(sounds', tail)
          /\ ((\E c \in sounds' : c.cue = Motor) <=> \E c \in sounds : c.cue = Motor)
      BY <2>1, <2>3, StartIs
    <2>5. StartingIsSo(feed', sounds') /\ OfTheTube(sounds', tail')
      BY <2>2, <2>4 DEF SpeakerInv, StartingIsSo
    <2>6. QuietWhileOff' /\ OpenedByGesture'
      BY <2>2, <2>4 DEF SpeakerInv, QuietWhileOff, Allowed, OpenedByGesture
    <2> QED
      BY <2>2, <2>4, <2>5, <2>6 DEF SpeakerInv
  <1>2. CASE Unlock
    <2>1. device' = device \/ device' \in Output(TRUE)
      BY <1>2 DEF Unlock
    <2>2. device' \in Devices /\ OpenedByGesture'
      BY <2>1, OutputIs DEF SpeakerInv, OpenedByGesture
    <2>3. UNCHANGED <<gate, sounds, voices, recent, tail, feed>>
      BY <1>2 DEF Unlock
    <2>4. QuietWhileOff'
      BY <2>3 DEF SpeakerInv, QuietWhileOff, Allowed
    <2> QED
      BY <2>2, <2>3, <2>4 DEF SpeakerInv
  <1> QED
    BY <1>1, <1>2

\* The end of a start, with nothing heard
LEMMA SettledFeed ==
    ASSUME SpeakerInv, NEW c \in sounds
    PROVE  LET f == FeedSettled(c) IN
           /\ GoodFeed(f) /\ StartingIsSo(f, Ended(c)) /\ HeardIsFed(f, voices) /\ OnlyFed(f, voices)
           /\ f.wanted = feed.wanted /\ f.rollers = feed.rollers /\ f.voice = feed.voice
  <1>0. feed \in Feeds /\ GoodStarts(sounds) /\ GoodFeed(feed) /\ StartingIsSo(feed, sounds)
        /\ HeardIsFed(feed, voices) /\ OnlyFed(feed, voices)
    BY DEF SpeakerInv, GoodFeed
  <1>1. CASE c.cue = Motor
    <2> DEFINE f == [feed EXCEPT !.starting = FALSE]
    <2>1. f = [feed EXCEPT !.starting = FALSE]
      OBVIOUS
    <2> HIDE DEF f
    <2>3. f \in Feeds /\ f.wanted = feed.wanted /\ f.starting = FALSE /\ f.voice = feed.voice /\ f.rollers = feed.rollers
      BY <1>0, <2>1 DEF Feeds
    <2>4. ~\E k \in Ended(c) : k.cue = Motor
      BY <1>0, <1>1, EndedStart DEF Ended
    <2>5. GoodFeed(f) /\ StartingIsSo(f, Ended(c)) /\ HeardIsFed(f, voices) /\ OnlyFed(f, voices)
      BY <1>0, <2>3, <2>4 DEF GoodFeed, StartingIsSo, HeardIsFed, OnlyFed
    <2> QED
      BY <1>1, <2>3, <2>5 DEF FeedSettled, f
  <1>2. CASE c.cue # Motor
    <2>1. FeedSettled(c) = feed
      BY <1>2 DEF FeedSettled
    <2>2. (\E k \in Ended(c) : k.cue = Motor) <=> \E k \in sounds : k.cue = Motor
      BY <1>0, <1>2, EndedStart DEF Ended
    <2> QED
      BY <1>0, <2>1, <2>2 DEF StartingIsSo
  <1> QED
    BY <1>1, <1>2

\* A start that finds its gate closed, or was cut, ends without a voice
LEMMA EndsQuietly ==
    ASSUME SpeakerInv, NEW c \in sounds, sounds' = Ended(c), feed' = FeedSettled(c),
           UNCHANGED <<gate, device, voices, recent, tail>>
    PROVE  SpeakerInv'
  <1>1. GoodStarts(sounds') /\ OfTheTube(sounds', tail')
    BY EndedStart DEF SpeakerInv, Ended
  <1>2. GoodFeed(feed') /\ StartingIsSo(feed', sounds') /\ HeardIsFed(feed', voices') /\ OnlyFed(feed', voices')
    BY SettledFeed
  <1>3. QuietWhileOff' /\ OpenedByGesture'
    BY DEF SpeakerInv, QuietWhileOff, Allowed, OpenedByGesture
  <1> QED
    BY <1>1, <1>2, <1>3 DEF SpeakerInv

\* A start becomes a voice, unless something was cut meanwhile
LEMMA SoundsKeep ==
    ASSUME SpeakerInv, NEW c \in sounds, Sounds(c), UNCHANGED <<gate, device, tail>>
    PROVE  SpeakerInv'
  <1>1. CASE (~Passes(c) \/ (c.cue # Motor /\ c.cue \in recent) \/ FreeVoice(voices) = {})
             /\ feed' = FeedSettled(c) /\ UNCHANGED <<voices, recent>>
    BY <1>1, EndsQuietly DEF Sounds
  <1>2. CASE /\ Passes(c) /\ FreeVoice(voices) # {}
             /\ LET n == OneOf(FreeVoice(voices)) IN
                /\ voices' = voices \union {[n |-> n, cue |-> c.cue, fading |-> FALSE, stale |-> c.stale, cut |-> c.cut]}
                /\ recent' = recent \union {c.cue}
                /\ feed' = IF c.cue = Motor THEN [feed EXCEPT !.starting = FALSE, !.voice = n] ELSE feed
    <2> DEFINE n == OneOf(FreeVoice(voices))
               heard_ == [n |-> n, cue |-> c.cue, fading |-> FALSE, stale |-> c.stale, cut |-> c.cut]
    <2>1. /\ voices' = voices \union {heard_} /\ recent' = recent \union {c.cue}
          /\ feed' = IF c.cue = Motor THEN [feed EXCEPT !.starting = FALSE, !.voice = n] ELSE feed
      BY <1>2
    <2>2. n \in FreeVoice(voices)
      BY <1>2 DEF OneOf
    <2>3. n \in 1 .. MaxVoices /\ n \in 0 .. MaxVoices /\ n # 0 /\ \A v \in voices : v.n # n
      BY <2>2, SpeakerAssumption DEF FreeVoice
    <2> HIDE DEF n
    <2>4. c \in Calls /\ c.cue \in Cues /\ c.stale \in BOOLEAN /\ c.cut \in BOOLEAN
      BY DEF SpeakerInv, GoodStarts, Calls
    <2>5. heard_ \in Voices /\ heard_.n = n /\ heard_.cue = c.cue /\ ~heard_.fading /\ heard_.stale = c.stale /\ heard_.cut = c.cut
      BY <2>3, <2>4 DEF Voices
    <2> HIDE DEF heard_
    <2>6. Allowed /\ ~c.stale /\ (c.cue = Crt => ~c.cut) /\ (c.cue = Motor => feed.wanted)
      BY <1>2 DEF Passes
    <2>7. c.cue = Crt => tail
      BY <2>6 DEF SpeakerInv, OfTheTube
    <2>8. sounds' = Ended(c)
      BY DEF Sounds
    <2>9. GoodStarts(sounds') /\ OfTheTube(sounds', tail')
      BY <2>8, EndedStart DEF SpeakerInv, Ended
    <2>10. OfNow(voices', tail') /\ voices' \subseteq Voices /\ recent' \subseteq Cues
      BY <2>1, <2>4, <2>5, <2>6, <2>7 DEF SpeakerInv, OfNow
    <2>11. QuietWhileOff' /\ OpenedByGesture'
      BY <2>6 DEF SpeakerInv, QuietWhileOff, Allowed, OpenedByGesture
    <2>12. feed \in Feeds /\ feed.wanted \in BOOLEAN /\ feed.rollers \in BOOLEAN
      BY DEF SpeakerInv, GoodFeed, Feeds
    <2>13. GoodFeed(feed') /\ StartingIsSo(feed', sounds') /\ HeardIsFed(feed', voices') /\ OnlyFed(feed', voices')
      <3>1. CASE c.cue = Motor
        <4>1. feed' = [feed EXCEPT !.starting = FALSE, !.voice = n]
          BY <2>1, <3>1
        <4>2. feed' \in Feeds /\ feed'.wanted = feed.wanted /\ feed'.starting = FALSE /\ feed'.voice = n /\ feed'.rollers = feed.rollers
          BY <2>3, <2>12, <4>1 DEF Feeds
        <4>3. ~\E k \in sounds' : k.cue = Motor
          BY <2>8, <3>1, EndedStart DEF SpeakerInv, Ended
        <4>4. feed.voice = NoVoice /\ feed.wanted /\ feed.rollers
          BY <2>6, <3>1 DEF SpeakerInv, GoodFeed, StartingIsSo
        <4>5. \A v \in voices : ~(v.cue = Motor /\ ~v.fading)
          BY <4>4 DEF SpeakerInv, OnlyFed, NoVoice, Voices
        <4> QED
          BY <2>1, <2>5, <3>1, <4>2, <4>3, <4>4, <4>5 DEF GoodFeed, StartingIsSo, HeardIsFed, OnlyFed
      <3>2. CASE c.cue # Motor
        <4>1. feed' = feed
          BY <2>1, <3>2
        <4>2. (\E k \in sounds' : k.cue = Motor) <=> \E k \in sounds : k.cue = Motor
          BY <2>8, <3>2, EndedStart DEF SpeakerInv, Ended
        <4> QED
          BY <2>1, <2>5, <3>2, <4>1, <4>2 DEF SpeakerInv, StartingIsSo, HeardIsFed, OnlyFed
      <3> QED
        BY <3>1, <3>2
    <2> QED
      BY <2>9, <2>10, <2>11, <2>13 DEF SpeakerInv
  <1> QED
    BY <1>1, <1>2 DEF Sounds

\* A decoded start goes on
LEMMA ContinueKeeps == SpeakerInv /\ Continue(sounds) => SpeakerInv'
  <1> SUFFICES ASSUME SpeakerInv, Continue(sounds) PROVE SpeakerInv'
    OBVIOUS
  <1>1. PICK c \in sounds :
          /\ IF c.stage = "output" /\ (~Allowed \/ device.context # "running")
             THEN sounds' = Ended(c) /\ feed' = FeedSettled(c) /\ UNCHANGED <<device, voices, recent>>
             ELSE IF device.bank = "ready" THEN Sounds(c) /\ UNCHANGED device
             ELSE IF c.stage = "output"
             THEN /\ sounds' = Ended(c) \union {[c EXCEPT !.stage = "decoding"]}
                  /\ device' = [device EXCEPT !.bank = "decoding"] /\ UNCHANGED <<voices, recent, feed>>
             ELSE sounds' = Ended(c) /\ feed' = FeedSettled(c) /\ UNCHANGED <<device, voices, recent>>
          /\ UNCHANGED <<gate, tail>>
    BY DEF Continue
  <1>2. CASE sounds' = Ended(c) /\ feed' = FeedSettled(c) /\ UNCHANGED <<gate, device, voices, recent, tail>>
    BY <1>2, EndsQuietly
  <1>3. CASE Sounds(c) /\ UNCHANGED <<gate, device, tail>>
    BY <1>3, SoundsKeep
  <1>4. CASE /\ sounds' = Ended(c) \union {[c EXCEPT !.stage = "decoding"]}
             /\ device' = [device EXCEPT !.bank = "decoding"] /\ UNCHANGED <<gate, voices, recent, tail, feed>>
    <2>01. GoodStarts(sounds) /\ tail \in BOOLEAN /\ OfTheTube(sounds, tail)
      BY DEF SpeakerInv
    <2>00. c \in Calls
      BY <2>01 DEF GoodStarts
    <2>02. PICK s \in Calls : sounds' = (sounds \ {c}) \union {s} /\ s.n = c.n /\ s.cue = c.cue /\ s.cut = c.cut
      BY <1>4, <2>00, CallIs DEF Ended
    <2>03. /\ GoodStarts(sounds') /\ \A open \in BOOLEAN : OfTheTube(sounds, open) => OfTheTube(sounds', open)
           /\ (\E k \in sounds' : k.cue = Motor) <=> (\E k \in sounds : k.cue = Motor)
      BY <2>01, <2>02, SwappedStart
    <2>1. /\ GoodStarts(sounds') /\ OfTheTube(sounds', tail)
          /\ (\E k \in sounds' : k.cue = Motor) <=> (\E k \in sounds : k.cue = Motor)
      BY <2>01, <2>03
    <2>2. StartingIsSo(feed', sounds') /\ OfTheTube(sounds', tail')
      BY <1>4, <2>1 DEF SpeakerInv, StartingIsSo
    <2>3. device \in Devices
      BY DEF SpeakerInv
    <2>4. device' \in Devices /\ device'.context = device.context /\ device'.touched = device.touched
      BY <1>4, <2>3 DEF Devices
    <2>5. QuietWhileOff' /\ OpenedByGesture'
      BY <1>4, <2>4 DEF SpeakerInv, QuietWhileOff, Allowed, OpenedByGesture
    <2> QED
      BY <1>4, <2>1, <2>2, <2>4, <2>5 DEF SpeakerInv
  <1> QED
    BY <1>1, <1>2, <1>3, <1>4

\* The tube's sound begins and ends with its transition
LEMMA CrtTurnsKeeps == SpeakerInv /\ CrtTurns => SpeakerInv'
  <1> SUFFICES ASSUME SpeakerInv, CrtTurns PROVE SpeakerInv'
    OBVIOUS
  <1>1. PICK begins \in BOOLEAN : tail' = (begins /\ Allowed)
    BY DEF CrtTurns
  <1>2. tail' \in BOOLEAN
    BY <1>1
  <1>3. /\ voices' = {IF v.cue = Crt THEN [v EXCEPT !.fading = TRUE] ELSE v : v \in voices}
        /\ sounds' = {[c EXCEPT !.cut = TRUE] : c \in sounds}
        /\ recent' = recent \ {Crt}
        /\ gate' = gate /\ device' = device /\ feed' = feed
    BY DEF CrtTurns
  <1>4. GoodStarts(sounds)
    BY DEF SpeakerInv
  <1>50. /\ GoodStarts(sounds') /\ \A open \in BOOLEAN : OfTheTube(sounds', open)
         /\ (\E c \in sounds' : c.cue = Motor) <=> (\E c \in sounds : c.cue = Motor)
    BY <1>3, <1>4, CutStarts
  <1>5. /\ GoodStarts(sounds') /\ OfTheTube(sounds', tail')
        /\ (\E c \in sounds' : c.cue = Motor) <=> (\E c \in sounds : c.cue = Motor)
    BY <1>2, <1>50
  <1>6. voices \subseteq Voices /\ tail \in BOOLEAN /\ OfNow(voices, tail) /\ HeardIsFed(feed, voices) /\ OnlyFed(feed, voices)
    BY DEF SpeakerInv
  <1>70. voices' = {FadedVoice(v, Crt, 0) : v \in voices}
    <2>1. \A v \in voices : v.n # 0
      BY <1>6, SpeakerAssumption DEF Voices
    <2>2. \A v \in voices : FadedVoice(v, Crt, 0) = IF v.cue = Crt THEN [v EXCEPT !.fading = TRUE] ELSE v
      BY <2>1 DEF FadedVoice, Fades
    <2> HIDE DEF FadedVoice
    <2> QED
      BY <1>3, <2>2, Zenon
  <1>71. \A v \in voices : Fades(v, Crt, 0) <=> v.cue = Crt
    BY <1>6, SpeakerAssumption DEF Voices, Fades
  <1>7. /\ voices' \subseteq Voices
        /\ voices = {} => voices' = {}
        /\ \A begun \in BOOLEAN : OfNow(voices', begun)
        /\ \A v \in voices : ~Fades(v, Crt, 0) => v \in voices'
        /\ \A s \in voices' : s.cue = Motor /\ ~s.fading => s \in voices
    <2>1. /\ \A s \in voices' : \E v \in voices : s = FadedVoice(v, Crt, 0)
          /\ \A v \in voices : FadedVoice(v, Crt, 0) \in voices'
      BY <1>70
    <2> QED
      BY <1>6, <2>1, FadedVoices
  <1>8. StartingIsSo(feed', sounds') /\ HeardIsFed(feed', voices') /\ OnlyFed(feed', voices') /\ GoodFeed(feed')
    BY <1>3, <1>5, <1>6, <1>7, <1>71 DEF SpeakerInv, StartingIsSo, OnlyFed, HeardIsFed, Motor, Crt
  <1>9. QuietWhileOff' /\ OpenedByGesture' /\ OfNow(voices', tail')
    BY <1>2, <1>3, <1>7 DEF SpeakerInv, QuietWhileOff, Allowed, OpenedByGesture
  <1> QED
    BY <1>2, <1>3, <1>5, <1>7, <1>8, <1>9 DEF SpeakerInv

\* The motor is asked to run or to stop
LEMMA AskFeedKeeps ==
    ASSUME SpeakerInv, NEW moving \in BOOLEAN, AskFeed(moving), UNCHANGED <<gate, recent, tail>>
    PROVE  SpeakerInv'
  <1>0. /\ feed \in Feeds /\ GoodFeed(feed) /\ voices \subseteq Voices /\ tail \in BOOLEAN
        /\ OfNow(voices, tail) /\ HeardIsFed(feed, voices) /\ OnlyFed(feed, voices) /\ StartingIsSo(feed, sounds)
        /\ GoodStarts(sounds) /\ OfTheTube(sounds, tail)
    BY DEF SpeakerInv, GoodFeed
  <1>00. 0 \in 0 .. MaxVoices /\ feed.voice \in 0 .. MaxVoices /\ feed.starting \in BOOLEAN
    BY <1>0, SpeakerAssumption DEF Feeds
  <1>1. CASE ~(moving /\ Allowed)
    <2>1. /\ voices' = FadedOut(voices, feed.voice) /\ device' = device /\ sounds' = sounds
          /\ feed' = [feed EXCEPT !.wanted = FALSE, !.voice = NoVoice, !.rollers = moving]
      BY <1>1 DEF AskFeed
    <2> DEFINE f == [feed EXCEPT !.wanted = FALSE, !.voice = NoVoice, !.rollers = moving]
    <2>2. f = [feed EXCEPT !.wanted = FALSE, !.voice = NoVoice, !.rollers = moving] /\ f = feed'
      BY <2>1
    <2> HIDE DEF f
    <2>3. FeedNow(f, FALSE, feed.starting, 0, moving)
      BY <1>0, <1>00, <2>2, FeedIs
    <2>4. f \in Feeds /\ ~f.wanted /\ f.starting = feed.starting /\ f.voice = 0 /\ f.rollers = moving
      BY <2>3 DEF FeedNow
    <2>5. voices' = {FadedVoice(v, "none", feed.voice) : v \in voices}
      <3>1. \A v \in voices : v.cue # "none"
        BY <1>0 DEF Voices, Cues, Crt, Motor
      <3>2. \A v \in voices : FadedVoice(v, "none", feed.voice) =
                                IF v.n = feed.voice THEN [v EXCEPT !.fading = TRUE] ELSE v
        BY <3>1 DEF FadedVoice, Fades
      <3> QED
        BY <2>1, <3>2, Zenon DEF FadedOut
    <2>7. /\ voices' \subseteq Voices
          /\ voices = {} => voices' = {}
          /\ OfNow(voices', tail)
          /\ \A s \in voices' : s.cue = Motor /\ ~s.fading => s \in voices /\ ~Fades(s, "none", feed.voice)
      <3>1. /\ \A s \in voices' : \E v \in voices : s = FadedVoice(v, "none", feed.voice)
            /\ \A v \in voices : FadedVoice(v, "none", feed.voice) \in voices'
        BY <2>5
      <3> QED
        BY <1>0, <3>1, FadedVoices
    <2>8. \A s \in voices' : ~(s.cue = Motor /\ ~s.fading)
      BY <1>0, <2>7 DEF OnlyFed, Fades
    <2>9. GoodFeed(f) /\ StartingIsSo(f, sounds') /\ HeardIsFed(f, voices') /\ OnlyFed(f, voices')
      BY <1>0, <2>1, <2>4, <2>8 DEF GoodFeed, StartingIsSo, HeardIsFed, OnlyFed, NoVoice
    <2>10. QuietWhileOff' /\ OpenedByGesture'
      BY <2>1, <2>7 DEF SpeakerInv, QuietWhileOff, Allowed, OpenedByGesture
    <2> QED
      BY <2>1, <2>2, <2>7, <2>9, <2>10 DEF SpeakerInv
  <1>2. CASE moving /\ Allowed /\ (feed.voice # NoVoice \/ feed.starting)
    <2>1. /\ voices' = voices /\ device' = device /\ sounds' = sounds
          /\ feed' = [feed EXCEPT !.wanted = TRUE, !.rollers = TRUE]
      BY <1>2 DEF AskFeed
    <2>2. FeedNow(feed', TRUE, feed.starting, feed.voice, TRUE)
      BY <1>0, <1>00, <2>1, FeedIs
    <2>3. feed' \in Feeds /\ feed'.wanted /\ feed'.starting = feed.starting /\ feed'.voice = feed.voice /\ feed'.rollers
      BY <2>2 DEF FeedNow
    <2>4. GoodFeed(feed') /\ StartingIsSo(feed', sounds') /\ HeardIsFed(feed', voices') /\ OnlyFed(feed', voices')
      BY <1>0, <2>1, <2>3 DEF GoodFeed, StartingIsSo, HeardIsFed, OnlyFed
    <2>5. QuietWhileOff' /\ OpenedByGesture'
      BY <2>1 DEF SpeakerInv, QuietWhileOff, Allowed, OpenedByGesture
    <2> QED
      BY <2>1, <2>4, <2>5 DEF SpeakerInv
  <1>3. CASE moving /\ Allowed /\ feed.voice = NoVoice /\ ~feed.starting
    <2> DEFINE begun == sounds' # sounds
    <2>1. /\ voices' = voices /\ Start(Motor, FALSE)
          /\ feed' = [feed EXCEPT !.wanted = TRUE, !.rollers = TRUE, !.starting = begun]
      BY <1>3 DEF AskFeed
    <2>2. begun \in BOOLEAN /\ (begun <=> sounds' # sounds)
      OBVIOUS
    <2> HIDE DEF begun
    <2>3. FeedNow(feed', TRUE, begun, feed.voice, TRUE)
      BY <1>0, <1>00, <2>1, <2>2, FeedIs
    <2>4. feed' \in Feeds /\ feed'.wanted /\ feed'.starting = begun /\ feed'.voice = feed.voice /\ feed'.rollers
      BY <2>3 DEF FeedNow
    <2> DEFINE no == FALSE
               cue == Motor
    <2>5. no \in BOOLEAN /\ cue \in Cues /\ cue = Motor /\ cue # Crt /\ Start(cue, no)
      BY <2>1 DEF Cues, Motor, Crt
    <2> HIDE DEF no, cue
    <2>6. /\ device' \in Devices /\ (device'.context \in {"suspended", "running"} => device'.touched)
          /\ GoodStarts(sounds') /\ OfTheTube(sounds', tail)
          /\ ((\E c \in sounds' : c.cue = Motor) <=> sounds' # sounds)
      BY <1>3, <2>5, StartIs
    <2>7. GoodFeed(feed') /\ StartingIsSo(feed', sounds') /\ HeardIsFed(feed', voices') /\ OnlyFed(feed', voices')
      BY <1>0, <1>3, <2>1, <2>2, <2>4, <2>6 DEF GoodFeed, StartingIsSo, HeardIsFed, OnlyFed
    <2>8. QuietWhileOff' /\ OpenedByGesture'
      BY <2>1, <2>6 DEF SpeakerInv, QuietWhileOff, Allowed, OpenedByGesture
    <2> QED
      BY <2>1, <2>6, <2>7, <2>8 DEF SpeakerInv
  <1> QED
    BY <1>0, <1>00, <1>1, <1>2, <1>3

\* The rollers move and stand
LEMMA FeedsKeep == SpeakerInv /\ (Rolls \/ Stops) => SpeakerInv'
  <1> SUFFICES ASSUME SpeakerInv, Rolls \/ Stops PROVE SpeakerInv'
    OBVIOUS
  <1>1. PICK moving \in BOOLEAN : AskFeed(moving)
    BY DEF Rolls, Stops
  <1>2. UNCHANGED <<gate, recent, tail>>
    BY DEF Rolls, Stops
  <1> QED
    BY <1>1, <1>2, AskFeedKeeps

\* The output opens, a sound is decoded
LEMMA SettlesKeep == SpeakerInv /\ (ResumeSettles \/ DecodeSettles) => SpeakerInv'
  <1> SUFFICES ASSUME SpeakerInv, ResumeSettles \/ DecodeSettles PROVE SpeakerInv'
    OBVIOUS
  <1>0. device \in Devices /\ OpenedByGesture
    BY DEF SpeakerInv
  <1>1. UNCHANGED <<gate, sounds, voices, recent, tail, feed>>
    BY DEF ResumeSettles, DecodeSettles
  <1>2. CASE ResumeSettles
    <2>1. PICK on \in BOOLEAN :
            device' = [device EXCEPT !.resuming = FALSE, !.context = IF @ = "suspended" /\ on THEN "running" ELSE @]
      BY <1>2 DEF ResumeSettles
    <2> DEFINE opened == IF device.context = "suspended" /\ on THEN "running" ELSE device.context
    <2>2. device' = [context |-> opened, resuming |-> FALSE, bank |-> device.bank, touched |-> device.touched]
      BY <1>0, <2>1 DEF Devices
    <2>3. device' \in Devices /\ OpenedByGesture'
      BY <1>0, <2>2 DEF Devices, OpenedByGesture
    <2>4. QuietWhileOff'
      BY <1>1 DEF SpeakerInv, QuietWhileOff, Allowed
    <2> QED
      BY <1>1, <2>3, <2>4 DEF SpeakerInv
  <1>3. CASE DecodeSettles
    <2>1. PICK state \in {"ready", "none"} : device' = [device EXCEPT !.bank = state]
      BY <1>3 DEF DecodeSettles
    <2>2. device' \in Devices /\ device'.context = device.context /\ device'.touched = device.touched
      BY <1>0, <2>1 DEF Devices
    <2>3. QuietWhileOff' /\ OpenedByGesture'
      BY <1>0, <1>1, <2>2 DEF SpeakerInv, QuietWhileOff, Allowed, OpenedByGesture
    <2> QED
      BY <1>1, <2>2, <2>3 DEF SpeakerInv
  <1> QED
    BY <1>2, <1>3

\* Time passes, and voices end
LEMMA TimesKeep == SpeakerInv /\ (Ages \/ VoiceEnds \/ Cools) => SpeakerInv'
  <1> SUFFICES ASSUME SpeakerInv, Ages \/ VoiceEnds \/ Cools PROVE SpeakerInv'
    OBVIOUS
  <1>1. CASE Ages
    <2>1. PICK c \in sounds : sounds' = Ended(c) \union {[c EXCEPT !.late = TRUE]}
      BY <1>1 DEF Ages
    <2>2. UNCHANGED <<gate, device, voices, recent, tail, feed>>
      BY <1>1 DEF Ages
    <2>3. GoodStarts(sounds) /\ tail \in BOOLEAN /\ OfTheTube(sounds, tail)
      BY DEF SpeakerInv
    <2>03. c \in Calls
      BY <2>3 DEF GoodStarts
    <2>04. PICK s \in Calls : sounds' = (sounds \ {c}) \union {s} /\ s.n = c.n /\ s.cue = c.cue /\ s.cut = c.cut
      BY <2>1, <2>03, CallIs DEF Ended
    <2>05. /\ GoodStarts(sounds') /\ \A open \in BOOLEAN : OfTheTube(sounds, open) => OfTheTube(sounds', open)
           /\ (\E k \in sounds' : k.cue = Motor) <=> (\E k \in sounds : k.cue = Motor)
      BY <2>3, <2>04, SwappedStart
    <2>4. /\ GoodStarts(sounds') /\ OfTheTube(sounds', tail')
          /\ (\E k \in sounds' : k.cue = Motor) <=> (\E k \in sounds : k.cue = Motor)
      BY <2>2, <2>3, <2>05
    <2>5. StartingIsSo(feed', sounds') /\ QuietWhileOff' /\ OpenedByGesture'
      BY <2>2, <2>4 DEF SpeakerInv, StartingIsSo, QuietWhileOff, Allowed, OpenedByGesture
    <2> QED
      BY <2>2, <2>4, <2>5 DEF SpeakerInv
  <1>2. CASE VoiceEnds
    <2>1. PICK v \in voices : (v.cue = Motor => v.fading) /\ voices' = voices \ {v}
      BY <1>2 DEF VoiceEnds
    <2>2. UNCHANGED <<gate, device, sounds, recent, tail, feed>>
      BY <1>2 DEF VoiceEnds
    <2>3. HeardIsFed(feed', voices') /\ OnlyFed(feed', voices') /\ OfNow(voices', tail') /\ voices' \subseteq Voices
      BY <2>1, <2>2 DEF SpeakerInv, HeardIsFed, OnlyFed, OfNow
    <2>4. QuietWhileOff' /\ OpenedByGesture'
      BY <2>1, <2>2 DEF SpeakerInv, QuietWhileOff, Allowed, OpenedByGesture
    <2> QED
      BY <2>2, <2>3, <2>4 DEF SpeakerInv
  <1>3. CASE Cools
    <2>1. UNCHANGED <<gate, device, sounds, voices, tail, feed>> /\ recent' \subseteq recent
      BY <1>3 DEF Cools
    <2>2. QuietWhileOff' /\ OpenedByGesture'
      BY <2>1 DEF SpeakerInv, QuietWhileOff, Allowed, OpenedByGesture
    <2> QED
      BY <2>1, <2>2 DEF SpeakerInv
  <1> QED
    BY <1>1, <1>2, <1>3

\* Every step of the cues keeps the invariant
LEMMA SpeakerStep == SpeakerInv /\ [SpeakerNext]_speakerVars => SpeakerInv'
  <1> SUFFICES ASSUME SpeakerInv, [SpeakerNext]_speakerVars PROVE SpeakerInv'
    OBVIOUS
  <1>1. \/ (SetEnabled \/ SetVisible \/ Mains \/ DisposeSpeaker) \/ (Play \/ CrtPlays \/ Unlock) \/ Continue(sounds)
        \/ CrtTurns \/ (Rolls \/ Stops) \/ (ResumeSettles \/ DecodeSettles) \/ (Ages \/ VoiceEnds \/ Cools)
        \/ UNCHANGED speakerVars
    BY DEF SpeakerNext
  <1>2. UNCHANGED speakerVars => SpeakerInv'
    BY DEF speakerVars, SpeakerInv, QuietWhileOff, Allowed, OpenedByGesture
  <1> QED
    BY ONLY SpeakerInv, <1>1, <1>2, SilencesKeep, PlaysKeep, ContinueKeeps, CrtTurnsKeeps, FeedsKeep, SettlesKeep, TimesKeep

\* Nothing sounds
LEMMA SpeakerBegins == SpeakerInit => SpeakerInv
  <1> SUFFICES ASSUME SpeakerInit PROVE SpeakerInv
    OBVIOUS
  <1>1. gate \in Gates /\ device \in Devices /\ OpenedByGesture
    BY DEF SpeakerInit, Gates, Devices, OpenedByGesture
  <1>2. 0 \in 0 .. MaxVoices
    BY SpeakerAssumption
  <1>3. feed \in Feeds /\ ~feed.wanted /\ ~feed.starting /\ feed.voice = NoVoice
    BY <1>2 DEF SpeakerInit, Feeds, NoVoice
  <1>4. sounds = {} /\ voices = {} /\ recent = {} /\ tail = FALSE
    BY DEF SpeakerInit
  <1> QED
    BY <1>1, <1>3, <1>4 DEF SpeakerInv, GoodStarts, OfTheTube, GoodFeed, StartingIsSo, HeardIsFed, OnlyFed, QuietWhileOff, OfNow

\* What the invariant says of the runs' properties
LEMMA SpeakerKept == SpeakerInv => SpeakerTypeOK /\ QuietWhileOff /\ NothingFromBefore /\ OneMotor /\ OpenedByGesture
  BY DEF SpeakerInv, SpeakerTypeOK, NothingFromBefore, OneMotor, Gates, Devices, Calls, GoodStarts, StartingIsSo, HeardIsFed, OnlyFed, OfNow

-----------------------------------------------------------------------------
\* The music: Music

MusicGates == [enabled : BOOLEAN, powered : BOOLEAN, visible : BOOLEAN, loud : BOOLEAN, disposed : BOOLEAN]
SomeTracks == Tracks \union {NoTrack}
Players == [desired : SomeTracks, active : SomeTracks, fading : BOOLEAN, loads : SUBSET LoadsWanted,
            pending : 0 .. MaxLoads, again : BOOLEAN, kept : Loops \union {NoTrack}, late : BOOLEAN,
            cached : SomeTracks, out : BOOLEAN, ending : {"none", "due", "spent"},
            status : {"off", "paused", "loading", "playing", "ready", "error"}]

\* The loads under way have numbers; the one that is not stale is the pending one, for the track
\* that is wanted, and an ending is loaded while it is due
LoadsAreSo(m) ==
    /\ \A l, other \in m.loads : l.n = other.n => l = other
    /\ \A l \in m.loads : ~l.stale => /\ l.n = m.pending /\ m.desired \in {NoTrack, l.id}
                                      /\ l.id \in Endings => m.ending = "due" /\ m.desired = l.id
\* The load that is pending is under way, and what is asked for again waits behind it
PendingIsSo(m) ==
    /\ m.pending # 0 => \E l \in m.loads : l.n = m.pending /\ ~l.stale
    /\ m.again => m.pending # 0
\* What plays is not loaded; no ending plays while another is wanted; the place kept is of a loop
PlayIsSo(m) ==
    /\ m.active = m.desired /\ m.active # NoTrack => m.pending = 0
    /\ m.desired \in Endings => m.active \in {NoTrack, m.desired}
    /\ m.active \in Endings => m.kept = NoTrack
    /\ m.kept \in {NoTrack, m.desired}
\* An ending that is wanted and does not play has not been heard
EndingIsDue(m, gone) == ~gone /\ m.desired \in Endings /\ m.active # m.desired => m.ending = "due"
GoodPlayer(m) == m \in Players /\ LoadsAreSo(m) /\ PendingIsSo(m) /\ PlayIsSo(m)
QuietBehind(g, m) ==
    /\ ~g.enabled \/ ~g.visible \/ g.disposed => m.active = NoTrack /\ ~m.fading
    /\ ~g.powered => m.active = NoTrack
Loading(m) == \E l \in m.loads : l.n = m.pending /\ l.id = m.desired
PlaysWanted(m, device_) == (m.active \notin {NoTrack, m.desired} /\ m.desired # NoTrack) => Loading(m) \/ device_ # "running"

MusicInv ==
    /\ gates \in MusicGates /\ context \in {"none", "suspended", "running"}
    /\ station \in [scene : Scenes, online : BOOLEAN]
    /\ GoodPlayer(music) /\ EndingIsDue(music, gates.disposed) /\ QuietBehind(gates, music) /\ PlaysWanted(music, context)

\* What r keeps of m
SamePlay(r, m) ==
    /\ r.desired = m.desired /\ r.active = m.active /\ r.fading = m.fading /\ r.kept = m.kept /\ r.ending = m.ending
    /\ r.late = m.late /\ r.cached = m.cached /\ r.out = m.out /\ r.status = m.status
SameLoads(r, m) == r.loads = m.loads /\ r.pending = m.pending /\ r.again = m.again
NothingLoads(m) ==
    /\ m.pending = 0 /\ ~m.again /\ \A l \in m.loads : l.stale
    /\ \A l, other \in m.loads : l.n = other.n => l = other

\* A player that loads nothing has its loads in order
LEMMA NothingLoadsIsSo == \A m : NothingLoads(m) => LoadsAreSo(m) /\ PendingIsSo(m)
  BY DEF NothingLoads, LoadsAreSo, PendingIsSo

\* cancel leaves what plays, and no load that counts
LEMMA CancelIs ==
    ASSUME NEW m \in Players, LoadsAreSo(m), NEW r, r = CancelFade(m)
    PROVE  r \in Players /\ SamePlay(r, m) /\ NothingLoads(r) /\ (FreeFade(m) # {} => FreeFade(r) # {})
  <1> DEFINE Dropped(l) == [l EXCEPT !.stale = TRUE]
             loads == {Dropped(l) : l \in m.loads}
  <1>1. r = [[[m EXCEPT !.loads = loads] EXCEPT !.pending = 0] EXCEPT !.again = FALSE]
    BY DEF CancelFade
  <1>2. m.loads \subseteq LoadsWanted
    BY DEF Players
  <1>3. ASSUME NEW l \in m.loads
        PROVE  Dropped(l) \in LoadsWanted /\ Dropped(l).n = l.n /\ Dropped(l).stale
    BY <1>2 DEF LoadsWanted
  <1> HIDE DEF Dropped
  <1>4. \A l \in loads : \E k \in m.loads : l = Dropped(k)
    OBVIOUS
  <1>50. ASSUME NEW l \in loads PROVE l \in LoadsWanted /\ l.stale /\ \E k \in m.loads : k.n = l.n
    <2>1. PICK k \in m.loads : l = Dropped(k)
      BY <1>4
    <2> QED
      BY <1>3, <2>1
  <1>5. loads \subseteq LoadsWanted /\ \A l \in loads : l.stale /\ \E k \in m.loads : k.n = l.n
    BY <1>50
  <1>6. ASSUME NEW l \in loads, NEW other \in loads, l.n = other.n PROVE l = other
    <2>1. PICK k \in m.loads : l = Dropped(k)
      BY <1>4
    <2>2. PICK j \in m.loads : other = Dropped(j)
      BY <1>4
    <2>3. k = j
      BY <1>3, <1>6, <2>1, <2>2 DEF LoadsAreSo
    <2> QED
      BY <2>1, <2>2, <2>3
  <1> HIDE DEF loads
  <1>7. r \in Players /\ SamePlay(r, m) /\ r.loads = loads /\ r.pending = 0 /\ r.again = FALSE
    <2>1. 0 \in 0 .. MaxLoads
      BY MusicAssumption
    <2> QED
      BY <1>1, <1>5, <2>1 DEF Players, SamePlay
  <1>8. FreeFade(m) # {} => FreeFade(r) # {}
    BY <1>5, <1>7 DEF FreeFade
  <1> QED
    BY <1>5, <1>6, <1>7, <1>8 DEF NothingLoads

\* stopAll leaves no track that plays
LEMMA StopIs ==
    ASSUME NEW m \in Players, NEW fades \in BOOLEAN, NEW r, r = StopAll(m, fades)
    PROVE  /\ r \in Players /\ SameLoads(r, m)
           /\ r.desired = m.desired /\ r.active = NoTrack /\ r.kept = m.kept /\ r.ending = m.ending
           /\ r.fading = (fades /\ (m.fading \/ m.active # NoTrack))
           /\ r.late = m.late /\ r.cached = m.cached /\ r.out = m.out /\ r.status = m.status
  <1> DEFINE ebbs == fades /\ (m.fading \/ m.active # NoTrack)
  <1>1. r = [[m EXCEPT !.fading = ebbs] EXCEPT !.active = NoTrack]
    BY DEF StopAll
  <1>2. ebbs \in BOOLEAN
    OBVIOUS
  <1> HIDE DEF ebbs
  <1>3. /\ r \in Players /\ SameLoads(r, m)
        /\ r.desired = m.desired /\ r.active = NoTrack /\ r.kept = m.kept /\ r.ending = m.ending
        /\ r.fading = ebbs
        /\ r.late = m.late /\ r.cached = m.cached /\ r.out = m.out /\ r.status = m.status
    BY <1>1, <1>2 DEF Players, SameLoads, SomeTracks
  <1> QED
    BY <1>3 DEF ebbs

\* report changes the status
LEMMA ReportIs ==
    ASSUME NEW m \in Players, NEW g, NEW status \in {"off", "paused", "loading", "playing", "ready", "error"},
           NEW r, r = ReportMusic(g, m, status)
    PROVE  /\ r \in Players /\ SameLoads(r, m)
           /\ r.desired = m.desired /\ r.active = m.active /\ r.kept = m.kept /\ r.ending = m.ending /\ r.fading = m.fading
  <1>1. CASE g.disposed
    BY <1>1 DEF ReportMusic, SameLoads
  <1>2. CASE ~g.disposed
    <2>1. r = [m EXCEPT !.status = status]
      BY <1>2 DEF ReportMusic
    <2> QED
      BY <2>1 DEF Players, SameLoads
  <1> QED
    BY <1>1, <1>2

\* refresh begins one load, of the wanted track, when none is under way
LEMMA RefreshIs ==
    ASSUME NEW g, NEW m, GoodPlayer(m), FreeFade(m) # {}, EndingIsDue(m, g.disposed), NEW r, r = Refresh(g, m)
    PROVE  /\ GoodPlayer(r) /\ SamePlay(r, m)
           /\ MusicAllowed(g) /\ m.desired # NoTrack /\ m.active # m.desired => Loading(r)
           /\ ~MusicAllowed(g) => r = m
  <1>0. m \in Players /\ LoadsAreSo(m) /\ PendingIsSo(m) /\ PlayIsSo(m)
    BY DEF GoodPlayer
  <1>1. CASE ~MusicAllowed(g) \/ m.desired = NoTrack \/ m.active = m.desired
    BY <1>1 DEF Refresh, SamePlay
  <1>2. CASE MusicAllowed(g) /\ m.desired # NoTrack /\ m.active # m.desired /\ m.pending # 0
    <2>1. r = [m EXCEPT !.again = TRUE]
      BY <1>2 DEF Refresh
    <2>2. r \in Players /\ SamePlay(r, m) /\ r.loads = m.loads /\ r.pending = m.pending
      BY <1>0, <2>1 DEF Players, SamePlay
    <2>3. LoadsAreSo(r) /\ PendingIsSo(r) /\ PlayIsSo(r)
      BY <1>0, <1>2, <2>2 DEF LoadsAreSo, PendingIsSo, PlayIsSo, SamePlay
    <2>4. Loading(r)
      <3>1. PICK l \in m.loads : l.n = m.pending /\ ~l.stale
        BY <1>0, <1>2 DEF PendingIsSo
      <3>2. l.id = m.desired
        BY <1>0, <1>2, <3>1 DEF LoadsAreSo
      <3> QED
        BY <2>2, <3>1, <3>2 DEF Loading, SamePlay
    <2> QED
      BY <1>2, <2>2, <2>3, <2>4 DEF GoodPlayer
  <1>3. CASE MusicAllowed(g) /\ m.desired # NoTrack /\ m.active # m.desired /\ m.pending = 0
    <2> DEFINE n == CHOOSE n \in FreeFade(m) : TRUE
               begun == [n |-> n, id |-> m.desired, stage |-> "output", stale |-> FALSE]
               more == m.loads \union {begun}
    <2>1. r = [[m EXCEPT !.pending = n] EXCEPT !.loads = more]
      <3>1. r = [m EXCEPT !.pending = n, !.loads = @ \union {begun}]
        BY <1>3 DEF Refresh
      <3> QED
        BY <1>0, <3>1 DEF Players
    <2>2. n \in FreeFade(m)
      OBVIOUS
    <2>3. n \in 1 .. MaxLoads /\ n \in 0 .. MaxLoads /\ n # 0 /\ \A l \in m.loads : l.n # n
      BY <2>2, MusicAssumption DEF FreeFade
    <2> HIDE DEF n
    <2>4. m.desired \in Tracks /\ m.loads \subseteq LoadsWanted
      BY <1>0, <1>3 DEF Players, SomeTracks
    <2>5. begun \in LoadsWanted /\ begun.n = n /\ begun.id = m.desired /\ ~begun.stale
      BY <2>3, <2>4 DEF LoadsWanted
    <2> HIDE DEF begun
    <2>60. more \subseteq LoadsWanted /\ more = m.loads \union {begun}
      BY <2>4, <2>5
    <2> HIDE DEF more
    <2>6. r \in Players /\ SamePlay(r, m) /\ r.loads = m.loads \union {begun} /\ r.pending = n /\ r.again = m.again
      BY <1>0, <2>1, <2>3, <2>60 DEF Players, SamePlay
    <2>7. \A l \in m.loads : l.stale
      BY <1>0, <1>3, <2>4 DEF LoadsAreSo, LoadsWanted
    <2>8. m.desired \in Endings => m.ending = "due"
      BY <1>3 DEF EndingIsDue, MusicAllowed
    <2>9. LoadsAreSo(r)
      BY <1>0, <2>3, <2>5, <2>6, <2>7, <2>8 DEF LoadsAreSo, SamePlay
    <2>10. PendingIsSo(r) /\ PlayIsSo(r) /\ Loading(r)
      BY <1>0, <1>3, <2>5, <2>6 DEF PendingIsSo, PlayIsSo, SamePlay, Loading
    <2> QED
      BY <1>3, <2>6, <2>9, <2>10 DEF GoodPlayer
  <1> QED
    BY <1>1, <1>2, <1>3

\* A player in order keeps what is said of the play when only its loads change
LEMMA SamePlayKeeps ==
    ASSUME NEW g, NEW m, NEW r, SamePlay(r, m)
    PROVE  /\ EndingIsDue(m, g.disposed) => EndingIsDue(r, g.disposed)
           /\ QuietBehind(g, m) => QuietBehind(g, r)
  BY DEF SamePlay, EndingIsDue, QuietBehind

\* pause consumes an ending and keeps the place of a loop
LEMMA PauseIs ==
    ASSUME NEW m, GoodPlayer(m), NothingLoads(m), NEW fades \in BOOLEAN, NEW r, r = Pause(m, fades)
    PROVE  /\ GoodPlayer(r) /\ r.active = NoTrack /\ r.desired \notin Endings
           /\ r.fading => fades
  <1>0. m \in Players /\ PlayIsSo(m)
    BY DEF GoodPlayer
  <1> DEFINE kept == IF m.active \in Loops /\ m.active = m.desired THEN m.active ELSE m.kept
             ending == IF m.desired \in Endings THEN "spent" ELSE m.ending
             desired == IF m.desired \in Endings THEN NoTrack ELSE m.desired
             p == [[[m EXCEPT !.kept = kept] EXCEPT !.ending = ending] EXCEPT !.desired = desired]
  <1>1. r = StopAll(p, fades)
    BY DEF Pause
  <1>2. /\ kept \in Loops \union {NoTrack} /\ ending \in {"none", "due", "spent"} /\ desired \in SomeTracks
        /\ desired \notin Endings /\ kept \in {NoTrack, desired}
    BY <1>0 DEF Players, SomeTracks, PlayIsSo, Tracks, Loops, Endings, NoTrack
  <1> HIDE DEF kept, ending, desired
  <1>3. /\ p \in Players /\ p.kept = kept /\ p.ending = ending /\ p.desired = desired /\ SameLoads(p, m)
    BY <1>0, <1>2 DEF Players, SameLoads
  <1> HIDE DEF p
  <1>4. /\ r \in Players /\ SameLoads(r, p)
        /\ r.desired = p.desired /\ r.active = NoTrack /\ r.kept = p.kept
        /\ r.fading = (fades /\ (p.fading \/ p.active # NoTrack))
    BY <1>1, <1>3, StopIs
  <1>5. NothingLoads(r)
    BY <1>3, <1>4 DEF NothingLoads, SameLoads
  <1>6. PlayIsSo(r)
    BY <1>2, <1>3, <1>4 DEF PlayIsSo, Endings, NoTrack
  <1> QED
    BY <1>2, <1>3, <1>4, <1>5, <1>6, NothingLoadsIsSo DEF GoodPlayer

\* Another track is wanted: what loads is of another epoch, and no ending plays on
LEMMA WantIs ==
    ASSUME GoodPlayer(music), EndingIsDue(music, gates.disposed), QuietBehind(gates, music), PlaysWanted(music, context),
           FreeFade(music) # {}, NEW track, NEW replaces \in BOOLEAN,
           track \in (IF replaces THEN Endings ELSE Loops \union {NoTrack}), NEW r, r = Want(music, track, replaces)
    PROVE  GoodPlayer(r) /\ EndingIsDue(r, gates.disposed) /\ QuietBehind(gates, r) /\ PlaysWanted(r, context)
  <1> DEFINE k == CancelFade(music)
             ending == IF replaces THEN "due" ELSE "none"
             c == [k EXCEPT !.desired = track, !.kept = NoTrack, !.late = FALSE, !.ending = ending]
             stops == track = NoTrack \/ replaces
             s == IF stops THEN StopAll(c, TRUE) ELSE c
             yes == TRUE
  <1>0. music \in Players /\ LoadsAreSo(music) /\ PlayIsSo(music)
    BY DEF GoodPlayer
  <1>1. CASE track = music.desired
    <2>1. r = music
      BY <1>1 DEF Want
    <2> QED
      BY <2>1
  <1>2. CASE track # music.desired
    <2>1. k \in Players /\ SamePlay(k, music) /\ NothingLoads(k) /\ FreeFade(k) # {}
      BY <1>0, CancelIs
    <2>2. ending \in {"none", "due", "spent"} /\ track \in SomeTracks /\ NoTrack \in Loops \union {NoTrack}
      BY DEF SomeTracks, Tracks
    <2>3. c = [[[[k EXCEPT !.desired = track] EXCEPT !.kept = NoTrack] EXCEPT !.late = FALSE] EXCEPT !.ending = ending]
      OBVIOUS
    <2>9. r = IF track = NoTrack
              THEN ReportMusic(gates, s, IF MusicAllowed(gates) THEN "ready" ELSE IF gates.enabled THEN "paused" ELSE "off")
              ELSE Refresh(gates, s)
      BY <1>2 DEF Want
    <2> HIDE DEF k, c
    <2>4. /\ c \in Players /\ SameLoads(c, k) /\ c.desired = track /\ c.active = k.active /\ c.fading = k.fading
          /\ c.kept = NoTrack /\ c.ending = ending
      BY <2>1, <2>2, <2>3 DEF Players, SameLoads
    <2>5. yes \in BOOLEAN /\ yes = TRUE
      OBVIOUS
    <2>6. s = IF stops THEN StopAll(c, yes) ELSE c
      OBVIOUS
    <2> HIDE DEF yes, s, ending
    <2>7. /\ s \in Players /\ SameLoads(s, k) /\ s.desired = track /\ s.kept = NoTrack /\ s.ending = ending
          /\ s.active = (IF stops THEN NoTrack ELSE music.active)
          /\ s.fading => music.fading \/ music.active # NoTrack
      <3>1. CASE stops
        <4>1. /\ s \in Players /\ SameLoads(s, c)
              /\ s.desired = c.desired /\ s.active = NoTrack /\ s.kept = c.kept /\ s.ending = c.ending
              /\ s.fading = (yes /\ (c.fading \/ c.active # NoTrack))
          BY <2>4, <2>5, <2>6, <3>1, StopIs
        <4> QED
          BY <2>1, <2>4, <3>1, <4>1 DEF SameLoads, SamePlay
      <3>2. CASE ~stops
        BY <2>1, <2>4, <2>6, <3>2 DEF SamePlay
      <3> QED
        BY <3>1, <3>2
    <2>8. NothingLoads(s) /\ FreeFade(s) # {}
      BY <2>1, <2>7 DEF NothingLoads, SameLoads, FreeFade
    <2>10. QuietBehind(gates, s)
      BY <2>7 DEF QuietBehind
    <2>11. PlayIsSo(s)
      BY <2>7, <2>8 DEF PlayIsSo, NothingLoads, Endings, Loops, NoTrack
    <2>12. GoodPlayer(s)
      BY <2>7, <2>8, <2>11, NothingLoadsIsSo DEF GoodPlayer
    <2>13. EndingIsDue(s, gates.disposed)
      BY <2>7 DEF EndingIsDue, Endings, Loops, NoTrack, ending
    <2>14. CASE track = NoTrack
      <3> DEFINE status == IF MusicAllowed(gates) THEN "ready" ELSE IF gates.enabled THEN "paused" ELSE "off"
      <3>1. r = ReportMusic(gates, s, status)
        BY <2>9, <2>14
      <3>2. status \in {"off", "paused", "loading", "playing", "ready", "error"}
        OBVIOUS
      <3> HIDE DEF status
      <3>3. /\ r \in Players /\ SameLoads(r, s)
            /\ r.desired = s.desired /\ r.active = s.active /\ r.kept = s.kept /\ r.ending = s.ending /\ r.fading = s.fading
        BY <2>7, <3>1, <3>2, ReportIs
      <3>4. LoadsAreSo(r) /\ PendingIsSo(r) /\ PlayIsSo(r)
        BY <2>12, <3>3 DEF GoodPlayer, LoadsAreSo, PendingIsSo, PlayIsSo, SameLoads
      <3>5. EndingIsDue(r, gates.disposed) /\ QuietBehind(gates, r) /\ PlaysWanted(r, context)
        BY <2>7, <2>10, <2>13, <2>14, <3>3 DEF EndingIsDue, QuietBehind, PlaysWanted
      <3> QED
        BY <3>3, <3>4, <3>5 DEF GoodPlayer
    <2>15. CASE track # NoTrack
      <3>1. r = Refresh(gates, s)
        BY <2>9, <2>15
      <3>2. /\ GoodPlayer(r) /\ SamePlay(r, s)
            /\ MusicAllowed(gates) /\ s.desired # NoTrack /\ s.active # s.desired => Loading(r)
            /\ ~MusicAllowed(gates) => r = s
        BY <2>8, <2>12, <2>13, <3>1, RefreshIs
      <3>3. PlaysWanted(r, context)
        BY <2>10, <3>2 DEF PlaysWanted, SamePlay, MusicAllowed, QuietBehind
      <3> QED
        BY <2>10, <2>13, <3>2, <3>3, SamePlayKeeps
    <2> QED
      BY <2>14, <2>15
  <1> QED
    BY <1>1, <1>2

\* A gate opens or closes
LEMMA ConfigureIs ==
    ASSUME gates \in MusicGates, GoodPlayer(music), EndingIsDue(music, gates.disposed), QuietBehind(gates, music),
           PlaysWanted(music, context), FreeFade(music) # {}, NEW g \in MusicGates, g.disposed = gates.disposed,
           NEW r, r = Configure(g)
    PROVE  GoodPlayer(r) /\ EndingIsDue(r, g.disposed) /\ QuietBehind(g, r) /\ PlaysWanted(r, context)
  <1>1. CASE ~MusicAllowed(g)
    <2> DEFINE m == CancelFade(music)
               fades == MusicAllowed(gates) /\ g.enabled /\ g.visible /\ ~g.powered
               p == Pause(m, fades)
               status == IF g.enabled THEN "paused" ELSE "off"
    <2>0. music \in Players /\ LoadsAreSo(music) /\ PlayIsSo(music)
      BY DEF GoodPlayer
    <2>1. m \in Players /\ SamePlay(m, music) /\ NothingLoads(m)
      BY <2>0, CancelIs
    <2>2. r = ReportMusic(g, p, status)
      BY <1>1 DEF Configure
    <2>3. status \in {"off", "paused", "loading", "playing", "ready", "error"} /\ fades \in BOOLEAN
      OBVIOUS
    <2>30. fades => g.enabled /\ g.visible /\ ~g.disposed
      BY DEF MusicAllowed
    <2>31. p = Pause(m, fades)
      OBVIOUS
    <2> HIDE DEF m, fades, status, p
    <2>4. GoodPlayer(m)
      <3>1. PlayIsSo(m)
        BY <2>0, <2>1 DEF PlayIsSo, SamePlay, NothingLoads
      <3> QED
        BY <2>1, <3>1, NothingLoadsIsSo DEF GoodPlayer
    <2>5. GoodPlayer(p) /\ p.active = NoTrack /\ p.desired \notin Endings /\ (p.fading => fades)
      BY <2>1, <2>3, <2>31, <2>4, PauseIs
    <2>6. /\ r \in Players /\ SameLoads(r, p)
          /\ r.desired = p.desired /\ r.active = p.active /\ r.kept = p.kept /\ r.ending = p.ending /\ r.fading = p.fading
      BY <2>2, <2>3, <2>5, ReportIs DEF GoodPlayer
    <2>7. LoadsAreSo(r) /\ PendingIsSo(r) /\ PlayIsSo(r)
      BY <2>5, <2>6 DEF GoodPlayer, LoadsAreSo, PendingIsSo, PlayIsSo, SameLoads
    <2>8. EndingIsDue(r, g.disposed) /\ QuietBehind(g, r) /\ PlaysWanted(r, context)
      BY <2>30, <2>5, <2>6 DEF EndingIsDue, QuietBehind, PlaysWanted
    <2> QED
      BY <2>6, <2>7, <2>8 DEF GoodPlayer
  <1>2. CASE MusicAllowed(g) /\ MusicAllowed(gates)
    <2>1. r = music
      BY <1>2 DEF Configure
    <2> QED
      BY <1>2, <2>1 DEF QuietBehind, MusicAllowed
  <1>3. CASE MusicAllowed(g) /\ ~MusicAllowed(gates)
    <2>1. r = Refresh(g, music)
      BY <1>3 DEF Configure
    <2>2. EndingIsDue(music, g.disposed)
      OBVIOUS
    <2>3. /\ GoodPlayer(r) /\ SamePlay(r, music)
          /\ MusicAllowed(g) /\ music.desired # NoTrack /\ music.active # music.desired => Loading(r)
      BY <2>1, <2>2, RefreshIs
    <2>4. PlaysWanted(r, context) /\ QuietBehind(g, r)
      BY <1>3, <2>3 DEF PlaysWanted, QuietBehind, MusicAllowed, SamePlay
    <2> QED
      BY <2>2, <2>3, <2>4, SamePlayKeeps
  <1> QED
    BY <1>1, <1>2, <1>3

\* A load counts while it is the pending one
LEMMA StaleIs ==
    ASSUME GoodPlayer(music), NEW l \in music.loads
    PROVE  l \in LoadsWanted /\ (l.stale <=> l.n # music.pending) /\ \A k \in music.loads : k # l /\ l.n = music.pending => k.stale
  <1>1. l \in LoadsWanted /\ music.loads \subseteq LoadsWanted
    BY DEF GoodPlayer, Players
  <1>2. l.n # 0 /\ l.stale \in BOOLEAN
    BY <1>1 DEF LoadsWanted
  <1> QED
    BY <1>1, <1>2 DEF GoodPlayer, LoadsAreSo, PendingIsSo

\* The end of a load that was cancelled
LEMMA OverStale ==
    ASSUME GoodPlayer(music), EndingIsDue(music, gates.disposed), QuietBehind(gates, music), PlaysWanted(music, context),
           NEW l \in music.loads, l.stale, NEW r, r = Over(l, music)
    PROVE  GoodPlayer(r) /\ EndingIsDue(r, gates.disposed) /\ QuietBehind(gates, r) /\ PlaysWanted(r, context)
  <1>0. music \in Players
    BY DEF GoodPlayer
  <1>1. l.n # music.pending
    BY StaleIs
  <1>2. r = [music EXCEPT !.loads = @ \ {l}]
    BY <1>1 DEF Over
  <1> DEFINE left == music.loads \ {l}
  <1>3. r = [music EXCEPT !.loads = left] /\ left \subseteq LoadsWanted /\ left = music.loads \ {l}
    BY <1>0, <1>2 DEF Players
  <1> HIDE DEF left
  <1>4. r \in Players /\ SamePlay(r, music) /\ r.loads = music.loads \ {l} /\ r.pending = music.pending /\ r.again = music.again
    BY <1>0, <1>3 DEF Players, SamePlay
  <1>5. LoadsAreSo(r) /\ PendingIsSo(r) /\ PlayIsSo(r)
    BY <1>1, <1>4 DEF GoodPlayer, LoadsAreSo, PendingIsSo, PlayIsSo, SamePlay
  <1>6. PlaysWanted(r, context)
    BY <1>1, <1>4 DEF PlaysWanted, Loading, SamePlay
  <1> QED
    BY <1>4, <1>5, <1>6, SamePlayKeeps DEF GoodPlayer

\* The end of the pending load, which left the player m: what was asked for meanwhile is done now
LEMMA OverPending ==
    ASSUME GoodPlayer(music), NEW l \in music.loads, ~l.stale, NEW m \in Players, SameLoads(m, music),
           m.desired \in Endings => m.active \in {NoTrack, m.desired}, m.active \in Endings => m.kept = NoTrack,
           m.kept \in {NoTrack, m.desired},
           EndingIsDue(m, gates.disposed), QuietBehind(gates, m),
           m.active \in {NoTrack, m.desired} \/ m.desired = NoTrack \/ context # "running",
           NEW r, r = Over(l, m)
    PROVE  GoodPlayer(r) /\ EndingIsDue(r, gates.disposed) /\ QuietBehind(gates, r) /\ PlaysWanted(r, context)
  <1>1. l \in LoadsWanted /\ l.n = music.pending /\ \A k \in music.loads : k # l => k.stale
    BY StaleIs
  <1>2. l.n \in 1 .. MaxLoads /\ \A k \in music.loads : k # l => k.n # l.n
    BY <1>1 DEF LoadsWanted, GoodPlayer, LoadsAreSo
  <1> DEFINE left == m.loads \ {l}
             ended == [m EXCEPT !.loads = left]
             freed == [ended EXCEPT !.pending = 0, !.again = FALSE]
  <1>3. r = IF m.again THEN Refresh(gates, freed) ELSE freed
    <2>1. ended = [m EXCEPT !.loads = @ \ {l}]
      BY DEF Players
    <2> QED
      BY <1>1, <2>1 DEF Over, SameLoads
  <1>4. left \subseteq LoadsWanted /\ left = music.loads \ {l}
    BY DEF SameLoads, Players
  <1>5. freed = [[[m EXCEPT !.loads = left] EXCEPT !.pending = 0] EXCEPT !.again = FALSE]
    OBVIOUS
  <1> HIDE DEF left, freed
  <1>6. freed \in Players /\ SamePlay(freed, m) /\ freed.loads = left /\ freed.pending = 0 /\ freed.again = FALSE
    <2>1. 0 \in 0 .. MaxLoads
      BY MusicAssumption
    <2> QED
      BY <1>4, <1>5, <2>1 DEF Players, SamePlay
  <1>7. NothingLoads(freed)
    BY <1>1, <1>4, <1>6 DEF NothingLoads, GoodPlayer, LoadsAreSo
  <1>8. l.n \in FreeFade(freed)
    BY <1>2, <1>4, <1>6 DEF FreeFade
  <1>9. PlayIsSo(freed)
    BY <1>6 DEF PlayIsSo, SamePlay
  <1>10. GoodPlayer(freed) /\ EndingIsDue(freed, gates.disposed) /\ QuietBehind(gates, freed)
    BY <1>6, <1>7, <1>9, NothingLoadsIsSo, SamePlayKeeps DEF GoodPlayer
  <1>11. CASE m.again
    <2>1. r = Refresh(gates, freed)
      BY <1>3, <1>11
    <2>2. GoodPlayer(r) /\ SamePlay(r, freed)
      BY <1>8, <1>10, <2>1, RefreshIs
    <2>3. PlaysWanted(r, context)
      BY <1>6, <2>2 DEF PlaysWanted, SamePlay
    <2> QED
      BY <1>10, <2>2, <2>3, SamePlayKeeps
  <1>12. CASE ~m.again
    <2>1. r = freed
      BY <1>3, <1>12
    <2>2. PlaysWanted(freed, context)
      BY <1>6 DEF PlaysWanted, SamePlay
    <2> QED
      BY <1>10, <2>1, <2>2
  <1> QED
    BY <1>11, <1>12

-----------------------------------------------------------------------------

\* A load arrives: it is let go, or plays
LEMMA ArrivedIs ==
    ASSUME MusicInv, NEW l \in music.loads, NEW r, r = Arrived(l)
    PROVE  GoodPlayer(r) /\ EndingIsDue(r, gates.disposed) /\ QuietBehind(gates, r) /\ PlaysWanted(r, context)
  <1>0. /\ GoodPlayer(music) /\ EndingIsDue(music, gates.disposed) /\ QuietBehind(gates, music)
        /\ PlaysWanted(music, context) /\ music \in Players /\ LoadsAreSo(music) /\ PlayIsSo(music)
    BY DEF MusicInv, GoodPlayer
  <1>1. l \in LoadsWanted /\ l.id \in Tracks /\ l.stale \in BOOLEAN
    BY <1>0 DEF Players, LoadsWanted
  <1>2. CASE l.stale
    <2>1. r = Over(l, music)
      BY <1>2 DEF Arrived, CurrentTrack
    <2> QED
      BY <1>0, <1>2, <2>1, OverStale
  <1>3. CASE ~l.stale /\ ~CurrentTrack(l)
    <2>1. r = Over(l, music)
      BY <1>3 DEF Arrived
    <2>2. music.active = NoTrack \/ context # "running"
      BY <1>0, <1>3 DEF CurrentTrack, QuietBehind, MusicAllowed
    <2>3. SameLoads(music, music)
      BY DEF SameLoads
    <2>4. /\ music.desired \in Endings => music.active \in {NoTrack, music.desired}
          /\ music.active \in Endings => music.kept = NoTrack
          /\ music.kept \in {NoTrack, music.desired}
      BY <1>0 DEF PlayIsSo
    <2>5. music.active \in {NoTrack, music.desired} \/ music.desired = NoTrack \/ context # "running"
      BY <2>2
    <2> QED
      BY <1>0, <1>3, <2>1, <2>3, <2>4, <2>5, OverPending
  <1>4. CASE ~l.stale /\ CurrentTrack(l)
    <2>0. /\ l.n = music.pending /\ music.desired \in {NoTrack, l.id}
          /\ l.id \in Endings => music.ending = "due" /\ music.desired = l.id
      BY <1>0, <1>4 DEF LoadsAreSo
    <2>1. CASE Overdue(l)
      <3> DEFINE m == [music EXCEPT !.desired = NoTrack, !.status = "ready", !.ending = "spent"]
      <3>1. r = Over(l, m)
        BY <1>4, <2>1 DEF Arrived
      <3>2. m = [[[music EXCEPT !.desired = NoTrack] EXCEPT !.status = "ready"] EXCEPT !.ending = "spent"]
        OBVIOUS
      <3> HIDE DEF m
      <3>3. /\ m \in Players /\ SameLoads(m, music) /\ m.desired = NoTrack /\ m.active = music.active /\ m.kept = music.kept
            /\ m.fading = music.fading
        BY <1>0, <3>2 DEF Players, SameLoads, SomeTracks
      <3>4. l.id \in Endings /\ music.kept \in Loops \union {NoTrack}
        BY <1>0, <2>1 DEF Overdue, Players
      <3>5. music.kept = NoTrack
        BY <1>0, <2>0, <3>4 DEF PlayIsSo, Endings, Loops, NoTrack
      <3>6. NoTrack \notin Endings
        BY DEF NoTrack, Endings
      <3>7. EndingIsDue(m, gates.disposed) /\ QuietBehind(gates, m)
        BY <1>0, <3>3, <3>6 DEF EndingIsDue, QuietBehind
      <3> QED
        BY <1>0, <1>4, <3>1, <3>3, <3>5, <3>6, <3>7, OverPending
    <2>2. CASE ~Overdue(l)
      <3> DEFINE yes == TRUE
                 s == StopAll(music, yes)
                 ending == IF l.id \in Loops THEN music.ending
                           ELSE IF music.ending = "due" /\ ~music.late THEN "spent" ELSE "replayed"
                 m == [[[[s EXCEPT !.cached = l.id] EXCEPT !.active = l.id] EXCEPT !.status = "playing"] EXCEPT !.ending = ending]
      <3>1. r = Over(l, Plays(l))
        BY <1>4, <2>2 DEF Arrived
      <3>2. yes \in BOOLEAN /\ yes = TRUE /\ s = StopAll(music, yes)
        OBVIOUS
      <3>3. ending \in {"none", "due", "spent"}
        BY <1>0, <1>1, <2>0, <2>2 DEF Players, Overdue, Tracks
      <3>4. music.ending = s.ending /\ [s EXCEPT !.cached = l.id].ending = s.ending
        BY <1>0, <3>2, StopIs DEF Players
      <3>5. Plays(l) = m
        BY <3>4 DEF Plays
      <3> HIDE DEF yes, s, ending
      <3>6. /\ s \in Players /\ SameLoads(s, music)
            /\ s.desired = music.desired /\ s.active = NoTrack /\ s.kept = music.kept
        BY <1>0, <3>2, StopIs
      <3>7. m = [[[[s EXCEPT !.cached = l.id] EXCEPT !.active = l.id] EXCEPT !.status = "playing"] EXCEPT !.ending = ending]
        OBVIOUS
      <3> HIDE DEF m
      <3>8. l.id \in SomeTracks
        BY <1>1 DEF SomeTracks
      <3>9. /\ m \in Players /\ SameLoads(m, s) /\ m.desired = s.desired /\ m.active = l.id /\ m.kept = s.kept
        BY <3>3, <3>6, <3>7, <3>8 DEF Players, SameLoads
      <3>10. MusicAllowed(gates)
        BY <1>4 DEF CurrentTrack
      <3>11. QuietBehind(gates, m)
        BY <3>10 DEF QuietBehind, MusicAllowed
      <3>12. music.kept \in Loops \union {NoTrack} /\ music.kept \in {NoTrack, music.desired}
        BY <1>0 DEF Players, PlayIsSo
      <3>13. /\ m.desired \in Endings => m.active \in {NoTrack, m.desired}
             /\ m.active \in Endings => m.kept = NoTrack
             /\ m.kept \in {NoTrack, m.desired}
             /\ m.active \in {NoTrack, m.desired} \/ m.desired = NoTrack
        BY <2>0, <3>6, <3>9, <3>12 DEF Endings, Loops, NoTrack
      <3>14. EndingIsDue(m, gates.disposed)
        BY <2>0, <3>6, <3>9 DEF EndingIsDue, Endings, NoTrack
      <3>15. SameLoads(m, music) /\ r = Over(l, m)
        BY <3>1, <3>5, <3>6, <3>9 DEF SameLoads
      <3> QED
        BY <1>0, <1>4, <3>9, <3>11, <3>13, <3>14, <3>15, OverPending
    <2> QED
      BY <2>1, <2>2
  <1> QED
    BY <1>1, <1>2, <1>3, <1>4

\* A load fails
LEMMA FailedIs ==
    ASSUME MusicInv, NEW l \in music.loads, NEW r, r = LoadFailed(l)
    PROVE  GoodPlayer(r) /\ EndingIsDue(r, gates.disposed) /\ QuietBehind(gates, r) /\ PlaysWanted(r, context)
  <1>0. /\ GoodPlayer(music) /\ EndingIsDue(music, gates.disposed) /\ QuietBehind(gates, music)
        /\ PlaysWanted(music, context) /\ music \in Players /\ LoadsAreSo(music) /\ PlayIsSo(music)
    BY DEF MusicInv, GoodPlayer
  <1>1. l \in LoadsWanted /\ l.stale \in BOOLEAN
    BY <1>0 DEF Players, LoadsWanted
  <1>2. CASE l.stale
    <2>1. r = Over(l, music)
      BY <1>2 DEF LoadFailed
    <2> QED
      BY <1>0, <1>2, <2>1, OverStale
  <1>3. CASE ~l.stale /\ ~MusicAllowed(gates)
    <2>1. r = Over(l, music)
      BY <1>3 DEF LoadFailed
    <2>2. music.active = NoTrack /\ SameLoads(music, music)
      BY <1>0, <1>3 DEF QuietBehind, MusicAllowed, SameLoads
    <2>4. /\ music.desired \in Endings => music.active \in {NoTrack, music.desired}
          /\ music.active \in Endings => music.kept = NoTrack
          /\ music.kept \in {NoTrack, music.desired}
      BY <1>0 DEF PlayIsSo
    <2> QED
      BY <1>0, <1>3, <2>1, <2>2, <2>4, OverPending
  <1>4. CASE ~l.stale /\ MusicAllowed(gates)
    <2> DEFINE yes == TRUE
               s == StopAll(music, yes)
               m == [s EXCEPT !.status = "error"]
    <2>1. r = Over(l, m)
      BY <1>4 DEF LoadFailed
    <2>2. yes \in BOOLEAN /\ s = StopAll(music, yes)
      OBVIOUS
    <2> HIDE DEF yes, s
    <2>3. /\ s \in Players /\ SameLoads(s, music)
          /\ s.desired = music.desired /\ s.active = NoTrack /\ s.kept = music.kept /\ s.ending = music.ending
      BY <1>0, <2>2, StopIs
    <2>4. m = [s EXCEPT !.status = "error"]
      OBVIOUS
    <2> HIDE DEF m
    <2>5. /\ m \in Players /\ SameLoads(m, music)
          /\ m.desired = music.desired /\ m.active = NoTrack /\ m.kept = music.kept /\ m.ending = music.ending
      BY <2>3, <2>4 DEF Players, SameLoads
    <2>6. QuietBehind(gates, m)
      BY <1>4 DEF QuietBehind, MusicAllowed
    <2>7. music.pending # 0
      BY <1>0, <1>1, <1>4 DEF LoadsAreSo, LoadsWanted
    <2>8. EndingIsDue(m, gates.disposed)
      BY <1>0, <2>5, <2>7 DEF EndingIsDue, PlayIsSo, Endings, NoTrack
    <2>9. m.kept \in {NoTrack, m.desired} /\ m.active \notin Endings
      BY <1>0, <2>5 DEF PlayIsSo, Endings, NoTrack
    <2> QED
      BY <1>0, <1>4, <2>1, <2>5, <2>6, <2>8, <2>9, OverPending
  <1> QED
    BY <1>1, <1>2, <1>3, <1>4

\* What is left to show of an action that leaves the gates and the device
LEMMA PlayerKeeps ==
    ASSUME MusicInv, UNCHANGED <<gates, context>>, station' \in [scene : Scenes, online : BOOLEAN],
           GoodPlayer(music') /\ EndingIsDue(music', gates.disposed) /\ QuietBehind(gates, music') /\ PlaysWanted(music', context)
    PROVE  MusicInv'
  BY DEF MusicInv, GoodPlayer, LoadsAreSo, PendingIsSo, PlayIsSo, EndingIsDue, QuietBehind, PlaysWanted, Loading

\* The output comes, or a track is loaded
LEMMA LoadsKeep == MusicInv /\ (OutputComes \/ LoadSettles) => MusicInv'
  <1> SUFFICES ASSUME MusicInv, OutputComes \/ LoadSettles PROVE MusicInv'
    OBVIOUS
  <1>0. /\ GoodPlayer(music) /\ EndingIsDue(music, gates.disposed) /\ QuietBehind(gates, music)
        /\ PlaysWanted(music, context) /\ music \in Players /\ LoadsAreSo(music) /\ PlayIsSo(music)
        /\ station \in [scene : Scenes, online : BOOLEAN]
    BY DEF MusicInv, GoodPlayer
  <1>1. UNCHANGED <<gates, context>> /\ station' = station
    BY DEF OutputComes, LoadSettles
  <1>2. CASE LoadSettles
    <2>1. PICK l \in music.loads : music' = Arrived(l) \/ music' = LoadFailed(l)
      BY <1>2 DEF LoadSettles
    <2>2. GoodPlayer(music') /\ EndingIsDue(music', gates.disposed) /\ QuietBehind(gates, music') /\ PlaysWanted(music', context)
      BY <2>1, ArrivedIs, FailedIs
    <2> QED
      BY <1>0, <1>1, <2>2, PlayerKeeps
  <1>3. CASE OutputComes
    <2> DEFINE next(l) == [l EXCEPT !.stage = "load"]
    <2>1. PICK l \in music.loads :
            music' = IF ~CurrentTrack(l) THEN Over(l, music)
                     ELSE IF music.cached = l.id THEN Arrived(l)
                     ELSE [music EXCEPT !.out = TRUE, !.status = "loading", !.loads = (@ \ {l}) \union {next(l)}]
      BY <1>3 DEF OutputComes
    <2>2. CASE ~CurrentTrack(l) \/ music.cached = l.id
      <3>1. music' = Arrived(l)
        BY <2>1, <2>2 DEF Arrived
      <3>2. GoodPlayer(music') /\ EndingIsDue(music', gates.disposed) /\ QuietBehind(gates, music') /\ PlaysWanted(music', context)
        BY <3>1, ArrivedIs
      <3> QED
        BY <1>0, <1>1, <3>2, PlayerKeeps
    <2>3. CASE CurrentTrack(l) /\ music.cached # l.id
      <3> DEFINE s == next(l)
                 now == (music.loads \ {l}) \union {s}
      <3>1. l \in LoadsWanted /\ music.loads \subseteq LoadsWanted
        BY <1>0 DEF Players
      <3>2. s \in LoadsWanted /\ s.n = l.n /\ s.id = l.id /\ s.stale = l.stale
        BY <3>1 DEF LoadsWanted
      <3>3. music' = [[[music EXCEPT !.out = TRUE] EXCEPT !.status = "loading"] EXCEPT !.loads = now]
        <4>1. music' = [music EXCEPT !.out = TRUE, !.status = "loading", !.loads = (@ \ {l}) \union {next(l)}]
          BY <2>1, <2>3
        <4> HIDE DEF next
        <4> QED
          BY <1>0, <4>1 DEF Players
      <3> HIDE DEF s
      <3>4. now \subseteq LoadsWanted /\ now = (music.loads \ {l}) \union {s}
        BY <3>1, <3>2
      <3> HIDE DEF now
      <3>5. /\ music' \in Players /\ music'.loads = now /\ music'.pending = music.pending /\ music'.again = music.again
            /\ music'.desired = music.desired /\ music'.active = music.active /\ music'.fading = music.fading
            /\ music'.kept = music.kept /\ music'.ending = music.ending
        BY <1>0, <3>3, <3>4 DEF Players
      <3>6. LoadsAreSo(music')
        BY <1>0, <3>2, <3>4, <3>5 DEF LoadsAreSo
      <3>7. PendingIsSo(music') /\ PlayIsSo(music')
        BY <1>0, <3>2, <3>4, <3>5 DEF GoodPlayer, PendingIsSo, PlayIsSo
      <3>8. Loading(music) => Loading(music')
        BY <3>2, <3>4, <3>5 DEF Loading
      <3>9. EndingIsDue(music', gates.disposed) /\ QuietBehind(gates, music') /\ PlaysWanted(music', context)
        BY <1>0, <3>5, <3>8 DEF EndingIsDue, QuietBehind, PlaysWanted
      <3> QED
        BY <1>0, <1>1, <3>5, <3>6, <3>7, <3>9, PlayerKeeps DEF GoodPlayer
    <2> QED
      BY <2>2, <2>3
  <1> QED
    BY <1>2, <1>3

\* What the station shows is told to the music
LEMMA TransitionIs ==
    ASSUME MusicInv, FreeFade(music) # {}, NEW next \in Scenes, NEW ending \in Endings \union {NoTrack},
           NEW announce \in BOOLEAN, NEW r, r = Transition(next, ending, announce)
    PROVE  GoodPlayer(r) /\ EndingIsDue(r, gates.disposed) /\ QuietBehind(gates, r) /\ PlaysWanted(r, context)
  <1>0. /\ GoodPlayer(music) /\ EndingIsDue(music, gates.disposed) /\ QuietBehind(gates, music)
        /\ PlaysWanted(music, context)
    BY DEF MusicInv
  <1>1. CASE announce /\ next = "over" /\ station.scene = "over"
    <2>1. r = music
      BY <1>1 DEF Transition
    <2> QED
      BY <1>0, <2>1
  <1>2. CASE ~(announce /\ next = "over" /\ station.scene = "over") /\ Replaces(ending)
    <2> DEFINE yes == TRUE
    <2>1. r = Want(music, ending, yes) /\ yes \in BOOLEAN /\ yes = TRUE
      BY <1>2 DEF Transition
    <2> HIDE DEF yes
    <2>2. ending \in (IF yes THEN Endings ELSE Loops \union {NoTrack})
      BY <1>2, <2>1 DEF Replaces
    <2> QED
      BY <1>0, <2>1, <2>2, WantIs
  <1>3. CASE ~(announce /\ next = "over" /\ station.scene = "over") /\ ~Replaces(ending)
    <2> DEFINE no == FALSE
               track == SceneOf(next)
    <2>1. r = Want(music, track, no) /\ no \in BOOLEAN /\ no = FALSE
      BY <1>3 DEF Transition
    <2>2. track \in Loops \union {NoTrack}
      BY DEF SceneOf, Scenes, Loops, NoTrack
    <2> HIDE DEF no, track
    <2>3. track \in (IF no THEN Endings ELSE Loops \union {NoTrack})
      BY <2>1, <2>2
    <2> QED
      BY <1>0, <2>1, <2>3, WantIs
  <1> QED
    BY <1>1, <1>2, <1>3

\* The player comes to another place, or the link changes
LEMMA ScenesKeep == MusicInv /\ (StationMoves \/ LinkChanges) => MusicInv'
  <1> SUFFICES ASSUME MusicInv, StationMoves \/ LinkChanges PROVE MusicInv'
    OBVIOUS
  <1>0. /\ GoodPlayer(music) /\ EndingIsDue(music, gates.disposed) /\ QuietBehind(gates, music)
        /\ PlaysWanted(music, context) /\ station \in [scene : Scenes, online : BOOLEAN]
    BY DEF MusicInv
  <1>1. UNCHANGED <<gates, context>> /\ FreeFade(music) # {}
    BY DEF StationMoves, LinkChanges
  <1>2. PICK next \in Scenes, ending \in Endings \union {NoTrack}, announce \in BOOLEAN :
          music' = music \/ music' = Transition(next, ending, announce)
    <2>1. CASE StationMoves
      <3>1. PICK scene \in Scenes : \E ending \in MusicEnding(station.scene, scene) :
              music' = IF station.online THEN Transition(scene, ending, TRUE) ELSE music
        BY <2>1 DEF StationMoves
      <3>2. PICK ending \in MusicEnding(station.scene, scene) :
              music' = IF station.online THEN Transition(scene, ending, TRUE) ELSE music
        BY <3>1
      <3>3. ending \in Endings \union {NoTrack} /\ TRUE \in BOOLEAN
        BY <3>2 DEF MusicEnding
      <3> QED
        BY <3>2, <3>3
    <2>2. CASE LinkChanges
      <3>1. music' = IF station.online THEN music ELSE Transition(station.scene, NoTrack, FALSE)
        BY <2>2 DEF LinkChanges
      <3>2. NoTrack \in Endings \union {NoTrack} /\ FALSE \in BOOLEAN
        OBVIOUS
      <3> QED
        BY <1>0, <3>1, <3>2
    <2> QED
      BY <2>1, <2>2
  <1>3. GoodPlayer(music') /\ EndingIsDue(music', gates.disposed) /\ QuietBehind(gates, music') /\ PlaysWanted(music', context)
    BY <1>0, <1>1, <1>2, TransitionIs
  <1>4. station' \in [scene : Scenes, online : BOOLEAN]
    <2>1. station \in [scene : Scenes, online : BOOLEAN]
      BY DEF MusicInv
    <2> QED
      BY <2>1 DEF StationMoves, LinkChanges
  <1> QED
    BY <1>1, <1>3, <1>4, PlayerKeeps

\* A gate opens or closes, or the scene is left
LEMMA GatesKeep == MusicInv /\ (GateChanges \/ Gesture \/ LeaveScene) => MusicInv'
  <1> SUFFICES ASSUME MusicInv, GateChanges \/ Gesture \/ LeaveScene PROVE MusicInv'
    OBVIOUS
  <1>0. /\ GoodPlayer(music) /\ EndingIsDue(music, gates.disposed) /\ QuietBehind(gates, music)
        /\ PlaysWanted(music, context) /\ station \in [scene : Scenes, online : BOOLEAN]
        /\ gates \in MusicGates /\ context \in {"none", "suspended", "running"}
        /\ music \in Players /\ LoadsAreSo(music) /\ PendingIsSo(music) /\ PlayIsSo(music)
    BY DEF MusicInv, GoodPlayer
  <1>1. CASE GateChanges
    <2>1. PICK g \in {[gates EXCEPT !.enabled = ~@], [gates EXCEPT !.powered = ~@],
                      [gates EXCEPT !.visible = ~@], [gates EXCEPT !.loud = ~@]} :
             /\ gates' = g /\ music' = Configure(g)
             /\ station' = [station EXCEPT !.online = @ /\ g.powered]
      BY <1>1 DEF GateChanges
    <2>2. FreeFade(music) # {} /\ context' = context
      BY <1>1 DEF GateChanges
    <2>3. g \in MusicGates /\ g.disposed = gates.disposed
      BY <1>0, <2>1 DEF MusicGates
    <2>4. GoodPlayer(music') /\ EndingIsDue(music', g.disposed) /\ QuietBehind(g, music') /\ PlaysWanted(music', context)
      BY <1>0, <2>1, <2>2, <2>3, ConfigureIs
    <2>5. station' \in [scene : Scenes, online : BOOLEAN]
      BY <1>0, <2>1
    <2>6. gates' = g /\ context' = context
      BY <2>1, <2>2
    <2> QED
      BY <1>0, <2>3, <2>4, <2>5, <2>6 DEF MusicInv, GoodPlayer, LoadsAreSo, PendingIsSo, PlayIsSo, EndingIsDue, QuietBehind, PlaysWanted, Loading
  <1>2. CASE Gesture
    <2>1. FreeFade(music) # {} /\ context' = "running" /\ music' = Refresh(gates, music) /\ gates' = gates /\ station' = station
      BY <1>2 DEF Gesture
    <2>2. /\ GoodPlayer(music') /\ SamePlay(music', music)
          /\ MusicAllowed(gates) /\ music.desired # NoTrack /\ music.active # music.desired => Loading(music')
      BY <1>0, <2>1, RefreshIs
    <2>3. EndingIsDue(music', gates.disposed) /\ QuietBehind(gates, music')
      BY <1>0, <2>2, SamePlayKeeps
    <2>4. PlaysWanted(music', context')
      BY <1>0, <2>2 DEF PlaysWanted, SamePlay, QuietBehind, MusicAllowed
    <2> QED
      BY <1>0, <2>1, <2>2, <2>3, <2>4 DEF MusicInv, GoodPlayer, LoadsAreSo, PendingIsSo, PlayIsSo, EndingIsDue, QuietBehind, PlaysWanted, Loading
  <1>3. CASE LeaveScene
    <2> DEFINE m == CancelFade(music)
               no == FALSE
               s == StopAll(m, no)
               r == [s EXCEPT !.cached = NoTrack]
    <2>1. gates' = [gates EXCEPT !.disposed = TRUE] /\ music' = r /\ station' = station /\ context' = context
      BY <1>3 DEF LeaveScene
    <2>2. m \in Players /\ SamePlay(m, music) /\ NothingLoads(m)
      BY <1>0, CancelIs
    <2>3. no \in BOOLEAN /\ no = FALSE /\ s = StopAll(m, no)
      OBVIOUS
    <2> HIDE DEF m, no, s
    <2>4. /\ s \in Players /\ SameLoads(s, m)
          /\ s.desired = m.desired /\ s.active = NoTrack /\ s.kept = m.kept /\ s.fading = FALSE
      BY <2>2, <2>3, StopIs
    <2>5. r = [s EXCEPT !.cached = NoTrack]
      OBVIOUS
    <2> HIDE DEF r
    <2>6. /\ r \in Players /\ SameLoads(r, m)
          /\ r.desired = m.desired /\ r.active = NoTrack /\ r.kept = m.kept /\ r.fading = FALSE
      BY <2>4, <2>5 DEF Players, SameLoads, SomeTracks
    <2>7. NothingLoads(r)
      BY <2>2, <2>6 DEF NothingLoads, SameLoads
    <2>8. PlayIsSo(r)
      BY <1>0, <2>2, <2>6 DEF PlayIsSo, SamePlay, Endings, NoTrack
    <2>9. GoodPlayer(r)
      BY <2>6, <2>7, <2>8, NothingLoadsIsSo DEF GoodPlayer
    <2>10. gates' \in MusicGates /\ gates'.disposed
      BY <1>0, <2>1 DEF MusicGates
    <2>11. EndingIsDue(r, gates'.disposed) /\ QuietBehind(gates', r) /\ PlaysWanted(r, context)
      BY <2>6, <2>10 DEF EndingIsDue, QuietBehind, PlaysWanted
    <2> QED
      BY <1>0, <2>1, <2>9, <2>10, <2>11 DEF MusicInv, GoodPlayer, LoadsAreSo, PendingIsSo, PlayIsSo, EndingIsDue, QuietBehind, PlaysWanted, Loading
  <1> QED
    BY <1>1, <1>2, <1>3

\* An ending ages, fades, is over or interrupted
LEMMA EndsKeep == MusicInv /\ (EndingAges \/ VoiceFades \/ EndingIsOver \/ Interrupted) => MusicInv'
  <1> SUFFICES ASSUME MusicInv, EndingAges \/ VoiceFades \/ EndingIsOver \/ Interrupted PROVE MusicInv'
    OBVIOUS
  <1>0. /\ GoodPlayer(music) /\ EndingIsDue(music, gates.disposed) /\ QuietBehind(gates, music)
        /\ PlaysWanted(music, context) /\ station \in [scene : Scenes, online : BOOLEAN]
        /\ music \in Players /\ LoadsAreSo(music) /\ PendingIsSo(music) /\ PlayIsSo(music)
    BY DEF MusicInv, GoodPlayer
  <1>1. CASE EndingAges \/ VoiceFades
    <2>1. UNCHANGED <<gates, station, context>> /\ (music' = [music EXCEPT !.late = TRUE] \/ music' = [music EXCEPT !.fading = FALSE])
      BY <1>1 DEF EndingAges, VoiceFades
    <2>2. /\ music' \in Players /\ SameLoads(music', music)
          /\ music'.desired = music.desired /\ music'.active = music.active /\ (music'.fading => music.fading)
          /\ music'.kept = music.kept /\ music'.ending = music.ending
      BY <1>0, <2>1 DEF Players, SameLoads
    <2>3. GoodPlayer(music')
      BY <1>0, <2>2 DEF GoodPlayer, LoadsAreSo, PendingIsSo, PlayIsSo, SameLoads
    <2>4. EndingIsDue(music', gates.disposed) /\ QuietBehind(gates, music') /\ PlaysWanted(music', context)
      BY <1>0, <2>2 DEF EndingIsDue, QuietBehind, PlaysWanted, Loading, SameLoads
    <2> QED
      BY <1>0, <2>1, <2>3, <2>4, PlayerKeeps
  <1>2. CASE EndingIsOver
    <2> DEFINE m == [[music EXCEPT !.active = NoTrack] EXCEPT !.desired = NoTrack]
               status == "ready"
    <2>1. music.active \in Endings /\ music' = ReportMusic(gates, m, status) /\ UNCHANGED <<gates, station, context>>
      BY <1>2 DEF EndingIsOver
    <2>2. status \in {"off", "paused", "loading", "playing", "ready", "error"} /\ m = [[music EXCEPT !.active = NoTrack] EXCEPT !.desired = NoTrack]
      OBVIOUS
    <2> HIDE DEF m, status
    <2>3. /\ m \in Players /\ SameLoads(m, music) /\ m.desired = NoTrack /\ m.active = NoTrack
          /\ m.kept = music.kept /\ m.fading = music.fading /\ m.ending = music.ending
      BY <1>0, <2>2 DEF Players, SameLoads, SomeTracks
    <2>4. /\ music' \in Players /\ SameLoads(music', m)
          /\ music'.desired = m.desired /\ music'.active = m.active /\ music'.kept = m.kept /\ music'.ending = m.ending
          /\ music'.fading = m.fading
      <3>1. CASE gates.disposed
        BY <2>1, <2>3, <3>1 DEF ReportMusic, SameLoads
      <3>2. CASE ~gates.disposed
        <4>1. music' = [m EXCEPT !.status = status]
          BY <2>1, <3>2 DEF ReportMusic
        <4> QED
          BY <2>2, <2>3, <4>1 DEF Players, SameLoads
      <3> QED
        BY <3>1, <3>2
    <2>5. \A l \in music.loads : ~l.stale => l.id \notin Endings
      <3> SUFFICES ASSUME NEW l \in music.loads, ~l.stale, l.id \in Endings PROVE FALSE
        OBVIOUS
      <3>1. music.desired = l.id /\ l.n = music.pending /\ l.n # 0
        BY <1>0 DEF LoadsAreSo, Players, LoadsWanted
      <3>2. music.active = music.desired
        BY <1>0, <2>1, <3>1 DEF PlayIsSo, Endings, NoTrack
      <3> QED
        BY <1>0, <2>1, <3>1, <3>2 DEF PlayIsSo, Endings, NoTrack
    <2>6. LoadsAreSo(music') /\ PendingIsSo(music')
      BY <1>0, <2>3, <2>4, <2>5 DEF LoadsAreSo, PendingIsSo, SameLoads
    <2>7. PlayIsSo(music')
      BY <1>0, <2>1, <2>3, <2>4 DEF PlayIsSo, Endings, NoTrack
    <2>8. EndingIsDue(music', gates.disposed) /\ QuietBehind(gates, music') /\ PlaysWanted(music', context)
      BY <1>0, <2>3, <2>4 DEF EndingIsDue, QuietBehind, PlaysWanted, Endings, NoTrack
    <2> QED
      BY <1>0, <2>1, <2>4, <2>6, <2>7, <2>8, PlayerKeeps DEF GoodPlayer
  <1>3. CASE Interrupted
    BY <1>3 DEF Interrupted, MusicInv, PlaysWanted
  <1> QED
    BY <1>1, <1>2, <1>3

\* Every step of the music keeps the invariant
LEMMA MusicStep == MusicInv /\ [MusicNext]_musicVars => MusicInv'
  <1> SUFFICES ASSUME MusicInv, [MusicNext]_musicVars PROVE MusicInv'
    OBVIOUS
  <1>1. \/ (StationMoves \/ LinkChanges) \/ (GateChanges \/ Gesture \/ LeaveScene) \/ (OutputComes \/ LoadSettles)
        \/ (EndingAges \/ VoiceFades \/ EndingIsOver \/ Interrupted) \/ UNCHANGED musicVars
    BY DEF MusicNext
  <1>2. UNCHANGED musicVars => MusicInv'
    BY DEF musicVars, MusicInv
  <1> QED
    BY ONLY MusicInv, <1>1, <1>2, ScenesKeep, GatesKeep, LoadsKeep, EndsKeep

\* No track is wanted or loads
LEMMA MusicBegins == MusicInit => MusicInv
  <1> SUFFICES ASSUME MusicInit PROVE MusicInv
    OBVIOUS
  <1>1. gates \in MusicGates /\ ~gates.disposed /\ station \in [scene : Scenes, online : BOOLEAN] /\ context = "none"
    BY DEF MusicInit, MusicGates
  <1> DEFINE desired == SceneOf(station.scene)
             status == IF gates.enabled /\ gates.powered THEN "off" ELSE IF gates.enabled THEN "paused" ELSE "off"
  <1>2. desired \in Loops \union {NoTrack} /\ status \in {"off", "paused"}
    BY <1>1 DEF SceneOf, Scenes, Loops, NoTrack
  <1>3. music = [desired |-> desired, active |-> NoTrack, fading |-> FALSE, loads |-> {}, pending |-> 0,
                 again |-> FALSE, kept |-> NoTrack, late |-> FALSE, cached |-> NoTrack, out |-> FALSE, ending |-> "none",
                 status |-> status]
    BY DEF MusicInit
  <1> HIDE DEF desired, status
  <1>4. 0 \in 0 .. MaxLoads /\ desired \in SomeTracks /\ NoTrack \in SomeTracks
    BY <1>2, MusicAssumption DEF SomeTracks, Tracks
  <1>5. music \in Players
    BY <1>2, <1>3, <1>4 DEF Players
  <1>6. LoadsAreSo(music) /\ PendingIsSo(music) /\ PlayIsSo(music)
    BY <1>2, <1>3 DEF LoadsAreSo, PendingIsSo, PlayIsSo, Endings, Loops, NoTrack
  <1>7. EndingIsDue(music, gates.disposed) /\ QuietBehind(gates, music) /\ PlaysWanted(music, context)
    BY <1>2, <1>3 DEF EndingIsDue, QuietBehind, PlaysWanted, Endings, Loops, NoTrack
  <1> QED
    BY <1>1, <1>5, <1>6, <1>7 DEF MusicInv, GoodPlayer

\* What the invariant says of the runs' properties
LEMMA MusicKept == MusicInv => MusicTypeOK /\ SilentWhileClosed /\ PlaysWhatIsWanted /\ EndingOnce /\ PlaceIsItsOwn
  <1> SUFFICES ASSUME MusicInv PROVE MusicTypeOK /\ SilentWhileClosed /\ PlaysWhatIsWanted /\ EndingOnce /\ PlaceIsItsOwn
    OBVIOUS
  <1>1. music \in Players /\ PendingIsSo(music) /\ PlayIsSo(music) /\ QuietBehind(gates, music) /\ PlaysWanted(music, context)
        /\ gates \in MusicGates
    BY DEF MusicInv, GoodPlayer
  <1>2. MusicTypeOK
    BY <1>1 DEF MusicTypeOK, Players, MusicGates, SomeTracks, PendingIsSo
  <1>3. EndingOnce
    BY <1>1 DEF EndingOnce, Players
  <1> QED
    BY <1>1, <1>2, <1>3 DEF SilentWhileClosed, PlaysWhatIsWanted, PlaceIsItsOwn, QuietBehind, PlaysWanted, Loading, PlayIsSo

-----------------------------------------------------------------------------
\* Flags, cards, lamps and pulses: Panel

Views == [powered : BOOLEAN, linked : BOOLEAN, reduced : BOOLEAN, inView : BOOLEAN, score : BOOLEAN,
          person : People \union {NoOne}, room : Rooms \union {NoRoom}, team : PanelTeams,
          event : 0 .. MaxScores, serial : 0 .. MaxScores, fresh : BOOLEAN]
Flags == [at : {"down", "between", "up"}, target : BOOLEAN, motion : {"none", "held", "travel", "recoil"},
          impact : BOOLEAN, owed : BOOLEAN]
RosterCards == [current : People \union {NoOne}, desired : People \union {NoOne}, at : {"in", "between", "out"}]
Pulses == [running : BOOLEAN, seen : BOOLEAN, previous : Signal, shows : Signal]
Noted == [stray : BOOLEAN, pulses : [1 .. MaxScores -> Nat]]

\* A blade at rest stands at its end; one that was sent on owes a click until it strikes
FlagIsSo(f) ==
    /\ f \in Flags /\ ~f.impact
    /\ f.motion = "none" => f.at = (IF f.target THEN "up" ELSE "down")
    /\ f.motion \in {"held", "travel"} => f.owed
CardIsSo(c) == c \in RosterCards /\ (c.current = NoOne => c.at = "out")
LampsAreSo(l) == l \in [testing : BOOLEAN, asked : BOOLEAN, lit : BOOLEAN] /\ (l.testing \/ l.lit => l.asked)
\* What was observed last is what the page is, and what runs is of its room and team
PulseIsSo(p, v) ==
    /\ p \in Pulses
    /\ p.previous.room = v.room /\ p.previous.team = v.team /\ p.previous.event = v.event
    /\ p.running => p.shows.room = v.room /\ p.shows.team = v.team
\* Results to come have not pulsed, and none has twice
PulsesAreNoted(n, v) ==
    /\ n \in Noted
    /\ \A e \in 1 .. MaxScores : n.pulses[e] <= 1 /\ (e > v.serial => n.pulses[e] = 0)

PanelInv ==
    /\ watched \in Indicators /\ view \in Views /\ view.event <= view.serial /\ wheels \in 0 .. MaxTurns
    /\ FlagIsSo(flag) /\ CardIsSo(card) /\ LampsAreSo(lamps) /\ pulse \in Pulses
    /\ watched = "pulse" => PulseIsSo(pulse, view)
    /\ watched # "pulse" => ~pulse.running
    /\ PulsesAreNoted(noted, view) /\ ~noted.stray

\* A name changes while the card is out of sight
Unseen == card'.current # card.current => view.reduced \/ card.at = "out" \/ card'.at = "out"

\* A flag restored at once, or sent to the other face, owes a click for a stroke only
LEMMA AtOnceIs ==
    ASSUME NEW f \in Flags
    PROVE  FlagIsSo(AtOnce(f)) /\ AtOnce(f).target = f.target
  <1> DEFINE end == IF f.target THEN "up" ELSE "down"
             g == AtOnce(f)
  <1>1. g = [[[[f EXCEPT !.at = end] EXCEPT !.motion = "none"] EXCEPT !.impact = FALSE] EXCEPT !.owed = FALSE]
    BY DEF AtOnce
  <1>2. end \in {"up", "down"}
    OBVIOUS
  <1> HIDE DEF end, g
  <1>3. g \in Flags /\ g.at = end /\ g.motion = "none" /\ g.impact = FALSE /\ g.target = f.target
    BY <1>1, <1>2 DEF Flags
  <1>4. FlagIsSo(g) /\ g.target = f.target
    BY <1>3 DEF FlagIsSo, end
  <1> QED
    BY <1>4 DEF g

\* A flag set to what the score says goes there by a blade of its own
LEMMA SyncFlagIs ==
    ASSUME NEW f, FlagIsSo(f), NEW active \in BOOLEAN, NEW powered
    PROVE  FlagIsSo(SyncFlag(f, active, powered))
  <1> DEFINE g == SyncFlag(f, active, powered)
             goes == IF f.motion \in {"travel", "recoil"} THEN "travel" ELSE "held"
  <1>0. f \in Flags
    BY DEF FlagIsSo
  <1>1. CASE ~powered \/ active = f.target
    BY <1>1 DEF SyncFlag
  <1>2. CASE /\ ~(~powered \/ active = f.target)
             /\ f.at = (IF active THEN "up" ELSE "down") /\ f.motion \in {"none", "held"}
    <2>1. g = [f EXCEPT !.target = active, !.impact = FALSE, !.motion = "none", !.owed = FALSE]
      BY <1>2 DEF SyncFlag
    <2>2. g = [[[[f EXCEPT !.target = active] EXCEPT !.impact = FALSE] EXCEPT !.motion = "none"] EXCEPT !.owed = FALSE]
      BY <2>1
    <2> HIDE DEF g
    <2>3. g \in Flags /\ g.at = f.at /\ g.motion = "none" /\ g.impact = FALSE /\ g.target = active
      BY <1>0, <2>2 DEF Flags
    <2>4. FlagIsSo(g)
      BY <1>2, <2>3 DEF FlagIsSo
    <2> QED
      BY <2>4 DEF g
  <1>3. CASE /\ ~(~powered \/ active = f.target)
             /\ ~(f.at = (IF active THEN "up" ELSE "down") /\ f.motion \in {"none", "held"})
    <2>1. g = [[[[f EXCEPT !.target = active] EXCEPT !.impact = FALSE] EXCEPT !.owed = TRUE] EXCEPT !.motion = goes]
      BY <1>3 DEF SyncFlag
    <2>2. goes \in {"travel", "held"}
      OBVIOUS
    <2> HIDE DEF g, goes
    <2>3. g \in Flags /\ g.motion = goes /\ g.impact = FALSE /\ g.owed = TRUE
      BY <1>0, <2>1, <2>2 DEF Flags
    <2>4. FlagIsSo(g)
      BY <2>2, <2>3 DEF FlagIsSo
    <2> QED
      BY <2>4 DEF g
  <1> QED
    BY <1>1, <1>2, <1>3

\* A frame strikes only for a stroke that owes its click
LEMMA BladesAre ==
    ASSUME NEW f, FlagIsSo(f), NEW calm \in BOOLEAN, NEW g \in Blades(f, calm)
    PROVE  /\ g.impact => g.owed
           /\ FlagIsSo([g EXCEPT !.impact = FALSE, !.owed = @ /\ ~g.impact])
  <1> DEFINE strikes == f.motion \in {"held", "travel"}
             place == IF f.target THEN "up" ELSE "down"
             struck == f.impact \/ strikes
             end == [[[f EXCEPT !.motion = "none"] EXCEPT !.at = place] EXCEPT !.impact = struck]
             on == [[f EXCEPT !.motion = "travel"] EXCEPT !.at = "between"]
             back == [[[f EXCEPT !.motion = "recoil"] EXCEPT !.at = "between"] EXCEPT !.impact = TRUE]
             owes == g.owed /\ ~g.impact
             after == [[g EXCEPT !.impact = FALSE] EXCEPT !.owed = owes]
  <1>0. f \in Flags /\ ~f.impact /\ (strikes => f.owed)
    BY DEF FlagIsSo
  <1>1. \/ calm /\ g = AtOnce(f)
        \/ ~calm /\ f.motion = "none" /\ g = f
        \/ ~calm /\ f.motion = "recoil" /\ g \in {f, end}
        \/ ~calm /\ f.motion \in {"held", "travel"} /\ g \in {f, on, back, end}
    <2>1. f.motion \in {"none", "held", "travel", "recoil"}
      BY <1>0 DEF Flags
    <2> QED
      BY <2>1 DEF Blades
  <1>2. place \in {"up", "down"} /\ struck \in BOOLEAN /\ (struck <=> strikes)
    BY <1>0
  <1> HIDE DEF place, struck
  <1>3. /\ end \in Flags /\ end.motion = "none" /\ end.at = place /\ end.impact = struck /\ end.owed = f.owed /\ end.target = f.target
        /\ on \in Flags /\ on.motion = "travel" /\ ~on.impact /\ on.owed = f.owed
        /\ back \in Flags /\ back.motion = "recoil" /\ back.impact /\ back.owed = f.owed
    BY <1>0, <1>2 DEF Flags
  <1> HIDE DEF end, on, back
  <1>4. /\ g \in Flags /\ (g.impact => g.owed) /\ (g.motion = "none" => g.at = (IF g.target THEN "up" ELSE "down"))
        /\ (g.motion \in {"held", "travel"} => g.owed /\ ~g.impact)
    <2>1. CASE g = AtOnce(f)
      <3>1. FlagIsSo(g)
        BY <1>0, <2>1, AtOnceIs
      <3> QED
        BY <3>1 DEF FlagIsSo
    <2>2. CASE g = f
      BY <1>0, <2>2 DEF FlagIsSo
    <2>3. CASE g = end /\ f.motion \in {"recoil", "held", "travel"}
      BY <1>0, <1>2, <1>3, <2>3 DEF place
    <2>4. CASE g \in {on, back} /\ f.motion \in {"held", "travel"}
      BY <1>0, <1>3, <2>4
    <2> QED
      BY <1>1, <2>1, <2>2, <2>3, <2>4
  <1>5. owes \in BOOLEAN /\ (owes <=> g.owed /\ ~g.impact)
    BY <1>4 DEF Flags
  <1>6. after = [g EXCEPT !.impact = FALSE, !.owed = @ /\ ~g.impact]
    BY <1>4 DEF Flags
  <1> HIDE DEF owes
  <1>7. after = [[g EXCEPT !.impact = FALSE] EXCEPT !.owed = owes]
    OBVIOUS
  <1> HIDE DEF after
  <1>8. after \in Flags /\ ~after.impact /\ after.owed = owes /\ after.motion = g.motion /\ after.at = g.at /\ after.target = g.target
    BY <1>4, <1>5, <1>7 DEF Flags
  <1>9. FlagIsSo(after)
    BY <1>4, <1>5, <1>8 DEF FlagIsSo
  <1> QED
    BY <1>4, <1>6, <1>9

\* Where a frame brings a card, a changed name was out of sight
LEMMA CardsAre ==
    ASSUME NEW c, CardIsSo(c), NEW calm \in BOOLEAN, NEW g \in Cards(c, calm)
    PROVE  CardIsSo(g) /\ (g.current # c.current => calm \/ c.at = "out" \/ g.at = "out")
  <1>0. c \in RosterCards
    BY DEF CardIsSo
  <1>1. CASE calm
    <2> DEFINE place == IF c.desired = NoOne THEN "out" ELSE "in"
    <2>1. g = [[c EXCEPT !.current = c.desired] EXCEPT !.at = place]
      BY <1>1 DEF Cards
    <2>2. g \in RosterCards /\ g.current = c.desired /\ g.at = place
      BY <1>0, <2>1 DEF RosterCards
    <2> QED
      BY <1>1, <2>2 DEF CardIsSo
  <1>2. CASE ~calm
    <2> DEFINE held == IF c.current = NoOne THEN [c EXCEPT !.current = c.desired] ELSE c
               goal == IF held.current # NoOne /\ held.current = held.desired THEN "in" ELSE "out"
               moved == IF held.at = goal THEN {held}
                        ELSE {[held EXCEPT !.at = "between"], [held EXCEPT !.at = goal]}
    <2>1. PICK m \in moved : g = IF m.at = "out" THEN [m EXCEPT !.current = m.desired] ELSE m
      BY <1>2 DEF Cards
    <2>2. /\ held \in RosterCards /\ held.at = c.at /\ held.desired = c.desired
          /\ (c.current = NoOne => held.current = c.desired /\ c.at = "out") /\ (c.current # NoOne => held.current = c.current)
      BY <1>0 DEF CardIsSo, RosterCards
    <2> HIDE DEF held
    <2>3. /\ m \in RosterCards /\ m.current = held.current /\ m.desired = held.desired
          /\ (held.current = NoOne => m.at = "out")
      <3>1. CASE held.current = NoOne
        <4>1. c.current = NoOne /\ goal = "out" /\ held.at = goal
          BY <2>2, <3>1
        <4> QED
          BY <2>1, <2>2, <4>1
      <3>2. CASE held.current # NoOne
        <4>1. goal \in {"in", "out"}
          OBVIOUS
        <4> QED
          BY <2>1, <2>2, <3>2, <4>1 DEF RosterCards
      <3> QED
        BY <3>1, <3>2
    <2>4. CASE m.at = "out"
      <3>1. g = [m EXCEPT !.current = m.desired]
        BY <2>1, <2>4
      <3>2. g \in RosterCards /\ g.at = "out"
        BY <2>3, <2>4, <3>1 DEF RosterCards
      <3> QED
        BY <3>2 DEF CardIsSo
    <2>5. CASE m.at # "out"
      <3>1. g = m
        BY <2>1, <2>5
      <3> QED
        BY <2>2, <2>3, <2>5, <3>1 DEF CardIsSo
    <2> QED
      BY <2>4, <2>5
  <1> QED
    BY <1>1, <1>2

-----------------------------------------------------------------------------

\* What the page may become in one change: its event is kept, is gone, or is a result of its own
Follows(next) ==
    /\ next \in Views
    /\ \/ next.serial = view.serial /\ next.event \in {0, view.event}
       \/ next.serial = view.serial + 1 /\ next.event = next.serial

\* A pulse that begins shows a result of its own
LEMMA ObserveIs ==
    ASSUME PanelInv, watched = "pulse", NEW next, Follows(next), NEW allowed \in BOOLEAN,
           NEW o, o = Observe(pulse, SignalOf(next), next.fresh, allowed)
    PROVE  /\ PulseIsSo(o, next)
           /\ o.running /\ (~pulse.running \/ o.shows.event # pulse.shows.event) =>
                o.shows.event = view.serial + 1 /\ next.serial = view.serial + 1
  <1> DEFINE s == SignalOf(next)
             seen_ == [pulse EXCEPT !.seen = TRUE, !.previous = s]
             dark == [seen_ EXCEPT !.running = FALSE]
             lit == [seen_ EXCEPT !.running = TRUE, !.shows = s]
  <1>0. PulseIsSo(pulse, view) /\ pulse \in Pulses /\ next \in Views /\ view \in Views
    BY DEF PanelInv, Follows
  <1>1. s \in Signal /\ s.room = next.room /\ s.team = next.team /\ s.event = next.event
    <2>1. PanelOnline(next) \in BOOLEAN
      BY <1>0 DEF PanelOnline, Views
    <2> QED
      BY <1>0, <2>1 DEF SignalOf, Signal, Views
  <1> HIDE DEF s
  <1>2. seen_ = [[pulse EXCEPT !.seen = TRUE] EXCEPT !.previous = s]
    OBVIOUS
  <1>3. seen_ \in Pulses /\ seen_.running = pulse.running /\ seen_.previous = s /\ seen_.shows = pulse.shows
    BY <1>0, <1>1, <1>2 DEF Pulses
  <1> HIDE DEF seen_
  <1>4. dark \in Pulses /\ dark.running = FALSE /\ dark.previous = s /\ dark.shows = pulse.shows
    BY <1>1, <1>3 DEF Pulses
  <1>5. lit = [[seen_ EXCEPT !.running = TRUE] EXCEPT !.shows = s]
    OBVIOUS
  <1>6. lit \in Pulses /\ lit.running /\ lit.previous = s /\ lit.shows = s
    BY <1>1, <1>3, <1>5 DEF Pulses
  <1> HIDE DEF dark, lit
  <1>7. \/ o = dark
        \/ /\ pulse.previous.room = s.room /\ pulse.previous.team = s.team
           /\ \/ o = seen_
              \/ o = lit /\ s.event # pulse.previous.event /\ s.event # 0
    BY DEF Observe, s, seen_, dark, lit
  <1>8. CASE o = dark
    BY <1>1, <1>4, <1>8 DEF PulseIsSo
  <1>9. CASE o = seen_ /\ pulse.previous.room = s.room /\ pulse.previous.team = s.team
    BY <1>0, <1>1, <1>3, <1>9 DEF PulseIsSo
  <1>10. CASE o = lit /\ s.event # pulse.previous.event /\ s.event # 0
    <2>1. next.event # view.event /\ next.event # 0
      BY <1>0, <1>1, <1>10 DEF PulseIsSo
    <2>2. next.serial = view.serial + 1 /\ next.event = next.serial
      BY <2>1 DEF Follows
    <2> QED
      BY <1>1, <1>6, <1>10, <2>2 DEF PulseIsSo
  <1> QED
    BY <1>7, <1>8, <1>9, <1>10

\* The lamps under the mains
LEMMA LampsSynced ==
    ASSUME NEW l, LampsAreSo(l), NEW powered \in BOOLEAN
    PROVE  LampsAreSo(SyncLamps(l, powered)) /\ LampsAreSo(SyncLamps(PowerLamps(l, powered), powered))
  <1> DEFINE g == SyncLamps(l, powered)
             p == PowerLamps(l, powered)
             h == SyncLamps(p, powered)
  <1>0. l \in [testing : BOOLEAN, asked : BOOLEAN, lit : BOOLEAN] /\ (l.testing \/ l.lit => l.asked)
    BY DEF LampsAreSo
  <1>1. g = [testing |-> l.testing, asked |-> l.asked, lit |-> powered /\ l.testing]
    BY <1>0 DEF SyncLamps
  <1> DEFINE testing == powered /\ l.testing
             asked == powered /\ l.asked
  <1>2. p = [[l EXCEPT !.testing = testing] EXCEPT !.asked = asked]
    BY <1>0 DEF PowerLamps
  <1>3. testing \in BOOLEAN /\ asked \in BOOLEAN /\ (testing => asked /\ powered)
    BY <1>0
  <1> HIDE DEF testing, asked, p
  <1>4. p \in [testing : BOOLEAN, asked : BOOLEAN, lit : BOOLEAN] /\ p.testing = testing /\ p.asked = asked
    BY <1>0, <1>2, <1>3
  <1>5. h = [testing |-> testing, asked |-> asked, lit |-> powered /\ testing]
    BY <1>4 DEF SyncLamps
  <1> HIDE DEF g, h
  <1>6. LampsAreSo(g)
    BY <1>0, <1>1 DEF LampsAreSo
  <1>7. LampsAreSo(h)
    BY <1>3, <1>5 DEF LampsAreSo
  <1> QED
    BY <1>6, <1>7 DEF g, h, p

\* The panel is set to what the page shows now
LEMMA TurnKeeps ==
    ASSUME PanelInv, NEW next, Follows(next), Turn(next)
    PROVE  PanelInv' /\ Unseen
  <1> DEFINE powered == next.powered
             resuming == PanelOnline(next) /\ ~PanelOnline(view)
             turned == SyncFlag(flag, next.score, powered)
             allowed == Watching(next)
             observed == Observe(pulse, SignalOf(next), next.fresh, allowed)
             began == observed.running /\ (~pulse.running \/ observed.shows.event # pulse.shows.event)
             e == observed.shows.event
  <1>0. /\ next \in Views /\ view \in Views /\ view.event <= view.serial /\ watched \in Indicators /\ wheels \in 0 .. MaxTurns
        /\ FlagIsSo(flag) /\ CardIsSo(card) /\ LampsAreSo(lamps) /\ pulse \in Pulses
        /\ PulsesAreNoted(noted, view) /\ ~noted.stray
    BY DEF PanelInv, Follows
  <1>1. /\ wheels < MaxTurns /\ wheels' = wheels + 1 /\ view' = next /\ watched' = watched
        /\ flag' = IF watched # "flag" THEN flag ELSE IF resuming THEN AtOnce(turned) ELSE turned
        /\ card' = IF watched # "card" THEN card ELSE SyncCard(card, next.person)
        /\ pulse' = IF watched # "pulse" THEN pulse ELSE observed
        /\ noted' = IF watched = "pulse" /\ began
                    THEN [noted EXCEPT !.pulses[e] = IF @ < 2 THEN @ + 1 ELSE @] ELSE noted
        /\ lamps' = IF watched # "lamps" THEN lamps ELSE SyncLamps(PowerLamps(lamps, powered), powered)
    BY DEF Turn, UpdateEngine
  <1>2. allowed \in BOOLEAN /\ powered \in BOOLEAN /\ next.score \in BOOLEAN /\ next.person \in People \union {NoOne}
    BY <1>0 DEF Watching, Views
  <1>3. FlagIsSo(flag')
    <2>1. FlagIsSo(turned)
      BY <1>0, <1>2, SyncFlagIs
    <2>2. FlagIsSo(AtOnce(turned))
      BY <2>1, AtOnceIs DEF FlagIsSo
    <2> QED
      BY <1>0, <1>1, <2>1, <2>2
  <1>4. CardIsSo(card') /\ Unseen
    <2>1. card' = card \/ card' = [card EXCEPT !.desired = next.person]
      BY <1>1 DEF SyncCard
    <2> QED
      BY <1>0, <1>2, <2>1 DEF CardIsSo, RosterCards, Unseen
  <1>5. LampsAreSo(lamps')
    BY <1>0, <1>1, <1>2, LampsSynced
  <1>6. view'.event <= view'.serial /\ view'.serial >= view.serial
    BY <1>0, <1>1 DEF Follows, Views
  <1>7. wheels' \in 0 .. MaxTurns
    BY <1>0, <1>1, PanelAssumption
  <1>8. CASE watched # "pulse"
    <2>1. pulse' = pulse /\ noted' = noted /\ ~pulse.running
      BY <1>1, <1>8 DEF PanelInv
    <2>2. PulsesAreNoted(noted', view')
      BY <1>0, <1>1, <1>6, <2>1 DEF PulsesAreNoted, Views
    <2> QED
      BY <1>0, <1>1, <1>3, <1>4, <1>5, <1>6, <1>7, <1>8, <2>1, <2>2 DEF PanelInv
  <1>9. CASE watched = "pulse"
    <2>0. observed = Observe(pulse, SignalOf(next), next.fresh, allowed)
      OBVIOUS
    <2>1. pulse' = observed
      BY <1>1, <1>9
    <2> HIDE DEF allowed, observed
    <2>2. PulseIsSo(observed, next) /\ (began => e = view.serial + 1 /\ next.serial = view.serial + 1)
      BY <1>2, <1>9, <2>0, ObserveIs
    <2>3. PulsesAreNoted(noted', view') /\ ~noted'.stray
      <3>1. CASE ~began
        <4>1. noted' = noted
          BY <1>1, <3>1
        <4>2. view' = next /\ next.serial >= view.serial /\ next.serial \in Nat /\ view.serial \in Nat
          BY <1>0, <1>1, <1>6 DEF Views
        <4>3. PulsesAreNoted(noted, next)
          BY <1>0, <4>2 DEF PulsesAreNoted
        <4> QED
          BY <1>0, <4>1, <4>2, <4>3
      <3>2. CASE began
        <4> DEFINE count == noted.pulses
                   more == [count EXCEPT ![e] = 1]
        <4>1. count \in [1 .. MaxScores -> Nat] /\ \A i \in 1 .. MaxScores : count[i] <= 1 /\ (i > view.serial => count[i] = 0)
          BY <1>0 DEF PulsesAreNoted, Noted
        <4>2. e \in 1 .. MaxScores /\ count[e] = 0 /\ view.serial \in Nat
          BY <1>0, <2>2, <3>2, <4>1 DEF Views
        <4>3. noted' = [noted EXCEPT !.pulses = more]
          <5>1. noted' = [noted EXCEPT !.pulses[e] = IF @ < 2 THEN @ + 1 ELSE @]
            BY <1>1, <1>9, <3>2
          <5> HIDE DEF e
          <5> QED
            BY <1>0, <4>1, <4>2, <5>1 DEF PulsesAreNoted, Noted
        <4> HIDE DEF count, e
        <4>40. more = [count EXCEPT ![e] = 1]
          OBVIOUS
        <4> HIDE DEF more
        <4>4. more \in [1 .. MaxScores -> Nat] /\ more[e] = 1 /\ \A i \in 1 .. MaxScores : i # e => more[i] = count[i]
          BY <4>1, <4>2, <4>40
        <4>5. noted' \in Noted /\ noted'.pulses = more /\ noted'.stray = noted.stray
          BY <1>0, <4>3, <4>4 DEF PulsesAreNoted, Noted
        <4>60. e = view.serial + 1 /\ next.serial = view.serial + 1
          BY <2>2, <3>2
        <4>6. \A i \in 1 .. MaxScores : more[i] <= 1 /\ (i > next.serial => more[i] = 0)
          BY <4>1, <4>2, <4>4, <4>60
        <4>7. view' = next
          BY <1>1
        <4>8. PulsesAreNoted(noted', view')
          BY <4>5, <4>6, <4>7 DEF PulsesAreNoted
        <4> QED
          BY <1>0, <4>5, <4>8
      <3> QED
        BY <3>1, <3>2
    <2>4. PulseIsSo(pulse', view') /\ pulse' \in Pulses
      BY <1>1, <2>1, <2>2 DEF PulseIsSo
    <2> QED
      BY <1>0, <1>1, <1>3, <1>4, <1>5, <1>6, <1>7, <1>9, <2>3, <2>4 DEF PanelInv
  <1> QED
    BY <1>8, <1>9

\* Every change of the page is one update
LEMMA TurnsKeep ==
    PanelInv /\ (Switch \/ RoundResult \/ PanelLinkLost \/ FullSync \/ EnterRoom \/ SeatChange) => PanelInv' /\ Unseen
  <1> SUFFICES ASSUME PanelInv, Switch \/ RoundResult \/ PanelLinkLost \/ FullSync \/ EnterRoom \/ SeatChange
               PROVE  PanelInv' /\ Unseen
    OBVIOUS
  <1>0. view \in Views /\ 0 \in 0 .. MaxScores /\ view.event \in 0 .. MaxScores /\ view.serial \in 0 .. MaxScores
    BY PanelAssumption DEF PanelInv, Views
  <1> SUFFICES \E next : Follows(next) /\ Turn(next)
    BY TurnKeeps
  <1>1. CASE Switch
    <2>1. PICK powered \in BOOLEAN, linked \in BOOLEAN, calm \in BOOLEAN, inView \in BOOLEAN :
            Turn([view EXCEPT !.powered = powered, !.linked = linked, !.reduced = calm, !.inView = inView])
      BY <1>1 DEF Switch
    <2> DEFINE next == [[[[view EXCEPT !.powered = powered] EXCEPT !.linked = linked] EXCEPT !.reduced = calm] EXCEPT !.inView = inView]
    <2>2. Turn(next)
      BY <2>1
    <2>3. next \in Views /\ next.serial = view.serial /\ next.event = view.event
      BY <1>0 DEF Views
    <2> HIDE DEF next
    <2> QED
      BY <2>2, <2>3 DEF Follows
  <1>2. CASE RoundResult
    <2> DEFINE live == PanelOnline(view) /\ view.room # NoRoom
    <2>1. PICK score \in BOOLEAN :
            /\ live => view.serial < MaxScores
            /\ Turn(IF live THEN [view EXCEPT !.score = score, !.event = view.serial + 1, !.serial = @ + 1, !.fresh = TRUE]
                    ELSE [view EXCEPT !.score = score])
      BY <1>2 DEF RoundResult
    <2>2. CASE live
      <3> DEFINE n == view.serial + 1
                 next == [[[[view EXCEPT !.score = score] EXCEPT !.event = n] EXCEPT !.serial = n] EXCEPT !.fresh = TRUE]
      <3>1. next = [view EXCEPT !.score = score, !.event = view.serial + 1, !.serial = @ + 1, !.fresh = TRUE]
        BY <1>0 DEF Views
      <3>2. Turn(next) /\ n \in 0 .. MaxScores
        BY <1>0, <2>1, <2>2, <3>1, PanelAssumption
      <3> HIDE DEF n
      <3>3. next \in Views /\ next.serial = n /\ next.event = n
        BY <1>0, <3>2 DEF Views
      <3> HIDE DEF next
      <3> QED
        BY <3>2, <3>3 DEF Follows, n
    <2>3. CASE ~live
      <3> DEFINE next == [view EXCEPT !.score = score]
      <3>1. Turn(next)
        BY <2>1, <2>3
      <3>2. next \in Views /\ next.serial = view.serial /\ next.event = view.event
        BY <1>0 DEF Views
      <3> HIDE DEF next
      <3> QED
        BY <3>1, <3>2 DEF Follows
    <2> QED
      BY <2>2, <2>3
  <1>3. CASE PanelLinkLost
    <2> DEFINE next == [[view EXCEPT !.linked = FALSE] EXCEPT !.event = 0]
    <2>1. Turn(next)
      BY <1>3 DEF PanelLinkLost
    <2>2. next \in Views /\ next.serial = view.serial /\ next.event = 0
      BY <1>0 DEF Views
    <2> HIDE DEF next
    <2> QED
      BY <2>1, <2>2 DEF Follows
  <1>4. CASE FullSync
    <2>1. PICK score \in BOOLEAN, team \in PanelTeams : Turn([view EXCEPT !.score = score, !.team = team, !.event = 0])
      BY <1>4 DEF FullSync
    <2> DEFINE next == [[[view EXCEPT !.score = score] EXCEPT !.team = team] EXCEPT !.event = 0]
    <2>2. Turn(next)
      BY <2>1
    <2>3. next \in Views /\ next.serial = view.serial /\ next.event = 0
      BY <1>0 DEF Views
    <2> HIDE DEF next
    <2> QED
      BY <2>2, <2>3 DEF Follows
  <1>5. CASE EnterRoom
    <2>1. PICK entered \in Rooms \union {NoRoom}, team \in PanelTeams :
            Turn([view EXCEPT !.room = entered, !.team = team, !.event = IF entered = view.room THEN @ ELSE 0])
      BY <1>5 DEF EnterRoom
    <2> DEFINE event == IF entered = view.room THEN view.event ELSE 0
               next == [[[view EXCEPT !.room = entered] EXCEPT !.team = team] EXCEPT !.event = event]
    <2>2. next = [view EXCEPT !.room = entered, !.team = team, !.event = IF entered = view.room THEN @ ELSE 0]
      BY <1>0 DEF Views
    <2>3. Turn(next) /\ event \in {0, view.event} /\ event \in 0 .. MaxScores
      BY <1>0, <2>1, <2>2
    <2> HIDE DEF event
    <2>4. next \in Views /\ next.serial = view.serial /\ next.event = event
      BY <1>0, <2>3 DEF Views
    <2> HIDE DEF next
    <2> QED
      BY <2>3, <2>4 DEF Follows
  <1>6. CASE SeatChange
    <2>1. PICK person \in People \union {NoOne} : Turn([view EXCEPT !.person = person])
      BY <1>6 DEF SeatChange
    <2> DEFINE next == [view EXCEPT !.person = person]
    <2>2. next \in Views /\ next.serial = view.serial /\ next.event = view.event
      BY <1>0 DEF Views
    <2> QED
      BY <2>1, <2>2 DEF Follows
  <1> QED
    BY <1>1, <1>2, <1>3, <1>4, <1>5, <1>6

\* A pulse runs on or stops
LEMMA BeatIs ==
    ASSUME NEW p, NEW v, PulseIsSo(p, v), NEW allowed, NEW g \in Beats(p, allowed)
    PROVE  PulseIsSo(g, v)
  <1>1. g = p \/ g = [p EXCEPT !.running = FALSE]
    BY DEF Beats
  <1> QED
    BY <1>1 DEF PulseIsSo, Pulses

\* A frame of the blades and cards
LEMMA PanelTickKeeps == PanelInv /\ PanelTick => PanelInv' /\ Unseen
  <1> SUFFICES ASSUME PanelInv, PanelTick PROVE PanelInv' /\ Unseen
    OBVIOUS
  <1>0. /\ view \in Views /\ view.reduced \in BOOLEAN /\ view.powered \in BOOLEAN
        /\ FlagIsSo(flag) /\ CardIsSo(card) /\ LampsAreSo(lamps) /\ PulsesAreNoted(noted, view) /\ ~noted.stray
    BY DEF PanelInv, Views
  <1>1. UNCHANGED <<watched, view, wheels>>
    BY DEF PanelTick
  <1>2. CASE watched = "flag"
    <2>1. PICK f \in Blades(flag, view.reduced) :
             /\ flag' = [f EXCEPT !.impact = FALSE, !.owed = @ /\ ~f.impact]
             /\ noted' = [noted EXCEPT !.stray = @ \/ (f.impact /\ ~f.owed)]
             /\ UNCHANGED <<card, pulse, lamps>>
      BY <1>2 DEF PanelTick
    <2>2. FlagIsSo(flag') /\ (f.impact => f.owed)
      BY <1>0, <2>1, BladesAre
    <2>3. noted \in Noted
      BY <1>0 DEF PulsesAreNoted
    <2>4. noted' = [noted EXCEPT !.stray = FALSE]
      BY <1>0, <2>1, <2>2, <2>3 DEF Noted
    <2>5. noted' = noted
      BY <1>0, <2>3, <2>4 DEF Noted
    <2> QED
      BY <1>0, <1>1, <1>2, <2>1, <2>2, <2>5 DEF PanelInv, Unseen
  <1>3. CASE watched = "card"
    <2>1. card' \in Cards(card, view.reduced) /\ UNCHANGED <<flag, pulse, lamps, noted>>
      BY <1>3 DEF PanelTick
    <2>2. CardIsSo(card') /\ Unseen
      BY <1>0, <2>1, CardsAre DEF Unseen
    <2> QED
      BY <1>0, <1>1, <1>3, <2>1, <2>2 DEF PanelInv
  <1>4. CASE watched = "pulse"
    <2>1. pulse' \in Beats(pulse, PanelOnline(view) /\ ~view.reduced) /\ UNCHANGED <<flag, card, lamps, noted>>
      BY <1>4 DEF PanelTick
    <2>2. PulseIsSo(pulse, view)
      BY <1>4 DEF PanelInv
    <2>3. PulseIsSo(pulse', view)
      BY <2>1, <2>2, BeatIs
    <2> QED
      BY <1>0, <1>1, <1>4, <2>1, <2>3 DEF PanelInv, Unseen, PulseIsSo
  <1>5. CASE watched = "lamps"
    <2>1. lamps' = SyncLamps(lamps, view.powered) /\ UNCHANGED <<flag, card, pulse, noted>>
      BY <1>5 DEF PanelTick
    <2>2. LampsAreSo(lamps')
      BY <1>0, <2>1, LampsSynced
    <2> QED
      BY <1>0, <1>1, <1>5, <2>1, <2>2 DEF PanelInv, Unseen
  <1> QED
    BY <1>2, <1>3, <1>4, <1>5 DEF PanelInv, Indicators

\* The timers of the signals and of the lamp test
LEMMA TimersKeep == PanelInv /\ (EventAges \/ TestLamps \/ TestEnds) => PanelInv' /\ Unseen
  <1> SUFFICES ASSUME PanelInv, EventAges \/ TestLamps \/ TestEnds PROVE PanelInv' /\ Unseen
    OBVIOUS
  <1>0. view \in Views /\ LampsAreSo(lamps) /\ PulsesAreNoted(noted, view) /\ (watched = "pulse" => PulseIsSo(pulse, view))
    BY DEF PanelInv
  <1>1. CASE EventAges
    <2>1. view' = [view EXCEPT !.fresh = FALSE] /\ UNCHANGED <<watched, flag, card, pulse, lamps, noted, wheels>>
      BY <1>1 DEF EventAges
    <2>2. /\ view' \in Views /\ view'.room = view.room /\ view'.team = view.team /\ view'.event = view.event
          /\ view'.serial = view.serial
      BY <1>0, <2>1 DEF Views
    <2>3. (watched = "pulse" => PulseIsSo(pulse, view')) /\ PulsesAreNoted(noted, view')
      BY <1>0, <2>2 DEF PulseIsSo, PulsesAreNoted
    <2> QED
      BY <2>1, <2>2, <2>3 DEF PanelInv, Unseen
  <1>2. CASE TestLamps \/ TestEnds
    <2>1. UNCHANGED <<watched, view, flag, card, pulse, noted, wheels>>
      BY <1>2 DEF TestLamps, TestEnds
    <2>2. lamps' = [[lamps EXCEPT !.testing = TRUE] EXCEPT !.asked = TRUE] \/ lamps' = [lamps EXCEPT !.testing = FALSE]
      BY <1>2 DEF TestLamps, TestEnds
    <2>3. LampsAreSo(lamps')
      BY <1>0, <2>2 DEF LampsAreSo
    <2> QED
      BY <2>1, <2>3 DEF PanelInv, Unseen
  <1> QED
    BY <1>1, <1>2

\* Every step of the panel keeps the invariant, and changes a name out of sight
LEMMA PanelStep == PanelInv /\ [PanelNext]_panelVars => PanelInv' /\ Unseen
  <1> SUFFICES ASSUME PanelInv, [PanelNext]_panelVars PROVE PanelInv' /\ Unseen
    OBVIOUS
  <1>1. \/ (Switch \/ RoundResult \/ PanelLinkLost \/ FullSync \/ EnterRoom \/ SeatChange)
        \/ PanelTick \/ (EventAges \/ TestLamps \/ TestEnds) \/ UNCHANGED panelVars
    BY DEF PanelNext
  <1>2. UNCHANGED panelVars => PanelInv' /\ Unseen
    BY DEF panelVars, PanelInv, Unseen
  <1> QED
    BY ONLY PanelInv, <1>1, <1>2, TurnsKeep, PanelTickKeeps, TimersKeep

\* The panel shows what the page does
LEMMA PanelBegins == PanelInit => PanelInv
  <1> SUFFICES ASSUME PanelInit PROVE PanelInv
    OBVIOUS
  <1>1. 0 \in 0 .. MaxScores /\ 0 \in 0 .. MaxTurns /\ FALSE \in BOOLEAN /\ "A" \in PanelTeams
    BY PanelAssumption DEF PanelTeams
  <1>2. view \in Views /\ view.event = 0 /\ view.serial = 0
    BY <1>1 DEF PanelInit, Views
  <1>3. FlagIsSo(flag) /\ CardIsSo(card) /\ LampsAreSo(lamps)
    BY DEF PanelInit, FlagIsSo, CardIsSo, LampsAreSo, Flags, RosterCards
  <1>4. SignalOf(view) \in Signal
    <2>1. PanelOnline(view) \in BOOLEAN
      BY <1>2 DEF PanelOnline, Views
    <2> QED
      BY <1>2, <2>1 DEF SignalOf, Signal, Views
  <1>5. pulse \in Pulses /\ ~pulse.running /\ pulse.previous = SignalOf(view)
    BY <1>4 DEF PanelInit, Pulses
  <1>6. PulseIsSo(pulse, view)
    BY <1>5 DEF PulseIsSo, SignalOf
  <1>7. PulsesAreNoted(noted, view) /\ ~noted.stray
    <2> DEFINE none == [e \in 1 .. MaxScores |-> 0]
    <2>1. none \in [1 .. MaxScores -> Nat] /\ \A e \in 1 .. MaxScores : none[e] = 0
      OBVIOUS
    <2>2. noted = [stray |-> FALSE, pulses |-> none]
      BY DEF PanelInit
    <2> HIDE DEF none
    <2> QED
      BY <2>1, <2>2 DEF PulsesAreNoted, Noted
  <1> QED
    BY <1>1, <1>2, <1>3, <1>5, <1>6, <1>7 DEF PanelInit, PanelInv

\* What the invariant says of the runs' properties
LEMMA PanelKept == PanelInv => PanelTypeOK /\ OneClickPerStroke /\ PulseIsOurs /\ TestWasAskedFor
  <1> SUFFICES ASSUME PanelInv PROVE PanelTypeOK /\ OneClickPerStroke /\ PulseIsOurs /\ TestWasAskedFor
    OBVIOUS
  <1>1. PanelTypeOK
    BY DEF PanelTypeOK, PanelInv, FlagIsSo, CardIsSo, LampsAreSo, Flags, Pulses
  <1>2. PulseIsOurs
    BY DEF PulseIsOurs, PanelInv, PulseIsSo, PulsesAreNoted
  <1> QED
    BY <1>1, <1>2 DEF OneClickPerStroke, TestWasAskedFor, PanelInv, LampsAreSo

-----------------------------------------------------------------------------
\* The tour and the notices: Tour

Places == 1 .. 11
Tours == [steps : SUBSET Places, step : Places \union {NoStep}, seen : SUBSET Places, dismissed : BOOLEAN,
          replayed : Nat, replaying : BOOLEAN, home : BOOLEAN]
Situations == [phase : TourPhases, owner : BOOLEAN, voice : BOOLEAN, enabled : BOOLEAN, target : BOOLEAN, replays : Nat]
Lights == [on : BOOLEAN, step : Places \union {NoStep}, pending : BOOLEAN, key : Places \union {NoStep}]
Toasts == [message : Notices \union {NoNotice}, remaining : 1 .. Duration, held : BOOLEAN, read : Nat, early : BOOLEAN]

\* The step shown is one of the tour; those before it were seen, and those from it on only in a replay
TourIsSo(t) ==
    /\ t \in Tours
    /\ IF t.steps = {} THEN t.step = NoStep ELSE t.step \in t.steps
    /\ \A place \in t.steps : place < t.step => place \in t.seen
    /\ ~t.replaying => \A place \in t.steps : place >= t.step => place \notin t.seen
\* What was seen was shown, unless it was skipped, and so is the step that shows
ShownIsSo(t, r, showed) ==
    /\ t.dismissed \/ t.seen \subseteq showed
    /\ r.enabled /\ t.step # NoStep => t.step \in showed
\* The cutout is of a step while it is on or asks for a frame
LightIsSo(l) == l \in Lights /\ (l.on => l.step # NoStep) /\ (l.pending => l.step # NoStep)
ToastIsSo(n) == n \in Toasts /\ ~n.early /\ (n.message # NoNotice => n.read + n.remaining = Duration)

TourInv ==
    /\ room \in Situations /\ changes \in 0 .. MaxChanges
    /\ TourIsSo(tour) /\ ShownIsSo(tour, room, shown)
    /\ stored = [seen |-> tour.seen, dismissed |-> tour.dismissed]
    /\ LightIsSo(light)
    /\ ToastIsSo(toast)

\* The first of some steps
LEMMA FirstIs ==
    ASSUME NEW steps, steps \subseteq Places, steps # {}
    PROVE  Min(steps) \in steps /\ \A place \in steps : Min(steps) <= place
  <1> DEFINE Least(n) == n \in steps /\ \A place \in steps : n <= place
  <1>1. \E n \in Places : Least(n)
    <2>1. CASE 1 \in steps
      BY <2>1 DEF Places
    <2>2. CASE 1 \notin steps /\ 2 \in steps
      BY <2>2 DEF Places
    <2>3. CASE 1 \notin steps /\ 2 \notin steps /\ 3 \in steps
      BY <2>3 DEF Places
    <2>4. CASE 1 \notin steps /\ 2 \notin steps /\ 3 \notin steps /\ 4 \in steps
      BY <2>4 DEF Places
    <2>5. CASE steps \intersect (1 .. 4) = {} /\ 5 \in steps
      BY <2>5 DEF Places
    <2>6. CASE steps \intersect (1 .. 5) = {} /\ 6 \in steps
      BY <2>6 DEF Places
    <2>7. CASE steps \intersect (1 .. 6) = {} /\ 7 \in steps
      BY <2>7 DEF Places
    <2>8. CASE steps \intersect (1 .. 7) = {} /\ 8 \in steps
      BY <2>8 DEF Places
    <2>9. CASE steps \intersect (1 .. 8) = {} /\ 9 \in steps
      BY <2>9 DEF Places
    <2>10. CASE steps \intersect (1 .. 9) = {} /\ 10 \in steps
      BY <2>10 DEF Places
    <2>11. CASE steps \intersect (1 .. 10) = {}
      <3>0. PICK place \in steps : place \in 1 .. 11 /\ place \notin 1 .. 10
        BY <2>11 DEF Places
      <3>1. 11 \in steps
        BY <3>0
      <3> QED
        BY <2>11, <3>1 DEF Places
    <2> HIDE DEF Least
    <2>12. \A place \in 1 .. 11 : place = 1 \/ place = 2 \/ place = 3 \/ place = 4 \/ place = 5 \/ place = 6
                                \/ place = 7 \/ place = 8 \/ place = 9 \/ place = 10 \/ place = 11
      OBVIOUS
    <2> QED
      BY <2>1, <2>2, <2>3, <2>4, <2>5, <2>6, <2>7, <2>8, <2>9, <2>10, <2>11, <2>12 DEF Places
  <1> QED
    BY <1>1 DEF Min

\* What is offered has its places in the order of the tour
LEMMA OfferIs == ASSUME NEW r PROVE TourSteps(r) \subseteq Places
  BY DEF TourSteps, Order, Places

\* A tour that is over, or not begun
LEMMA NoTourIs ==
    ASSUME NEW t \in Tours, t.steps = {}, t.step = NoStep
    PROVE  TourIsSo(t)
  BY DEF TourIsSo

\* What is left of a tour whose controls are gone
LEMMA KeptIs ==
    ASSUME NEW t, TourIsSo(t), NEW available, t.steps # {}, NEW g, g = KeptSteps(t, available)
    PROVE  TourIsSo(g) /\ g.seen = t.seen /\ g.dismissed = t.dismissed
  <1> DEFINE kept == t.steps \intersect available
             rest == {place \in kept : place >= t.step}
             steps == IF rest = {} THEN {} ELSE kept
             next == First(rest)
  <1>0. t \in Tours /\ kept \subseteq Places /\ rest \subseteq Places
    BY DEF TourIsSo, Tours
  <1>1. g = [[t EXCEPT !.steps = steps] EXCEPT !.step = next]
    BY DEF KeptSteps
  <1>2. CASE rest = {}
    <2>1. steps = {} /\ next = NoStep
      BY <1>2 DEF First
    <2>2. g \in Tours /\ g.steps = {} /\ g.step = NoStep /\ g.seen = t.seen /\ g.dismissed = t.dismissed
      <3> HIDE DEF steps, next
      <3> QED
        BY <1>0, <1>1, <2>1 DEF Tours
    <2> QED
      BY <2>2, NoTourIs
  <1>3. CASE rest # {}
    <2>1. steps = kept /\ next = Min(rest)
      BY <1>3 DEF First
    <2>2. next \in rest /\ \A place \in rest : next <= place
      BY <1>0, <1>3, <2>1, FirstIs
    <2>3. next \in Places /\ next \in kept /\ next >= t.step
      BY <1>0, <2>2
    <2> HIDE DEF steps, next
    <2>4. /\ g \in Tours /\ g.steps = kept /\ g.step = next /\ g.seen = t.seen /\ g.dismissed = t.dismissed
          /\ g.replaying = t.replaying
      BY <1>0, <1>1, <2>1, <2>3 DEF Tours
    <2>5. t.step \in Places
      BY <1>0 DEF TourIsSo, Tours, Places
    <2>6. \A place \in kept : place < next => place < t.step
      BY <1>0, <2>2, <2>3, <2>5 DEF Places
    <2>7. \A place \in kept : place \in t.steps /\ (place >= next => place >= t.step)
      BY <1>0, <2>3, <2>5 DEF Places
    <2>8. TourIsSo(g)
      BY <2>3, <2>4, <2>6, <2>7 DEF TourIsSo
    <2> QED
      BY <2>4, <2>8
  <1> QED
    BY <1>2, <1>3

\* The effect revises a tour or begins another, and nothing counts as seen by it
LEMMA EffectIs ==
    ASSUME NEW t, TourIsSo(t), NEW r \in Situations, NEW g, g = Effect(t, r)
    PROVE  TourIsSo(g) /\ g.seen = t.seen /\ g.dismissed = t.dismissed
  <1> DEFINE available == TourSteps(r)
             asked == t.replayed # r.replays
             moved == t.home # (r.phase = "home")
             replays == r.replays
             home == r.phase = "home"
             noticed == [t EXCEPT !.replayed = replays, !.home = home]
             next == IF asked THEN available
                     ELSE IF ~t.dismissed THEN available \ t.seen ELSE {}
             first == First(next)
             begun == [[[noticed EXCEPT !.steps = next] EXCEPT !.step = first] EXCEPT !.replaying = asked]
  <1>0. t \in Tours /\ available \subseteq Places /\ replays \in Nat /\ home \in BOOLEAN /\ asked \in BOOLEAN
    BY OfferIs DEF TourIsSo, Situations
  <1>1. \/ g = t
        \/ t.steps # {} /\ g = KeptSteps(noticed, available)
        \/ g = begun
        \/ g = noticed
    BY DEF Effect
  <1>2. next \subseteq Places /\ (~asked => next \intersect t.seen = {})
    BY <1>0
  <1>3. noticed = [[t EXCEPT !.replayed = replays] EXCEPT !.home = home]
    OBVIOUS
  <1> HIDE DEF available, asked, replays, home, noticed, next
  <1>4. /\ noticed \in Tours /\ noticed.steps = t.steps /\ noticed.step = t.step /\ noticed.seen = t.seen
        /\ noticed.dismissed = t.dismissed /\ noticed.replaying = t.replaying
    BY <1>0, <1>3 DEF Tours
  <1>5. TourIsSo(noticed)
    BY <1>4 DEF TourIsSo
  <1>6. CASE t.steps # {} /\ g = KeptSteps(noticed, available)
    BY <1>4, <1>5, <1>6, KeptIs
  <1>7. CASE g = begun
    <2>1. CASE next = {}
      <3>1. first = NoStep
        BY <2>1 DEF First
      <3> HIDE DEF first
      <3>2. begun \in Tours /\ begun.steps = {} /\ begun.step = NoStep /\ begun.seen = t.seen /\ begun.dismissed = t.dismissed
        BY <1>0, <1>4, <2>1, <3>1 DEF Tours
      <3> HIDE DEF begun
      <3> QED
        BY <1>7, <3>2, NoTourIs
    <2>2. CASE next # {}
      <3>1. first \in next /\ \A place \in next : first <= place
        BY <1>2, <2>2, FirstIs DEF First
      <3> HIDE DEF first
      <3>2. /\ begun \in Tours /\ begun.steps = next /\ begun.step = first /\ begun.seen = t.seen
            /\ begun.dismissed = t.dismissed /\ begun.replaying = asked
        BY <1>0, <1>2, <1>4, <3>1 DEF Tours
      <3> HIDE DEF begun
      <3>3. \A place \in next : ~(place < first)
        <4> SUFFICES ASSUME NEW place \in next PROVE ~(place < first)
          OBVIOUS
        <4>1. place \in Int /\ first \in Int /\ first <= place
          BY <1>2, <3>1 DEF Places
        <4> QED
          BY <4>1
      <3>4. TourIsSo(begun)
        BY <1>2, <2>2, <3>1, <3>2, <3>3 DEF TourIsSo
      <3> QED
        BY <1>7, <3>2, <3>4
    <2> QED
      BY <2>1, <2>2
  <1>8. CASE g = noticed
    BY <1>4, <1>5, <1>8
  <1> QED
    BY <1>1, <1>6, <1>7, <1>8

\* The end of a tour: everything it was about is seen
LEMMA CloseIs ==
    ASSUME NEW t, TourIsSo(t), NEW skip \in BOOLEAN, NEW g, g = CloseTour(t, skip)
    PROVE  TourIsSo(g) /\ g.step = NoStep /\ g.seen = t.seen \union t.steps /\ g.dismissed = (t.dismissed \/ skip)
  <1> DEFINE passed == t.seen \union t.steps
             over == t.dismissed \/ skip
  <1>0. t \in Tours
    BY DEF TourIsSo
  <1>1. g = [[[[t EXCEPT !.seen = passed] EXCEPT !.dismissed = over] EXCEPT !.steps = {}] EXCEPT !.step = NoStep]
    BY <1>0 DEF CloseTour, Tours
  <1>2. passed \subseteq Places /\ over \in BOOLEAN
    BY <1>0 DEF Tours
  <1> HIDE DEF passed, over
  <1>3. g \in Tours /\ g.steps = {} /\ g.step = NoStep /\ g.seen = passed /\ g.dismissed = over
    BY <1>0, <1>1, <1>2 DEF Tours
  <1> QED
    BY <1>3, NoTourIs DEF passed, over

\* The button of a step: the step is seen, and the next one shows
LEMMA NextIs ==
    ASSUME NEW t, TourIsSo(t), t.step # NoStep, NEW g, g = NextStep(t)
    PROVE  TourIsSo(g) /\ g.seen \subseteq t.seen \union {t.step} /\ g.dismissed = t.dismissed
  <1> DEFINE later == {place \in t.steps : place > t.step}
             next == Min(later)
             passed == t.seen \union {t.step}
  <1>0. t \in Tours /\ later \subseteq Places /\ t.step \in t.steps /\ t.step \in Places
    BY DEF TourIsSo, Tours
  <1>1. CASE later = {}
    <2> DEFINE no == FALSE
    <2>1. g = CloseTour(t, no) /\ no \in BOOLEAN /\ no = FALSE
      BY <1>1 DEF NextStep
    <2> HIDE DEF no
    <2>2. TourIsSo(g) /\ g.seen = t.seen \union t.steps /\ g.dismissed = (t.dismissed \/ no)
      BY <2>1, CloseIs
    <2>3. \A place \in t.steps : place = t.step \/ place \in t.seen
      BY <1>0, <1>1 DEF TourIsSo, Tours, Places
    <2> QED
      BY <1>0, <2>1, <2>2, <2>3 DEF Tours
  <1>2. CASE later # {}
    <2>1. g = [[t EXCEPT !.seen = passed] EXCEPT !.step = next]
      <3>1. g = [t EXCEPT !.seen = @ \union {t.step}, !.step = Min(later)]
        BY <1>2 DEF NextStep
      <3> HIDE DEF later
      <3> QED
        BY <1>0, <3>1 DEF Tours
    <2>2. next \in later /\ \A place \in later : next <= place
      BY <1>0, <1>2, FirstIs
    <2> HIDE DEF next
    <2>3. next \in Places /\ next \in t.steps /\ next > t.step /\ passed \subseteq Places
      BY <1>0, <2>2 DEF Tours
    <2>30. passed = t.seen \union {t.step}
      OBVIOUS
    <2> HIDE DEF passed
    <2>4. /\ g \in Tours /\ g.steps = t.steps /\ g.step = next /\ g.seen = passed /\ g.dismissed = t.dismissed
          /\ g.replaying = t.replaying
      BY <1>0, <2>1, <2>3 DEF Tours
    <2>5. \A place \in t.steps : place < next => place < t.step \/ place = t.step
      BY <1>0, <2>2, <2>3 DEF Places, Tours
    <2>6. \A place \in t.steps : place >= next => place >= t.step /\ place # t.step
      BY <1>0, <2>3 DEF Places, Tours
    <2>7. TourIsSo(g)
      BY <2>3, <2>30, <2>4, <2>5, <2>6 DEF TourIsSo
    <2> QED
      BY <2>30, <2>4, <2>7
  <1> QED
    BY <1>1, <1>2

-----------------------------------------------------------------------------

\* The cutout of the next step waits for its frame
LEMMA LitIs ==
    ASSUME NEW l, LightIsSo(l), NEW t, TourIsSo(t), NEW r, NEW g, g = Lit(l, t, r)
    PROVE  LightIsSo(g)
  <1>1. t.step \in Places \union {NoStep}
    BY DEF TourIsSo, Tours
  <1> QED
    BY <1>1 DEF Lit, LightIsSo, Lights

\* What is left to show of a step of the tour
LEMMA SetTourKeeps ==
    ASSUME TourInv, NEW t, NEW r \in Situations, SetTour(t, r), TourIsSo(t), t.dismissed \/ t.seen \subseteq shown,
           stored' = [seen |-> t.seen, dismissed |-> t.dismissed], toast' = toast, changes' \in 0 .. MaxChanges
    PROVE  TourInv'
  <1>1. tour' = t /\ room' = r /\ light' = Lit(light, t, r)
    BY DEF SetTour
  <1>2. shown' = IF r.enabled /\ t.step # NoStep THEN shown \union {t.step} ELSE shown
    BY DEF SetTour
  <1>3. ShownIsSo(t, r, shown')
    BY <1>2 DEF ShownIsSo
  <1>4. LightIsSo(light')
    BY <1>1, LitIs DEF TourInv
  <1>5. TourIsSo(tour') /\ ShownIsSo(tour', room', shown') /\ room' \in Situations
        /\ stored' = [seen |-> tour'.seen, dismissed |-> tour'.dismissed] /\ ToastIsSo(toast')
    BY <1>1, <1>3 DEF TourInv
  <1> QED
    BY <1>4, <1>5 DEF TourInv, TourIsSo, ShownIsSo, ToastIsSo, LightIsSo

\* The effect runs for what changed before it
LEMMA ReactKeeps == TourInv /\ React => TourInv'
  <1> SUFFICES ASSUME TourInv, React PROVE TourInv'
    OBVIOUS
  <1> DEFINE t == Effect(tour, room)
  <1>1. SetTour(t, room) /\ UNCHANGED <<notice, stored, toast, changes>>
    BY DEF React
  <1>2. TourIsSo(tour) /\ room \in Situations /\ ShownIsSo(tour, room, shown) /\ stored = [seen |-> tour.seen, dismissed |-> tour.dismissed]
        /\ changes \in 0 .. MaxChanges
    BY DEF TourInv
  <1>3. TourIsSo(t) /\ t.seen = tour.seen /\ t.dismissed = tour.dismissed
    BY <1>2, EffectIs
  <1> HIDE DEF t
  <1>4. t.dismissed \/ t.seen \subseteq shown
    BY <1>2, <1>3 DEF ShownIsSo
  <1> QED
    BY <1>1, <1>2, <1>3, <1>4, SetTourKeeps

\* A step is passed, or the tour skipped
LEMMA ButtonsKeep == TourInv /\ (GoOn \/ Skip) => TourInv'
  <1> SUFFICES ASSUME TourInv, GoOn \/ Skip PROVE TourInv'
    OBVIOUS
  <1>0. TourIsSo(tour) /\ room \in Situations /\ ShownIsSo(tour, room, shown) /\ changes \in 0 .. MaxChanges
    BY DEF TourInv
  <1>1. CASE GoOn
    <2> DEFINE t == NextStep(tour)
    <2>1. /\ room.enabled /\ tour.step # NoStep
          /\ SetTour(t, room) /\ stored' = [seen |-> t.seen, dismissed |-> t.dismissed]
          /\ UNCHANGED <<notice, toast, changes>>
      BY <1>1 DEF GoOn, PressReplay
    <2>2. TourIsSo(t) /\ t.seen \subseteq tour.seen \union {tour.step} /\ t.dismissed = tour.dismissed
      BY <1>0, <2>1, NextIs
    <2> HIDE DEF t
    <2>3. t.dismissed \/ t.seen \subseteq shown
      BY <1>0, <2>1, <2>2 DEF ShownIsSo
    <2> QED
      BY <1>0, <2>1, <2>2, <2>3, SetTourKeeps
  <1>2. CASE Skip
    <2> DEFINE yes == TRUE
               t == CloseTour(tour, yes)
    <2>1. /\ SetTour(t, room) /\ stored' = [seen |-> t.seen, dismissed |-> t.dismissed]
          /\ UNCHANGED <<notice, toast, changes>>
      BY <1>2 DEF Skip, PressReplay
    <2>2. yes \in BOOLEAN /\ yes
      OBVIOUS
    <2> HIDE DEF yes
    <2>3. TourIsSo(t) /\ t.dismissed = (tour.dismissed \/ yes)
      BY <1>0, <2>2, CloseIs
    <2> HIDE DEF t
    <2>4. t.dismissed
      BY <2>2, <2>3
    <2> QED
      BY <1>0, <2>1, <2>3, <2>4, SetTourKeeps
  <1> QED
    BY <1>1, <1>2

\* What the tour is about changes under it
LEMMA RearrangedKeeps ==
    ASSUME TourInv, NEW r \in Situations, Rearranged(r)
    PROVE  TourInv'
  <1>1. /\ changes < MaxChanges /\ changes' = changes + 1 /\ SetTour(tour, r)
        /\ UNCHANGED <<notice, stored, toast>>
    BY DEF Rearranged, Changed
  <1>2. TourIsSo(tour) /\ ShownIsSo(tour, room, shown) /\ stored = [seen |-> tour.seen, dismissed |-> tour.dismissed]
        /\ changes \in 0 .. MaxChanges
    BY DEF TourInv
  <1>3. changes' \in 0 .. MaxChanges
    BY <1>1, <1>2, TourAssumption
  <1> QED
    BY <1>1, <1>2, <1>3, SetTourKeeps DEF ShownIsSo

\* The game moves on, a panel covers the page, a replay is asked for, the page is loaded again
LEMMA SituationsKeep == TourInv /\ (Situation \/ Cover \/ Replay \/ ReloadTour) => TourInv'
  <1> SUFFICES ASSUME TourInv, Situation \/ Cover \/ Replay \/ ReloadTour PROVE TourInv'
    OBVIOUS
  <1>0. TourIsSo(tour) /\ room \in Situations /\ ShownIsSo(tour, room, shown) /\ changes \in 0 .. MaxChanges
        /\ stored = [seen |-> tour.seen, dismissed |-> tour.dismissed]
    BY DEF TourInv
  <1>1. CASE Situation
    <2>1. PICK phase \in TourPhases, owner \in BOOLEAN, voice \in BOOLEAN :
            Rearranged([room EXCEPT !.phase = phase, !.owner = owner, !.voice = voice])
      BY <1>1 DEF Situation
    <2> DEFINE r == [[[room EXCEPT !.phase = phase] EXCEPT !.owner = owner] EXCEPT !.voice = voice]
    <2>2. Rearranged(r)
      BY <2>1
    <2>3. r \in Situations
      BY <1>0 DEF Situations
    <2> HIDE DEF r
    <2> QED
      BY <2>2, <2>3, RearrangedKeeps
  <1>2. CASE Cover
    <2> DEFINE r == [room EXCEPT !.enabled = ~@]
    <2>1. Rearranged(r)
      BY <1>2 DEF Cover
    <2>2. r \in Situations
      BY <1>0 DEF Situations
    <2> HIDE DEF r
    <2> QED
      BY <2>1, <2>2, RearrangedKeeps
  <1>3. CASE Replay
    <2> DEFINE r == [room EXCEPT !.replays = @ + 1]
    <2>1. Rearranged(r)
      BY <1>3 DEF Replay
    <2>2. r \in Situations
      BY <1>0 DEF Situations
    <2> HIDE DEF r
    <2> QED
      BY <2>1, <2>2, RearrangedKeeps
  <1>4. CASE ReloadTour
    <2> DEFINE home == room.phase = "home"
               t == [steps |-> {}, step |-> NoStep, seen |-> stored.seen, dismissed |-> stored.dismissed,
                     replayed |-> room.replays, replaying |-> FALSE, home |-> home]
    <2>1. changes < MaxChanges /\ changes' = changes + 1 /\ SetTour(t, room) /\ UNCHANGED <<notice, stored, toast>>
      BY <1>4 DEF ReloadTour, Changed
    <2>2. home \in BOOLEAN /\ stored.seen = tour.seen /\ stored.dismissed = tour.dismissed /\ tour \in Tours
      BY <1>0 DEF TourIsSo
    <2> HIDE DEF home
    <2>3. t \in Tours /\ t.steps = {} /\ t.step = NoStep /\ t.seen = tour.seen /\ t.dismissed = tour.dismissed
      BY <1>0, <2>2 DEF Tours, Situations
    <2> HIDE DEF t
    <2>4. TourIsSo(t) /\ (t.dismissed \/ t.seen \subseteq shown)
      BY <1>0, <2>3, NoTourIs DEF ShownIsSo
    <2>5. changes' \in 0 .. MaxChanges /\ stored' = [seen |-> t.seen, dismissed |-> t.dismissed]
      BY <1>0, <2>1, <2>3, TourAssumption
    <2> QED
      BY <1>0, <2>1, <2>4, <2>5, SetTourKeeps
  <1> QED
    BY <1>1, <1>2, <1>3, <1>4

\* What leaves the rest of the invariant as it was
LEMMA OthersKeep ==
    ASSUME TourInv, tour' = tour, stored' = stored, shown' = shown, room' \in Situations, room'.enabled = room.enabled,
           changes' \in 0 .. MaxChanges, LightIsSo(light'), ToastIsSo(toast')
    PROVE  TourInv'
  <1>1. TourIsSo(tour') /\ ShownIsSo(tour', room', shown')
    BY DEF TourInv, ShownIsSo
  <1> QED
    BY <1>1 DEF TourInv, TourIsSo, ShownIsSo, ToastIsSo, LightIsSo

\* The cutout is measured in a frame that was asked for
LEMMA LightsKeep == TourInv /\ (Scroll \/ Spotlight) => TourInv'
  <1> SUFFICES ASSUME TourInv, Scroll \/ Spotlight PROVE TourInv'
    OBVIOUS
  <1>0. room \in Situations /\ changes \in 0 .. MaxChanges /\ LightIsSo(light) /\ ToastIsSo(toast) /\ light \in Lights
    BY DEF TourInv, LightIsSo
  <1>1. CASE Scroll
    <2> DEFINE asks == light.step # NoStep
    <2>1. /\ changes < MaxChanges /\ changes' = changes + 1 /\ room' = [room EXCEPT !.target = ~@]
          /\ light' = [light EXCEPT !.pending = asks]
          /\ UNCHANGED <<notice, tour, stored, toast, shown>>
      BY <1>1 DEF Scroll, Changed
    <2>2. room' \in Situations /\ room'.enabled = room.enabled
      BY <1>0, <2>1 DEF Situations
    <2>3. changes' \in 0 .. MaxChanges
      BY <1>0, <2>1, TourAssumption
    <2>4. LightIsSo(light')
      BY <1>0, <2>1 DEF LightIsSo, Lights
    <2> QED
      BY <1>0, <2>1, <2>2, <2>3, <2>4, OthersKeep
  <1>2. CASE Spotlight
    <2> DEFINE l == Measure(light, room.target)
    <2>1. /\ light.pending /\ light' = [l EXCEPT !.pending = FALSE]
          /\ UNCHANGED <<notice, room, tour, stored, toast, shown, changes>>
      BY <1>2 DEF Spotlight
    <2>2. LightIsSo(l)
      BY <1>0, <2>1 DEF Measure, LightIsSo, Lights
    <2> HIDE DEF l
    <2>3. LightIsSo(light')
      BY <2>1, <2>2 DEF LightIsSo, Lights
    <2> QED
      BY <1>0, <2>1, <2>3, OthersKeep
  <1> QED
    BY <1>1, <1>2

\* A notice that was hovered goes on where its clock stood
LEMMA NoticesKeep == TourInv /\ (AnnounceNotice \/ Hold \/ NoticeTick) => TourInv'
  <1> SUFFICES ASSUME TourInv, AnnounceNotice \/ Hold \/ NoticeTick PROVE TourInv'
    OBVIOUS
  <1>0. /\ room \in Situations /\ changes \in 0 .. MaxChanges /\ LightIsSo(light) /\ ToastIsSo(toast) /\ toast \in Toasts
        /\ ~toast.early
    BY DEF TourInv, ToastIsSo
  <1>1. CASE AnnounceNotice
    <2>1. PICK message \in Notices :
            toast' = IF toast.message = message THEN toast
                     ELSE [toast EXCEPT !.message = message, !.remaining = Duration, !.read = 0]
      BY <1>1 DEF AnnounceNotice
    <2>2. changes < MaxChanges /\ changes' = changes + 1 /\ UNCHANGED <<notice, room, tour, stored, light, shown>>
      BY <1>1 DEF AnnounceNotice, Changed
    <2>3. changes' \in 0 .. MaxChanges
      BY <1>0, <2>2, TourAssumption
    <2> DEFINE none == 0
               n == [[[toast EXCEPT !.message = message] EXCEPT !.remaining = Duration] EXCEPT !.read = none]
    <2>4. toast' = toast \/ toast' = n
      BY <2>1
    <2>50. Duration \in 1 .. Duration /\ none \in Nat /\ none + Duration = Duration
      BY TourAssumption
    <2> HIDE DEF none
    <2>5. n \in Toasts /\ n.remaining = Duration /\ n.read = none /\ ~n.early
      BY <1>0, <2>50 DEF Toasts
    <2> HIDE DEF n
    <2>6. ToastIsSo(n)
      BY <2>5, <2>50 DEF ToastIsSo
    <2> QED
      BY <1>0, <2>2, <2>3, <2>4, <2>6, OthersKeep
  <1>2. CASE Hold
    <2>1. PICK held \in BOOLEAN : held # toast.held /\ toast' = [toast EXCEPT !.held = held]
      BY <1>2 DEF Hold
    <2>2. changes < MaxChanges /\ changes' = changes + 1 /\ UNCHANGED <<notice, room, tour, stored, light, shown>>
      BY <1>2 DEF Hold, Changed
    <2>3. changes' \in 0 .. MaxChanges
      BY <1>0, <2>2, TourAssumption
    <2>4. toast' \in Toasts /\ toast'.message = toast.message /\ toast'.remaining = toast.remaining /\ toast'.read = toast.read
          /\ toast'.early = toast.early
      BY <1>0, <2>1 DEF Toasts
    <2>5. ToastIsSo(toast')
      BY <1>0, <2>4 DEF ToastIsSo
    <2> QED
      BY <1>0, <2>2, <2>3, <2>5, OthersKeep
  <1>3. CASE NoticeTick
    <2> DEFINE read2 == toast.read + 1
               soon == toast.early \/ read2 < Duration
               less == toast.remaining - 1
               gone == [[[toast EXCEPT !.message = NoNotice] EXCEPT !.held = FALSE] EXCEPT !.early = soon]
               kept == [[toast EXCEPT !.remaining = less] EXCEPT !.read = read2]
    <2>1. toast.message # NoNotice /\ ~toast.held
      BY <1>3 DEF NoticeTick, Runs
    <2>2. UNCHANGED <<notice, room, tour, stored, light, shown, changes>>
      BY <1>3 DEF NoticeTick
    <2>3. toast' = IF toast.remaining = 1 THEN gone ELSE kept
      <3>1. toast' = IF toast.remaining = 1
                THEN [toast EXCEPT !.message = NoNotice, !.held = FALSE, !.early = @ \/ read2 < Duration]
                ELSE [toast EXCEPT !.remaining = @ - 1, !.read = read2]
        BY <1>3, <2>1 DEF NoticeTick
      <3> HIDE DEF read2
      <3> QED
        BY <1>0, <3>1 DEF Toasts
    <2>4. toast.read + toast.remaining = Duration /\ toast.read \in Nat /\ toast.remaining \in 1 .. Duration
      BY <1>0, <2>1 DEF ToastIsSo, Toasts
    <2>5. CASE toast.remaining = 1
      <3>1. soon = FALSE
        BY <1>0, <2>4, <2>5, TourAssumption
      <3> HIDE DEF soon
      <3>2. gone \in Toasts /\ gone.message = NoNotice /\ ~gone.early
        BY <1>0, <3>1 DEF Toasts
      <3> HIDE DEF gone
      <3>3. ToastIsSo(toast')
        BY <2>3, <2>5, <3>2 DEF ToastIsSo
      <3> QED
        BY <1>0, <2>2, <3>3, OthersKeep
    <2>6. CASE toast.remaining # 1
      <3>1. less \in 1 .. Duration /\ read2 \in Nat /\ read2 + less = Duration
        BY <2>4, <2>6, TourAssumption
      <3> HIDE DEF less, read2
      <3>2. kept \in Toasts /\ kept.remaining = less /\ kept.read = read2 /\ kept.early = toast.early
        BY <1>0, <3>1 DEF Toasts
      <3> HIDE DEF kept
      <3>3. ToastIsSo(toast')
        BY <1>0, <2>3, <2>6, <3>1, <3>2 DEF ToastIsSo
      <3> QED
        BY <1>0, <2>2, <3>3, OthersKeep
    <2> QED
      BY <2>5, <2>6
  <1> QED
    BY <1>1, <1>2, <1>3

\* The page is loaded without a tour, and no notice shows
LEMMA TourBegins == TourInit => TourInv
  <1> SUFFICES ASSUME TourInit PROVE TourInv
    OBVIOUS
  <1> DEFINE home == room.phase = "home"
  <1>1. /\ tour = [steps |-> {}, step |-> NoStep, seen |-> {}, dismissed |-> FALSE, replayed |-> 0, replaying |-> FALSE, home |-> home]
        /\ stored = [seen |-> {}, dismissed |-> FALSE] /\ changes = 0
    BY DEF TourInit
  <1>2. home \in BOOLEAN
    OBVIOUS
  <1> HIDE DEF home
  <1>3. tour \in Tours /\ tour.steps = {} /\ tour.step = NoStep /\ tour.seen = {} /\ tour.dismissed = FALSE
    BY <1>1, <1>2 DEF Tours
  <1>4. TourIsSo(tour) /\ ShownIsSo(tour, room, shown)
    BY <1>3, NoTourIs DEF ShownIsSo
  <1>5. room \in Situations
    <2>1. {"home", "guess"} \subseteq TourPhases /\ {FALSE} \subseteq BOOLEAN /\ {TRUE} \subseteq BOOLEAN /\ {0} \subseteq Nat
      BY DEF TourPhases
    <2>2. room \in [phase : {"home", "guess"}, owner : {FALSE}, voice : BOOLEAN, enabled : {TRUE}, target : BOOLEAN, replays : {0}]
      BY DEF TourInit
    <2> DEFINE phases == {"home", "guess"}
               owners == {FALSE}
               on == {TRUE}
               none == {0}
    <2>3. room \in [phase : phases, owner : owners, voice : BOOLEAN, enabled : on, target : BOOLEAN, replays : none]
      BY <2>2
    <2>4. phases \subseteq TourPhases /\ owners \subseteq BOOLEAN /\ on \subseteq BOOLEAN /\ none \subseteq Nat
      BY <2>1
    <2> HIDE DEF phases, owners, on, none
    <2> QED
      BY <2>3, <2>4 DEF Situations
  <1>6. LightIsSo(light)
    BY DEF TourInit, LightIsSo, Lights
  <1>7. ToastIsSo(toast)
    BY TourAssumption DEF TourInit, ToastIsSo, Toasts
  <1> QED
    BY <1>1, <1>3, <1>4, <1>5, <1>6, <1>7, TourAssumption DEF TourInv

\* Every step of the tour and of the notices keeps the invariant
LEMMA TourStep == TourInv /\ [TourNext]_tourVars => TourInv'
  <1> SUFFICES ASSUME TourInv, [TourNext]_tourVars PROVE TourInv'
    OBVIOUS
  <1>1. \/ React \/ GoOn \/ Skip \/ Situation \/ Cover \/ Scroll \/ Replay \/ ReloadTour \/ Spotlight
        \/ AnnounceNotice \/ Hold \/ NoticeTick \/ UNCHANGED tourVars
    BY DEF TourNext
  <1>2. CASE UNCHANGED tourVars
    BY <1>2 DEF TourInv, TourIsSo, ShownIsSo, ToastIsSo, LightIsSo, tourVars
  <1> QED
    BY ONLY TourInv, <1>1, <1>2, ReactKeeps, ButtonsKeep, SituationsKeep, LightsKeep, NoticesKeep

\* What the invariant says of the runs' properties
LEMMA TourKept == TourInv => TourTypeOK /\ NothingTwice /\ SeenWasShown /\ NoticeCanBeRead
  <1> SUFFICES ASSUME TourInv PROVE TourTypeOK /\ NothingTwice /\ SeenWasShown /\ NoticeCanBeRead
    OBVIOUS
  <1>1. DOMAIN Order = Places
    BY DEF Order, Places
  <1>2. /\ TourIsSo(tour) /\ ShownIsSo(tour, room, shown) /\ stored = [seen |-> tour.seen, dismissed |-> tour.dismissed]
        /\ changes \in 0 .. MaxChanges /\ LightIsSo(light) /\ ToastIsSo(toast)
    BY DEF TourInv
  <1>3. tour.steps \subseteq Places /\ tour.seen \subseteq Places /\ NoStep \notin Places
    BY <1>2 DEF TourIsSo, Tours, Places, NoStep
  <1>4. TourTypeOK
    BY <1>1, <1>2, <1>3 DEF TourTypeOK, TourIsSo, LightIsSo, ToastIsSo, Toasts
  <1>5. tour.step \in tour.steps => tour.step >= tour.step
    BY <1>3 DEF Places
  <1>6. NothingTwice
    BY <1>2, <1>3, <1>5 DEF NothingTwice, TourIsSo
  <1>7. SeenWasShown /\ NoticeCanBeRead
    BY <1>2 DEF SeenWasShown, NoticeCanBeRead, ShownIsSo, ToastIsSo
  <1> QED
    BY <1>4, <1>6, <1>7

-----------------------------------------------------------------------------
\* Turning the machine: Turnover

Gripped == [side : Sides, pointer : Pointers, far : BOOLEAN, stale : BOOLEAN]
Machines == [flip : 0 .. 4, pull : -1 .. 2, direction : Sides, back : BOOLEAN]

\* What can be reached lies on a machine that stands there, and a handle turns the machine its own way
Reaches(w, m) == w # "none" => m.flip = TurnEnd(w = "rear")
TurnInv ==
    /\ grip = NoGrip \/ grip \in Gripped
    /\ handle \in Machines /\ backView = handle.back
    /\ within \in {"none", "front", "rear"} /\ turns \in 0 .. MaxPulls
    /\ handle.pull # -1 => grip # NoGrip
    /\ grip # NoGrip /\ ~grip.stale => handle.direction = grip.side
    /\ Reaches(within, handle)

\* What a step of the turn never does
Turns ==
    /\ handle'.direction # handle.direction => handle.flip \in {0, 4} \/ grip.stale
    /\ backView' # backView /\ grip # NoGrip /\ grip' = NoGrip => grip.far

\* A hand is none
LEMMA GripIs == ASSUME NEW g \in Gripped PROVE g # NoGrip
  BY TurnAssumption DEF Gripped, NoGrip

\* What is reached of a machine is what it shows at rest
LEMMA ReachedIs ==
    ASSUME NEW m \in Machines
    PROVE  HandleReached(m) \in {"none", "front", "rear"} /\ Reaches(HandleReached(m), m)
  BY DEF HandleReached, Reaches, FaceSettled, Face, TurnEnd, Machines

\* A machine that is let go
LEMMA ReleasedIs ==
    ASSUME NEW m \in Machines, NEW g, g = ReleaseHandle(m)
    PROVE  g \in Machines /\ g.flip = m.flip /\ g.pull = -1 /\ g.direction = m.direction /\ g.back = m.back
  BY DEF ReleaseHandle, Machines

\* A machine asked for a face
LEMMA FaceIs ==
    ASSUME NEW m \in Machines, NEW to \in BOOLEAN, NEW side \in Sides, NEW g, g = TurnFace(m, to, side)
    PROVE  /\ g \in Machines /\ g.flip = m.flip /\ g.pull = -1 /\ g.back = to
           /\ g.direction = IF to THEN side ELSE m.direction
  <1> DEFINE way == IF to THEN side ELSE m.direction
             loose == -1
  <1>1. g = [[[m EXCEPT !.back = to] EXCEPT !.pull = loose] EXCEPT !.direction = way]
    BY DEF TurnFace, Machines
  <1>2. way \in Sides /\ loose \in -1 .. 2 /\ loose = -1
    BY DEF Machines
  <1> HIDE DEF way, loose
  <1>3. g \in Machines /\ g.flip = m.flip /\ g.pull = loose /\ g.back = to /\ g.direction = way
    BY <1>1, <1>2 DEF Machines
  <1> QED
    BY <1>2, <1>3 DEF way

\* The page turns the machine, and lays out what is reached then
LEMMA ConsoleIs ==
    ASSUME NEW m \in Machines, NEW to \in BOOLEAN, NEW side \in Sides, TurnConsole(m, to, side),
           within \in {"none", "front", "rear"}, Reaches(within, m)
    PROVE  /\ handle' \in Machines /\ backView' = handle'.back /\ backView' = to /\ handle'.pull = -1
           /\ within' \in {"none", "front", "rear"} /\ Reaches(within', handle')
           /\ handle'.direction = IF to THEN side ELSE m.direction
  <1>1. /\ handle' = TurnFace(m, to, side) /\ backView' = to
        /\ (within' = within \/ within' = HandleReached(handle'))
    BY DEF TurnConsole
  <1>2. /\ handle' \in Machines /\ handle'.flip = m.flip /\ handle'.pull = -1 /\ handle'.back = to
        /\ handle'.direction = IF to THEN side ELSE m.direction
    BY <1>1, FaceIs
  <1> QED
    BY <1>1, <1>2, ReachedIs DEF Reaches

\* A gesture is counted
LEMMA TurningIs == ASSUME Turning, turns \in 0 .. MaxPulls PROVE turns' \in 0 .. MaxPulls
  BY TurnAssumption DEF Turning

\* A press may leave a drag behind whose handle is gone
LEMMA PressedKeeps ==
    ASSUME TurnInv, NEW to \in BOOLEAN, NEW side \in Sides, Pressed(to, side), to => handle.flip = 0
    PROVE  TurnInv' /\ Turns
  <1>1. Turning /\ TurnConsole(handle, to, side) /\ grip' = IF grip = NoGrip THEN grip ELSE [grip EXCEPT !.stale = TRUE]
    BY DEF Pressed
  <1>2. /\ grip = NoGrip \/ grip \in Gripped
        /\ handle \in Machines /\ within \in {"none", "front", "rear"} /\ turns \in 0 .. MaxPulls /\ Reaches(within, handle)
    BY DEF TurnInv
  <1>3. /\ handle' \in Machines /\ backView' = handle'.back /\ backView' = to /\ handle'.pull = -1
        /\ within' \in {"none", "front", "rear"} /\ Reaches(within', handle')
        /\ handle'.direction = IF to THEN side ELSE handle.direction
    BY <1>1, <1>2, ConsoleIs
  <1>4. turns' \in 0 .. MaxPulls
    BY <1>1, <1>2, TurningIs
  <1>5. CASE grip = NoGrip
    BY <1>1, <1>3, <1>4, <1>5 DEF TurnInv, Turns, Reaches
  <1>6. CASE grip # NoGrip
    <2>1. grip' \in Gripped /\ grip'.stale
      BY <1>1, <1>2, <1>6 DEF Gripped
    <2>2. grip' # NoGrip
      BY <2>1, GripIs
    <2> QED
      BY <1>3, <1>4, <2>1, <2>2 DEF TurnInv, Turns, Reaches
  <1> QED
    BY <1>5, <1>6

\* The handles and the tour
LEMMA PressesKeep ==
    TurnInv /\ (TourFront \/ \E side \in Sides : PressHandle(TRUE, side) \/ PressHandle(FALSE, side)) => TurnInv' /\ Turns
  <1> DEFINE yes == TRUE
             no == FALSE
  <1>0. yes \in BOOLEAN /\ no \in BOOLEAN /\ yes /\ ~no /\ "left" \in Sides
    BY DEF Sides
  <1>1. ASSUME TurnInv, TourFront PROVE TurnInv' /\ Turns
    <2>1. Pressed(no, "left")
      BY <1>1 DEF TourFront
    <2> HIDE DEF no
    <2> QED
      BY <1>0, <1>1, <2>1, PressedKeeps
  <1>2. ASSUME TurnInv, NEW side \in Sides, PressHandle(TRUE, side) PROVE TurnInv' /\ Turns
    <2>1. Pressed(yes, side) /\ ~backView /\ within = "front"
      BY <1>2 DEF PressHandle, Pressable, Face, TurnInv, Machines
    <2>2. handle.flip = 0
      BY <1>2, <2>1 DEF TurnInv, Reaches, TurnEnd
    <2> HIDE DEF yes
    <2> QED
      BY <1>0, <1>2, <2>1, <2>2, PressedKeeps
  <1>3. ASSUME TurnInv, NEW side \in Sides, PressHandle(FALSE, side) PROVE TurnInv' /\ Turns
    <2>1. Pressed(no, side)
      BY <1>3 DEF PressHandle
    <2> HIDE DEF no
    <2> QED
      BY <1>0, <1>3, <2>1, PressedKeeps
  <1> QED
    BY <1>1, <1>2, <1>3

\* A hand takes a handle, pulls it and lets it go
LEMMA BeginKeeps ==
    ASSUME TurnInv, NEW side \in Sides, NEW p \in Pointers, BeginHandle(side, p)
    PROVE  TurnInv' /\ Turns
  <1> DEFINE none == 0
             g == [side |-> side, pointer |-> p, far |-> FALSE, stale |-> FALSE]
  <1>1. /\ Turning /\ within = "front" /\ handle.flip = TurnEnd(handle.back)
        /\ grip' = g
        /\ handle' = [[handle EXCEPT !.direction = side] EXCEPT !.pull = none]
        /\ UNCHANGED <<backView, within>>
    BY DEF BeginHandle
  <1>2. handle \in Machines /\ turns \in 0 .. MaxPulls
    BY DEF TurnInv
  <1>3. none \in -1 .. 2
    OBVIOUS
  <1> HIDE DEF none
  <1>4. handle' \in Machines /\ handle'.flip = handle.flip /\ handle'.direction = side /\ handle'.back = handle.back
    BY <1>1, <1>2, <1>3 DEF Machines
  <1>5. g \in Gripped /\ g.side = side
    BY DEF Gripped
  <1> HIDE DEF g
  <1>6. grip' # NoGrip /\ grip' \in Gripped /\ grip'.side = side
    BY <1>1, <1>5, GripIs
  <1>7. turns' \in 0 .. MaxPulls
    BY <1>1, <1>2, TurningIs
  <1> QED
    BY <1>1, <1>4, <1>6, <1>7 DEF TurnInv, Turns, Reaches, TurnEnd

\* The hand pulls the handle
LEMMA PullKeepsGrip ==
    ASSUME TurnInv, NEW p \in Pointers, PullHandle(p)
    PROVE  TurnInv' /\ Turns
  <1>1. grip.pointer = p /\ UNCHANGED <<backView, within, turns>>
    BY DEF PullHandle, Owns
  <1>2. PICK pull \in 0 .. 2 : handle' = [handle EXCEPT !.pull = pull] /\ grip' = [grip EXCEPT !.far = pull = 2]
    BY DEF PullHandle
  <1> DEFINE far == pull = 2
  <1>3. grip \in Gripped /\ handle \in Machines
    BY <1>1, TurnAssumption DEF TurnInv, NoGrip
  <1>4. handle' \in Machines /\ handle'.flip = handle.flip /\ handle'.direction = handle.direction /\ handle'.back = handle.back
    BY <1>2, <1>3 DEF Machines
  <1>5. grip' = [grip EXCEPT !.far = far] /\ far \in BOOLEAN
    BY <1>2
  <1> HIDE DEF far
  <1>6. grip' \in Gripped /\ grip'.side = grip.side /\ grip'.stale = grip.stale
    BY <1>3, <1>5 DEF Gripped
  <1>7. grip' # NoGrip /\ grip # NoGrip
    BY <1>3, <1>6, GripIs
  <1> QED
    BY <1>1, <1>4, <1>6, <1>7 DEF TurnInv, Turns, Reaches

\* The hand lets go, and the machine turns if it was pulled far enough
LEMMA LetGoKeeps ==
    ASSUME TurnInv, NEW p \in Pointers, LetHandleGo(p)
    PROVE  TurnInv' /\ Turns
  <1> DEFINE m == ReleaseHandle(handle)
             yes == TRUE
  <1>1. grip.pointer = p /\ grip' = NoGrip /\ UNCHANGED turns
    BY DEF LetHandleGo, Owns
  <1>2. /\ grip \in Gripped /\ handle \in Machines /\ within \in {"none", "front", "rear"} /\ Reaches(within, handle)
        /\ turns \in 0 .. MaxPulls /\ grip # NoGrip
    BY <1>1, TurnAssumption DEF TurnInv, NoGrip
  <1>3. m \in Machines /\ m.flip = handle.flip /\ m.pull = -1 /\ m.direction = handle.direction /\ m.back = handle.back
    BY <1>2, ReleasedIs
  <1>4. ~grip.stale => handle.direction = grip.side
    BY <1>2 DEF TurnInv
  <1>5. CASE grip.far
    <2>1. TurnConsole(m, yes, grip.side) /\ grip.side \in Sides /\ yes \in BOOLEAN /\ yes
      BY <1>2, <1>5 DEF LetHandleGo, FarEnough, Gripped
    <2> HIDE DEF m, yes
    <2>2. Reaches(within, m)
      BY <1>2, <1>3 DEF Reaches
    <2>3. /\ handle' \in Machines /\ backView' = handle'.back /\ handle'.pull = -1
          /\ within' \in {"none", "front", "rear"} /\ Reaches(within', handle')
          /\ handle'.direction = IF yes THEN grip.side ELSE m.direction
      BY <1>2, <1>3, <2>1, <2>2, ConsoleIs
    <2> QED
      BY <1>1, <1>2, <1>4, <1>5, <2>1, <2>3 DEF TurnInv, Turns, Reaches
  <1>6. CASE ~grip.far
    <2>1. handle' = m /\ within' = HandleReached(handle') /\ UNCHANGED backView
      BY <1>6 DEF LetHandleGo, FarEnough
    <2> HIDE DEF m
    <2>2. within' \in {"none", "front", "rear"} /\ Reaches(within', handle')
      BY <1>3, <2>1, ReachedIs
    <2> QED
      BY <1>1, <1>3, <2>1, <2>2 DEF TurnInv, Turns, Reaches
  <1> QED
    BY <1>2, <1>5, <1>6 DEF Gripped

\* A frame of the machine, and a gesture that is cancelled
LEMMA FramesKeepGrip == TurnInv /\ (TurnFrame \/ Cancelled) => TurnInv' /\ Turns
  <1> SUFFICES ASSUME TurnInv, TurnFrame \/ Cancelled PROVE TurnInv' /\ Turns
    OBVIOUS
  <1>0. handle \in Machines
    BY DEF TurnInv
  <1>1. CASE TurnFrame
    <2>1. PICK flip \in 0 .. 4 : handle' = [handle EXCEPT !.flip = flip]
      BY <1>1 DEF TurnFrame
    <2>2. within' = HandleReached(handle') /\ UNCHANGED <<grip, backView, turns>>
      BY <1>1 DEF TurnFrame
    <2>3. handle' \in Machines /\ handle'.pull = handle.pull /\ handle'.direction = handle.direction /\ handle'.back = handle.back
      BY <1>0, <2>1 DEF Machines
    <2>4. within' \in {"none", "front", "rear"} /\ Reaches(within', handle')
      BY <2>2, <2>3, ReachedIs
    <2> QED
      BY <2>2, <2>3, <2>4 DEF TurnInv, Turns, Reaches
  <1>2. CASE Cancelled
    <2>1. grip' = NoGrip /\ handle' = ReleaseHandle(handle) /\ within' = HandleReached(handle') /\ UNCHANGED <<backView, turns>>
      BY <1>2 DEF Cancelled
    <2>2. handle' \in Machines /\ handle'.pull = -1 /\ handle'.direction = handle.direction /\ handle'.back = handle.back
      BY <1>0, <2>1, ReleasedIs
    <2>3. within' \in {"none", "front", "rear"} /\ Reaches(within', handle')
      BY <2>1, <2>2, ReachedIs
    <2> QED
      BY <2>1, <2>2, <2>3 DEF TurnInv, Turns, Reaches
  <1> QED
    BY <1>1, <1>2

\* The machine shows its front, and nobody holds a handle
LEMMA TurnBegins == TurnInit => TurnInv
  <1> SUFFICES ASSUME TurnInit PROVE TurnInv
    OBVIOUS
  <1>1. grip = NoGrip /\ handle \in Machines /\ handle.pull = -1 /\ handle.flip = 0 /\ ~backView /\ ~handle.back
    <2> DEFINE none == 0
               loose == -1
               way == "left"
               no == FALSE
    <2>1. none \in 0 .. 4 /\ loose \in -1 .. 2 /\ way \in Sides /\ no \in BOOLEAN
      BY DEF Sides
    <2>2. handle = [flip |-> none, pull |-> loose, direction |-> way, back |-> no] /\ grip = NoGrip /\ ~backView
      BY DEF TurnInit
    <2>3. none = 0 /\ loose = -1 /\ ~no
      OBVIOUS
    <2> HIDE DEF none, loose, way, no
    <2>4. handle \in Machines /\ handle.flip = none /\ handle.pull = loose /\ handle.back = no
      BY <2>1, <2>2 DEF Machines
    <2> QED
      BY <2>2, <2>3, <2>4
  <1>2. handle.back \in BOOLEAN /\ backView \in BOOLEAN
    BY <1>1 DEF Machines, TurnInit
  <1>3. backView = handle.back
    <2>1. backView = FALSE /\ handle.back = FALSE
      BY DEF TurnInit
    <2> QED
      BY <2>1
  <1>4. Reaches(within, handle) /\ turns \in 0 .. MaxPulls /\ within \in {"none", "front", "rear"}
    BY <1>1, TurnAssumption DEF TurnInit, Reaches, TurnEnd
  <1> QED
    BY <1>1, <1>3, <1>4 DEF TurnInv

\* Every step of the turn keeps the invariant
LEMMA TurnStep == TurnInv /\ [TurnNext]_turnVars => TurnInv' /\ Turns
  <1> SUFFICES ASSUME TurnInv, [TurnNext]_turnVars PROVE TurnInv' /\ Turns
    OBVIOUS
  <1>1. \/ TurnFrame \/ Cancelled \/ TourFront
        \/ \E side \in Sides : PressHandle(TRUE, side) \/ PressHandle(FALSE, side)
        \/ \E side \in Sides, p \in Pointers : BeginHandle(side, p)
        \/ \E p \in Pointers : PullHandle(p)
        \/ \E p \in Pointers : LetHandleGo(p)
        \/ UNCHANGED turnVars
    BY DEF TurnNext
  <1>2. CASE UNCHANGED turnVars
    BY <1>2 DEF TurnInv, Turns, Reaches, turnVars
  <1> QED
    BY ONLY TurnInv, <1>1, <1>2, PressesKeep, BeginKeeps, PullKeepsGrip, LetGoKeeps, FramesKeepGrip

\* What the invariant says of the runs' properties
LEMMA TurnKept == TurnInv => TurnTypeOK /\ HeldByAHand /\ NothingReachedMidTurn
  BY DEF TurnInv, TurnTypeOK, HeldByAHand, NothingReachedMidTurn, Reaches, Gripped, Machines

-----------------------------------------------------------------------------
\* The bank of displays: Bank

DriverKinds == [on : BOOLEAN, light : 0 .. 2, revealed : BOOLEAN, resting : BOOLEAN]
Banks == [current : Snapshots, desired : Snapshots, powered : BOOLEAN, fitted : BOOLEAN]
GoodDriver(d) == d \in DriverKinds /\ (d.resting => d = SettleDriver(d.on))
Rack(ds) == \A m \in Modules : GoodDriver(ds[m])
SameLights(ds, old) == \A m \in Modules : ds[m].light = old[m].light
GoodBank(b) == b \in Banks /\ b.current.key = b.desired.key

BankInv ==
    /\ Rack(drivers) /\ GoodBank(bank)
    /\ words \in [Modules -> Words \union {NoWord}] /\ feeds \in 0 .. MaxFeeds
    /\ NoOldWords

\* A module at rest is dark without power
LEMMA SettledDriver ==
    ASSUME NEW on \in BOOLEAN
    PROVE  GoodDriver(SettleDriver(on)) /\ SettleDriver(on).on = on /\ (~on => SettleDriver(on).light = 0)
  BY DEF GoodDriver, DriverKinds, SettleDriver

\* The power of a module changes what it goes to, not its light
LEMMA PoweredDriver ==
    ASSUME NEW d, GoodDriver(d), NEW on \in BOOLEAN
    PROVE  GoodDriver(PowerDriver(d, on)) /\ PowerDriver(d, on).on = on /\ PowerDriver(d, on).light = d.light
  <1>1. CASE d.on = on
    BY <1>1 DEF PowerDriver
  <1>2. CASE d.on # on
    <2> DEFINE p == PowerDriver(d, on)
    <2>1. p = [[[d EXCEPT !.on = on] EXCEPT !.resting = FALSE] EXCEPT !.revealed = d.revealed /\ ~on]
      BY <1>2 DEF PowerDriver, GoodDriver, DriverKinds
    <2>2. d \in DriverKinds
      BY DEF GoodDriver
    <2> HIDE DEF p
    <2>3. p = [on |-> on, light |-> d.light, revealed |-> (d.revealed /\ ~on), resting |-> FALSE]
      BY <2>1, <2>2 DEF DriverKinds
    <2>4. GoodDriver(p) /\ p.on = on /\ p.light = d.light
      BY <2>2, <2>3 DEF GoodDriver, DriverKinds
    <2> QED
      BY <2>4 DEF p
  <1> QED
    BY <1>1, <1>2

\* A module that loads its words keeps its light
LEMMA LoadedDriver ==
    ASSUME NEW d, GoodDriver(d)
    PROVE  GoodDriver(LoadDriver(d)) /\ LoadDriver(d).light = d.light
  <1>1. CASE d.on /\ d.revealed
    <2> DEFINE p == LoadDriver(d)
    <2>1. p = [[d EXCEPT !.revealed = FALSE] EXCEPT !.resting = FALSE]
      BY <1>1 DEF LoadDriver
    <2>2. d \in DriverKinds
      BY DEF GoodDriver
    <2> HIDE DEF p
    <2>3. p = [on |-> d.on, light |-> d.light, revealed |-> FALSE, resting |-> FALSE]
      BY <2>1, <2>2 DEF DriverKinds
    <2>4. GoodDriver(p) /\ p.light = d.light
      BY <2>2, <2>3 DEF GoodDriver, DriverKinds
    <2> QED
      BY <2>4 DEF p
  <1>2. CASE ~(d.on /\ d.revealed)
    BY <1>2 DEF LoadDriver
  <1> QED
    BY <1>1, <1>2

\* A module without power that is dark stays dark
LEMMA SteppedDriver ==
    ASSUME NEW d, GoodDriver(d), NEW u \in Stepped(d)
    PROVE  GoodDriver(u) /\ (~d.on /\ d.light = 0 => u.light = 0)
  <1>0. d \in DriverKinds /\ d.on \in BOOLEAN /\ d.light \in 0 .. 2 /\ d.revealed \in BOOLEAN
    BY DEF GoodDriver, DriverKinds
  <1>1. CASE d.resting
    BY <1>1 DEF Stepped
  <1>2. CASE ~d.resting /\ u = SettleDriver(d.on)
    BY <1>0, <1>2, SettledDriver
  <1>3. CASE ~d.resting /\ u # SettleDriver(d.on)
    <2>1. u \in [on : {d.on}, light : IF d.on THEN d.light .. 2 ELSE 0 .. d.light,
                 revealed : {d.revealed, d.revealed \/ d.on}, resting : {FALSE}]
      BY <1>3 DEF Stepped
    <2>2. u.light \in 0 .. 2 /\ (~d.on /\ d.light = 0 => u.light = 0)
      BY <1>0, <2>1
    <2> QED
      BY <1>0, <2>1, <2>2 DEF GoodDriver, DriverKinds
  <1> QED
    BY <1>1, <1>2, <1>3

\* All modules get the power at once
LEMMA PoweredRack ==
    ASSUME NEW ds, Rack(ds), NEW on \in BOOLEAN
    PROVE  /\ Rack(PowerAll(ds, on)) /\ SameLights(PowerAll(ds, on), ds)
           /\ \A m \in Modules : PowerAll(ds, on)[m].on = on
  <1>1. ASSUME NEW m \in Modules
        PROVE  /\ GoodDriver(PowerAll(ds, on)[m]) /\ PowerAll(ds, on)[m].light = ds[m].light
               /\ PowerAll(ds, on)[m].on = on
    <2>1. PowerAll(ds, on)[m] = PowerDriver(ds[m], on) /\ GoodDriver(ds[m])
      BY DEF PowerAll, Rack
    <2> QED
      BY <2>1, PoweredDriver
  <1> QED
    BY <1>1 DEF Rack, SameLights

\* The bank turns to the picture that is wanted
LEMMA TurnedBank ==
    ASSUME NEW b \in Banks
    PROVE  LET t == [b EXCEPT !.current = b.desired] IN
           /\ GoodBank(t) /\ t.current = b.desired /\ t.desired = b.desired
           /\ t.powered = b.powered /\ t.fitted = b.fitted
  BY DEF GoodBank, Banks

\* What routing makes of the bus: colours change in the dark
Routed(r, b, ds, late) ==
    /\ r.bank = b \/ r.bank = [b EXCEPT !.current = b.desired]
    /\ Rack(r.drivers) /\ SameLights(r.drivers, ds)
    /\ ~b.powered => \A m \in Modules : ~r.drivers[m].on
    /\ r.bank.current.id # b.current.id => DarkAll(ds) /\ (b.powered => late)

\* What the bank makes of a change: dark modules turn, lit ones wait until they are dark
LEMMA RoutedBank ==
    ASSUME NEW b \in Banks, NEW ds, Rack(ds), NEW late \in BOOLEAN
    PROVE  Routed(RouteBank(b, ds, late), b, ds, late)
  <1> DEFINE changing == b.current.id # b.desired.id
             fed == PowerAll(ds, b.powered /\ ~changing)
             turned == [b EXCEPT !.current = b.desired]
             r == RouteBank(b, ds, late)
  <1>0. b.powered \in BOOLEAN
    BY DEF Banks
  <1>1. /\ Rack(fed) /\ SameLights(fed, ds)
        /\ \A m \in Modules : fed[m].on = (b.powered /\ ~changing)
    BY PoweredRack
  <1>2. DarkAll(fed) <=> DarkAll(ds)
    BY <1>1 DEF SameLights, DarkAll, Lighted
  <1>3. turned.current.id = b.desired.id
    BY TurnedBank
  <1>4. Rack(PowerAll(fed, TRUE)) /\ SameLights(PowerAll(fed, TRUE), fed)
    BY <1>1, PoweredRack
  <1>5. SameLights(PowerAll(fed, TRUE), ds)
    BY <1>1, <1>4 DEF SameLights
  <1>6. CASE ~b.powered
    <2>1. r = [bank |-> IF DarkAll(fed) THEN turned ELSE b, drivers |-> fed]
      BY <1>6 DEF RouteBank
    <2> HIDE DEF fed, turned, r
    <2>2. r.drivers = fed /\ r.bank = IF DarkAll(fed) THEN turned ELSE b
      BY <2>1
    <2>3. Routed(r, b, ds, late)
      BY <1>1, <1>2, <1>6, <2>2 DEF Routed, turned
    <2> QED
      BY <2>3 DEF r
  <1>7. CASE b.powered /\ ~changing
    <2>1. r = [bank |-> turned, drivers |-> fed]
      BY <1>7 DEF RouteBank
    <2>2. b.current.id = b.desired.id
      BY <1>7
    <2> HIDE DEF fed, turned, r
    <2>3. r.drivers = fed /\ r.bank = turned
      BY <2>1
    <2>4. Routed(r, b, ds, late)
      BY <1>1, <1>3, <1>7, <2>2, <2>3 DEF Routed, turned
    <2> QED
      BY <2>4 DEF r
  <1>8. CASE b.powered /\ changing
    <2>1. r = IF DarkAll(fed) /\ late THEN [bank |-> turned, drivers |-> PowerAll(fed, TRUE)]
              ELSE [bank |-> b, drivers |-> fed]
      BY <1>8 DEF RouteBank
    <2> HIDE DEF fed, turned, r
    <2>2. IF DarkAll(fed) /\ late THEN r.bank = turned /\ r.drivers = PowerAll(fed, TRUE)
          ELSE r.bank = b /\ r.drivers = fed
      BY <2>1
    <2>3. Routed(r, b, ds, late)
      BY <1>1, <1>2, <1>4, <1>5, <1>8, <2>2 DEF Routed, turned
    <2> QED
      BY <2>3 DEF r
  <1> QED
    BY <1>6, <1>7, <1>8

\* A bank that needs no motion rests on what is wanted
LEMMA RestingRack ==
    ASSUME NEW b \in Banks
    PROVE  LET x == BankAtRest(b) IN
           Rack(x.drivers) /\ GoodBank(x.bank) /\ x.bank.desired = b.desired
  <1> DEFINE x == BankAtRest(b)
  <1>1. x = [bank |-> [b EXCEPT !.current = b.desired], drivers |-> [m \in Modules |-> SettleDriver(b.powered)]]
    BY DEF BankAtRest
  <1> HIDE DEF x
  <1>2. x.bank = [b EXCEPT !.current = b.desired] /\ x.drivers = [m \in Modules |-> SettleDriver(b.powered)]
    BY <1>1
  <1>3. b.powered \in BOOLEAN
    BY DEF Banks
  <1>4. Rack(x.drivers)
    BY <1>2, <1>3, SettledDriver DEF Rack
  <1>5. GoodBank(x.bank) /\ x.bank.desired = b.desired
    BY <1>2, TurnedBank
  <1> QED
    BY <1>4, <1>5 DEF x

\* Words are printed on modules whose picture they belong to
LEMMA PrintKeeps ==
    ASSUME NEW x, NEW was \in [Modules -> Words \union {NoWord}], NEW calm, GoodBank(x.bank), Rack(x.drivers),
           PrintWords(x, was, calm)
    PROVE  /\ bank' = x.bank /\ Rack(drivers') /\ GoodBank(bank') /\ SameLights(drivers', x.drivers)
           /\ words' \in [Modules -> Words \union {NoWord}] /\ NoOldWords'
  <1>1. bank' = x.bank
    BY DEF PrintWords
  <1>2. words' = [m \in Modules |-> IF x.bank.fitted THEN x.bank.current.key ELSE was[m]]
    BY DEF PrintWords
  <1>3. x.bank.current.key \in Words /\ x.bank.current.key = x.bank.desired.key
    BY DEF GoodBank, Banks, Snapshots
  <1>4. words' \in [Modules -> Words \union {NoWord}] /\ NoOldWords'
    BY <1>1, <1>2, <1>3 DEF NoOldWords
  <1>5. ASSUME NEW m \in Modules
        PROVE  GoodDriver(drivers'[m]) /\ drivers'[m].light = x.drivers[m].light
    <2>1. drivers'[m] = x.drivers[m] \/ drivers'[m] = LoadDriver(x.drivers[m])
      BY DEF PrintWords
    <2>2. GoodDriver(x.drivers[m])
      BY DEF Rack
    <2> QED
      BY <2>1, <2>2, LoadedDriver
  <1> QED
    BY <1>1, <1>4, <1>5 DEF Rack, SameLights

\* The colours on the modules change in the dark
InTheDark == bank'.current.id # bank.current.id /\ ~still' => \A m \in Modules : ~Lighted(drivers'[m])

\* Modules whose lights stayed are dark when they were
LEMMA DarkLights ==
    ASSUME NEW ds, NEW old, SameLights(ds, old), DarkAll(old)
    PROVE  \A m \in Modules : ~Lighted(ds[m])
  BY DEF SameLights, DarkAll, Lighted

\* A render of the page reaches the bank
LEMMA FeedKeeps == BankInv /\ FeedBank => BankInv' /\ InTheDark
  <1> SUFFICES ASSUME BankInv, FeedBank PROVE BankInv' /\ InTheDark
    OBVIOUS
  <1>1. feeds < MaxFeeds /\ feeds' = feeds + 1
    BY DEF FeedBank
  <1>2. PICK next \in Snapshots, powered \in BOOLEAN, fitted \in BOOLEAN, calm \in BOOLEAN :
          LET ds == IF fitted # bank.fitted THEN Fit(powered, calm) ELSE drivers
              was == IF fitted # bank.fitted THEN [m \in Modules |-> NoWord] ELSE words
          IN  /\ still' = calm
              /\ \E r \in {RouteBank([bank EXCEPT !.desired = next, !.powered = powered /\ fitted, !.fitted = fitted], ds, FALSE)} :
                    LET b == IF next.key # bank.desired.key THEN Concealed(r.bank, next.key) ELSE r.bank
                    IN  PrintWords(IF calm THEN BankAtRest(b) ELSE [bank |-> b, drivers |-> r.drivers], was, calm)
    BY DEF FeedBank
  <1> DEFINE ds == IF fitted # bank.fitted THEN Fit(powered, calm) ELSE drivers
             was == IF fitted # bank.fitted THEN [m \in Modules |-> NoWord] ELSE words
             told == [bank EXCEPT !.desired = next, !.powered = powered /\ fitted, !.fitted = fitted]
             r == RouteBank(told, ds, FALSE)
             b == IF next.key # bank.desired.key THEN Concealed(r.bank, next.key) ELSE r.bank
             x == IF calm THEN BankAtRest(b) ELSE [bank |-> b, drivers |-> r.drivers]
  <1>3. still' = calm /\ PrintWords(x, was, calm)
    BY <1>2
  <1>4. bank \in Banks /\ bank.current.key = bank.desired.key
    BY DEF BankInv, GoodBank
  <1>5. was \in [Modules -> Words \union {NoWord}]
    BY DEF BankInv
  <1>6. Rack(ds)
    <2>1. Rack(Fit(powered, calm))
      <3>1. ASSUME NEW m \in Modules PROVE GoodDriver(Fit(powered, calm)[m])
        <4>1. Fit(powered, calm)[m] = IF calm THEN SettleDriver(powered) ELSE PowerDriver(SettleDriver(FALSE), powered)
          BY DEF Fit
        <4> QED
          BY <4>1, SettledDriver, PoweredDriver
      <3> QED
        BY <3>1 DEF Rack
    <2> QED
      BY <2>1 DEF BankInv
  <1>7. told = [current |-> bank.current, desired |-> next, powered |-> (powered /\ fitted), fitted |-> fitted]
    <2> DEFINE live == powered /\ fitted
    <2>1. told = [[[bank EXCEPT !.desired = next] EXCEPT !.powered = live] EXCEPT !.fitted = fitted]
      OBVIOUS
    <2> HIDE DEF told, live
    <2>2. told = [current |-> bank.current, desired |-> next, powered |-> live, fitted |-> fitted]
      BY <1>4, <2>1 DEF Banks
    <2> QED
      BY <2>2 DEF live
  <1> HIDE DEF told, ds, was
  <1>8. told \in Banks /\ told.current = bank.current /\ told.desired = next
    BY <1>4, <1>7 DEF Banks
  <1>9. Routed(r, told, ds, FALSE)
    BY <1>6, <1>8, RoutedBank
  <1> HIDE DEF r
  <1>10. /\ r.bank \in Banks /\ r.bank.desired = next
         /\ r.bank.current = bank.current \/ r.bank.current = next
    BY <1>8, <1>9, TurnedBank DEF Routed, GoodBank
  <1>11. GoodBank(b) /\ b.desired = next /\ b.current.id = r.bank.current.id
    <2>1. CASE next.key # bank.desired.key
      <3>1. b = [r.bank EXCEPT !.current.key = next.key]
        BY <2>1 DEF Concealed
      <3> DEFINE pic == [r.bank.current EXCEPT !.key = next.key]
      <3>2. r.bank.current \in Snapshots /\ next.key \in Words
        BY <1>10 DEF Banks, Snapshots
      <3>3. pic \in Snapshots /\ pic.key = next.key /\ pic.id = r.bank.current.id
        BY <3>2 DEF Snapshots
      <3>4. b = [current |-> pic, desired |-> r.bank.desired, powered |-> r.bank.powered, fitted |-> r.bank.fitted]
        BY <1>10, <3>1 DEF Banks
      <3> HIDE DEF b, pic
      <3>5. b.current = pic /\ b.desired = next
        BY <1>10, <3>4
      <3>6. b \in Banks
        BY <1>10, <3>3, <3>4 DEF Banks
      <3> QED
        BY <3>3, <3>5, <3>6 DEF GoodBank
    <2>2. CASE next.key = bank.desired.key
      BY <1>4, <1>10, <2>2 DEF GoodBank
    <2> QED
      BY <2>1, <2>2
  <1> HIDE DEF b
  <1>12. GoodBank(x.bank) /\ Rack(x.drivers)
    <2>1. CASE calm
      <3>1. x = BankAtRest(b)
        BY <2>1
      <3>2. b \in Banks
        BY <1>11 DEF GoodBank
      <3> HIDE DEF x
      <3> QED
        BY <3>1, <3>2, RestingRack
    <2>2. CASE ~calm
      <3>1. x.bank = b /\ x.drivers = r.drivers
        BY <2>2
      <3> HIDE DEF x
      <3> QED
        BY <1>9, <1>11, <3>1 DEF Routed
    <2> QED
      BY <2>1, <2>2
  <1>13. ASSUME ~calm PROVE x.bank = b /\ x.drivers = r.drivers
    BY <1>13
  <1> HIDE DEF x
  <1>14. /\ bank' = x.bank /\ Rack(drivers') /\ GoodBank(bank') /\ SameLights(drivers', x.drivers)
         /\ words' \in [Modules -> Words \union {NoWord}] /\ NoOldWords'
    BY <1>3, <1>5, <1>12, PrintKeeps
  <1>15. BankInv'
    BY <1>1, <1>14, BankAssumption DEF BankInv
  <1>16. ASSUME bank'.current.id # bank.current.id, ~still' PROVE \A m \in Modules : ~Lighted(drivers'[m])
    <2>1. bank'.current.id = r.bank.current.id
      BY <1>3, <1>11, <1>13, <1>14, <1>16
    <2>2. DarkAll(ds) /\ SameLights(r.drivers, ds)
      BY <1>8, <1>9, <1>16, <2>1 DEF Routed
    <2>3. SameLights(drivers', ds)
      BY <1>3, <1>13, <1>14, <1>16, <2>2 DEF SameLights
    <2> QED
      BY <2>2, <2>3, DarkLights
  <1> QED
    BY <1>15, <1>16 DEF InTheDark

\* A frame of the bank
LEMMA BankFrameKeeps == BankInv /\ FrameDue => BankInv' /\ InTheDark
  <1> SUFFICES ASSUME BankInv, FrameDue PROVE BankInv' /\ InTheDark
    OBVIOUS
  <1>1. PICK late \in BOOLEAN : FrameOf(late)
    BY DEF FrameDue
  <1>2. bank.fitted /\ still' = still /\ feeds' = feeds
    BY <1>1 DEF FrameOf
  <1>3. bank \in Banks /\ bank.current.key = bank.desired.key /\ words \in [Modules -> Words \union {NoWord}]
    BY DEF BankInv, GoodBank
  <1>4. CASE still
    <2> DEFINE x == BankAtRest(bank)
    <2>1. PrintWords(x, words, TRUE)
      BY <1>1, <1>4 DEF FrameOf
    <2>2. GoodBank(x.bank) /\ Rack(x.drivers)
      BY <1>3, RestingRack
    <2> HIDE DEF x
    <2>3. /\ Rack(drivers') /\ GoodBank(bank') /\ NoOldWords'
          /\ words' \in [Modules -> Words \union {NoWord}]
      BY <1>3, <2>1, <2>2, PrintKeeps
    <2> QED
      BY <1>2, <1>4, <2>3 DEF BankInv, InTheDark
  <1>5. CASE ~still
    <2> DEFINE first == RouteBank(bank, drivers, FALSE)
    <2>1. PICK ds \in [Modules -> UNION {Stepped(first.drivers[m]) : m \in Modules}] :
             /\ \A m \in Modules : ds[m] \in Stepped(first.drivers[m])
             /\ \E x \in {RouteBank(first.bank, ds, late)} : PrintWords(x, words, FALSE)
      BY <1>1, <1>5 DEF FrameOf
    <2> DEFINE x == RouteBank(first.bank, ds, late)
    <2>2. PrintWords(x, words, FALSE)
      BY <2>1
    <2>3. Routed(first, bank, drivers, FALSE)
      BY <1>3, RoutedBank DEF BankInv
    <2>4. \A m \in Modules : ds[m] \in Stepped(first.drivers[m])
      BY <2>1
    <2> HIDE DEF first
    <2>5. /\ first.bank \in Banks /\ first.bank.desired = bank.desired /\ first.bank.powered = bank.powered
          /\ GoodBank(first.bank)
      BY <1>3, <2>3, TurnedBank DEF Routed, GoodBank
    <2>6. Rack(ds)
      BY <2>3, <2>4, SteppedDriver DEF Rack, Routed
    <2>7. Routed(x, first.bank, ds, late)
      BY <2>5, <2>6, RoutedBank
    <2> HIDE DEF x
    <2>8. GoodBank(x.bank) /\ Rack(x.drivers)
      BY <2>5, <2>7, TurnedBank DEF Routed, GoodBank
    <2>9. /\ bank' = x.bank /\ Rack(drivers') /\ GoodBank(bank') /\ SameLights(drivers', x.drivers)
          /\ words' \in [Modules -> Words \union {NoWord}] /\ NoOldWords'
      BY <1>3, <2>2, <2>8, PrintKeeps
    <2>10. BankInv'
      BY <1>2, <2>9 DEF BankInv
    <2>11. ASSUME bank'.current.id # bank.current.id PROVE DarkAll(ds)
      <3>1. CASE first.bank.current.id # bank.current.id
        <4>1. DarkAll(drivers) /\ ~bank.powered
          BY <2>3, <3>1 DEF Routed
        <4>2. ASSUME NEW m \in Modules PROVE ~Lighted(ds[m])
          <5>1. ~first.drivers[m].on /\ first.drivers[m].light = drivers[m].light /\ GoodDriver(first.drivers[m])
            BY <2>3, <4>1 DEF Routed, SameLights, Rack
          <5>2. drivers[m].light \in 0 .. 2 /\ ~(drivers[m].light > 0)
            BY <4>1 DEF DarkAll, Lighted, BankInv, Rack, GoodDriver, DriverKinds
          <5>3. ds[m] \in Stepped(first.drivers[m])
            BY <2>4
          <5>4. ds[m].light = 0
            BY <5>1, <5>2, <5>3, SteppedDriver
          <5> QED
            BY <5>4 DEF Lighted
        <4> QED
          BY <4>2 DEF DarkAll
      <3>2. CASE first.bank.current.id = bank.current.id
        BY <2>7, <2>9, <2>11, <3>2 DEF Routed
      <3> QED
        BY <3>1, <3>2
    <2>12. SameLights(drivers', ds)
      BY <2>7, <2>9 DEF Routed, SameLights
    <2> QED
      BY <2>10, <2>11, <2>12, DarkLights DEF InTheDark
  <1> QED
    BY <1>4, <1>5

\* Every step of the bank keeps the invariant, and changes colours in the dark
LEMMA BankStep == BankInv /\ [BankNext]_bankVars => BankInv' /\ InTheDark
  <1>1. CASE UNCHANGED bankVars
    BY <1>1 DEF bankVars, BankInv, Rack, GoodBank, NoOldWords, InTheDark
  <1> QED
    BY <1>1, FeedKeeps, BankFrameKeeps DEF BankNext

\* The bank rests
LEMMA BankBegins == BankInit => BankInv
  <1> SUFFICES ASSUME BankInit PROVE BankInv
    OBVIOUS
  <1>1. PICK picture \in Snapshots, powered \in BOOLEAN :
          /\ bank = [current |-> picture, desired |-> picture, powered |-> powered, fitted |-> TRUE]
          /\ drivers = [m \in Modules |-> SettleDriver(powered)]
          /\ words = [m \in Modules |-> picture.key]
    BY DEF BankInit
  <1>2. Rack(drivers)
    BY <1>1, SettledDriver DEF Rack
  <1>3. GoodBank(bank) /\ bank.fitted /\ bank.desired.key = picture.key /\ picture.key \in Words
    BY <1>1 DEF GoodBank, Banks, Snapshots
  <1>4. feeds \in 0 .. MaxFeeds
    BY BankAssumption DEF BankInit
  <1> QED
    BY <1>1, <1>2, <1>3, <1>4 DEF BankInv, NoOldWords

\* What the invariant says of the runs' properties
LEMMA BankKept == BankInv => BankTypeOK /\ NoOldWords
  BY DEF BankInv, BankTypeOK, Rack, GoodDriver, DriverKinds, GoodBank, Banks

-----------------------------------------------------------------------------
\* The console

\* The invariants of its parts: a part is where its own steps may bring it
ConsoleInv ==
    /\ ArchiveInv /\ DiskInv /\ HandInv /\ TubeInv /\ SpeakerInv /\ MusicInv /\ PanelInv
    /\ TourInv /\ TurnInv /\ BankInv

\* What no step of a part does
ConsoleStep ==
    /\ [LengthStays]_archiveVars /\ [StaysPut /\ Noticed /\ Unclicked]_diskVars /\ [Waits]_tubeVars
    /\ [Unseen]_panelVars /\ [Turns]_turnVars /\ [InTheDark]_bankVars

\* Every part begins within its invariant
LEMMA ConsoleBegins == ConsoleInit => ConsoleInv
  BY ArchiveBegins, KeyDiskBegins, TubeInitInv, SpeakerBegins, MusicBegins, PanelBegins, TourBegins, TurnBegins, BankBegins
     DEF ConsoleInit, ConsoleInv

\* A step of the console is a step of each part or leaves it alone
LEMMA PartsStep ==
    ASSUME [ConsoleNext]_consoleVars
    PROVE  /\ [ArchiveNext]_archiveVars /\ [KeyDiskNext]_diskVars /\ [TubeNext]_tubeVars /\ [SpeakerNext]_speakerVars
           /\ [MusicNext]_musicVars /\ [PanelNext]_panelVars /\ [TourNext]_tourVars /\ [TurnNext]_turnVars
           /\ [BankNext]_bankVars
  <1>1. CASE UNCHANGED consoleVars
    BY <1>1 DEF consoleVars
  <1>2. CASE ConsoleNext
    BY <1>2 DEF ConsoleNext, ArchiveAlone, DiskAlone, TubeAlone, SpeakerAlone, MusicAlone, PanelAlone, TourAlone,
                TurnAlone, BankAlone
  <1> QED
    BY <1>1, <1>2

\* Every step of the console keeps the invariants of its parts
LEMMA ConsoleKeeps == ConsoleInv /\ [ConsoleNext]_consoleVars => ConsoleInv' /\ ConsoleStep
  <1> SUFFICES ASSUME ConsoleInv, [ConsoleNext]_consoleVars PROVE ConsoleInv' /\ ConsoleStep
    OBVIOUS
  <1>1. /\ [ArchiveNext]_archiveVars /\ [KeyDiskNext]_diskVars /\ [TubeNext]_tubeVars /\ [SpeakerNext]_speakerVars
        /\ [MusicNext]_musicVars /\ [PanelNext]_panelVars /\ [TourNext]_tourVars /\ [TurnNext]_turnVars
        /\ [BankNext]_bankVars
    BY PartsStep
  <1>2. ArchiveInv' /\ LengthStays
    BY <1>1, ArchiveStep DEF ConsoleInv
  <1>3. DiskInv' /\ HandInv' /\ StaysPut /\ Noticed /\ Unclicked
    BY <1>1, KeyDiskStep DEF ConsoleInv
  <1>4. TubeInv' /\ Waits
    BY <1>1, TubeStep DEF ConsoleInv
  <1>5. SpeakerInv'
    BY <1>1, SpeakerStep DEF ConsoleInv
  <1>6. MusicInv'
    BY <1>1, MusicStep DEF ConsoleInv
  <1>7. PanelInv' /\ Unseen
    BY <1>1, PanelStep DEF ConsoleInv
  <1>8. TourInv'
    BY <1>1, TourStep DEF ConsoleInv
  <1>9. TurnInv' /\ Turns
    BY <1>1, TurnStep DEF ConsoleInv
  <1>10. BankInv' /\ InTheDark
    BY <1>1, BankStep DEF ConsoleInv
  <1> QED
    BY <1>2, <1>3, <1>4, <1>5, <1>6, <1>7, <1>8, <1>9, <1>10 DEF ConsoleInv, ConsoleStep

\* The console is always within the invariants of its parts
THEOREM ConsoleInvariant == ConsoleSpec => []ConsoleInv
  BY ConsoleBegins, ConsoleKeeps, PTL DEF ConsoleSpec

\* Nothing can be read by somebody it is not for, in whatever order renders, frames
\* and power changes come (crtMotion.ts, displayBank.ts, keyDisk.ts)
THEOREM DarkSecrets == ConsoleSpec => []SecretsStayDark
  <1>1. ConsoleInv => SecretsStayDark
    BY TubeInvKept, BankKept, KeyDiskKept DEF ConsoleInv, SecretsStayDark
  <1> QED
    BY <1>1, ConsoleInvariant, PTL

\* Each thing that is heard, lit or told answers one event, once (crtSound.ts,
\* sound.ts, music.ts, scoreFlagMotion.ts, scoreFeedback.ts, OperationTour.tsx)
THEOREM AnsweredEvents == ConsoleSpec => []EffectsAnswerEvents
  <1>1. ConsoleInv => EffectsAnswerEvents
    BY TubeInvKept, SpeakerKept, MusicKept, PanelKept, TourKept DEF ConsoleInv, EffectsAnswerEvents
  <1> QED
    BY <1>1, ConsoleInvariant, PTL

\* What sounds was asked for since the last silence, with the gates open (sound.ts,
\* crtSound.ts, music.ts)
THEOREM PresentSounds == ConsoleSpec => []SoundsAreOfNow
  <1>1. ConsoleInv => SoundsAreOfNow
    BY TubeInvKept, SpeakerKept, MusicKept DEF ConsoleInv, SoundsAreOfNow
  <1> QED
    BY <1>1, ConsoleInvariant, PTL

\* Paper, disks, handles and faces move as a whole and never jump, and pictures,
\* names and colours change out of sight (tearing.ts, model.ts, Controls.tsx,
\* crtMotion.ts, rosterMotion.ts, displayBank.ts)
THEOREM WholeMoves == ConsoleSpec => MovesAreWhole
  <1>1. ConsoleInv => /\ ArchiveTypeOK /\ KeyDiskTypeOK /\ TubeTypeOK /\ SpeakerTypeOK /\ MusicTypeOK
                      /\ PanelTypeOK /\ TourTypeOK /\ TurnTypeOK /\ BankTypeOK
    BY ArchiveKept, KeyDiskKept, TubeInvKept, SpeakerKept, MusicKept, PanelKept, TourKept, TurnKept, BankKept DEF ConsoleInv
  <1>2. ConsoleInv => ReaderHasItsStock /\ FadesOnlyDetached /\ OutWhileOut /\ HeldByAHand /\ NothingReachedMidTurn
    BY ArchiveKept, KeyDiskKept, TurnKept DEF ConsoleInv
  <1>3. ConsoleSpec => StockKeepsItsLength
    <2>1. ConsoleInv /\ [ConsoleNext]_consoleVars =>
            [receipt'.phase \in {"reading", "tearing"} /\ receipt.phase \in {"feeding", "reading", "tearing"}
               /\ ~(receipt.phase = "tearing" /\ receipt'.phase = "reading")
               => receipt'.length = receipt.length]_archiveVars
      BY ConsoleKeeps DEF ConsoleStep, LengthStays
    <2> QED
      BY <2>1, ConsoleInvariant, PTL DEF ConsoleSpec, StockKeepsItsLength
  <1>4. ConsoleSpec => NoticeIsRead /\ PulledIsNoClick /\ NeverJumps
    <2>1. ConsoleInv /\ [ConsoleNext]_consoleVars => [Noticed]_diskVars /\ [Unclicked]_diskVars /\ [StaysPut]_diskVars
      BY ConsoleKeeps DEF ConsoleStep
    <2> QED
      BY <2>1, ConsoleInvariant, PTL DEF ConsoleSpec, NoticeIsRead, PulledIsNoClick, NeverJumps, Noticed, Unclicked, StaysPut
  <1>5. ConsoleSpec => TurnsOneWay /\ OnlyAPullTurns
    <2>1. ConsoleInv /\ [ConsoleNext]_consoleVars =>
            /\ [handle'.direction # handle.direction => handle.flip \in {0, 4} \/ grip.stale]_turnVars
            /\ [backView' # backView /\ grip # NoGrip /\ grip' = NoGrip => grip.far]_turnVars
      BY ConsoleKeeps DEF ConsoleStep, Turns
    <2> QED
      BY <2>1, ConsoleInvariant, PTL DEF ConsoleSpec, TurnsOneWay, OnlyAPullTurns
  <1>6. ConsoleSpec => PictureWaits /\ NamesChangeUnseen /\ ColoursChangeInTheDark
    <2>1. ConsoleInv /\ [ConsoleNext]_consoleVars => [Waits]_tubeVars /\ [Unseen]_panelVars /\ [InTheDark]_bankVars
      BY ConsoleKeeps DEF ConsoleStep
    <2> QED
      BY <2>1, ConsoleInvariant, PTL DEF ConsoleSpec, PictureWaits, NamesChangeUnseen, ColoursChangeInTheDark, Waits, Unseen, InTheDark
  <1> QED
    BY <1>1, <1>2, <1>3, <1>4, <1>5, <1>6, ConsoleInvariant, PTL DEF MovesAreWhole
=============================================================================
