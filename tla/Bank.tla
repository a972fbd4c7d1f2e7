-------------------------------- MODULE Bank --------------------------------
(***************************************************************************)
(* The LED keyword modules (dotMatrix.ts), whose drivers share one palette *)
(* bus, as displays.ts feeds and moves them.                               *)
(*                                                                         *)
(* A driver is the supply it was told, its light (0 dark, 1 lit, 2 at its  *)
(* goal) and whether its word is clocked in; how long a stage takes is     *)
(* left open, so a frame brings a driver anywhere on its way.              *)
(***************************************************************************)
EXTENDS Integers

CONSTANTS Modules,   \* the keyword windows
          Inks,      \* palettes
          Words,     \* what may be shown: a privacy key stands for its words
          MaxFeeds   \* bound: updates from the page

ASSUME BankAssumption == MaxFeeds \in Nat

VARIABLES
    drivers, \* module -> on, light, revealed, resting (DotDriver)
    bank,    \* current and desired picture, powered (DotBank); fitted: LED or picture tubes
    words, \* module -> the words last printed on it
    still,   \* reduced motion, of the last update
    feeds    \* updates so far

bankVars == <<drivers, bank, words, still, feeds>>

Snapshots == [id : Inks, key : Words]
NoWord == "blank"

-----------------------------------------------------------------------------
\* DotDriver

SettleDriver(on) == [on |-> on, light |-> IF on THEN 2 ELSE 0, revealed |-> on, resting |-> TRUE]

PowerDriver(d, on) == IF d.on = on THEN d ELSE [d EXCEPT !.on = on, !.resting = FALSE, !.revealed = @ /\ ~on]

\* A driver that is clocking a word in does not begin again
LoadDriver(d) == IF d.on /\ d.revealed THEN [d EXCEPT !.revealed = FALSE, !.resting = FALSE] ELSE d

Lighted(d) == d.light > 0

\* Where one frame may bring a driver that does not rest
Stepped(d) ==
    IF d.resting THEN {d}
    ELSE {SettleDriver(d.on)} \union
         [on : {d.on}, light : IF d.on THEN d.light .. 2 ELSE 0 .. d.light,
          revealed : {d.revealed, d.revealed \/ d.on}, resting : {FALSE}]

-----------------------------------------------------------------------------
\* DotBank: late says whether the bus has been dark for its beat

PowerAll(ds, on) == [m \in Modules |-> PowerDriver(ds[m], on)]

DarkAll(ds) == \A m \in Modules : ~Lighted(ds[m])

\* Colours are exchanged only when every module is dark, and on a powered bus after a beat of that
RouteBank(b, ds, late) ==
    LET changing == b.current.id # b.desired.id
        fed == PowerAll(ds, b.powered /\ ~changing)
        turned == [b EXCEPT !.current = b.desired]
    IN  CASE ~b.powered -> [bank |-> IF DarkAll(fed) THEN turned ELSE b, drivers |-> fed]
          [] b.powered /\ ~changing -> [bank |-> turned, drivers |-> fed]
          [] OTHER -> IF DarkAll(fed) /\ late THEN [bank |-> turned, drivers |-> PowerAll(fed, TRUE)]
                      ELSE [bank |-> b, drivers |-> fed]

\* Reduced motion: what is wanted, at once
BankAtRest(b) == [bank |-> [b EXCEPT !.current = b.desired], drivers |-> [m \in Modules |-> SettleDriver(b.powered)]]

-----------------------------------------------------------------------------
\* Displays

\* The picture the bank lets through is printed; new words on a live module are clocked in
PrintWords(x, was, reduced) ==
    /\ bank' = x.bank
    /\ words' = [m \in Modules |-> IF x.bank.fitted THEN x.bank.current.key ELSE was[m]]
    /\ drivers' = [m \in Modules |->
          IF x.bank.fitted /\ was[m] \notin {NoWord, x.bank.current.key} /\ x.drivers[m].on /\ ~reduced
          THEN LoadDriver(x.drivers[m]) ELSE x.drivers[m]]

\* Words a player may no longer see leave even the outgoing picture
Concealed(b, key) == [b EXCEPT !.current.key = key]

\* Modules newly fitted start from cold
Fit(powered, reduced) == [m \in Modules |-> IF reduced THEN SettleDriver(powered) ELSE PowerDriver(SettleDriver(FALSE), powered)]

FeedBank ==
    /\ feeds < MaxFeeds /\ feeds' = feeds + 1
    /\ \E next \in Snapshots, powered, fitted, reduced \in BOOLEAN :
          LET ds == IF fitted # bank.fitted THEN Fit(powered, reduced) ELSE drivers
              was == IF fitted # bank.fitted THEN [m \in Modules |-> NoWord] ELSE words
          IN  /\ still' = reduced
              /\ \E r \in {RouteBank([bank EXCEPT !.desired = next, !.powered = powered /\ fitted, !.fitted = fitted], ds, FALSE)} :
                    LET b == IF next.key # bank.desired.key THEN Concealed(r.bank, next.key) ELSE r.bank
                    IN  PrintWords(IF reduced THEN BankAtRest(b) ELSE [bank |-> b, drivers |-> r.drivers], was, reduced)

\* tick: route, step every driver, route again; modules that are not fitted stand still
FrameOf(late) ==
    /\ bank.fitted
    /\ IF still THEN PrintWords(BankAtRest(bank), words, TRUE)
       ELSE \E first \in {RouteBank(bank, drivers, FALSE)} :
            \E ds \in [Modules -> UNION {Stepped(first.drivers[m]) : m \in Modules}] :
               /\ \A m \in Modules : ds[m] \in Stepped(first.drivers[m])
               /\ \E x \in {RouteBank(first.bank, ds, late)} : PrintWords(x, words, FALSE)
    /\ UNCHANGED <<still, feeds>>

FrameDue == \E late \in BOOLEAN : FrameOf(late)

\* A frame that ends whatever is under way: the loop runs while a module changes
BankEnded == FrameOf(TRUE) /\ (\A m \in Modules : drivers'[m].resting \/ drivers'[m].on # drivers[m].on) /\ <<drivers, bank>>' # <<drivers, bank>>

BankInit ==
    /\ \E picture \in Snapshots, powered \in BOOLEAN :
          /\ bank = [current |-> picture, desired |-> picture, powered |-> powered, fitted |-> TRUE]
          /\ drivers = [m \in Modules |-> SettleDriver(powered)]
          /\ words = [m \in Modules |-> picture.key]
    /\ still \in BOOLEAN /\ feeds = 0

BankNext == FeedBank \/ FrameDue

BankSpec == BankInit /\ [][BankNext]_bankVars /\ WF_bankVars(BankEnded)

-----------------------------------------------------------------------------
\* Properties

\* What the modules keep is of these shapes, and a driver at rest is at its goal.
BankTypeOK ==
    /\ \A m \in Modules :
          /\ drivers[m] \in [on : BOOLEAN, light : 0 .. 2, revealed : BOOLEAN, resting : BOOLEAN]
          /\ drivers[m].resting => drivers[m] = SettleDriver(drivers[m].on)
    /\ bank \in [current : Snapshots, desired : Snapshots, powered : BOOLEAN, fitted : BOOLEAN]
    /\ words \in [Modules -> Words \union {NoWord}] /\ feeds \in 0 .. MaxFeeds

\* No module shows words its reader may not see any more, whatever the bus waits for.
NoOldWords == bank.fitted => \A m \in Modules : words[m] = bank.desired.key

\* The modules change colour together, and only while all of them are dark.
ColoursChangeInTheDark ==
    [][bank'.current.id # bank.current.id /\ ~still' => \A m \in Modules : ~Lighted(drivers'[m])]_bankVars

\* However the mains, the palette and the words change meanwhile, fitted modules
\* come to rest on the latest picture, lit exactly when they are powered.
BankComesUp ==
    <>[](bank.fitted => /\ bank.current = bank.desired
                        /\ \A m \in Modules : drivers[m] = SettleDriver(bank.powered))
=============================================================================
