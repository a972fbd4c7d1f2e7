------------------------------ MODULE KeyDisk ------------------------------
(***************************************************************************)
(* The encryptor's key disk on the console (console/model.ts, useKeyDisk   *)
(* of console/hooks.ts, console/useDiskPull.ts): delivered once the machine *)
(* is there, moved on by timers, read while there is electricity, and      *)
(* taken out by hand.  A moment of the disk is kept as the time since it   *)
(* entered its phase, and the time that had passed when it was paused.     *)
(***************************************************************************)
EXTENDS Integers

CONSTANT MaxDisks   \* the rounds this seat encrypts: a bound

ASSUME KeyDiskAssumption == MaxDisks \in Nat

VARIABLES
    env,        \* what the disk goes by: see Environments
    reduced,    \* the player asks for reduced motion
    disk,       \* the disk of the page
    diskOut,    \* the flag the displays go by
    hand,       \* the gesture in progress, with its own copy of the disk
    pressed,    \* the pointer is down on the disk
    clickDue,   \* the click that follows the pointer's release
    suppress,   \* that click is not one (useDiskPull.suppressClick)
    seen,       \* ghost: how long the role notice was seen
    read,       \* ghost: how long the disk has been read with power
    tap         \* ghost: the press neither moved the disk nor was cancelled

diskVars == <<env, reduced, disk, diskOut, hand, pressed, clickDue, suppress, seen, read, tap>>

\* The round whose disk this seat holds (keyDiskIdentity, 0 for none), whether
\* its clues are still being written, the power, the cable and the connection,
\* whether the page is seen with no dialog over it, whether the machine is there
Environments == [round : 0 .. MaxDisks, writing : BOOLEAN, powered : BOOLEAN,
                 linked : BOOLEAN, shown : BOOLEAN, loaded : BOOLEAN]

Online(e) == e.powered /\ e.linked

-----------------------------------------------------------------------------
\* The disk by itself (model.ts)

\* The notice lasts longer than one movement; the unit is one of those
Time == [announcing |-> 2, arriving |-> 1, returning |-> 1, inserting |-> 1,
         reading |-> 1, ejecting |-> 1, settling |-> 1]
Phases == {"absent", "queued", "ready", "ejected", "removed", "pulling"} \cup DOMAIN Time

None == -1
NoPull == [origin |-> "none", amount |-> 0, target |-> None]
EmptyKeyDisk == [id |-> 0, phase |-> "absent", age |-> 0, held |-> None, pull |-> NoPull]
Entered(d, phase) == [d EXCEPT !.phase = phase, !.age = 0]
Fresh(id, phase) == [EmptyKeyDisk EXCEPT !.id = id, !.phase = phase]

SyncKeyDisk(d, id, available, calm, announce) ==
    LET own == IF d.id = id THEN d ELSE Fresh(id, "queued") IN
    IF id = 0 THEN EmptyKeyDisk
    ELSE IF own.phase = "queued" /\ available
    THEN Fresh(id, IF announce THEN "announcing" ELSE IF calm THEN "ready" ELSE "arriving")
    ELSE own

Resting(target) == CASE target = 2 -> "removed" [] target = 1 -> "ejected" [] OTHER -> "reading"

\* Reduced motion removes the movement, not the time to read the role notice
AdvanceKeyDisk(d, calm) ==
    LET over == d.phase \in DOMAIN Time /\ d.age >= Time[d.phase] IN
    IF d.held # None \/ d.phase \notin DOMAIN Time THEN d
    ELSE IF d.phase = "announcing"
         THEN IF over THEN Entered(d, IF calm THEN "ready" ELSE "arriving") ELSE d
    ELSE IF ~calm /\ ~over THEN d
    ELSE IF d.phase = "settling" THEN Fresh(d.id, Resting(d.pull.target))
    ELSE IF d.phase = "ejecting" THEN Entered(d, "ejected")
    ELSE IF calm \/ d.phase = "reading" THEN Entered(d, "ready")
    ELSE Entered(d, IF d.phase \in {"arriving", "returning"} THEN "inserting" ELSE "reading")

\* Where the hand can take the disk
Loose == {"ready", "reading", "ejected", "removed"}

PullKeyDisk(d, amount) ==
    CASE d.phase = "pulling" -> [d EXCEPT !.pull.amount = amount]
      [] d.phase \in Loose ->
            [Entered(d, "pulling") EXCEPT !.pull = [origin |-> d.phase, amount |-> amount, target |-> None]]
      [] OTHER -> d

ReleaseKeyDisk(d, cancelled, calm) ==
    LET target == IF ~cancelled THEN d.pull.amount
                  ELSE CASE d.pull.origin = "removed" -> 2 [] d.pull.origin = "ejected" -> 1 [] OTHER -> 0
    IN  IF d.phase # "pulling" THEN d
        ELSE IF calm THEN Fresh(d.id, Resting(target))
        ELSE [Entered(d, "settling") EXCEPT !.pull.target = target]

ActKeyDisk(d, eject, calm) ==
    CASE eject /\ d.phase \in {"ready", "reading"} -> Entered(d, IF calm THEN "ejected" ELSE "ejecting")
      [] ~eject /\ d.phase = "ejected" -> Entered(d, IF calm THEN "ready" ELSE "inserting")
      [] ~eject /\ d.phase = "removed" -> Entered(d, IF calm THEN "ready" ELSE "returning")
      [] OTHER -> d

Paused(d) == IF d.held = None THEN [d EXCEPT !.held = d.age] ELSE d
Resumed(d) == IF d.held = None THEN d ELSE [d EXCEPT !.age = d.held, !.held = None]

\* The role notice only spends its reading time while the player can see it
SyncDiskPresentation(d, visible) ==
    IF d.phase # "announcing" THEN d ELSE IF visible THEN Resumed(d) ELSE Paused(d)

\* Only the read head needs electricity; handling and ejection stay mechanical
SyncDiskPower(d, power) ==
    IF d.phase = "announcing" THEN d
    ELSE IF ~power /\ d.phase = "ready" THEN [Entered(d, "reading") EXCEPT !.held = 0]
    ELSE IF d.phase # "reading" THEN [d EXCEPT !.held = None]
    ELSE IF power THEN Resumed(d) ELSE Paused(d)

\* Where the disk is drawn (mechanics.ts, parts/diskDrive.ts): 0 in its seat, 1
\* where the spring leaves it, 2 clear of the drive, as a pull counts; beside the
\* machine, where its delivery begins; in the close-up; or nowhere
Beside == 3
CloseUp == 4
Nowhere == 5

Elapsed(d) == d.phase \in DOMAIN Time /\ d.age >= Time[d.phase]
InsertPose(d) == IF Elapsed(d) THEN 0 ELSE 1
EjectPose(d) == IF Elapsed(d) THEN 1 ELSE 0

KeyDiskPose(d) ==
    CASE d.phase \in {"absent", "queued"} -> Nowhere
      [] d.phase = "pulling" -> d.pull.amount
      [] d.phase = "settling" -> IF Elapsed(d) \/ reduced THEN d.pull.target ELSE d.pull.amount
      [] d.phase = "removed" -> 2
      [] d.phase = "returning" -> IF Elapsed(d) \/ reduced THEN 1 ELSE 2
      [] d.phase = "arriving" -> IF Elapsed(d) \/ reduced THEN 1 ELSE Beside
      [] d.phase = "inserting" -> InsertPose(d)
      [] d.phase = "ejecting" -> EjectPose(d)
      [] d.phase = "ejected" -> 1
      [] OTHER -> 0

\* The close-up ends at the first pose of the delivery; it stands still while it
\* is paused, and for a player who asks for reduced motion
Announced(d) ==
    LET shown == Resumed(d) IN
    IF Elapsed(shown) /\ ~reduced THEN KeyDiskPose(Entered(d, "arriving")) ELSE CloseUp
DrawnPose(d) == IF d.phase = "announcing" THEN Announced(d) ELSE KeyDiskPose(d)

KeyDiskReadable ==
    Online(env) /\ ~diskOut /\ disk.phase = "ready" /\ disk.id # 0 /\ disk.id = env.round

-----------------------------------------------------------------------------
\* The page (hooks.ts, Console.tsx) and the gesture (useDiskPull.ts)

NoHand == [on |-> FALSE, disk |-> EmptyKeyDisk, moved |-> FALSE]
Enabled(d, e) == e.round # 0 /\ d.id = e.round /\ d.phase \in Loose \cup {"pulling"}

OutOf(d) == d.phase \in {"pulling", "ejected", "removed"} \/ (d.phase = "settling" /\ d.pull.target # 0)

\* Every change is followed by the layout effects of the page, in their order,
\* and by the gesture's own: one that lost its disk is over
Settle(e, d, out, h) ==
    LET synced == SyncKeyDisk(d, e.round, e.shown /\ Online(e) /\ e.loaded, reduced, e.writing)
        final == SyncDiskPresentation(SyncDiskPower(synced, e.powered), e.shown /\ Online(e))
        same == final.id = disk.id
    IN  /\ env' = e
        /\ disk' = final
        /\ diskOut' = (out /\ synced = d)
        /\ hand' = IF h.on /\ ~Enabled(final, e) THEN NoHand ELSE h
        /\ seen' = IF same /\ final.phase = "announcing" /\ disk.phase = "announcing" THEN seen ELSE 0
        /\ read' = IF same /\ {final.phase, disk.phase} \subseteq {"reading", "ready"}
                      /\ ~(disk.phase = "ready" /\ ~e.powered) THEN read ELSE 0
        /\ UNCHANGED reduced

\* A gesture that ended by itself suppresses the click of its press
Pressing(h, s, plain) ==
    /\ suppress' = (s \/ (h.on /\ ~hand'.on))
    /\ tap' = (plain /\ ~(h.on /\ ~hand'.on))

KeyDiskInit ==
    /\ env = [round |-> 0, writing |-> FALSE, powered |-> TRUE, linked |-> TRUE,
              shown |-> TRUE, loaded |-> FALSE]
    /\ reduced \in BOOLEAN
    /\ disk = EmptyKeyDisk
    /\ diskOut = FALSE
    /\ hand = NoHand
    /\ pressed = FALSE /\ clickDue = FALSE /\ suppress = FALSE
    /\ seen = 0 /\ read = 0 /\ tap = FALSE

Around(e) == Settle(e, disk, diskOut, hand) /\ Pressing(hand, suppress, tap) /\ UNCHANGED <<pressed, clickDue>>

\* The game gives this seat a code, goes on to the guesses, ends the round or
\* takes the code away until it has synced again
RoundBegins == \E r \in (1 .. MaxDisks) \ {env.round}, w \in BOOLEAN :
                  Around([env EXCEPT !.round = r, !.writing = w])
GuessesBegin == env.round # 0 /\ env.writing /\ Around([env EXCEPT !.writing = FALSE])
RoundEnds == env.round # 0 /\ Around([env EXCEPT !.round = 0, !.writing = FALSE])
PowerFlips == Around([env EXCEPT !.powered = ~@])
LinkFlips == Around([env EXCEPT !.linked = ~@])
Loads == ~env.loaded /\ Around([env EXCEPT !.loaded = TRUE])
Uncovered == ~env.shown /\ Around([env EXCEPT !.shown = TRUE])
Covered == env.shown /\ Around([env EXCEPT !.shown = FALSE])

\* finish: what the hand left is the page's disk, if it is still this disk
FinishDrag(cancelled, e) ==
    LET own == hand.moved /\ hand.disk.id = disk.id /\ disk.id = env.round
        left == ReleaseKeyDisk(hand.disk, cancelled, reduced)
    IN  /\ hand.on
        /\ IF own THEN Settle(e, left, OutOf(left), NoHand) ELSE Settle(e, disk, diskOut, NoHand)
        /\ suppress' = (hand.moved \/ cancelled)
        /\ tap' = (tap /\ ~cancelled)

Press ==
    /\ ~pressed /\ ~clickDue /\ ~hand.on
    /\ Enabled(disk, env) /\ disk.phase \in Loose
    /\ pressed' = TRUE
    /\ hand' = [on |-> TRUE, disk |-> disk, moved |-> FALSE]
    /\ suppress' = FALSE
    /\ tap' = TRUE
    /\ UNCHANGED <<env, reduced, disk, diskOut, clickDue, seen, read>>

\* The page follows the gesture's copy of the disk
Pull(amount) ==
    LET pulled == PullKeyDisk(hand.disk, amount)
        grip == [on |-> TRUE, disk |-> pulled, moved |-> TRUE]
    IN  /\ hand.on /\ pressed
        /\ hand.disk.id = disk.id /\ disk.id = env.round
        /\ Settle(env, pulled, OutOf(pulled), grip)
        /\ Pressing(grip, suppress, FALSE)
        /\ UNCHANGED <<pressed, clickDue>>

\* Lost focus, Escape, a lost capture, the machine turned round; a page that is
\* hidden takes its gesture back first
CancelDrag == FinishDrag(TRUE, env) /\ UNCHANGED <<pressed, clickDue>>
Hides == env.shown /\ FinishDrag(TRUE, [env EXCEPT !.shown = FALSE]) /\ UNCHANGED <<pressed, clickDue>>

LetDiskGo ==
    /\ pressed
    /\ pressed' = FALSE /\ clickDue' = TRUE
    /\ \/ FinishDrag(FALSE, env)
       \/ ~hand.on /\ UNCHANGED <<env, reduced, disk, diskOut, hand, suppress, seen, read, tap>>

\* act('disk-toggle') and act('disk-eject')
Act(out) ==
    LET acted == ActKeyDisk(disk, out, reduced) IN
    IF disk.id # env.round \/ acted = disk
    THEN UNCHANGED <<env, reduced, disk, diskOut, hand, suppress, seen, read, tap>>
    ELSE Settle(env, acted, out, hand) /\ Pressing(hand, suppress, tap)
Toggle == Act(disk.phase \notin {"ejected", "removed"})
Click ==
    /\ clickDue /\ clickDue' = FALSE
    /\ IF suppress THEN UNCHANGED <<env, reduced, disk, diskOut, hand, suppress, seen, read, tap>> ELSE Toggle
    /\ UNCHANGED pressed
Keyed == (Toggle \/ Act(TRUE)) /\ UNCHANGED <<pressed, clickDue>>

\* The timer of the phase; it is set anew whenever the disk or its power changes
Timer ==
    LET next == AdvanceKeyDisk(SyncDiskPresentation(disk, env.shown /\ Online(env)), reduced) IN
    /\ disk.phase \in DOMAIN Time /\ disk.held = None
    /\ disk.phase = "reading" => env.powered
    /\ (reduced /\ disk.phase # "announcing") \/ disk.age >= Time[disk.phase]
    /\ next # disk
    /\ Settle(env, next, next.phase \in {"ejected", "removed"}, hand)
    /\ Pressing(hand, suppress, tap)
    /\ UNCHANGED <<pressed, clickDue>>

DiskTick ==
    /\ disk.phase \in DOMAIN Time /\ disk.age < Time[disk.phase]
    /\ disk' = [disk EXCEPT !.age = @ + 1]
    /\ seen' = IF disk.phase = "announcing" /\ env.shown /\ Online(env) THEN seen + 1 ELSE seen
    /\ read' = IF disk.phase = "reading" /\ env.powered THEN read + 1 ELSE read
    /\ UNCHANGED <<env, reduced, diskOut, hand, pressed, clickDue, suppress, tap>>

KeyDiskNext ==
    \/ RoundBegins \/ GuessesBegin \/ RoundEnds
    \/ PowerFlips \/ LinkFlips \/ Loads \/ Uncovered \/ Covered
    \/ Press \/ CancelDrag \/ Hides \/ LetDiskGo \/ Click \/ Keyed
    \/ \E amount \in 0 .. 2 : Pull(amount)
    \/ Timer \/ DiskTick

\* Timers fire, and what is held is let go of one day
DiskMoves == Timer \/ DiskTick \/ LetDiskGo

KeyDiskSpec == KeyDiskInit /\ [][KeyDiskNext]_diskVars /\ WF_diskVars(DiskMoves)

-----------------------------------------------------------------------------
KeyDisks == [id : 0 .. MaxDisks, phase : Phases, age : 0 .. 2, held : None .. 2,
             pull : [origin : Loose \cup {"none"}, amount : 0 .. 2, target : None .. 2]]

\* TypeOK: only a disk that is with its player has no pause and no round but this one
KeyDiskTypeOK ==
    /\ env \in Environments /\ reduced \in BOOLEAN
    /\ disk \in KeyDisks /\ diskOut \in BOOLEAN
    /\ hand.on \in BOOLEAN /\ hand.disk \in KeyDisks /\ hand.moved \in BOOLEAN
    /\ {pressed, clickDue, suppress, tap} \subseteq BOOLEAN
    /\ seen \in Nat /\ read \in Nat
    /\ disk.held # None => disk.phase \in {"announcing", "reading"}

\* The code is readable only after the disk in the drive has been read in full
\* with the power on; electricity that fails costs the whole reading again.
\* Reduced motion does without the reading.
ReadableOnlyWhole == KeyDiskReadable => reduced \/ read >= Time["reading"]

\* diskOut says where the disk is, whoever moved it last: a flag left behind
\* would hide the code of a disk that is in the drive
OutWhileOut ==
    disk.id # 0 => (diskOut <=> OutOf(disk) \/ disk.phase = "ejecting")

\* The role notice goes only after it has been seen for all of its time
\* ("only spends its reading time while the player can see it")
NoticeIsRead ==
    [][disk.phase = "announcing" /\ disk'.phase \in {"arriving", "ready"} /\ disk'.id = disk.id
         => seen >= Time["announcing"]]_diskVars

\* The click that ends a pull, or a gesture taken back by Escape or a lost
\* focus, does not put the disk back
PulledIsNoClick == [][clickDue /\ ~clickDue' /\ ~tap => disk' = disk]_diskVars

\* A disk that is seen gets from one place to another only by its own movement
\* or by the hand: every movement is taken up where the last one ended, whatever
\* key, power, notice or lost gesture comes between them.  Reduced motion does
\* without the movements.
NeverJumps ==
    [][~reduced /\ disk'.id = disk.id /\ DrawnPose(disk) # Nowhere =>
         \/ DrawnPose(disk') = DrawnPose(disk)
         \/ disk'.phase = "pulling"
         \/ disk'.phase = disk.phase /\ disk'.age = disk.age + 1]_diskVars

\* A disk on the move, or in the hand, comes to rest whatever the power does:
\* "handling and spring ejection remain mechanical"
Mechanical == {"returning", "inserting", "ejecting", "settling", "pulling"}
ComesToRest == []<>(disk.phase \notin Mechanical)

\* A player who has a round's disk and a machine that is on can read the code,
\* unless the disk is out or in the hand
DiskSteady == Online(env) /\ env.shown /\ env.loaded
Delivered ==
    \A r \in 1 .. MaxDisks :
        <>[](DiskSteady /\ env.round = r /\ ~hand.on) => []<>(disk.phase \in {"ready", "ejected", "removed"})
=============================================================================
