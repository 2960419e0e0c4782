-------------------------------- MODULE Atapi --------------------------------
(***************************************************************************)
(* A read from a CD drive: IDE_readPIO28_atapi and the interrupt handler   *)
(* IDE_IRQ of core/drv/IDE/IDEController.c, with the drives they talk to.  *)
(* There are up to four drives on two channels; the interrupts of both     *)
(* channels end in IDE_IRQ, which sets one bit of one variable, ide_flags. *)
(* The drives of a channel share its registers: what is read there is the  *)
(* selected drive's, the one of the read that is going on.                 *)
(* The hard disks, which are served between the reads, set the same bit,   *)
(* and the driver does not wait for their interrupts (Disk.tla): one can   *)
(* come as late as in the middle of a read from a CD.                      *)
(*                                                                         *)
(* The drive is not code of the kernel.  It is modelled by the part of the *)
(* ATA packet protocol the driver relies on: it is busy after a command    *)
(* and after the packet, offers the data one sector at a time, raises an   *)
(* interrupt in the moment a sector is offered and in the moment it has    *)
(* finished or given up, and delivers nothing of use while it offers       *)
(* nothing.                                                                *)
(***************************************************************************)
EXTENDS Integers

CONSTANTS
    Drives,   \* the CD drives
    HardDisks, \* the hard disks of the same two channels
    Sectors,  \* the numbers of sectors asked for (sctrwrite)
    Faults    \* what a drive may do wrong

ASSUME AtapiAssumption ==
    /\ Drives \cap HardDisks = {}
    /\ Sectors \subseteq Nat
    /\ Faults \subseteq {"reject", "medium", "hang"}

VARIABLES
    pc,       \* what IDE_readPIO28_atapi does next; "idle" outside of it
    drive,    \* the drive of the read
    want,     \* sctrwrite
    taken,    \* sectors insw has moved to the buffer
    good,     \* those of them the drive was offering when they were moved
    result,   \* the exit code of the last read
    flag,     \* ide_flags & IDE_FLAG_IRQ
    stage,    \* stage[d]: what drive d is doing
    todo,     \* todo[d]: sectors d has yet to deliver
    pending,  \* the drives and disks whose interrupt the processor has not taken yet
    owing,    \* the hard disks that have yet to raise the interrupt of a command
    early     \* history: an interrupt of a hard disk set the bit while the read
              \* waited for its own

driverVars == <<pc, drive, want, taken, good, result>>
driveVars == <<stage, todo>>
diskVars == <<owing, early>>
vars == <<pc, drive, want, taken, good, result, flag, stage, todo, pending, owing, early>>

Init == /\ pc = "idle"
        /\ drive \in Drives
        /\ want = 0 /\ taken = 0 /\ good = 0
        /\ result = "none"
        /\ flag = FALSE
        /\ stage = [d \in Drives |-> "idle"]
        /\ todo = [d \in Drives |-> 0]
        /\ pending = {} /\ owing = {}
        /\ early = FALSE

\* The bits of the status register.
BSY(d) == stage[d] \in {"command", "reading", "hung"}
DRQ(d) == stage[d] \in {"packet", "data"}
ERR(d) == stage[d] = "failed"
-----------------------------------------------------------------------------
(* The interrupt handler.  Interrupts are on while the driver runs, so the *)
(* processor takes one before the driver's next instruction; the handler   *)
(* runs to its end, which tells both interrupt controllers.                *)

IrqUnnoticed(d) ==
    /\ d \in pending
    /\ pending' = pending \ {d}
    /\ UNCHANGED <<driverVars, driveVars, flag, diskVars>>

\* From the clearing of the bit before the command to the end of the wait.
AwaitsInterrupt == pc \in {"command", "busy", "drq", "packet", "wait"}

Irq(d) ==
    /\ d \in pending
    /\ flag' = TRUE
    /\ pending' = pending \ {d}
    /\ early' = (early \/ (d \in HardDisks /\ AwaitsInterrupt /\ ~flag))
    /\ UNCHANGED <<driverVars, driveVars, owing>>
-----------------------------------------------------------------------------
(* The driver *)

At(label) == pc = label /\ pending = {}

\* The tests of the drive's number and type always pass: the one caller,
\* IDEController_handler, has made them.
Start(d, n) ==
    /\ At("idle")
    /\ pc' = "clear" /\ drive' = d /\ want' = n
    /\ taken' = 0 /\ good' = 0 /\ result' = "none" /\ early' = FALSE
    /\ UNCHANGED <<flag, driveVars, pending, owing>>

\* IDEClearFlagBit.  The store writes 0 to the bit whatever was loaded, so that
\* an interrupt between the load and the store is lost as one before both is.
ClearFlag(from, to) ==
    /\ At(from)
    /\ flag' = FALSE
    /\ pc' = to
    /\ UNCHANGED <<drive, want, taken, good, result, driveVars, pending, diskVars>>

Command ==
    /\ At("command")
    /\ stage' = [stage EXCEPT ![drive] = "command"]
    /\ pc' = "busy"
    /\ UNCHANGED <<drive, want, taken, good, result, flag, todo, pending, diskVars>>

\* The loops of lines 511 and 512, in the order of their conditions.  By the
\* precedence of = and & the status the second one keeps is cut to DRQ before
\* it is tested for ERR, here and in the test for an error behind the loop.
WaitNotBusy ==
    /\ At("busy")
    /\ ~BSY(drive)
    /\ pc' = "drq"
    /\ UNCHANGED <<drive, want, taken, good, result, flag, driveVars, pending, diskVars>>

WaitDrq ==
    /\ At("drq")
    /\ DRQ(drive)
    /\ pc' = "packet"
    /\ UNCHANGED <<drive, want, taken, good, result, flag, driveVars, pending, diskVars>>

SendPacket ==
    /\ At("packet")
    /\ stage' = [stage EXCEPT ![drive] = "reading"]
    /\ todo' = [todo EXCEPT ![drive] = want]
    /\ pc' = "wait"
    /\ UNCHANGED <<drive, want, taken, good, result, flag, pending, diskVars>>

InterruptedAlways == TRUE
Interrupted == flag

WaitInterrupt ==
    /\ At("wait")
    /\ Interrupted
    /\ pc' = "woken"
    /\ UNCHANGED <<drive, want, taken, good, result, flag, driveVars, pending, diskVars>>

\* dbg_assert(size == byteCount): the count read back is the one the driver asked
\* for when the drive is offering a sector, and may be anything otherwise.  When the
\* assertion fails the kernel loops for ever.
CheckSize ==
    /\ At("check")
    /\ pc' \in {"move"} \cup (IF stage[drive] = "data" THEN {} ELSE {"halted"})
    /\ UNCHANGED <<drive, want, taken, good, result, flag, driveVars, pending, diskVars>>

\* The part of insw that moves one sector.
MoveLeftOne == taken <= want
MoveLeft == taken < want

Move ==
    /\ At("move")
    /\ MoveLeft
    /\ taken' = taken + 1
    /\ IF stage[drive] = "data"
       THEN /\ good' = good + 1
            /\ todo' = [todo EXCEPT ![drive] = @ - 1]
            /\ stage' = [stage EXCEPT ![drive] = "reading"]
       ELSE UNCHANGED <<good, driveVars>>
    /\ UNCHANGED <<pc, drive, want, result, flag, pending, diskVars>>

Moved ==
    /\ At("move")
    /\ ~MoveLeft
    /\ pc' = "poll"
    /\ UNCHANGED <<drive, want, taken, good, result, flag, driveVars, pending, diskVars>>

\* "wait for second IRQ or timeout"
OffersData(d) == DRQ(d)
Working(d) == BSY(d) \/ DRQ(d)

Poll ==
    /\ At("poll")
    /\ ~Working(drive)
    /\ pc' = "finish"
    /\ UNCHANGED <<drive, want, taken, good, result, flag, driveVars, pending, diskVars>>

Return ==
    /\ At("finish")
    /\ flag' = FALSE
    /\ result' = "success"
    /\ pc' = "idle"
    /\ UNCHANGED <<drive, want, taken, good, driveVars, pending, diskVars>>

Driver == \/ ClearFlag("clear", "command")
          \/ Command
          \/ WaitNotBusy
          \/ WaitDrq
          \/ SendPacket
          \/ WaitInterrupt
          \/ ClearFlag("woken", "check")
          \/ CheckSize
          \/ Move
          \/ Moved
          \/ Poll
          \/ Return
-----------------------------------------------------------------------------
(* The drives *)

GoesTo(d, to) == stage' = [stage EXCEPT ![d] = to] /\ UNCHANGED <<driverVars, flag, todo, diskVars>>

TakesPacket(d) == stage[d] = "command" /\ GoesTo(d, "packet") /\ UNCHANGED pending

Raises(d) == pending' = pending \cup {d}

Offers(d) == stage[d] = "reading" /\ todo[d] > 0 /\ GoesTo(d, "data") /\ Raises(d)
Finishes(d) == stage[d] = "reading" /\ todo[d] = 0 /\ GoesTo(d, "idle") /\ Raises(d)

Rejects(d) == "reject" \in Faults /\ stage[d] = "command" /\ GoesTo(d, "failed") /\ Raises(d)
Fails(d) == "medium" \in Faults /\ stage[d] = "reading" /\ todo[d] > 0
            /\ GoesTo(d, "failed") /\ Raises(d)
Hangs(d) == "hang" \in Faults /\ stage[d] \in {"command", "reading"} /\ GoesTo(d, "hung") /\ UNCHANGED pending

\* What the rest of the kernel does with hard disk h between two reads from a
\* CD: IDE_readPIO28 and IDE_writePIO28 wait for no interrupt, so that any number of
\* them is taken during a call, and one can be left to come, that of the write
\* command behind the data (line 481) above all.
DiskCall(h) ==
    /\ At("idle")
    /\ flag' \in {flag, TRUE}
    /\ owing' \in {owing \ {h}, owing \cup {h}}
    /\ UNCHANGED <<driverVars, driveVars, pending, early>>

Completes(h) ==
    /\ h \in owing
    /\ owing' = owing \ {h}
    /\ Raises(h)
    /\ UNCHANGED <<driverVars, driveVars, flag, early>>

Works(d) == TakesPacket(d) \/ Offers(d) \/ Finishes(d)
Breaks(d) == Rejects(d) \/ Fails(d) \/ Hangs(d)

Next == \/ Driver
        \/ \E d \in Drives : \/ \E n \in Sectors : Start(d, n)
                             \/ Works(d)
                             \/ Breaks(d)
        \/ \E h \in HardDisks : DiskCall(h) \/ Completes(h)
        \/ \E d \in Drives \cup HardDisks : Irq(d)

\* The kernel has one thread, which runs when no handler does; the processor
\* takes interrupts; a drive that is not broken does its work.
Fairness == /\ WF_vars(Driver)
            /\ \A d \in Drives \cup HardDisks : WF_vars(Irq(d))
            /\ \A d \in Drives : WF_vars(Works(d))

Spec == Init /\ [][Next]_vars
FairSpec == Spec /\ Fairness
-----------------------------------------------------------------------------
Labels == {"idle", "clear", "command", "busy", "drq", "packet", "wait", "woken",
           "check", "move", "poll", "finish", "halted"}

TypeOK ==
    /\ pc \in Labels
    /\ drive \in Drives
    /\ want \in Sectors \cup {0}
    /\ taken \in 0..want /\ good \in 0..taken
    /\ result \in {"none", "success"}
    /\ flag \in BOOLEAN
    /\ stage \in [Drives -> {"idle", "command", "packet", "reading", "data", "failed", "hung"}]
    /\ todo \in [Drives -> Nat]
    /\ pending \subseteq Drives \cup HardDisks
    /\ owing \subseteq HardDisks
    /\ early \in BOOLEAN

\* The driver polls a drive for the end of a read instead of waiting for its
\* last interrupt, and all drives set the same bit.  Still, from the return of a read
\* until the next one has written its command, no CD drive is at work
\* or has an interrupt on its way that the read could take for its own; and the
\* bit is clear when the command is written, unless a hard disk has set it since.
NothingStale ==
    pc \in {"idle", "clear", "command"} =>
       /\ \A d \in Drives : ~BSY(d) /\ ~DRQ(d) /\ d \notin pending
       /\ pc = "command" /\ flag => early

\* "parameter3: # sectors to read", "parameter4: buffer to read to"
\* (IDE_commands.h:42): a read of at most one sector ends with the sector in the
\* buffer, moved while the drive was offering it, unless the drive gave up or a hard
\* disk's interrupt ended the wait, whatever the drives did wrong before.  Of
\* more sectors all but the first may be garbage: the driver waits for one
\* interrupt only.
BufferFilled == pc = "poll" /\ want <= 1 /\ ~ERR(drive) /\ ~early => good = want

\* No interrupt the driver waits for is lost or cleared before it is seen: a read of
\* one sector returns, or its drive has given up or hangs, or an interrupt of a hard
\* disk came while it waited for its own.
EveryReadReturns ==
    pc # "idle" /\ want = 1 ~> pc = "idle" \/ stage[drive] \in {"failed", "hung"} \/ early
=============================================================================
