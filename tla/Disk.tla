-------------------------------- MODULE Disk --------------------------------
(***************************************************************************)
(* The path from a file system to a hard disk: drive names and read/write  *)
(* of core/dsk/diskio.c, IDEController_handler, IDEDriverInit and the PIO  *)
(* loops of core/drv/IDE/IDEController.c, and the disks behind them.       *)
(*                                                                         *)
(* The disks are external.  They follow the ATA protocol for PIO: busy     *)
(* after a command and between sectors, then asking for data (DRQ) until   *)
(* all sectors the command named are moved.  What a disk does with a       *)
(* command that meets it in the middle of another one is not specified:    *)
(* some start it, some (Strict) ignore it.  A disk may also stop answering *)
(* and stay busy for ever.                                                 *)
(***************************************************************************)
EXTENDS Integers, FiniteSets

CONSTANTS
    Kind,     \* Kind[d] for the four slots: "HD", "CD" or "none"
    Strict,   \* the disks that ignore a command while they ask for data
    Size,     \* sectors of a disk
    AddressMod,  \* sectors the address registers tell apart, 2^24 in the code
    Values,   \* contents of a caller's buffer
    Counts,   \* numbers of sectors asked for
    MaxHeld   \* bound: blocks of the heap never given back, after which no call is made

Slots == 0..3           \* IDE_DRIVER_MAX_DRIVES, DISKIO_MAX_DRIVES
Disks == {d \in Slots : Kind[d] = "HD"}
Lbas == 0..Size - 1
All == 256              \* what a sector count of 0 means to a disk
Junk == "junk"
Unknown == <<Junk, 0>>  \* a data register that offers no data, memory behind a buffer

ASSUME DiskAssumption ==
    /\ Kind \in [Slots -> {"HD", "CD", "none"}]
    /\ Strict \subseteq Slots
    /\ Size \in Nat \ {0} /\ AddressMod \in Nat \ {0}
    /\ Counts \subseteq Nat
    /\ MaxHeld \in Nat
    /\ Junk \notin Values

VARIABLES
    pc,       \* what the kernel does next; "idle" between calls, "done" at a return
    call,     \* the parameters of read or write, the packet drv
    moved,    \* i, the sectors moved
    buffer,   \* buffer[k]: what a read put at the place of the k-th sector
    started,  \* whether the disk started the command, for the properties
    held,     \* blocks of the heap taken and not given back
    owed,     \* those of them the code forgets, for the properties
    mode,     \* mode[d]: what disk d is doing
    left,     \* left[d]: sectors of its command still to move
    at,       \* at[d]: the next of them
    sector    \* sector[d][l]: <<v, k>> for the k-th sector of a buffer that held v

callVars == <<call, started>>
diskVars == <<mode, left, at, sector>>
vars == <<pc, call, moved, buffer, started, held, owed, mode, left, at, sector>>

Nowhere == 255
NoCall == [op |-> "none", drive |-> Nowhere, lba |-> 0, n |-> 0, size |-> 0, value |-> Junk]
Nothing == [k \in {} |-> Unknown]

\* IDE_getDriveType reads 255 of the 256 words a disk offers.
Identified == [d \in Slots |-> IF d \in Disks THEN "word" ELSE "rest"]

\* After IDEDriverInit, diskio_init and the reports of the drives; no two sectors
\* have the same contents.
Init == /\ pc = "idle"
        /\ call = NoCall /\ moved = 0 /\ buffer = Nothing /\ started = FALSE
        /\ held = 0 /\ owed = 0
        /\ mode = Identified
        /\ left = [d \in Slots |-> 0] /\ at = [d \in Slots |-> 0]
        /\ sector = [d \in Slots |-> [l \in Lbas |-> <<Junk, l + 1>>]]
-----------------------------------------------------------------------------
(* diskio.c *)

\* to_actual_drive: the slot of the drive of a type with a number, counted from 0.
Rank(d, type) == Cardinality({e \in 0..d - 1 : Kind[e] = type})
ToActual(number, type) ==
    LET f == {d \in Slots : Kind[d] = type /\ Rank(d, type) = number}
    IN IF f = {} THEN Nowhere ELSE CHOOSE d \in f : TRUE

\* A file system resolves a name (HD0, CD1) and calls read or write.  The list
\* the drives are reported in is not given back when the drive is found; the
\* packet is not given back when read refuses the number.  write does not look
\* at the number: its index is outside the table and no driver is found.  The
\* driver is given the count in a byte; the caller's buffer has room for n sectors.
Resolved(number, type) == IF ToActual(number, type) = Nowhere THEN 0 ELSE 1

Call(op, type, number, l, n, v) ==
    LET d == ToActual(number, type) IN
    /\ pc = "idle" /\ held < MaxHeld
    /\ call' = [op |-> op, drive |-> d, lba |-> l, n |-> n % 256, size |-> n, value |-> v]
    /\ UNCHANGED <<moved, buffer, started>>
    /\ held' = held + Resolved(number, type) + 1
    /\ owed' = owed + Resolved(number, type)
    /\ pc' = IF d # Nowhere THEN "exec" ELSE IF op = "read" THEN "refused" ELSE "halted"
    /\ UNCHANGED diskVars

Refused == /\ pc = "refused"
           /\ pc' = "idle" /\ call' = NoCall
           /\ owed' = owed + 1
           /\ UNCHANGED <<moved, buffer, started, held, diskVars>>

\* The exit codes of IDEController_handler never reach anybody: no path that is
\* taken has one.
KeepsPacket == held
GivesPacket == held - 1
Return == /\ pc = "done"
          /\ pc' = "idle"
          /\ call' = NoCall /\ moved' = 0 /\ buffer' = Nothing /\ started' = FALSE
          /\ held' = GivesPacket
          /\ UNCHANGED <<owed, diskVars>>
-----------------------------------------------------------------------------
(* IDEController_handler.  For a drive that is neither, and for a write to  *)
(* a CD drive, diskio.c takes NULL for the command, which is                *)
(* DRV_COMMAND_INIT: the driver is initialised again.                       *)

Dispatch(d, op) == CASE Kind[d] = "HD" -> "command"
                     [] Kind[d] = "CD" /\ op = "read" -> "cd"
                     [] OTHER -> "init"

Exec == /\ pc = "exec"
        /\ pc' = Dispatch(call.drive, call.op)
        /\ UNCHANGED <<callVars, moved, buffer, held, owed, diskVars>>

\* IDEDriverInit takes the number of the drive for that of a PCI function.  What
\* that function has for base addresses decides: none, and the ports are those of
\* before, so that both channels are reset and the drives identified; others, and
\* the driver goes on with ports of something else; the controller the assertion
\* is about, and the kernel halts.  A disk that stays busy is waited for.
Reinit == /\ pc = "init"
          /\ \/ /\ \A d \in Disks : mode[d] # "hung"
                /\ pc' = "done"
                /\ mode' = Identified
                /\ left' = [d \in Slots |-> 0]
             \/ pc' \in {"stuck", "astray", "halted"} /\ UNCHANGED <<mode, left>>
          /\ UNCHANGED <<callVars, moved, buffer, held, owed, at, sector>>

\* IDE_readPIO28_atapi, the subject of Atapi: its loops may wait for ever, and
\* its assertion may fail.
CdRead == /\ pc = "cd"
          /\ pc' \in {"done", "stuck", "halted"}
          /\ UNCHANGED <<callVars, moved, buffer, held, owed, diskVars>>
-----------------------------------------------------------------------------
(* IDE_readPIO28 and IDE_writePIO28 *)

Starts(d) == mode[d] = "rest" \/ (d \notin Strict /\ mode[d] # "hung")

\* The address registers: the number is cut to a byte before it is shifted right
\* by 24, so that the low four bits of the drive register are always 0.
AddressFromOne(l) == l + 1
Address(l) == l % AddressMod

\* A command written to the disk of the call.
SectorsPlain(n) == n
Sectors(n) == IF n = 0 THEN All ELSE n
Command(op, l, n) ==
    LET d == call.drive IN
    IF Starts(d)
    THEN /\ mode' = [mode EXCEPT ![d] = IF op = "read" THEN "busy in" ELSE "busy out"]
         /\ left' = [left EXCEPT ![d] = Sectors(n)]
         /\ at' = [at EXCEPT ![d] = Address(l)]
    ELSE UNCHANGED <<mode, left, at>>

\* The other registers, then the command.
Issue == /\ pc = "command"
         /\ Command(call.op, call.lba, call.n)
         /\ started' = Starts(call.drive)
         /\ pc' = IF call.op = "read" THEN "poll" ELSE "ready"
         /\ UNCHANGED <<call, moved, buffer, held, owed, sector>>

\* IDE_polling, called to ignore the error bits.
Answering(d) == mode[d] \in {"busy in", "busy out"}
Busy(d) == Answering(d) \/ mode[d] = "hung"
PolledAtOnce(d) == TRUE
PolledForData(d) == mode[d] = "in"
Polled(d) == ~Busy(d)
Poll == /\ pc = "poll"
        /\ Polled(call.drive)
        /\ pc' = "move"
        /\ UNCHANGED <<callVars, moved, buffer, held, owed, diskVars>>

\* A sector of disk d has been moved.
Advance(d, busy) ==
    /\ left' = [left EXCEPT ![d] = @ - 1]
    /\ at' = [at EXCEPT ![d] = @ + 1]
    /\ mode' = [mode EXCEPT ![d] = IF left[d] = 1 THEN "rest" ELSE busy]

\* insw for one sector.  The pointer moves on by twice a sector, in a read and in
\* a write.
Place(k) == 2 * k
Piece(k) == IF Place(k) < call.size THEN <<call.value, Place(k)>> ELSE Unknown
Move == LET d == call.drive IN
    /\ pc = "move" /\ moved < call.n
    /\ buffer' = [k \in DOMAIN buffer \cup {Place(moved)} |->
                     IF k # Place(moved) THEN buffer[k]
                     ELSE IF mode[d] = "in" THEN sector[d][at[d]] ELSE Unknown]
    /\ CASE mode[d] = "in" -> Advance(d, "busy in")
         [] mode[d] = "word" -> mode' = [mode EXCEPT ![d] = "rest"] /\ UNCHANGED <<left, at>>
         [] OTHER -> UNCHANGED <<left, at, mode>>
    /\ moved' = moved + 1
    /\ pc' = "ready"
    /\ UNCHANGED <<callVars, held, owed, sector>>

\* outsw for one sector: lost unless the disk asks for data.
Push == LET d == call.drive IN
    /\ pc = "push" /\ moved < call.n
    /\ IF mode[d] = "out"
       THEN Advance(d, "busy out") /\ sector' = [sector EXCEPT ![d][at[d]] = Piece(moved)]
       ELSE UNCHANGED diskVars
    /\ moved' = moved + 1
    /\ pc' = "ready"
    /\ UNCHANGED <<callVars, buffer, held, owed>>

\* The wait for bit 0x40, which may be seen or not while the disk is busy.
Ready == /\ pc = "ready"
         /\ pc' = IF call.op = "read" THEN "move" ELSE "push"
         /\ UNCHANGED <<callVars, moved, buffer, held, owed, diskVars>>

EndRead == /\ pc = "move" /\ moved = call.n
           /\ pc' = "done"
           /\ UNCHANGED <<callVars, moved, buffer, held, owed, diskVars>>

\* A second WRITE command ends a write.  The registers are what the first one
\* left of them.
EndWrite == /\ pc = "push" /\ moved = call.n
            /\ \E l \in {call.lba, call.lba + call.n}, n \in {0, call.n} : Command("write", l, n)
            /\ pc' = "done"
            /\ UNCHANGED <<callVars, moved, buffer, held, owed, sector>>
-----------------------------------------------------------------------------
\* The disks: data is offered or asked for, or the command ends with an error
\* at the end of the disk, or the disk answers no more.
Offers(d) == /\ Answering(d) /\ at[d] \in Lbas
             /\ mode' = [mode EXCEPT ![d] = IF @ = "busy in" THEN "in" ELSE "out"]
             /\ UNCHANGED <<pc, callVars, moved, buffer, held, owed, left, at, sector>>
Fails(d) == /\ Answering(d) /\ at[d] \notin Lbas
            /\ mode' = [mode EXCEPT ![d] = "rest"]
            /\ UNCHANGED <<pc, callVars, moved, buffer, held, owed, left, at, sector>>
Hangs(d) == /\ Answering(d)
            /\ mode' = [mode EXCEPT ![d] = "hung"]
            /\ UNCHANGED <<pc, callVars, moved, buffer, held, owed, left, at, sector>>

Kernel == \/ Refused \/ Return \/ Exec \/ Reinit \/ CdRead
          \/ Issue \/ Poll \/ Move \/ Push \/ Ready \/ EndRead \/ EndWrite

Next == \/ \E op \in {"read", "write"}, type \in {"HD", "CD"}, number \in 0..2,
              l \in Lbas, n \in Counts, v \in Values : Call(op, type, number, l, n, v)
        \/ Kernel
        \/ \E d \in Slots : Offers(d) \/ Fails(d) \/ Hangs(d)

Spec == Init /\ [][Next]_vars
\* The one thread runs, a loop that reads a status ends when a disk that is not busy
\* shows it, and a busy disk comes to an end with what it does or hangs.
FairSpec == /\ Spec
            /\ WF_vars(Kernel /\ (pc = "ready" => ~ Busy(call.drive)))
            /\ \A d \in Slots : WF_vars(Offers(d) \/ Fails(d) \/ Hangs(d))
-----------------------------------------------------------------------------
TypeOK ==
    /\ pc \in {"idle", "exec", "refused", "command", "init", "cd", "poll", "move", "push",
               "ready", "done", "halted", "stuck", "astray"}
    /\ pc \notin {"idle", "refused", "halted", "stuck", "astray"} => call.drive \in Slots
    /\ moved \in 0..call.n
    /\ held \in Nat /\ owed \in Nat
    /\ mode \in [Slots -> {"rest", "word", "busy in", "in", "busy out", "out", "hung"}]
    /\ \A d \in Slots : left[d] \in 0..All /\ at[d] \in Nat
    /\ sector \in [Slots -> [Lbas -> (Values \cup {Junk}) \X Nat]]

\* A sector the address registers can name.
Near(l) == l < AddressMod

\* IDE_COMMAND_READ: a read of one sector within the disk that the disk starts
\* returns what the sector holds, whatever was cut off before it, and leaves the
\* disk at rest, so that the next command is started too - for a sector whose
\* number fits the registers.
ReadExact ==
    (pc = "done" /\ started /\ call.op = "read" /\ call.n = 1 /\ Near(call.lba)) =>
       /\ buffer[0] = sector[call.drive][call.lba]
       /\ mode[call.drive] = "rest"

\* IDE_COMMAND_WRITE: sectors change only in a write to their disk, and only
\* those asked for unless the disk ignored the command or the number of the
\* first one did not fit the registers.
WritesInPlace ==
    [][\A d \in Slots : \A l \in Lbas : sector'[d][l] # sector[d][l] =>
          /\ call.op = "write" /\ call.drive = d
          /\ started /\ Near(call.lba) => l \in call.lba..call.lba + call.n - 1]_vars

\* kmalloc and kfree in read, write and convert_drive_id: apart from the lists of
\* drives that were searched with success and the packets of refused reads, a
\* call gives back what it takes.
HeldIsOwed == pc = "idle" => held = owed

\* None of the loops for a disk waits for something that has passed or that the
\* disk, in the middle of another command, will not do: a call returns unless its
\* disk answers no more (or is none: the loops of a CD drive, a driver that was
\* initialised again).
CallReturns ==
    (pc # "idle") ~> \/ pc \in {"idle", "halted", "stuck", "astray"}
                     \/ \E d \in Disks : d = call.drive /\ mode[d] = "hung"
=============================================================================
