------------------------------ MODULE DiskProofs ------------------------------
(***************************************************************************)
(* Proofs about Disk, for any drives in the four slots, disks of any size, *)
(* address registers of any width, any contents and any numbers of sectors *)
(* asked for.                                                              *)
(* The invariant has four parts: what the kernel is doing, what the disks  *)
(* are doing, the balance of the heap, and how far the disk of a call and  *)
(* the kernel have got together.                                           *)
(***************************************************************************)
EXTENDS Disk, TLAPS

Modes == {"rest", "word", "busy in", "in", "busy out", "out", "hung"}
Calls == [op : {"none", "read", "write"}, drive : Slots \cup {Nowhere}, lba : Lbas,
          n : 0..255, size : Nat, value : Values \cup {Junk}]

Transfer == {"poll", "move", "push", "ready"}
Working == Transfer \cup {"exec", "command", "init", "cd", "done"}

\* The kernel: what each place says of the call.
KernelOK ==
    /\ pc \in Working \cup {"idle", "refused", "halted", "stuck", "astray"}
    /\ call \in Calls
    /\ pc \in Working => call.drive \in Slots /\ call.op # "none" /\ call.value \in Values
    /\ pc \in {"poll", "move"} => call.op = "read"
    /\ pc = "push" => call.op = "write"
    /\ moved \in 0..call.n
    /\ pc \in {"command", "poll"} => moved = 0
    /\ pc \notin Transfer \cup {"done"} => moved = 0 /\ started = FALSE

\* The disks: while data is to be moved there are sectors left, and data is only
\* offered or asked for within the disk.
Pieces == (Values \cup {Junk}) \X Nat
Contents == sector \in [Slots -> [Lbas -> Pieces]]
DisksOK ==
    /\ mode \in [Slots -> Modes]
    /\ left \in [Slots -> 0..All]
    /\ at \in [Slots -> Nat]
    /\ Contents
    /\ \A d \in Slots : /\ mode[d] \notin {"rest", "word"} => left[d] > 0
                        /\ mode[d] \in {"in", "out"} => at[d] \in Lbas

\* The heap: during a call one block more is taken than the code forgets.
Balance ==
    /\ held \in Nat /\ owed \in Nat
    /\ pc = "idle" => held = owed
    /\ pc \in Working \cup {"refused"} => held = owed + 1

\* A write the disk started: the disk is not ahead of the kernel (it is behind it when
\* words were sent while it was busy), or is through with the command.
WriteInStep ==
    started /\ call.op = "write" /\ pc \in {"ready", "push"} =>
       \/ mode[call.drive] = "rest"
       \/ mode[call.drive] \in {"busy out", "out", "hung"} /\ at[call.drive] \in Address(call.lba)..Address(call.lba) + moved

\* A read of one sector the disk started: it is about to be offered, or has been moved.
ReadInStep ==
    started /\ call.op = "read" /\ call.n = 1 /\ pc \in Transfer \cup {"done"} =>
       \/ /\ moved = 0 /\ left[call.drive] = 1 /\ at[call.drive] = Address(call.lba)
          /\ pc = "poll" => mode[call.drive] \in {"busy in", "in", "hung"}
          /\ pc # "poll" => pc = "move" /\ mode[call.drive] = "in"
       \/ /\ moved = 1 /\ mode[call.drive] = "rest" /\ pc # "poll"
          /\ 0 \in DOMAIN buffer /\ buffer[0] = sector[call.drive][Address(call.lba)]

Inv == KernelOK /\ DisksOK /\ Balance /\ WriteInStep /\ ReadInStep
-----------------------------------------------------------------------------
\* The values involved.
LEMMA Sizes ==
    /\ Size \in Nat /\ Size > 0 /\ Lbas \subseteq Nat /\ 0 \in Lbas
    /\ \A l \in Nat : Address(l) \in Nat /\ (Near(l) => Address(l) = l)
    /\ \A l \in Lbas : Address(l) \in Lbas
    /\ \A n \in 0..255 : Sectors(n) \in 1..All
    /\ All \in Nat
<1>1. ASSUME NEW l \in Nat
      PROVE  l % AddressMod \in 0..AddressMod - 1 /\ (l < AddressMod => l % AddressMod = l)
  BY DiskAssumption
<1>2. ASSUME NEW l \in Lbas
      PROVE  Address(l) \in Lbas
  BY <1>1, DiskAssumption DEF Address, Lbas
<1>3. \A l \in Nat : Address(l) \in Nat /\ (Near(l) => Address(l) = l)
  BY <1>1, DiskAssumption DEF Address, Near
<1> QED
  BY <1>2, <1>3, DiskAssumption DEF All, Lbas, Sectors

\* to_actual_drive gives a slot or none.
LEMMA ActualSlot ==
    ASSUME NEW number, NEW type
    PROVE  ToActual(number, type) \in Slots \cup {Nowhere}
<1> DEFINE f == {d \in Slots : Kind[d] = type /\ Rank(d, type) = number}
<1>1. f # {} => (CHOOSE d \in f : TRUE) \in f
  OBVIOUS
<1> QED
  BY <1>1 DEF ToActual

LEMMA InitInv == Init => Inv
<1> SUFFICES ASSUME Init PROVE Inv
  OBVIOUS
<1>1. pc = "idle" /\ call = NoCall /\ moved = 0 /\ started = FALSE /\ held = 0 /\ owed = 0
  BY DEF Init
<1>2. NoCall \in Calls /\ NoCall.n = 0
  BY Sizes DEF NoCall, Calls
<1>3. KernelOK
  BY <1>1, <1>2 DEF KernelOK, Working, Transfer
<1>4. DisksOK
  <2>1. mode \in [Slots -> Modes] /\ \A d \in Slots : mode[d] \in {"rest", "word"}
    BY DEF Init, Identified, Modes
  <2>2. left \in [Slots -> 0..All] /\ at \in [Slots -> Nat] /\ Contents
    <3>1. \A l \in Lbas : <<Junk, l + 1>> \in Pieces
      BY Sizes DEF Pieces
    <3>2. sector = [d \in Slots |-> [l \in Lbas |-> <<Junk, l + 1>>]]
      BY DEF Init
    <3> QED
      BY <3>1, <3>2 DEF Init, All, Contents
  <2> QED
    BY <2>1, <2>2 DEF DisksOK, Contents
<1> QED
  BY <1>1, <1>3, <1>4 DEF Inv, Balance, Working, Transfer, WriteInStep, ReadInStep
-----------------------------------------------------------------------------
(* The kernel.                                                              *)

LEMMA KernelStep == Inv /\ [Next]_vars => KernelOK'
<1> SUFFICES ASSUME Inv, [Next]_vars PROVE KernelOK'
  OBVIOUS
<1>0. KernelOK /\ call.n \in Nat /\ moved \in Nat
  BY DEF Inv, KernelOK, Calls
<1>1. ASSUME NEW op \in {"read", "write"}, NEW type \in {"HD", "CD"}, NEW number \in 0..2,
             NEW l \in Lbas, NEW n \in Counts, NEW v \in Values, Call(op, type, number, l, n, v)
      PROVE  KernelOK'
  <2> DEFINE d == ToActual(number, type)
  <2>1. d \in Slots \cup {Nowhere} /\ n \in Nat
    BY ActualSlot, DiskAssumption
  <2> HIDE DEF d
  <2>2. n % 256 \in 0..255
    BY <2>1
  <2>3. call' = [op |-> op, drive |-> d, lba |-> l, n |-> n % 256, size |-> n, value |-> v] /\ pc = "idle"
    BY <1>1 DEF Call, d
  <2>4. call' \in Calls /\ call'.op # "none" /\ call'.value \in Values /\ call'.drive = d /\ call'.n \in Nat
    BY <2>1, <2>2, <2>3 DEF Calls
  <2>5. moved' = 0 /\ started' = FALSE /\ pc' \in {"exec", "refused", "halted"} /\ (pc' = "exec" => d # Nowhere)
    BY <1>0, <1>1, <2>3 DEF Call, d, KernelOK, Working, Transfer
  <2> QED
    BY <2>1, <2>4, <2>5 DEF KernelOK, Working, Transfer
<1>2. CASE Refused \/ Return
  <2>1. NoCall \in Calls /\ NoCall.n = 0
    BY Sizes DEF NoCall, Calls
  <2>2. pc' = "idle" /\ call' = NoCall /\ moved' = 0 /\ started' = FALSE
    BY <1>0, <1>2 DEF Refused, Return, KernelOK, Working, Transfer
  <2> QED
    BY <2>1, <2>2 DEF KernelOK, Working, Transfer
<1>3. CASE Exec
  <2>1. pc = "exec" /\ pc' \in {"command", "cd", "init"} /\ UNCHANGED <<call, started, moved>>
    BY <1>3 DEF Exec, Dispatch, callVars
  <2> QED
    BY <1>0, <2>1 DEF KernelOK, Working, Transfer
<1>4. CASE Reinit \/ CdRead
  <2>1. pc \in {"init", "cd"} /\ pc' \in {"done", "stuck", "astray", "halted"} /\ UNCHANGED <<call, started, moved>>
    BY <1>4 DEF Reinit, CdRead, callVars
  <2> QED
    BY <1>0, <2>1 DEF KernelOK, Working, Transfer
<1>5. CASE Issue
  <2>1. pc = "command" /\ call' = call /\ moved' = moved /\ pc' = IF call.op = "read" THEN "poll" ELSE "ready"
    BY <1>5 DEF Issue
  <2> QED
    BY <1>0, <2>1 DEF KernelOK, Working, Transfer
<1>6. CASE Poll
  <2>1. pc = "poll" /\ pc' = "move" /\ UNCHANGED <<call, started, moved>>
    BY <1>6 DEF Poll, callVars
  <2> QED
    BY <1>0, <2>1 DEF KernelOK, Working, Transfer
<1>7. CASE Move \/ Push
  <2>1. pc \in {"move", "push"} /\ moved < call.n /\ pc' = "ready" /\ moved' = moved + 1 /\ UNCHANGED <<call, started>>
    BY <1>7 DEF Move, Push, callVars
  <2>2. moved' \in 0..call.n
    BY <1>0, <2>1
  <2> QED
    BY <1>0, <2>1, <2>2 DEF KernelOK, Working, Transfer
<1>8. CASE Ready
  <2>1. pc = "ready" /\ pc' = (IF call.op = "read" THEN "move" ELSE "push") /\ UNCHANGED <<call, started, moved>>
    BY <1>8 DEF Ready, callVars
  <2>2. call.op \in {"read", "write"}
    BY <1>0, <2>1 DEF KernelOK, Calls, Working, Transfer
  <2> QED
    BY <1>0, <2>1, <2>2 DEF KernelOK, Working, Transfer
<1>9. CASE EndRead \/ EndWrite
  <2>1. pc \in {"move", "push"} /\ pc' = "done" /\ UNCHANGED <<call, started, moved>>
    BY <1>9 DEF EndRead, EndWrite, callVars
  <2> QED
    BY <1>0, <2>1 DEF KernelOK, Working, Transfer
<1>10. ASSUME NEW d \in Slots, Offers(d) \/ Fails(d) \/ Hangs(d) \/ UNCHANGED vars
       PROVE  KernelOK'
  <2>1. UNCHANGED <<pc, call, started, moved>>
    BY <1>10 DEF Offers, Fails, Hangs, vars, callVars
  <2> QED
    BY <1>0, <2>1 DEF KernelOK
<1>11. CASE UNCHANGED vars
  BY <1>10, <1>11 DEF Slots
<1> QED
  BY <1>1, <1>2, <1>3, <1>4, <1>5, <1>6, <1>7, <1>8, <1>9, <1>10, <1>11 DEF Next, Kernel

\* The heap.
LEMMA BalanceStep == Inv /\ [Next]_vars => Balance'
<1> SUFFICES ASSUME Inv, [Next]_vars PROVE Balance'
  OBVIOUS
<1>0. Balance
  BY DEF Inv
<1>1. ASSUME NEW op, NEW type, NEW number, NEW l, NEW n, NEW v, Call(op, type, number, l, n, v)
      PROVE  Balance'
  <2>1. /\ pc = "idle" /\ pc' \in {"exec", "refused", "halted"} /\ Resolved(number, type) \in {0, 1}
        /\ held' = held + Resolved(number, type) + 1 /\ owed' = owed + Resolved(number, type)
    BY <1>1 DEF Call, Resolved
  <2> HIDE DEF Resolved
  <2>2. held = owed /\ held \in Nat
    BY <1>0, <2>1 DEF Balance
  <2> QED
    BY <2>1, <2>2 DEF Balance, Working, Transfer
<1>2. CASE Refused \/ Return
  <2>1. /\ pc' = "idle" /\ held \in Nat /\ owed \in Nat /\ held = owed + 1
        /\ (held' = held /\ owed' = owed + 1) \/ (held' = held - 1 /\ owed' = owed)
    BY <1>0, <1>2 DEF Refused, Return, GivesPacket, Balance, Working, Transfer
  <2> QED
    BY <2>1 DEF Balance, Working, Transfer
<1>3. CASE Exec \/ Reinit \/ CdRead \/ Issue \/ Poll \/ Move \/ Push \/ Ready \/ EndRead \/ EndWrite
  <2>1. pc \in Working /\ pc' \in Working \cup {"stuck", "astray", "halted"} /\ held' = held /\ owed' = owed
    BY <1>3 DEF Exec, Dispatch, Reinit, CdRead, Issue, Poll, Move, Push, Ready, EndRead, EndWrite, Working, Transfer
  <2> QED
    BY <1>0, <2>1 DEF Balance, Working, Transfer
<1>4. CASE (\E d \in Slots : Offers(d) \/ Fails(d) \/ Hangs(d)) \/ UNCHANGED vars
  <2>1. UNCHANGED <<pc, held, owed>>
    BY <1>4 DEF Offers, Fails, Hangs, vars
  <2> QED
    BY <1>0, <2>1 DEF Balance
<1> QED
  BY <1>1, <1>2, <1>3, <1>4 DEF Next, Kernel
-----------------------------------------------------------------------------
(* The disks.                                                               *)

\* A command leaves the disks in order.
LEMMA CommandOK ==
    ASSUME DisksOK, call.drive \in Slots, NEW op \in {"read", "write"}, NEW l \in Nat, NEW n \in 0..255,
           Command(op, l, n), sector' = sector
    PROVE  DisksOK'
<1>1. Sectors(n) \in 1..All /\ Address(l) \in Nat /\ All \in Nat
  BY Sizes DEF All
<1>2. CASE Starts(call.drive)
  <2> DEFINE b == IF op = "read" THEN "busy in" ELSE "busy out"
  <2>1. /\ mode' = [mode EXCEPT ![call.drive] = b] /\ b \in {"busy in", "busy out"}
        /\ left' = [left EXCEPT ![call.drive] = Sectors(n)]
        /\ at' = [at EXCEPT ![call.drive] = Address(l)]
    BY <1>2 DEF Command
  <2> HIDE DEF b
  <2>2. Sectors(n) \in 0..All /\ Sectors(n) > 0
    BY <1>1
  <2>3. mode' \in [Slots -> Modes] /\ left' \in [Slots -> 0..All] /\ at' \in [Slots -> Nat]
    BY <1>1, <2>1, <2>2 DEF DisksOK, Contents, Modes
  <2>4. ASSUME NEW d \in Slots
        PROVE  /\ mode'[d] \notin {"rest", "word"} => left'[d] > 0
               /\ mode'[d] \in {"in", "out"} => at'[d] \in Lbas
    BY <2>1, <2>2 DEF DisksOK, Contents
  <2> QED
    BY <2>3, <2>4 DEF DisksOK, Contents
<1>3. CASE ~ Starts(call.drive)
  BY <1>3 DEF Command, DisksOK, Contents
<1> QED
  BY <1>2, <1>3

\* So does the end of a sector.
LEMMA OneLess ==
    /\ \A x \in 0..All : x > 0 => x - 1 \in 0..All /\ (x # 1 => x - 1 > 0)
    /\ \A x \in Nat : x + 1 \in Nat
<1> QED
  BY Sizes

LEMMA AdvanceOK ==
    ASSUME DisksOK, NEW d \in Slots, mode[d] \in {"in", "out"}, NEW b \in {"busy in", "busy out"},
           Advance(d, b), Contents'
    PROVE  DisksOK'
<1>1. left[d] \in 0..All /\ at[d] \in Nat /\ left[d] > 0
  BY DEF DisksOK
<1>2. left' = [left EXCEPT ![d] = left[d] - 1] /\ at' = [at EXCEPT ![d] = at[d] + 1]
  BY DEF Advance
<1>3. left[d] - 1 \in 0..All /\ at[d] + 1 \in Nat /\ (left[d] # 1 => left[d] - 1 > 0)
  BY <1>1, OneLess
<1>4. mode' = [mode EXCEPT ![d] = IF left[d] = 1 THEN "rest" ELSE b]
  BY DEF Advance
<1> QED
  BY <1>2, <1>3, <1>4 DEF DisksOK, Contents, Modes

LEMMA DisksStep == Inv /\ [Next]_vars => DisksOK'
<1> SUFFICES ASSUME Inv, [Next]_vars PROVE DisksOK'
  OBVIOUS
<1>0. DisksOK /\ (pc \in Working => call.drive \in Slots /\ call.op \in {"read", "write"} /\ call.value \in Values)
  BY DEF Inv, KernelOK, Calls
<1>1. CASE UNCHANGED diskVars
  BY <1>0, <1>1 DEF DisksOK, Contents, diskVars
<1>2. CASE Reinit
  <2>0. CASE UNCHANGED <<mode, left>>
    BY <1>0, <1>2, <2>0 DEF Reinit, DisksOK, Contents
  <2>1. CASE mode' = Identified /\ left' = [d \in Slots |-> 0]
    <3>1. at' = at /\ sector' = sector
      BY <1>2 DEF Reinit
    <3>2. Identified \in [Slots -> Modes] /\ \A d \in Slots : Identified[d] \in {"rest", "word"}
      BY DEF Identified, Modes
    <3> QED
      BY <1>0, <2>1, <3>1, <3>2 DEF DisksOK, Contents, All
  <2> QED
    BY <1>2, <2>0, <2>1 DEF Reinit
<1>3. CASE Issue
  <2>1. pc \in Working /\ call.lba \in Nat /\ call.n \in 0..255
    BY <1>3, Sizes DEF Issue, Inv, KernelOK, Calls, Working, Transfer
  <2> QED
    BY <1>0, <1>3, <2>1, CommandOK DEF Issue
<1>4. CASE EndWrite
  <2>1. pc \in Working /\ call.lba \in Nat /\ call.n \in 0..255
    BY <1>4, Sizes DEF EndWrite, Inv, KernelOK, Calls, Working, Transfer
  <2>2. PICK l \in {call.lba, call.lba + call.n}, n \in {0, call.n} : Command("write", l, n)
    BY <1>4 DEF EndWrite
  <2>3. l \in Nat /\ n \in 0..255
    BY <2>1
  <2> QED
    BY <1>0, <1>4, <2>1, <2>2, <2>3, CommandOK DEF EndWrite
<1>5. CASE Move
  <2>1. call.drive \in Slots /\ sector' = sector /\ Contents'
    BY <1>0, <1>5 DEF Move, Working, Transfer, DisksOK, Contents
  <2>2. CASE mode[call.drive] = "in"
    <3>1. Advance(call.drive, "busy in")
      BY <1>5, <2>2 DEF Move
    <3> QED
      BY <1>0, <2>1, <2>2, <3>1, AdvanceOK
  <2>3. CASE mode[call.drive] = "word"
    <3>1. mode' = [mode EXCEPT ![call.drive] = "rest"] /\ left' = left /\ at' = at
      BY <1>5, <2>3 DEF Move
    <3> QED
      BY <1>0, <2>1, <3>1 DEF DisksOK, Contents, Modes
  <2>4. CASE mode[call.drive] \notin {"in", "word"}
    <3>1. left' = left /\ at' = at /\ mode' = mode
      BY <1>5, <2>4 DEF Move
    <3> QED
      BY <1>0, <2>1, <3>1 DEF DisksOK, Contents
  <2> QED
    BY <2>2, <2>3, <2>4
<1>6. CASE Push
  <2> DEFINE d == call.drive
  <2>1. d \in Slots /\ Piece(moved) \in Pieces
    <3>1. d \in Slots /\ call.value \in Values
      BY <1>0, <1>6 DEF Push, Working, Transfer
    <3>2. moved \in 0..call.n /\ call.n \in Nat
      BY DEF Inv, KernelOK, Calls
    <3> QED
      BY <3>1, <3>2 DEF Piece, Place, Pieces, Unknown
  <2>2. CASE mode[d] = "out"
    <3>1. Advance(d, "busy out") /\ sector' = [sector EXCEPT ![d][at[d]] = Piece(moved)]
      BY <1>6, <2>2 DEF Push
    <3>2. Contents'
      BY <1>0, <2>1, <3>1 DEF DisksOK, Contents
    <3> QED
      BY <1>0, <2>1, <2>2, <3>1, <3>2, AdvanceOK
  <2>3. CASE mode[d] # "out"
    BY <1>1, <1>6, <2>3 DEF Push
  <2> QED
    BY <2>2, <2>3
<1>7. ASSUME NEW d \in Slots, Offers(d) \/ Fails(d) \/ Hangs(d)
      PROVE  DisksOK'
  <2>1. /\ UNCHANGED <<left, at, sector>>
        /\ mode[d] \in {"busy in", "busy out"} /\ mode' = [mode EXCEPT ![d] = mode'[d]]
        /\ mode'[d] \in {"rest", "hung"} \/ (mode'[d] \in {"in", "out"} /\ at[d] \in Lbas)
    BY <1>0, <1>7 DEF Offers, Fails, Hangs, Answering, DisksOK, Contents
  <2>2. mode' \in [Slots -> Modes]
    BY <1>0, <2>1 DEF DisksOK, Contents, Modes
  <2> QED
    BY <1>0, <2>1, <2>2 DEF DisksOK, Contents
<1>8. CASE \/ Refused \/ Return \/ Exec \/ CdRead \/ Poll \/ Ready \/ EndRead \/ UNCHANGED vars
  BY <1>1, <1>8 DEF Refused, Return, Exec, CdRead, Poll, Ready, EndRead, vars, diskVars
<1>9. ASSUME NEW op, NEW type, NEW number, NEW l, NEW n, NEW v, Call(op, type, number, l, n, v)
      PROVE  DisksOK'
  BY <1>1, <1>9 DEF Call
<1> QED
  BY <1>2, <1>3, <1>4, <1>5, <1>6, <1>7, <1>8, <1>9 DEF Next, Kernel
-----------------------------------------------------------------------------
(* A call and its disk.                                                     *)

\* The disk of a call, and what the two have in common.
LEMMA Together ==
    ASSUME Inv, pc \in Transfer \cup {"command", "done"}
    PROVE  /\ call.drive \in Slots /\ call.lba \in Lbas /\ call.lba \in Nat /\ call.n \in 0..255
           /\ call.op \in {"read", "write"} /\ moved \in 0..call.n
           /\ mode \in [Slots -> Modes] /\ left \in [Slots -> 0..All] /\ at \in [Slots -> Nat]
           /\ at[call.drive] \in Nat
  BY Sizes DEF Inv, KernelOK, DisksOK, Calls, Working

LEMMA WriteStep == Inv /\ [Next]_vars => WriteInStep'
<1> SUFFICES ASSUME Inv, [Next]_vars, started', call'.op = "write", pc' \in {"ready", "push"}
             PROVE  \/ mode'[call'.drive] = "rest"
                    \/ /\ mode'[call'.drive] \in {"busy out", "out", "hung"}
                       /\ at'[call'.drive] \in Address(call'.lba)..Address(call'.lba) + moved'
  BY DEF WriteInStep
<1> DEFINE d == call.drive  a == Address(call.lba)
<1>0. WriteInStep /\ (pc \in {"poll", "move"} => call.op = "read")
  BY DEF Inv, KernelOK
<1>1. CASE Issue
  <2>1. pc = "command" /\ call' = call /\ moved' = moved /\ started' = Starts(d) /\ Command(call.op, call.lba, call.n)
    BY <1>1 DEF Issue
  <2>2. moved = 0 /\ a \in Nat /\ d \in Slots
    BY <2>1, Together, Sizes DEF Inv, KernelOK
  <2>3. mode' = [mode EXCEPT ![d] = "busy out"] /\ at' = [at EXCEPT ![d] = a]
    BY <2>1, <2>2 DEF Command
  <2>4. mode'[d] = "busy out" /\ at'[d] = a
    BY <2>1, <2>2, <2>3, Together
  <2>5. a \in a..a + 0 /\ moved' = 0 /\ call' = call
    BY <2>1, <2>2
  <2> QED
    BY <2>4, <2>5
<1>2. CASE Push
  <2>1. pc = "push" /\ call' = call /\ started' = started /\ moved' = moved + 1
    BY <1>2 DEF Push, callVars
  <2>2. /\ d \in Slots /\ a \in Nat /\ moved \in Nat /\ at[d] \in Nat
        /\ mode \in [Slots -> Modes] /\ at \in [Slots -> Nat]
    BY <2>1, Together, Sizes DEF Transfer
  <2>3. \/ mode[d] = "rest"
        \/ mode[d] \in {"busy out", "out", "hung"} /\ at[d] \in a..a + moved
    BY <1>0, <2>1 DEF WriteInStep
  <2>4. CASE mode[d] = "out"
    <3>1. Advance(d, "busy out")
      BY <1>2, <2>4 DEF Push
    <3>2. mode'[d] \in {"rest", "busy out"} /\ at'[d] = at[d] + 1
      BY <2>2, <3>1 DEF Advance
    <3>3. at[d] \in a..a + moved
      BY <2>3, <2>4
    <3>4. at[d] + 1 \in a..a + (moved + 1)
      BY <2>2, <3>3
    <3> QED
      BY <2>1, <3>2, <3>4
  <2>5. CASE mode[d] # "out"
    <3>1. mode' = mode /\ at' = at
      BY <1>2, <2>5 DEF Push, diskVars
    <3>2. at[d] \in a..a + moved => at[d] \in a..a + (moved + 1)
      BY <2>2
    <3> QED
      BY <2>1, <2>3, <3>1, <3>2
  <2> QED
    BY <2>4, <2>5
<1>3. CASE Ready \/ UNCHANGED vars
  <2>1. pc \in {"ready", "push"} /\ UNCHANGED <<call, started, moved, mode, at>>
    BY <1>3 DEF Ready, callVars, diskVars, vars
  <2> QED
    BY <1>0, <2>1 DEF WriteInStep
<1>4. CASE Move
  <2>1. pc = "move" /\ call' = call
    BY <1>4 DEF Move, callVars
  <2> QED
    BY <1>0, <2>1
<1>5. ASSUME NEW e \in Slots, Offers(e) \/ Fails(e) \/ Hangs(e)
      PROVE  \/ mode'[call'.drive] = "rest"
             \/ /\ mode'[call'.drive] \in {"busy out", "out", "hung"}
                /\ at'[call'.drive] \in Address(call'.lba)..Address(call'.lba) + moved'
  <2>1. UNCHANGED <<pc, call, started, moved, at>> /\ Answering(e)
    BY <1>5 DEF Offers, Fails, Hangs, callVars
  <2>2. mode \in [Slots -> Modes] /\ d \in Slots
    BY <2>1, Together DEF Transfer
  <2>3. \/ mode[d] = "rest"
        \/ mode[d] \in {"busy out", "out", "hung"} /\ at[d] \in a..a + moved
    BY <1>0, <2>1 DEF WriteInStep
  <2>4. \/ mode' = [mode EXCEPT ![e] = IF mode[e] = "busy in" THEN "in" ELSE "out"]
        \/ mode' = [mode EXCEPT ![e] = "rest"]
        \/ mode' = [mode EXCEPT ![e] = "hung"]
    BY <1>5 DEF Offers, Fails, Hangs
  <2>5. CASE e = d
    BY <2>1, <2>2, <2>3, <2>4, <2>5 DEF Answering
  <2>6. CASE e # d
    BY <2>1, <2>2, <2>3, <2>4, <2>6
  <2> QED
    BY <2>5, <2>6
<1>6. CASE Refused \/ Return \/ Exec \/ Reinit \/ CdRead \/ Poll \/ EndRead \/ EndWrite
  BY <1>6 DEF Refused, Return, Exec, Dispatch, Reinit, CdRead, Poll, EndRead, EndWrite
<1>7. ASSUME NEW op, NEW type, NEW number, NEW l, NEW n, NEW v, Call(op, type, number, l, n, v)
      PROVE  FALSE
  BY <1>7 DEF Call
<1> QED
  BY <1>1, <1>2, <1>3, <1>4, <1>5, <1>6, <1>7 DEF Next, Kernel

\* The two stages of a read of one sector.
Offering == /\ moved = 0 /\ left[call.drive] = 1 /\ at[call.drive] = Address(call.lba)
            /\ pc = "poll" => mode[call.drive] \in {"busy in", "in", "hung"}
            /\ pc # "poll" => pc = "move" /\ mode[call.drive] = "in"
Moved == /\ moved = 1 /\ mode[call.drive] = "rest" /\ pc # "poll"
         /\ 0 \in DOMAIN buffer /\ buffer[0] = sector[call.drive][Address(call.lba)]

LEMMA ReadStep == Inv /\ [Next]_vars => ReadInStep'
<1> SUFFICES ASSUME Inv, [Next]_vars, started', call'.op = "read", call'.n = 1, pc' \in Transfer \cup {"done"}
             PROVE  Offering' \/ Moved'
  BY DEF ReadInStep, Offering, Moved
<1> DEFINE d == call.drive
<1>0. /\ KernelOK
      /\ started /\ call.op = "read" /\ call.n = 1 /\ pc \in Transfer \cup {"done"} => Offering \/ Moved
  BY DEF Inv, ReadInStep, Offering, Moved
<1>1. CASE Issue
  <2>1. /\ pc = "command" /\ call' = call /\ moved' = moved /\ started' = Starts(d)
        /\ Command(call.op, call.lba, call.n) /\ pc' = "poll"
    BY <1>1 DEF Issue
  <2>2. moved = 0 /\ d \in Slots /\ Sectors(1) = 1
    BY <1>0, <2>1, Together, Sizes DEF KernelOK, Sectors
  <2>3. /\ mode' = [mode EXCEPT ![d] = "busy in"] /\ at' = [at EXCEPT ![d] = Address(call.lba)]
        /\ left' = [left EXCEPT ![d] = 1]
    BY <2>1, <2>2 DEF Command
  <2>4. mode'[d] = "busy in" /\ at'[d] = Address(call.lba) /\ left'[d] = 1
    BY <2>1, <2>2, <2>3, Together
  <2> QED
    BY <2>1, <2>2, <2>4 DEF Offering
<1>2. CASE Poll
  <2>1. pc = "poll" /\ pc' = "move" /\ ~ Busy(d) /\ UNCHANGED <<call, started, moved, mode, left, at>>
    BY <1>2 DEF Poll, Polled, callVars, diskVars
  <2>2. Offering
    BY <1>0, <2>1 DEF Transfer, Moved
  <2> QED
    BY <2>1, <2>2 DEF Offering, Busy, Answering
<1>3. CASE Move
  <2>1. /\ pc = "move" /\ moved < call.n /\ moved' = moved + 1 /\ pc' = "ready" /\ sector' = sector
        /\ UNCHANGED <<call, started>>
    BY <1>3 DEF Move, callVars
  <2>2. Offering /\ d \in Slots /\ mode \in [Slots -> Modes]
    <3>1. Offering \/ Moved
      BY <1>0, <2>1 DEF Transfer
    <3> QED
      BY <2>1, <3>1, Together DEF Transfer, Moved
  <2>3. moved = 0 /\ left[d] = 1 /\ at[d] = Address(call.lba) /\ mode[d] = "in"
    BY <2>1, <2>2 DEF Offering
  <2>4. Advance(d, "busy in")
    BY <1>3, <2>3 DEF Move
  <2>5. mode'[d] = "rest"
    BY <2>2, <2>3, <2>4 DEF Advance
  <2>6. Place(0) = 0
    BY DEF Place
  <2>7. 0 \in DOMAIN buffer' /\ buffer'[0] = sector[d][Address(call.lba)]
    BY <1>3, <2>3, <2>6 DEF Move
  <2> QED
    BY <2>1, <2>3, <2>5, <2>7 DEF Moved
<1>4. CASE Ready \/ EndRead
  <2>1. /\ pc \in {"ready", "move"} /\ (pc = "move" => moved = 1) /\ pc' # "poll"
        /\ UNCHANGED <<call, started, moved, buffer, mode, sector>>
    BY <1>4 DEF Ready, EndRead, callVars, diskVars
  <2>2. Offering \/ Moved
    BY <1>0, <2>1 DEF Transfer
  <2>3. ~ Offering
    <3>1. Offering => moved = 0 /\ (pc # "poll" => pc = "move")
      BY DEF Offering
    <3>2. pc # "poll" /\ (pc = "move" => moved # 0)
      BY <2>1
    <3> QED
      BY <3>1, <3>2
  <2> QED
    BY <2>1, <2>2, <2>3 DEF Moved
<1>5. CASE Push \/ EndWrite
  <2>1. pc = "push" /\ call' = call
    BY <1>5 DEF Push, EndWrite, callVars
  <2> QED
    BY <1>0, <2>1 DEF KernelOK
<1>6. ASSUME NEW e \in Slots, Offers(e) \/ Fails(e) \/ Hangs(e)
      PROVE  Offering' \/ Moved'
  <2>1. UNCHANGED <<pc, call, started, moved, buffer, left, at, sector>> /\ Answering(e)
    BY <1>6 DEF Offers, Fails, Hangs, callVars
  <2>2. mode \in [Slots -> Modes] /\ d \in Slots /\ call.lba \in Lbas
    BY <2>1, Together
  <2>3. \/ mode' = [mode EXCEPT ![e] = IF mode[e] = "busy in" THEN "in" ELSE "out"] /\ at[e] \in Lbas
        \/ mode' = [mode EXCEPT ![e] = "rest"] /\ at[e] \notin Lbas
        \/ mode' = [mode EXCEPT ![e] = "hung"]
    BY <1>6 DEF Offers, Fails, Hangs
  <2>4. CASE Moved
    <3>1. e # d
      BY <2>1, <2>4 DEF Moved, Answering
    <3>2. mode'[d] = mode[d]
      BY <2>2, <2>3, <3>1
    <3> QED
      BY <2>1, <2>4, <3>2 DEF Moved
  <2>5. CASE Offering
    <3>1. at[d] \in Lbas
      BY <2>2, <2>5, Sizes DEF Offering
    <3>2. mode'[d] \in {mode[d], "in", "hung"} /\ (pc # "poll" => mode'[d] = mode[d])
      BY <2>1, <2>2, <2>3, <2>5, <3>1 DEF Offering, Answering
    <3> QED
      BY <2>1, <2>5, <3>1, <3>2 DEF Offering
  <2> QED
    BY <1>0, <2>1, <2>4, <2>5
<1>7. CASE Reinit \/ CdRead
  <2>1. pc \in {"init", "cd"} /\ started' = started
    BY <1>7 DEF Reinit, CdRead, callVars
  <2> QED
    BY <1>0, <2>1 DEF KernelOK, Transfer
<1>8. CASE UNCHANGED vars
  BY <1>0, <1>8 DEF vars, Offering, Moved
<1>9. CASE Refused \/ Return \/ Exec
  BY <1>9 DEF Refused, Return, Exec, Dispatch, Transfer
<1>10. ASSUME NEW op, NEW type, NEW number, NEW l, NEW n, NEW v, Call(op, type, number, l, n, v)
       PROVE  FALSE
  BY <1>10 DEF Call, Transfer
<1> QED
  BY <1>1, <1>2, <1>3, <1>4, <1>5, <1>6, <1>7, <1>8, <1>9, <1>10 DEF Next, Kernel

LEMMA InvAlways == Spec => []Inv
<1>1. Inv /\ [Next]_vars => Inv'
  BY KernelStep, BalanceStep, DisksStep, WriteStep, ReadStep DEF Inv
<1> QED
  BY InitInv, <1>1, PTL DEF Spec
-----------------------------------------------------------------------------
(* The theorems.                                                            *)

\* The counters of the disks and of the kernel stay within their ranges, for any calls.
THEOREM TypeCorrect == Spec => []TypeOK
<1>1. Inv => TypeOK
  <2> SUFFICES ASSUME Inv PROVE TypeOK
    OBVIOUS
  <2>1. /\ pc \in {"idle", "exec", "refused", "command", "init", "cd", "poll", "move", "push",
                   "ready", "done", "halted", "stuck", "astray"}
        /\ pc \notin {"idle", "refused", "halted", "stuck", "astray"} => call.drive \in Slots
        /\ moved \in 0..call.n
    BY DEF Inv, KernelOK, Working, Transfer
  <2>2. /\ mode \in [Slots -> Modes] /\ sector \in [Slots -> [Lbas -> (Values \cup {Junk}) \X Nat]]
        /\ \A d \in Slots : left[d] \in 0..All /\ at[d] \in Nat
    BY DEF Inv, DisksOK, Contents, Pieces
  <2> QED
    BY <2>1, <2>2 DEF Inv, Balance, TypeOK, Modes
<1> QED
  BY InvAlways, <1>1, PTL

\* Between calls the heap is short of what the code forgets and nothing else, whatever
\* calls there have been (read, write and to_actual_drive).
THEOREM HeldIsOwedAlways == Spec => []HeldIsOwed
<1>1. Inv => HeldIsOwed
  BY DEF Inv, Balance, HeldIsOwed
<1> QED
  BY InvAlways, <1>1, PTL

\* A read of one sector that the disk starts is exact, whatever was cut off before it and
\* whatever the other disks are in the middle of (IDE_readPIO28, IDE_polling).
THEOREM ReadExactAlways == Spec => []ReadExact
<1>1. Inv => ReadExact
  <2> SUFFICES ASSUME Inv, pc = "done", started, call.op = "read", call.n = 1, Near(call.lba)
               PROVE  buffer[0] = sector[call.drive][call.lba] /\ mode[call.drive] = "rest"
    BY DEF ReadExact
  <2>1. Address(call.lba) = call.lba
    BY Together, Sizes
  <2> QED
    BY <2>1 DEF Inv, ReadInStep, Transfer
<1> QED
  BY InvAlways, <1>1, PTL

\* Sectors change only in a write to their disk, and only those asked for unless the disk
\* ignored the command (IDE_writePIO28 and its second command).
THEOREM WritesInPlaceAlways == Spec => WritesInPlace
<1> DEFINE Changes == \A d \in Slots : \A l \in Lbas : sector'[d][l] # sector[d][l] =>
                         /\ call.op = "write" /\ call.drive = d
                         /\ started /\ Near(call.lba) => l \in call.lba..call.lba + call.n - 1
<1>1. Inv /\ [Next]_vars => [Changes]_vars
  <2> SUFFICES ASSUME Inv, Next PROVE Changes
    OBVIOUS
  <2>1. CASE sector' = sector
    BY <2>1
  <2>2. CASE Push
    <3>1. pc = "push" /\ moved < call.n
      BY <2>2 DEF Push
    <3>2. call.op = "write"
      BY <3>1 DEF Inv, KernelOK
    <3>3. /\ call.drive \in Slots /\ call.lba \in Nat /\ call.n \in Nat /\ moved \in Nat
          /\ at[call.drive] \in Nat
      BY <3>1, Together DEF Transfer
    <3>4. ASSUME sector' # sector
          PROVE  mode[call.drive] = "out" /\ sector' = [sector EXCEPT ![call.drive][at[call.drive]] = Piece(moved)]
      BY <2>2, <3>4 DEF Push, diskVars
    <3>5. ASSUME NEW d \in Slots, NEW l \in Lbas, sector'[d][l] # sector[d][l]
          PROVE  d = call.drive /\ l = at[d] /\ mode[d] = "out"
      <4>1. sector' = [sector EXCEPT ![call.drive][at[call.drive]] = Piece(moved)] /\ mode[call.drive] = "out"
        BY <3>4, <3>5
      <4>2. sector \in [Slots -> [Lbas -> Pieces]]
        BY DEF Inv, DisksOK, Contents
      <4> QED
        BY <3>5, <4>1, <4>2
    <3>6. started /\ mode[call.drive] = "out" =>
            at[call.drive] \in Address(call.lba)..Address(call.lba) + moved
      BY <3>1, <3>2 DEF Inv, WriteInStep
    <3>7. Near(call.lba) => Address(call.lba) = call.lba
      BY <3>3, Sizes
    <3>8. at[call.drive] \in call.lba..call.lba + moved => at[call.drive] \in call.lba..call.lba + call.n - 1
      BY <3>1, <3>3
    <3> QED
      BY <3>2, <3>5, <3>6, <3>7, <3>8
  <2>3. CASE ~ Push
    <3>1. ASSUME NEW op, NEW type, NEW number, NEW l, NEW n, NEW v, Call(op, type, number, l, n, v)
          PROVE  sector' = sector
      BY <3>1 DEF Call, diskVars
    <3> QED
      BY <2>1, <2>3, <3>1 DEF Next, Kernel, Refused, Return, Exec, Reinit, CdRead, Issue, Poll, Move, Ready,
                              EndRead, EndWrite, Offers, Fails, Hangs, diskVars
  <2> QED
    BY <2>2, <2>3
<1>2. Spec => [][Changes]_vars
  BY InvAlways, <1>1, PTL DEF Spec
<1> QED
  BY <1>2 DEF WritesInPlace
===============================================================================
