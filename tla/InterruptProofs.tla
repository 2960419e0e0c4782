--------------------------- MODULE InterruptProofs ---------------------------
(***************************************************************************)
(* Theorems about the two modules whose steps are interrupts and a loop    *)
(* that waits for them: Atapi, for any number of drives, and Timer, for a  *)
(* clock of any size.                                                      *)
(***************************************************************************)
EXTENDS Atapi, Timer, TLAPS

-----------------------------------------------------------------------------
(* Types *)

\* A drive that offers a sector has one left to deliver.
Owing == \A d \in Drives : stage[d] = "data" => todo[d] > 0

LEMMA TypeStep == ASSUME TypeOK, Owing, [Next]_vars PROVE TypeOK' /\ Owing'
<1> USE DEF TypeOK, Labels, driverVars, driveVars, diskVars, At, Owing
<1>0. Sectors \subseteq Nat
  BY AtapiAssumption
<1>1. CASE UNCHANGED vars
  BY <1>1 DEF vars
<1>2. ASSUME NEW d \in Drives, NEW n \in Sectors, Start(d, n) PROVE TypeOK' /\ Owing'
  <2>1. UNCHANGED <<flag, stage, todo, pending, owing>> /\ early' = FALSE
    BY <1>2 DEF Start
  <2>2. /\ pc' \in Labels /\ drive' \in Drives /\ want' \in Sectors \cup {0}
        /\ taken' \in 0..want' /\ good' \in 0..taken' /\ result' \in {"none", "success"}
    BY <1>0, <1>2 DEF Start
  <2> QED
    BY <2>1, <2>2
<1>3. ASSUME NEW d \in Drives \cup HardDisks, Irq(d) PROVE TypeOK' /\ Owing'
  <2>1. early' \in BOOLEAN
    BY <1>3, Zenon DEF Irq
  <2> QED
    BY <1>3, <2>1 DEF Irq
<1>12. ASSUME NEW h \in HardDisks, DiskCall(h) \/ Completes(h) PROVE TypeOK' /\ Owing'
  BY <1>12 DEF DiskCall, Completes, Raises
<1>4. ASSUME NEW d \in Drives, Works(d) PROVE TypeOK' /\ Owing'
  <2>1. CASE TakesPacket(d)
    BY <2>1 DEF TakesPacket, GoesTo
  <2>2. CASE Offers(d)
    BY <2>2 DEF Offers, GoesTo, Raises
  <2>3. CASE Finishes(d)
    BY <2>3 DEF Finishes, GoesTo, Raises
  <2> QED
    BY <1>4, <2>1, <2>2, <2>3 DEF Works
<1>5. ASSUME NEW d \in Drives, Breaks(d) PROVE TypeOK' /\ Owing'
  <2>1. CASE Rejects(d)
    BY <2>1 DEF Rejects, GoesTo, Raises
  <2>2. CASE Fails(d)
    BY <2>2 DEF Fails, GoesTo, Raises
  <2>3. CASE Hangs(d)
    BY <2>3 DEF Hangs, GoesTo
  <2> QED
    BY <1>5, <2>1, <2>2, <2>3 DEF Breaks
<1>6. ASSUME NEW to \in Labels, NEW from, ClearFlag(from, to) PROVE TypeOK' /\ Owing'
  BY <1>6 DEF ClearFlag
<1>7. CASE Command
  BY <1>7 DEF Command
<1>8. CASE SendPacket
  <2>1. want \in Nat
    BY <1>0
  <2> QED
    BY <1>8, <2>1 DEF SendPacket
<1>9. CASE WaitNotBusy \/ WaitDrq \/ WaitInterrupt \/ CheckSize \/ Moved \/ Poll
  BY <1>9 DEF WaitNotBusy, WaitDrq, WaitInterrupt, CheckSize, Moved, Poll
<1>10. CASE Move
  <2>1. taken + 1 \in 0..want /\ good \in 0..(taken + 1) /\ good + 1 \in 0..(taken + 1)
    BY <1>0, <1>10 DEF Move, MoveLeft
  <2>2. CASE stage[drive] = "data"
    <3>1. todo[drive] - 1 \in Nat
      BY <2>2
    <3> QED
      BY <1>10, <2>1, <2>2, <3>1 DEF Move
  <2>3. CASE stage[drive] # "data"
    BY <1>10, <2>1, <2>3 DEF Move
  <2> QED
    BY <2>2, <2>3
<1>11. CASE Return
  BY <1>11 DEF Return
<1> QED
  BY <1>1, <1>2, <1>3, <1>4, <1>5, <1>6, <1>7, <1>8, <1>9, <1>10, <1>11,
     <1>12 DEF Next, Driver

\* Every variable keeps its type: insw moves no more sectors than were asked
\* for, and no drive is left to deliver a negative number of them.
THEOREM TypeCorrect == Spec => []TypeOK
<1>1. Init => TypeOK /\ Owing
  <2> SUFFICES ASSUME Init PROVE TypeOK /\ Owing
    OBVIOUS
  <2>1. TypeOK
    <3>1. stage \in [Drives -> {"idle"}] /\ todo \in [Drives -> {0}]
      BY DEF Init
    <3>2. taken \in 0..want /\ good \in 0..taken
      BY DEF Init
    <3>3. /\ stage \in [Drives -> {"idle", "command", "packet", "reading", "data",
                                   "failed", "hung"}]
          /\ todo \in [Drives -> Nat]
      BY <3>1
    <3>4. pending \subseteq Drives \cup HardDisks /\ owing \subseteq HardDisks
      BY Zenon DEF Init
    <3> QED
      BY <3>2, <3>3, <3>4 DEF Init, TypeOK, Labels
  <2>2. Owing
    BY DEF Init, Owing
  <2> QED
    BY <2>1, <2>2
<1>2. TypeOK /\ Owing /\ [Next]_vars => TypeOK' /\ Owing'
  BY TypeStep
<1> QED
  BY <1>1, <1>2, PTL DEF Spec
-----------------------------------------------------------------------------
(* Between reads *)

\* A drive that will not raise an interrupt unless it gets a command.
AtRest(d) == stage[d] \in {"idle", "failed"}

\* Where the read that goes on has no command out.
NoCommandOut == pc \in {"idle", "clear", "command", "finish"}

\* Only the drive of the read that goes on is at work, and it has come to rest,
\* with its interrupt taken, before the read clears the bit for the last time.
Quiet == /\ \A d \in Drives : (d # drive \/ NoCommandOut) => AtRest(d)
         /\ NoCommandOut => pending \subseteq HardDisks
         /\ pc = "command" /\ flag => early

LEMMA QuietStep == ASSUME TypeOK, Quiet, [Next]_vars PROVE Quiet'
<1> USE DEF TypeOK, Labels, driverVars, driveVars, diskVars, At, Quiet, AtRest, NoCommandOut
<1>1. CASE UNCHANGED vars
  BY <1>1 DEF vars
<1>2. ASSUME NEW d \in Drives, NEW n \in Sectors, Start(d, n) PROVE Quiet'
  BY <1>2 DEF Start
<1>3. ASSUME NEW d \in Drives \cup HardDisks, Irq(d) PROVE Quiet'
  <2>1. pc = "command" => d \in HardDisks
    BY <1>3 DEF Irq
  <2> QED
    BY <1>3, <2>1 DEF Irq, AwaitsInterrupt
<1>12. ASSUME NEW h \in HardDisks, DiskCall(h) \/ Completes(h) PROVE Quiet'
  <2>1. CASE DiskCall(h)
    BY <2>1 DEF DiskCall
  <2>2. CASE Completes(h)
    <3>1. /\ UNCHANGED <<driverVars, driveVars, flag, early>>
          /\ pending \subseteq HardDisks => pending' \subseteq HardDisks
      BY <2>2 DEF Completes, Raises
    <3> QED
      BY <3>1
  <2> QED
    BY <1>12, <2>1, <2>2
<1>4. ASSUME NEW d \in Drives, Works(d) PROVE Quiet'
  <2>1. d = drive /\ ~NoCommandOut
    BY <1>4 DEF Works, TakesPacket, Offers, Finishes
  <2> QED
    BY <1>4, <2>1 DEF Works, TakesPacket, Offers, Finishes, GoesTo, Raises
<1>5. ASSUME NEW d \in Drives, Breaks(d) PROVE Quiet'
  <2>1. d = drive /\ ~NoCommandOut
    BY <1>5 DEF Breaks, Rejects, Fails, Hangs
  <2> QED
    BY <1>5, <2>1 DEF Breaks, Rejects, Fails, Hangs, GoesTo, Raises
<1>6. CASE ClearFlag("clear", "command") \/ ClearFlag("woken", "check")
  BY <1>6 DEF ClearFlag
<1>7. CASE Command \/ SendPacket
  BY <1>7 DEF Command, SendPacket
<1>8. CASE WaitNotBusy \/ WaitDrq \/ WaitInterrupt \/ CheckSize \/ Moved
  BY <1>8 DEF WaitNotBusy, WaitDrq, WaitInterrupt, CheckSize, Moved
<1>9. CASE Move
  BY <1>9 DEF Move
<1>10. CASE Poll
  <2>1. AtRest(drive)
    BY <1>10 DEF Poll, Working, BSY, DRQ
  <2> QED
    BY <1>10, <2>1 DEF Poll
<1>11. CASE Return
  BY <1>11 DEF Return
<1> QED
  BY <1>1, <1>2, <1>3, <1>4, <1>5, <1>6, <1>7, <1>8, <1>9, <1>10, <1>11,
     <1>12 DEF Next, Driver

LEMMA QuietAlways == Spec => []Quiet
<1>1. Init => Quiet
  BY DEF Init, Quiet, AtRest, NoCommandOut
<1>2. TypeOK /\ Quiet /\ [Next]_vars => Quiet'
  BY QuietStep
<1> QED
  BY <1>1, <1>2, TypeCorrect, PTL DEF Spec

\* However many drives there are and whatever they do wrong, no CD drive is at work
\* between two reads, and no interrupt of one outlives its read.
THEOREM NothingStaleAlways == Spec => []NothingStale
<1>1. Quiet => NothingStale
  <2> SUFFICES ASSUME Quiet, pc \in {"idle", "clear", "command"}
               PROVE  /\ \A d \in Drives : ~BSY(d) /\ ~DRQ(d) /\ d \notin pending
                      /\ pc = "command" /\ flag => early
    BY DEF NothingStale
  <2>1. \A d \in Drives : AtRest(d) /\ d \notin pending
    BY AtapiAssumption DEF Quiet, NoCommandOut
  <2> QED
    BY <2>1 DEF Quiet, AtRest, BSY, DRQ
<1> QED
  BY <1>1, QuietAlways, PTL
-----------------------------------------------------------------------------
(* Reads of at most one sector *)

\* The drive has answered the packet, and the driver has not moved anything.
Answered == /\ taken = 0 /\ good = 0
            /\ stage[drive] = IF want = 0 THEN "idle" ELSE "data"

\* No interrupt is there that the driver could take for the answer.
Silent == ~flag /\ pending \subseteq HardDisks

\* Nothing is moved before the answer, and the bit is clear when the command goes out.
Unmoved ==
    /\ pc \in {"clear", "command", "busy", "drq", "packet", "wait", "woken", "check"} =>
          taken = 0 /\ good = 0
    /\ pc = "command" /\ ~early => Silent

\* Where the read is, the drive is too, unless it has given up: the bit is clear from
\* before the command until the drive has answered the packet, so that it can only
\* mean the answer; all of it as long as no hard disk has set it.
InStep ==
    /\ stage[drive] # "failed" /\ ~early =>
         /\ pc = "busy" => stage[drive] \in {"command", "packet", "hung"} /\ Silent
         /\ pc = "drq" => stage[drive] = "packet" /\ Silent
    /\ pc = "packet" /\ ~early => stage[drive] = "packet" /\ Silent
    /\ want <= 1 /\ stage[drive] # "failed" /\ ~early =>
         /\ pc = "wait" => \/ Answered
                           \/ /\ stage[drive] = "reading" /\ todo[drive] = want
                              /\ Silent
                           \/ stage[drive] = "hung" /\ Silent
         /\ pc \in {"woken", "check"} => Answered
         /\ pc = "move" => Answered \/ (taken = 1 /\ good = 1 /\ want = 1)
         /\ pc = "poll" => good = want

LEMMA UnmovedStep == ASSUME TypeOK, Quiet, Unmoved, [Next]_vars PROVE Unmoved'
<1> USE DEF driverVars, driveVars, diskVars, At, Unmoved, Silent, Quiet, NoCommandOut
<1>1. CASE UNCHANGED vars
  BY <1>1 DEF vars
<1>2. ASSUME NEW d \in Drives, NEW n \in Sectors, Start(d, n) PROVE Unmoved'
  BY <1>2 DEF Start
<1>3. ASSUME NEW d \in Drives \cup HardDisks, Irq(d) PROVE Unmoved'
  <2>1. pc = "command" => d \in HardDisks
    BY <1>3 DEF Irq
  <2> QED
    BY <1>3, <2>1 DEF Irq, AwaitsInterrupt
<1>8. ASSUME NEW h \in HardDisks, DiskCall(h) \/ Completes(h) PROVE Unmoved'
  <2>1. CASE DiskCall(h)
    BY <2>1 DEF DiskCall
  <2>2. CASE Completes(h)
    <3>1. /\ UNCHANGED <<driverVars, driveVars, flag, early>>
          /\ pending \subseteq HardDisks => pending' \subseteq HardDisks
      BY <2>2 DEF Completes, Raises
    <3> QED
      BY <3>1
  <2> QED
    BY <1>8, <2>1, <2>2
<1>4. ASSUME NEW d \in Drives, Works(d) \/ Breaks(d) PROVE Unmoved'
  <2>1. ~NoCommandOut /\ UNCHANGED <<driverVars, flag>>
    BY <1>4 DEF Works, TakesPacket, Offers, Finishes, Breaks, Rejects, Fails, Hangs, GoesTo, AtRest
  <2> QED
    BY <2>1
<1>5. CASE ClearFlag("clear", "command") \/ ClearFlag("woken", "check")
  BY <1>5 DEF ClearFlag
<1>6. CASE Command \/ WaitNotBusy \/ WaitDrq \/ SendPacket
  BY <1>6 DEF Command, WaitNotBusy, WaitDrq, SendPacket
<1>7. CASE WaitInterrupt \/ CheckSize \/ Move \/ Moved \/ Poll \/ Return
  BY <1>7 DEF WaitInterrupt, CheckSize, Move, Moved, Poll, Return
<1> QED
  BY <1>1, <1>2, <1>3, <1>4, <1>5, <1>6, <1>7, <1>8 DEF Next, Driver

LEMMA InStepStep ==
  ASSUME TypeOK, Quiet, Unmoved, InStep, [Next]_vars PROVE InStep'
<1> USE DEF driverVars, driveVars, diskVars, At, InStep, Answered, Silent
<1>0. want \in Nat
  BY AtapiAssumption DEF TypeOK
<1>01. stage \in [Drives -> {"idle", "command", "packet", "reading", "data", "failed", "hung"}]
       /\ todo \in [Drives -> Nat] /\ drive \in Drives /\ pc \in Labels /\ flag \in BOOLEAN
       /\ taken \in 0..want /\ early \in BOOLEAN
  BY DEF TypeOK
<1>1. CASE UNCHANGED vars
  BY <1>1 DEF vars
<1>2. ASSUME NEW d \in Drives, NEW n \in Sectors, Start(d, n) PROVE InStep'
  BY <1>2 DEF Start
<1>3. ASSUME NEW d \in Drives \cup HardDisks, Irq(d) PROVE InStep'
  <2>1. ~early' => ~early
    BY <1>3 DEF Irq
  <2>2. d \in HardDisks => early' = (early \/ (AwaitsInterrupt /\ ~flag))
    BY <1>3 DEF Irq
  <2>3. UNCHANGED <<pc, drive, want, taken, good, stage, todo>> /\ d \in pending
    BY <1>3 DEF Irq
  <2>4. ~early' /\ AwaitsInterrupt => ~Silent
    BY <2>2, <2>3
  <2>5. CASE early'
    BY <2>5
  <2>6. CASE ~early'
    <3>1. ~early
      BY <2>1, <2>6
    <3>2. pc \notin {"busy", "drq", "packet", "wait"} \/ ~Silent
      <4>1. pc \in {"busy", "drq", "packet", "wait"} => AwaitsInterrupt
        BY DEF AwaitsInterrupt
      <4> HIDE DEF Silent
      <4> QED
        BY <2>4, <2>6, <4>1, Zenon
    <3> QED
      BY <2>3, <3>1, <3>2
  <2> QED
    BY <2>5, <2>6
<1>18. ASSUME NEW h \in HardDisks, DiskCall(h) \/ Completes(h) PROVE InStep'
  <2>1. CASE DiskCall(h)
    BY <1>18, <2>1 DEF DiskCall
  <2>2. CASE Completes(h)
    <3>1. /\ UNCHANGED <<driverVars, driveVars, flag, early>>
          /\ pending \subseteq HardDisks => pending' \subseteq HardDisks
      BY <2>2 DEF Completes, Raises
    <3> QED
      BY <3>1
  <2> QED
    BY <1>18, <2>1, <2>2
<1>4. ASSUME NEW d \in Drives, Works(d) PROVE InStep'
  <2>1. d = drive /\ ~NoCommandOut
    BY <1>4 DEF Works, TakesPacket, Offers, Finishes, Quiet, AtRest
  <2>2. CASE TakesPacket(d)
    BY <2>1, <2>2, <1>01 DEF TakesPacket, GoesTo
  <2>3. CASE Offers(d)
    <3>1. stage'[drive] = "data" /\ stage[drive] = "reading" /\ todo[drive] > 0
      BY <2>1, <2>3, <1>01 DEF Offers, GoesTo
    <3>2. UNCHANGED <<pc, taken, good, want, drive, early>>
      BY <2>3 DEF Offers, GoesTo
    <3> QED
      BY <1>0, <3>1, <3>2, <2>1 DEF NoCommandOut, Unmoved
  <2>4. CASE Finishes(d)
    <3>1. stage'[drive] = "idle" /\ stage[drive] = "reading" /\ todo[drive] = 0
      BY <2>1, <2>4, <1>01 DEF Finishes, GoesTo
    <3>2. UNCHANGED <<pc, taken, good, want, drive, early>>
      BY <2>4 DEF Finishes, GoesTo
    <3> QED
      BY <1>0, <3>1, <3>2, <2>1 DEF NoCommandOut, Unmoved
  <2> QED
    BY <1>4, <2>2, <2>3, <2>4 DEF Works
<1>5. ASSUME NEW d \in Drives, Breaks(d) PROVE InStep'
  <2>1. d = drive /\ ~NoCommandOut
    BY <1>5 DEF Breaks, Rejects, Fails, Hangs, Quiet, AtRest
  <2>2. CASE Rejects(d) \/ Fails(d)
    <3>1. stage'[drive'] = "failed"
      BY <2>1, <2>2, <1>01 DEF Rejects, Fails, GoesTo
    <3>2. early' = early /\ (pc' = "packet" => early)
      BY <2>1, <2>2 DEF Rejects, Fails, GoesTo
    <3> QED
      BY <3>1, <3>2
  <2>3. CASE Hangs(d)
    <3>1. stage'[drive] = "hung" /\ stage[drive] \in {"command", "reading"}
      BY <2>1, <2>3, <1>01 DEF Hangs, GoesTo
    <3>2. UNCHANGED <<pc, taken, good, want, drive, flag, pending, early>>
      BY <2>3 DEF Hangs, GoesTo
    <3> QED
      BY <1>0, <3>1, <3>2, <2>1 DEF NoCommandOut, Unmoved
  <2> QED
    BY <1>5, <2>2, <2>3 DEF Breaks
<1>6. CASE ClearFlag("clear", "command")
  BY <1>6 DEF ClearFlag
<1>7. CASE ClearFlag("woken", "check")
  BY <1>7 DEF ClearFlag
<1>8. CASE Command
  BY <1>8, <1>01 DEF Command, Unmoved
<1>9. CASE SendPacket
  BY <1>9, <1>01 DEF SendPacket, Unmoved
<1>10. CASE WaitNotBusy
  BY <1>10 DEF WaitNotBusy, BSY
<1>11. CASE WaitDrq
  BY <1>11 DEF WaitDrq, DRQ
<1>12. CASE WaitInterrupt
  BY <1>12 DEF WaitInterrupt, Interrupted
<1>13. CASE Move
  <2>1. taken < want /\ taken' = taken + 1 /\ UNCHANGED <<pc, want, drive>>
    BY <1>13 DEF Move, MoveLeft
  <2>2. ASSUME want <= 1, stage[drive] # "failed", ~early
        PROVE  stage[drive] = "data" /\ taken = 0 /\ good = 0 /\ want = 1
    BY <1>0, <1>01, <1>13, <2>1, <2>2 DEF Move
  <2>3. CASE stage[drive] = "failed"
    BY <1>01, <1>13, <2>1, <2>3 DEF Move
  <2> QED
    BY <1>0, <1>01, <1>13, <2>1, <2>2, <2>3 DEF Move
<1>14. CASE Moved
  BY <1>0, <1>01, <1>14 DEF Moved, MoveLeft
<1>15. CASE Poll
  BY <1>15 DEF Poll
<1>16. CASE Return
  BY <1>16 DEF Return
<1>17. CASE CheckSize
  BY <1>17 DEF CheckSize, ERR
<1> QED
  BY <1>1, <1>2, <1>3, <1>4, <1>5, <1>6, <1>7, <1>8, <1>9, <1>10, <1>11, <1>12,
     <1>13, <1>14, <1>15, <1>16, <1>17, <1>18 DEF Next, Driver

\* A read of at most one sector fills the buffer unless its drive gives up or a hard
\* disk's interrupt comes in the wait, however many drives there are and whatever they
\* did before: the one interrupt it waits for is the one that offers the sector.
THEOREM BufferFilledAlways == Spec => []BufferFilled
<1>1. Init => Unmoved /\ InStep
  BY DEF Init, Unmoved, InStep
<1>2. TypeOK /\ Quiet /\ Unmoved /\ InStep /\ [Next]_vars => Unmoved' /\ InStep'
  BY UnmovedStep, InStepStep
<1>3. InStep => BufferFilled
  BY DEF InStep, BufferFilled, ERR
<1> QED
  BY <1>1, <1>2, <1>3, TypeCorrect, QuietAlways, PTL DEF Spec
-----------------------------------------------------------------------------
(* The clock.                                                                *)

\* Away from the reset a sleep knows how far it has come; one that reaches over
\* the reset is over when it begins.
OnTime == /\ start + asked < MAX =>
                /\ wait_for = start + asked
                /\ elapsed <= asked
                /\ sleeper = "asleep" => ticks = start + elapsed /\ (polled => ticks < wait_for)
                /\ sleeper = "awake" => elapsed = asked
          /\ start + asked >= MAX =>
                /\ wait_for <= start
                /\ elapsed = 0
                /\ sleeper = "asleep" => ticks = start /\ ~polled

LEMMA ClockStep == ASSUME ClockTypeOK, OnTime, [ClockNext]_clockVars PROVE ClockTypeOK' /\ OnTime'
<1>0. /\ Mod \in Nat /\ Mod > 2 /\ MAX = Mod - 1
      /\ ticks \in 0..(MAX - 1) /\ start \in 0..(MAX - 1)
      /\ wait_for \in Nat /\ elapsed \in Nat /\ asked \in Nat
      /\ sleeper \in {"asleep", "awake"} /\ polled \in BOOLEAN
  BY TimerAssumption DEF ClockTypeOK, MAX
<1>1. CASE UNCHANGED clockVars
  BY <1>1 DEF clockVars, ClockTypeOK, OnTime
<1>2. CASE Tick
  <2>1. ticks' \in 0..(MAX - 1) /\ elapsed' \in Nat
    BY <1>0, <1>2 DEF Tick, Succ
  <2>2. ClockTypeOK'
    BY <1>2, <2>1 DEF Tick, ClockTypeOK, sleepVars
  <2>3. CASE sleeper = "awake"
    BY <1>0, <1>2, <2>2, <2>3 DEF Tick, OnTime, sleepVars
  <2>4. CASE sleeper = "asleep"
    <3>1. start + asked < MAX /\ ticks = start + elapsed /\ ticks < wait_for
          /\ wait_for = start + asked
      BY <1>0, <1>2, <2>4 DEF Tick, OnTime
    <3>2. ticks' = ticks + 1 /\ elapsed' = elapsed + 1 /\ polled' = FALSE
      BY <1>0, <1>2, <2>4, <3>1 DEF Tick, Succ
    <3> QED
      BY <1>0, <1>2, <2>2, <2>4, <3>1, <3>2 DEF Tick, OnTime, sleepVars
  <2> QED
    BY <1>0, <2>2, <2>3, <2>4
<1>3. CASE PollClock
  <2>1. ClockTypeOK'
    BY <1>3 DEF PollClock, ClockTypeOK
  <2>2. CASE ticks < wait_for
    BY <1>0, <1>3, <2>1, <2>2 DEF PollClock, Asleep, OnTime
  <2>3. CASE ~(ticks < wait_for)
    <3>1. sleeper' = "awake" /\ UNCHANGED <<ticks, wait_for, asked, start, elapsed>>
      BY <1>3, <2>3 DEF PollClock, Asleep
    <3>2. CASE start + asked < MAX
      <4>1. elapsed = asked
        BY <1>0, <1>3, <2>3, <3>2 DEF PollClock, OnTime
      <4> QED
        BY <1>0, <2>1, <3>1, <3>2, <4>1 DEF OnTime
    <3>3. CASE start + asked >= MAX
      BY <1>0, <2>1, <3>1, <3>3 DEF OnTime
    <3> QED
      BY <1>0, <3>2, <3>3
  <2> QED
    BY <2>1, <2>2, <2>3
<1>4. ASSUME NEW n \in Times, Sleep(n) PROVE ClockTypeOK' /\ OnTime'
  <2>0. /\ ticks' = ticks /\ start' = ticks /\ wait_for' = WaitFor(ticks, n)
        /\ elapsed' = 0 /\ asked' \in Times \cup {0}
        /\ sleeper' \in {"asleep", "awake"} /\ polled' \in BOOLEAN
    BY <1>4, Zenon DEF Sleep
  <2>1. n \in 0..(Mod - 1)
    BY TimerAssumption
  <2>2. CASE ticks + n < MAX
    <3>1. WaitFor(ticks, n) = ticks + n
      BY <1>0, <2>1, <2>2 DEF WaitFor, Sum32
    <3>2. ClockTypeOK'
      BY <1>0, <2>0, <2>1, <3>1 DEF ClockTypeOK
    <3> QED
      BY <1>0, <1>4, <2>1, <2>2, <3>1, <3>2 DEF Sleep, OnTime
  <2>3. CASE ticks + n >= MAX
    <3>1. WaitFor(ticks, n) \in Nat /\ WaitFor(ticks, n) <= ticks
      <4>1. CASE ticks + n >= Mod
        <5>1. Sum32(ticks, n) = ticks + n - Mod /\ ticks + n - Mod < MAX
          BY <1>0, <2>1, <4>1 DEF Sum32
        <5> QED
          BY <1>0, <2>1, <4>1, <5>1 DEF WaitFor
      <4>2. CASE ticks + n = MAX
        <5>1. Sum32(ticks, n) = MAX
          BY <1>0, <2>1, <4>2 DEF Sum32
        <5> QED
          BY <1>0, <2>1, <4>2, <5>1 DEF WaitFor
      <4> QED
        BY <1>0, <2>1, <2>3, <4>1, <4>2
    <3>2. ClockTypeOK'
      BY <1>0, <2>0, <2>1, <3>1 DEF ClockTypeOK
    <3> QED
      BY <1>0, <1>4, <2>1, <2>3, <3>1, <3>2 DEF Sleep, OnTime
  <2> QED
    BY <1>0, <2>1, <2>2, <2>3
<1> QED
  BY <1>1, <1>2, <1>3, <1>4 DEF ClockNext

LEMMA OnTimeAlways == ClockSpec => [](ClockTypeOK /\ OnTime)
<1>1. ClockInit => ClockTypeOK /\ OnTime
  <2> SUFFICES ASSUME ClockInit PROVE ClockTypeOK /\ OnTime
    OBVIOUS
  <2>1. MAX \in Nat /\ MAX > 1
    BY TimerAssumption DEF MAX
  <2>2. ClockTypeOK
    <3>1. polled \in BOOLEAN /\ sleeper \in {"asleep", "awake"} /\ asked \in Times \cup {0}
      BY Zenon DEF ClockInit
    <3>2. /\ ticks \in 0..(MAX - 1) /\ start \in 0..(MAX - 1)
          /\ wait_for \in Nat /\ elapsed \in Nat
      BY <2>1 DEF ClockInit
    <3> QED
      BY <3>1, <3>2 DEF ClockTypeOK
  <2>3. OnTime
    BY <2>1 DEF ClockInit, OnTime
  <2> QED
    BY <2>2, <2>3
<1>2. ClockTypeOK /\ OnTime /\ [ClockNext]_clockVars => (ClockTypeOK /\ OnTime)'
  BY ClockStep
<1> QED
  BY <1>1, <1>2, PTL DEF ClockSpec

\* The clock stays below MAX, and no variable of a sleep becomes negative.
THEOREM ClockTypeCorrect == ClockSpec => []ClockTypeOK
BY OnTimeAlways, PTL

\* No sleep is longer than asked, for every size of the clock and every time.
THEOREM NoLongSleepAlways == ClockSpec => []NoLongSleep
<1>1. ClockTypeOK /\ OnTime => NoLongSleep
  <2> SUFFICES ASSUME ClockTypeOK, OnTime PROVE NoLongSleep
    OBVIOUS
  <2>1. asked \in Nat /\ start \in Nat /\ MAX \in Nat
    BY TimerAssumption DEF ClockTypeOK, MAX
  <2> QED
    BY <2>1 DEF OnTime, NoLongSleep
<1> QED
  BY <1>1, OnTimeAlways, PTL

\* A sleep that does not reach over the reset is exact.
THEOREM ExactAlways == ClockSpec => []ExactAwayFromReset
<1>1. OnTime => ExactAwayFromReset
  BY DEF OnTime, ExactAwayFromReset
<1> QED
  BY <1>1, OnTimeAlways, PTL
=============================================================================
