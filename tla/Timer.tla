-------------------------------- MODULE Timer --------------------------------
(***************************************************************************)
(* The clock of the kernel and the only thing that waits for it: ticks of  *)
(* core/hardware/timer.c, counted by the handler of interrupt 0x20, and    *)
(* sleep of core/util/util.c.  A tick is a millisecond.                    *)
(***************************************************************************)
EXTENDS Integers

CONSTANTS
    Mod,     \* values of a uint32_t
    Times    \* the numbers of milliseconds slept

ASSUME TimerAssumption == /\ Mod \in Nat /\ Mod > 2
                          /\ Times \subseteq 0..(Mod - 1)

MAX == Mod - 1

VARIABLES
    ticks,     \* ticks
    sleeper,   \* "asleep" in the loop of sleep, or "awake"
    wait_for,  \* wait_for
    asked,     \* timeIn_ms of the last sleep
    start,     \* the tick it began at
    elapsed,   \* the ticks it has lasted; bound: not counted above Mod
    polled     \* the loop has looked at the clock since the last tick

sleepVars == <<sleeper, wait_for, asked, start>>
clockVars == <<ticks, sleeper, wait_for, asked, start, elapsed, polled>>

ClockInit == /\ ticks = 0
             /\ sleeper = "awake"
             /\ wait_for = 0 /\ asked = 0 /\ start = 0 /\ elapsed = 0
             /\ polled = FALSE

\* timer_incTicks: MAX itself is skipped.
Succ(t) == IF t + 1 = MAX THEN 0 ELSE t + 1

\* A turn of the loop takes far less than a tick: it looks at every tick.
Tick == /\ sleeper = "asleep" => polled
        /\ ticks' = Succ(ticks)
        /\ elapsed' = IF sleeper = "asleep" /\ elapsed < Mod THEN elapsed + 1 ELSE elapsed
        /\ polled' = FALSE
        /\ UNCHANGED sleepVars

\* The sum of two uint32_t, as a uint32_t.
Sum32(a, b) == IF a + b >= Mod THEN a + b - Mod ELSE a + b

WaitForAtMax(now, n) == IF Sum32(now, n) > MAX THEN n - (MAX - now) ELSE Sum32(now, n)
WaitFor(now, n) == IF Sum32(now, n) >= MAX THEN n - (MAX - now) ELSE Sum32(now, n)

Sleep(n) == /\ sleeper = "awake"
            /\ sleeper' = "asleep"
            /\ wait_for' = WaitFor(ticks, n)
            /\ asked' = n /\ start' = ticks /\ elapsed' = 0
            /\ polled' = FALSE
            /\ UNCHANGED ticks

\* while((current = timer_getCurrentTick()) < wait_for)
AsleepAtEnd == ticks <= wait_for
Asleep == ticks < wait_for

PollClock == /\ sleeper = "asleep"
             /\ polled' = TRUE
             /\ sleeper' = IF Asleep THEN "asleep" ELSE "awake"
             /\ UNCHANGED <<ticks, wait_for, asked, start, elapsed>>

ClockNext == Tick \/ PollClock \/ \E n \in Times : Sleep(n)

\* The timer keeps interrupting, and the loop of sleep runs when no handler does.
FairClockSpec == ClockInit /\ [][ClockNext]_clockVars /\ WF_clockVars(Tick) /\ WF_clockVars(PollClock)
ClockSpec == ClockInit /\ [][ClockNext]_clockVars
-----------------------------------------------------------------------------
ClockTypeOK == /\ ticks \in 0..(MAX - 1)
               /\ sleeper \in {"asleep", "awake"}
               /\ wait_for \in Nat
               /\ asked \in Times \cup {0}
               /\ start \in 0..(MAX - 1)
               /\ elapsed \in Nat
               /\ polled \in BOOLEAN

\* "stop you from possibly having a 7 week sleep" (util.c:218): wherever the
\* clock is when a sleep begins, it does not last longer than asked.
NoLongSleep == elapsed <= asked

\* A sleep that does not reach over the clock's reset lasts exactly as many
\* ticks as asked.
ExactAwayFromReset == sleeper = "awake" /\ start + asked < MAX => elapsed = asked

\* Every sleep ends.
SleepEnds == sleeper = "asleep" ~> sleeper = "awake"
=============================================================================
