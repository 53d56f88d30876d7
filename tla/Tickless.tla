------------------------------ MODULE Tickless ------------------------------
(***************************************************************************)
(* The tick and the tickless idle (os/kernel/thread.c, the interrupt entry   *)
(* in os/arch/sc6530c/irq.c) on system timer 2 (os/arch/sc6530c/timer.c).    *)
(* While only the idle thread is ready the timer runs in one long period up  *)
(* to the next timeout; any interrupt ends that sleep, and one short period  *)
(* brings the tick back onto the tick boundary.                              *)
(*                                                                         *)
(* Time passes between any two steps of the code.  Cycle counts and ticks    *)
(* wrap, as uint32_t does: differences are taken modulo the word.            *)
(***************************************************************************)
EXTENDS Integers, FiniteSets

CONSTANTS
  Thread,     \* the threads besides idle
  Runnable,      \* such a thread is ready
  Forever,    \* it waits for an interrupt only
  Delays,     \* the timeouts threads ask for, in ticks
  Period,     \* timer_load(): the cycles of a tick
  MinLoad,    \* the shortest period that is loaded (260 cycles)
  MaxSleep,   \* MAX_SLEEP_TICKS
  MaxOff,     \* bound: cycles that pass with interrupts off, or one pending
  Cycles,     \* cycle counts are taken modulo this (2^32)
  Ticks       \* ticks are taken modulo this (2^32)

ASSUME TicklessAssumption ==
  /\ Runnable \notin Nat /\ Forever \notin Nat /\ Runnable # Forever
  /\ Delays \subseteq 1 .. Ticks \div 2 - 1
  /\ Period \in Nat \ {0} /\ MinLoad \in 1 .. Period
  /\ MaxSleep \in Nat \ 0 .. 3 /\ MaxOff \in 1 .. Period - 1
  /\ Cycles \in Nat /\ Ticks \in Nat  \* both are 2^32, MaxSleep is 1000
  /\ MaxSleep * Period < Cycles \div 2 /\ MaxSleep < Ticks \div 2

VARIABLES
  load,     \* the timer's load, which is also cur
  left,     \* the timer's count
  pending,  \* the timer's interrupt is pending
  base,     \* cycles before the current period
  mark,     \* tick_mark
  ticks,    \* ticks
  phase,    \* PHASE_TICK, PHASE_SLEEP or PHASE_ALIGN
  wake,     \* each thread: ready, or the tick it waits for
  pc,       \* what the CPU does
  off       \* cycles passed in this interrupts-off section or with one pending

timer   == <<load, left, pending, base>>
clock   == <<mark, ticks, wake>>
tickvars    == <<timer, clock, phase, pc, off>>

\* Differences of wrapping counts, as uint32_t and as int32_t.
Minus(a, b, m) == (a - b) % m
Signed(d, m) == IF d < m \div 2 THEN d ELSE d - m

\* The points of the code where interrupts are on.
On == {"run", "idle", "wfi"}

TickInit ==
  /\ load = Period /\ left = Period /\ pending = FALSE /\ base = 0
  /\ mark = 0 /\ ticks = 0
  /\ phase = "tick"
  /\ wake = [t \in Thread |-> Runnable]
  /\ pc = "run" /\ off = 0

-----------------------------------------------------------------------------
(* The timer *)

\* into_period(): a period that ended and is not acknowledged counts whole.
IntoPeriod == load - left + (IF pending THEN load ELSE 0)

\* timer_cycles()
TimerNow == (base + IntoPeriod) % Cycles

\* One cycle passes: the count goes down and starts again from the load.
Pass ==
  /\ off < MaxOff
  /\ IF left = 1 THEN left' = load /\ pending' = TRUE
                 ELSE left' = left - 1 /\ UNCHANGED pending
  /\ off' = IF pc \in On /\ ~pending' THEN 0 ELSE off + 1
  /\ UNCHANGED <<load, base, clock, phase, pc>>

\* Mutant: the cycles of the period that is cut short are forgotten.
RestartForgets(c) ==
  LET n == IF c < MinLoad THEN MinLoad ELSE c
  IN  load' = n /\ left' = n /\ base' = base /\ pending' = FALSE

\* timer_restart
Restart(c) ==
  LET n == IF c < MinLoad THEN MinLoad ELSE c
  IN  /\ load' = n /\ left' = n
      /\ base' = TimerNow
      /\ pending' = FALSE

-----------------------------------------------------------------------------
(* The kernel *)

ReadyThreads == {t \in Thread : wake[t] = Runnable}
Timeouts == {wake[t] : t \in Thread} \ {Runnable, Forever}

\* How far off a wake tick is.
Until(w, now) == Signed(Minus(w, now, Ticks), Ticks)

\* advance(), at timer_cycles() = now: whole ticks, and the timeouts due.
Advance(now) ==
  LET n == Minus(now, mark, Cycles) \div Period
  IN  /\ mark' = (mark + n * Period) % Cycles
      /\ ticks' = (ticks + n) % Ticks
      /\ wake' = [t \in Thread |->
                    IF wake[t] \in Timeouts /\ Until(wake[t], ticks') <= 0 THEN Runnable
                    ELSE wake[t]]

\* align(): the rest of the tick, or a later boundary if that is too near.
RestOfTick ==
  LET r == Period - Signed(Minus(TimerNow, mark, Cycles), Cycles)
  IN  IF r >= MinLoad THEN r ELSE r + Period * ((MinLoad - r + Period - 1) \div Period)

Align == Restart(RestOfTick) /\ phase' = "align"

\* A thread blocks: with a timeout, or until an interrupt wakes it.
Blocks(t, w) ==
  /\ pc = "run" /\ wake[t] = Runnable
  /\ wake' = [wake EXCEPT ![t] = IF w = Forever THEN w ELSE (ticks + w) % Ticks]
  /\ pc' = IF ReadyThreads = {t} THEN "idle" ELSE "run"
  /\ UNCHANGED <<timer, mark, ticks, phase, off>>

\* The idle thread, interrupts off: tickless_sleep up to its advance().  The
\* timer's interrupt may be pending already.
IdleAdvance ==
  /\ pc = "idle"
  /\ IF phase = "sleep" THEN UNCHANGED clock ELSE Advance(TimerNow)
  /\ pc' = "decide"
  /\ UNCHANGED <<timer, phase, off>>

Nearest == {Until(w, ticks) : w \in Timeouts}

\* The ticks until the next timeout, from one to MaxSleep.
Delta ==
  IF Nearest = {} THEN MaxSleep
  ELSE LET d == CHOOSE x \in Nearest : \A y \in Nearest : x <= y
       IN  IF d < 1 THEN 1 ELSE IF d < MaxSleep THEN d ELSE MaxSleep

SleepFor == Signed(Minus((mark + Delta * Period) % Cycles, TimerNow, Cycles), Cycles)

\* The rest of tickless_sleep, once the ticks are current.
Sleep ==
  IF phase # "sleep" /\ Delta >= 3 /\ SleepFor >= 2 * Period
  THEN Restart(SleepFor) /\ phase' = "sleep"
  ELSE UNCHANGED <<timer, phase>>

\* A thread woken by the catch-up runs first; else sleep.
IdleDecide ==
  /\ pc = "decide"
  /\ IF ReadyThreads # {} THEN pc' = "run" /\ UNCHANGED <<timer, phase>>
                         ELSE pc' = "wfi" /\ Sleep
  /\ off' = IF pending' THEN off ELSE 0
  /\ UNCHANGED clock

-----------------------------------------------------------------------------
(* An interrupt: the timer's, or another device's *)

Irq ==
  /\ pc \in On
  /\ pc' = "entry"
  /\ UNCHANGED <<timer, clock, phase, off>>

\* Mutant: only the timer's interrupt ends a sleep.
IrqEntryTimerOnly ==
  /\ pc = "entry"
  /\ IF phase = "sleep" /\ pending THEN Advance(TimerNow) /\ pc' = "align"
                        ELSE UNCHANGED clock /\ pc' = "dispatch"
  /\ UNCHANGED <<timer, phase, off>>

\* kernel_irq_entry
IrqEntry ==
  /\ pc = "entry"
  /\ IF phase = "sleep" THEN Advance(TimerNow) /\ pc' = "align"
                        ELSE UNCHANGED clock /\ pc' = "dispatch"
  /\ UNCHANGED <<timer, phase, off>>

IrqAlign ==
  /\ pc = "align"
  /\ Align
  /\ pc' = "dispatch"
  /\ UNCHANGED <<clock, off>>

\* A device's handler wakes a thread.
DeviceIsr(t) ==
  /\ pc = "dispatch" /\ wake[t] # Runnable
  /\ wake' = [wake EXCEPT ![t] = Runnable]
  /\ UNCHANGED <<timer, mark, ticks, phase, pc, off>>

\* Mutant: the interrupt is not acknowledged.
TimerIsrWithoutAck ==
  /\ pc = "dispatch" /\ pending
  /\ Advance(TimerNow)
  /\ pc' = "tick"
  /\ UNCHANGED <<timer, phase, off>>

\* timer2_isr: the acknowledge, and kernel_tick's advance().
TimerIsr ==
  /\ pc = "dispatch" /\ pending
  /\ pending' = FALSE
  /\ base' = (base + load) % Cycles
  /\ Advance((base' + load - left) % Cycles)
  /\ pc' = "tick"
  /\ UNCHANGED <<load, left, phase, off>>

\* The rest of kernel_tick.
TickEnd ==
  /\ pc = "tick"
  /\ CASE phase = "sleep" -> Align
       [] phase = "align" -> Restart(Period) /\ phase' = "tick"
       [] phase = "tick" -> UNCHANGED <<timer, phase>>
  /\ pc' = "dispatch"
  /\ UNCHANGED <<clock, off>>

IrqExit ==
  /\ pc = "dispatch" /\ ~pending
  /\ pc' = IF ReadyThreads # {} THEN "run" ELSE "idle"
  /\ off' = 0
  /\ UNCHANGED <<timer, clock, phase>>

-----------------------------------------------------------------------------
IdleThread == IdleAdvance \/ IdleDecide
Handler == IrqEntry \/ IrqAlign \/ TimerIsr \/ TickEnd \/ IrqExit

TickNext ==
  \/ Pass
  \/ \E t \in Thread : DeviceIsr(t) \/ (\E w \in Delays \cup {Forever} : Blocks(t, w))
  \/ IdleThread \/ Irq \/ Handler

TickSpec == TickInit /\ [][TickNext]_tickvars

\* Time passes, the CPU does not stop, and a pending interrupt is taken.
FairTickSpec ==
  TickSpec /\ WF_tickvars(Pass) /\ WF_tickvars(IdleThread) /\ WF_tickvars(Handler) /\ WF_tickvars(pending /\ Irq)
-----------------------------------------------------------------------------
TickTypeOK ==
  /\ load \in MinLoad .. MaxSleep * Period /\ left \in 1 .. load /\ pending \in BOOLEAN
  /\ base \in 0 .. Cycles - 1 /\ mark \in 0 .. Cycles - 1 /\ ticks \in 0 .. Ticks - 1
  /\ phase \in {"tick", "sleep", "align"}
  /\ wake \in [Thread -> 0 .. Ticks - 1 \cup {Runnable, Forever}]
  /\ pc \in On \cup {"decide", "entry", "align", "dispatch", "tick"}

\* Cycles since the last whole tick.
Elapsed == Minus(TimerNow, mark, Cycles)

\* While the CPU waits nobody is ready, and the timer's next interrupt comes
\* within a tick of every timeout: nobody oversleeps.
NoOversleep ==
  pc = "wfi" =>
    /\ ReadyThreads = {}
    /\ ~pending => \A w \in Timeouts :
                     Elapsed + left < (Until(w, ticks) + 1) * Period + MinLoad

\* The tick is there for every thread that runs, whatever ended the sleep before,
\* and off while the CPU waits with nothing to do for four ticks.
TickFollows ==
  /\ TickTypeOK
  /\ pc = "run" => phase # "sleep"
  /\ pc = "wfi" /\ ~pending /\ (\A w \in Timeouts : Until(w, ticks) > 3) => phase = "sleep"

\* The two together: an idle CPU sleeps no longer than the threads allow, and a busy
\* one has its tick.
SleepsRight == NoOversleep /\ TickFollows

\* Every cycle is counted once, whatever the timer's period is changed to, unless a
\* period ends while the end of the one before is still unserved.  And a catch-up
\* never counts more ticks than a sleep can have lasted: kernel time never falls
\* behind tick_mark, where the unsigned difference would wrap.
TimeKept ==
  [][/\ ~(Pass /\ pending /\ left = 1)
          => TimerNow' = IF Pass THEN (TimerNow + 1) % Cycles ELSE TimerNow
     /\ Minus(ticks', ticks, Ticks) <= MaxSleep + 1]_tickvars

\* A timeout ends.
TimeoutsEnd == \A t \in Thread : []<>(wake[t] \notin Timeouts)
=============================================================================
