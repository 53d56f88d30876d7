------------------------------ MODULE CpuFreq ------------------------------
(***************************************************************************)
(* The CPU clock governor (os/kernel/cpufreq.c), the clock it switches       *)
(* (os/arch/sc6530c/clock.c), the drivers that hold the clock up (os/drivers)*)
(* and a thread that busy-waits (udelay in os/arch/sc6530c/cpu.S).           *)
(*                                                                         *)
(* A switch runs with interrupts off: nothing else happens between its       *)
(* writes to the clock register, but the bus runs.  The governor runs in the *)
(* tick's interrupt, so it switches while a thread counts down a delay.      *)
(***************************************************************************)
EXTENDS Integers

CONSTANTS
  User,      \* the drivers that hold the clock: SD, audio, SIM, DSP, USB
  Busy,      \* the busy shares of a window, in permille
  Quiet208,  \* quiet windows in a row before 208 MHz is left
  Quiet104,  \* the same for 104 MHz
  DelayTimes \* the delays asked for, in us

ASSUME CpuFreqAssumption ==
  /\ Busy \subseteq 0 .. 1000
  /\ Quiet208 \in Nat \ {0} /\ Quiet104 \in Nat /\ Quiet208 <= Quiet104
  /\ DelayTimes \subseteq Nat \ {0}

VARIABLES
  mode,    \* CPUFREQ_AUTO or CPUFREQ_MAX
  holds,   \* holds
  lowOk,   \* low_ok
  quiet,   \* quiet
  level,   \* the clock level: 0 (26 MHz), 1 (104 MHz), 2 (208 MHz)
  ctl,     \* the clock register: the source in MHz, and the AHB divider
  goal,    \* the level clock_set_level() is going to
  busy,    \* the busy share of the last window
  held,    \* the drivers that hold the clock
  panel,   \* the display: on, off, or waking up
  delay    \* the udelay() under way: asked for, the loops left, the us spent

governor  == <<mode, holds, lowOk, quiet>>
clockvars == <<level, ctl, goal>>
freqvars  == <<governor, clockvars, busy, held, panel, delay>>

Mhz(l) == <<26, 104, 208>>[l + 1]
Half(l) == l = 2

\* The loops of udelay() that a microsecond takes.  (udelay_shift counts 23%
\* more of them.)
Loops(l) == Mhz(l) \div 26

NoDelay == [us |-> 0, loops |-> 0, spent |-> 0]

\* The boot menu leaves 208 MHz with the AHB at 104 MHz.
FreqInit ==
  /\ mode = "auto" /\ holds = 0 /\ lowOk = FALSE /\ quiet = 0
  /\ level = 2 /\ ctl = [mhz |-> 208, half |-> TRUE] /\ goal = 2
  /\ busy = 1000
  /\ held = {}
  /\ panel = "on"
  /\ delay = NoDelay

Settled == level = goal
-----------------------------------------------------------------------------
(* The clock *)

\* step(), one write at a time: going up the divider is set before the source.
StepUp ==
  /\ level < goal
  /\ LET to == level + 1
     IN  IF Half(to) /\ ~ctl.half
         THEN ctl' = [ctl EXCEPT !.half = TRUE] /\ UNCHANGED level
         ELSE ctl' = [ctl EXCEPT !.mhz = Mhz(to)] /\ level' = to
  /\ UNCHANGED <<governor, goal, busy, held, panel, delay>>

\* Going down the source changes first.
StepDown ==
  /\ level > goal
  /\ LET to == level - 1
     IN  IF ctl.mhz # Mhz(to)
         THEN /\ ctl' = [ctl EXCEPT !.mhz = Mhz(to)]
              /\ level' = IF ctl.half = Half(to) THEN to ELSE level
         ELSE ctl' = [ctl EXCEPT !.half = Half(to)] /\ level' = to
  /\ UNCHANGED <<governor, goal, busy, held, panel, delay>>
-----------------------------------------------------------------------------
(* The governor *)

\* floor_level() and apply(), for the values the caller has just set.
FloorLevel(h, low) == IF h > 0 \/ ~low THEN 1 ELSE 0
Applied(want, m, h, low) ==
  IF m = "max" THEN 2 ELSE IF want < FloorLevel(h, low) THEN FloorLevel(h, low) ELSE want

QuietLimit(l) == IF l = 2 THEN Quiet208 ELSE Quiet104
IsQuiet(b, l) == l > 0 /\ b < (IF l = 2 THEN 300 ELSE 100)

\* The quiet windows in a row after one of busy share b.
QuietAfter(b) ==
  IF b <= 700 /\ IsQuiet(b, level) /\ quiet + 1 < QuietLimit(level) THEN quiet + 1 ELSE 0

\* Mutant: a quiet window never asks for a lower level.
WantedNeverDown(b) == IF b > 700 THEN 2 ELSE IF level = 0 /\ b > 400 THEN 1 ELSE level

\* The level a window of busy share b asks for.
Wanted(b) ==
  IF b > 700 THEN 2
  ELSE IF level = 0 /\ b > 400 THEN 1
  ELSE IF IsQuiet(b, level) /\ quiet + 1 >= QuietLimit(level) THEN level - 1
  ELSE level

\* cpufreq_window, in the tick's interrupt.
cpufreq_window(b) ==
  /\ Settled
  /\ busy' = b
  /\ quiet' = QuietAfter(b)
  /\ goal' = Applied(Wanted(b), mode, holds, lowOk)
  /\ UNCHANGED <<mode, holds, lowOk, level, ctl, held, panel, delay>>

SetMode(m) ==
  /\ Settled
  /\ mode' = m
  /\ goal' = Applied(level, m, holds, lowOk)
  /\ UNCHANGED <<holds, lowOk, quiet, level, ctl, busy, held, panel, delay>>

\* Mutant: a driver that holds the clock holds it again.
HoldAgain(u) ==
  /\ Settled /\ holds < 3
  /\ held' = held \cup {u}
  /\ holds' = holds + 1
  /\ goal' = Applied(level, mode, holds', lowOk)
  /\ UNCHANGED <<mode, lowOk, quiet, level, ctl, busy, panel, delay>>

\* cpufreq_hold, by a driver that does not hold the clock yet.
HoldClock(u) ==
  /\ Settled /\ u \notin held
  /\ held' = held \cup {u}
  /\ holds' = holds + 1
  /\ goal' = Applied(level, mode, holds', lowOk)
  /\ UNCHANGED <<mode, lowOk, quiet, level, ctl, busy, panel, delay>>

ReleaseClock(u) ==
  /\ Settled /\ u \in held
  /\ held' = held \ {u}
  /\ holds' = IF holds > 0 THEN holds - 1 ELSE 0
  /\ UNCHANGED <<mode, lowOk, quiet, clockvars, busy, panel, delay>>

AllowLow(on) ==
  /\ lowOk' = on
  /\ goal' = Applied(level, mode, holds, on)

\* lcd_sleep, once the panel sleeps and the LCDC's clock is off.
PanelOff ==
  /\ Settled /\ panel = "on"
  /\ panel' = "off"
  /\ AllowLow(TRUE)
  /\ UNCHANGED <<mode, holds, quiet, level, ctl, busy, held, delay>>

\* lcd_wake: the clock first, then the panel.
PanelWake ==
  /\ Settled /\ panel = "off"
  /\ panel' = "waking"
  /\ AllowLow(FALSE)
  /\ UNCHANGED <<mode, holds, quiet, level, ctl, busy, held, delay>>

PanelOn ==
  /\ Settled /\ panel = "waking"
  /\ panel' = "on"
  /\ UNCHANGED <<governor, clockvars, busy, held, delay>>
-----------------------------------------------------------------------------
(* udelay *)

\* The loops are counted for the clock of this moment.
DelayStart(us) ==
  /\ Settled /\ delay = NoDelay
  /\ delay' = [us |-> us, loops |-> us * Loops(level), spent |-> 0]
  /\ UNCHANGED <<governor, clockvars, busy, held, panel>>

\* A microsecond of counting, at the clock as it is now.
DelayCount ==
  /\ Settled /\ delay.loops > 0
  /\ delay' = [delay EXCEPT !.loops = IF @ > Loops(level) THEN @ - Loops(level) ELSE 0,
                            !.spent = @ + 1]
  /\ UNCHANGED <<governor, clockvars, busy, held, panel>>

DelayDone ==
  /\ Settled /\ delay # NoDelay /\ delay.loops = 0
  /\ delay' = NoDelay
  /\ UNCHANGED <<governor, clockvars, busy, held, panel>>
-----------------------------------------------------------------------------
Switch == StepUp \/ StepDown
Governor == \E b \in Busy : cpufreq_window(b)

FreqNext ==
  \/ Switch \/ Governor
  \/ \E m \in {"auto", "max"} : SetMode(m)
  \/ \E u \in User : HoldClock(u) \/ ReleaseClock(u)
  \/ PanelOff \/ PanelWake \/ PanelOn
  \/ (\E us \in DelayTimes : DelayStart(us)) \/ DelayCount \/ DelayDone

FreqSpec == FreqInit /\ [][FreqNext]_freqvars

-----------------------------------------------------------------------------
FreqTypeOK ==
  /\ mode \in {"auto", "max"} /\ holds \in Nat /\ lowOk \in BOOLEAN
  /\ quiet \in 0 .. Quiet104 - 1
  /\ level \in 0 .. 2 /\ goal \in 0 .. 2
  /\ ctl \in [mhz : {26, 104, 208}, half : BOOLEAN]
  /\ held \subseteq User /\ panel \in {"on", "off", "waking"}

\* At 26 MHz no driver relies on the bus, and the panel is asleep; nobody but the
\* drivers that hold the clock keeps it from going down; and the AHB never goes
\* above 104 MHz, during a switch either.
ClockSafe ==
  /\ FreqTypeOK
  /\ ctl.mhz = 26 /\ Settled => held = {} /\ panel = "off"
  /\ held = {} => holds = 0
  /\ (IF ctl.half THEN ctl.mhz \div 2 ELSE ctl.mhz) <= 104

\* A phone that stays quiet with its panel off ends up at 26 MHz.
Quiescent == busy < 100 /\ held = {} /\ panel = "off" /\ mode = "auto"
SettlesLow == <>[]Quiescent => <>[](level = 0)

\* udelay() takes at least the time it is asked for (clock.c: it "scales with
\* the clock").
DelayLongEnough == delay.loops = 0 => delay.spent >= delay.us
=============================================================================
