-------------------------------- MODULE Rtc --------------------------------
(***************************************************************************)
(* The clock, os/drivers/rtc.c: a thread that sets it (the clock screen), one *)
(* that reads it (FatFs stamps a file, the UI draws the time), and outside    *)
(* the code the RTC, which counts on between any two register accesses and    *)
(* takes the four fields of a new time one by one.                            *)
(*                                                                         *)
(* A time is <<days, seconds of the day>>: to_seconds counts in 32 bits, and  *)
(* 2^32 seconds are 49710 days and 23296 seconds.                             *)
(***************************************************************************)
EXTENDS Integers, Sequences

CONSTANTS
  RtcStarts,   \* the times the counters can show at the start
  NewTimes,    \* what the clock is set to
  MaxSeconds,  \* bound: the seconds that pass
  ReadSeconds, \* bound: the seconds that pass in one read
  Acks         \* whether the RTC takes a new time within 2 s: always, or not always

ASSUME RtcAssumption ==
  /\ \A t \in RtcStarts \cup NewTimes : t \in Nat \X Nat /\ t[1] < 65536 /\ t[2] < 86400
  /\ MaxSeconds \in Nat /\ ReadSeconds \in Nat /\ Acks \subseteq BOOLEAN

VARIABLES
  hw,       \* the counters, [day, hour, min, sec]
  new,      \* the fields of a new time the RTC has not taken yet, by name
  passed,   \* seconds since the start
  acks,     \* which of Acks
  setting,  \* setting, set_seconds and set_at
  some,     \* the fields the RTC takes of the last write
  setter, reader

rtcvars == <<hw, new, passed, acks, setting, some, setter, reader>>

Fields == {"day", "hour", "min", "sec"}
NoTime == <<-1, 0>>

\* t and n seconds
Plus(t, n) == <<t[1] + ((t[2] + n) \div 86400), (t[2] + n) % 86400>>
Less(a, b) == a[1] < b[1] \/ (a[1] = b[1] /\ a[2] < b[2])

Wrap32(t) ==
  IF Less(t, <<49710, 23296>>) THEN t
  ELSE IF t[2] >= 23296 THEN <<t[1] - 49710, t[2] - 23296>>
  ELSE <<t[1] - 49711, t[2] - 23296 + 86400>>

to_seconds(c) == Wrap32(<<c.day, 3600 * c.hour + 60 * c.min + c.sec>>)

FieldsOf(t) ==
  [day |-> t[1], hour |-> t[2] \div 3600, min |-> (t[2] \div 60) % 60, sec |-> t[2] % 60]

IdleReader == [pc |-> "idle", first |-> 0, c |-> FieldsOf(NoTime), tries |-> 0, at |-> NoTime,
               from |-> NoTime, secs |-> 0, set |-> FALSE, cut |-> FALSE]
Reads == reader.pc \notin {"idle", "done"}
IdleSetter == [pc |-> "idle", t |-> NoTime, acked |-> FALSE, result |-> "none"]

RtcInit ==
  /\ \E t \in RtcStarts : hw = FieldsOf(t)
  /\ new = <<>> /\ some = Fields /\ passed = 0 /\ acks \in Acks
  /\ setting = [on |-> FALSE, t |-> NoTime, at |-> 0]
  /\ setter = IdleSetter /\ reader = IdleReader
-----------------------------------------------------------------------------
(* The RTC *)

Count(c) ==
  IF c.sec < 59 THEN [c EXCEPT !.sec = @ + 1]
  ELSE IF c.min < 59 THEN [c EXCEPT !.sec = 0, !.min = @ + 1]
  ELSE IF c.hour < 23 THEN [c EXCEPT !.sec = 0, !.min = 0, !.hour = @ + 1]
  ELSE [day |-> (c.day + 1) % 65536, hour |-> 0, min |-> 0, sec |-> 0]

\* It takes the fields of a write between two seconds.
Second ==
  /\ DOMAIN new \in {{}, some}
  /\ passed < MaxSeconds /\ passed' = passed + 1
  /\ Reads => reader.secs < ReadSeconds
  /\ hw' = Count(hw)
  /\ reader' = IF Reads THEN [reader EXCEPT !.secs = @ + 1] ELSE reader
  /\ UNCHANGED <<new, acks, some, setting, setter>>

\* It takes one of the new fields.
Take(f) ==
  /\ f \in DOMAIN new
  /\ hw' = [hw EXCEPT ![f] = new[f]]
  /\ new' = [g \in DOMAIN new \ {f} |-> new[g]]
  /\ UNCHANGED <<passed, acks, some, setting, setter, reader>>
-----------------------------------------------------------------------------
(* rtc_set *)

\* A reader keeps interrupts off from its first register to its last.
SetterRuns == reader.pc \in {"idle", "first", "done"}

\* Readers get set_seconds from here on.  (Bound: one set.)
SetBegin(t) ==
  /\ SetterRuns
  /\ setter.pc = "idle" /\ ~setting.on /\ setting.t = NoTime
  /\ setting' = [on |-> TRUE, t |-> t, at |-> passed]
  /\ setter' = [IdleSetter EXCEPT !.pc = "write", !.t = t]
  /\ reader' = [reader EXCEPT !.cut = TRUE]
  /\ UNCHANGED <<hw, new, passed, acks, some>>

\* Its four writes, interrupts off.
SetWrite ==
  /\ SetterRuns
  /\ setter.pc = "write"
  /\ setter' = [setter EXCEPT !.pc = "wait"]
  /\ some' \in IF acks THEN {Fields} ELSE SUBSET Fields
  /\ new' = [f \in some' |-> FieldsOf(setter.t)[f]]
  /\ UNCHANGED <<hw, passed, acks, setting, reader>>

\* Mutant: readers are let in again without waiting.
SetWaitsNot ==
  /\ SetterRuns
  /\ setter.pc = "wait"
  /\ setter' = [setter EXCEPT !.pc = "check", !.acked = DOMAIN new = {} /\ some = Fields]
  /\ setting' = [setting EXCEPT !.on = FALSE]
  /\ UNCHANGED <<hw, new, passed, acks, some, reader>>

\* All four fields are acknowledged, or 2 s have passed.
SetWaited ==
  /\ SetterRuns
  /\ setter.pc = "wait"
  /\ DOMAIN new = {} \/ ~acks
  /\ setter' = [setter EXCEPT !.pc = "check", !.acked = DOMAIN new = {} /\ some = Fields]
  /\ setting' = [setting EXCEPT !.on = FALSE]
  /\ UNCHANGED <<hw, new, passed, acks, some, reader>>

\* Without one, the counters must show it.  (SLACK_S is 3.)
Kept(got, t) == ~Less(got, t) /\ ~Less(Plus(t, passed - setting.at + 3), got)

SetEnd ==
  /\ SetterRuns
  /\ setter.pc = "check"
  /\ setter' = [setter EXCEPT !.pc = "set",
                  !.result = IF setter.acked \/ Kept(to_seconds(hw), setter.t) THEN "ok"
                             ELSE "timeout"]
  /\ UNCHANGED <<hw, new, passed, acks, some, setting, reader>>

SetReturn ==
  /\ SetterRuns /\ setter.pc = "set"
  /\ setter' = IdleSetter
  /\ UNCHANGED <<hw, new, passed, acks, some, setting, reader>>
-----------------------------------------------------------------------------
(* rtc_get *)

\* (Bound: an RTC that does not take its time is set, but not read.)
GetBegin ==
  /\ reader.pc = "idle" /\ acks
  /\ reader' = [IdleReader EXCEPT !.pc = IF setting.on THEN "done" ELSE "first",
                  !.at = IF setting.on THEN Wrap32(Plus(setting.t, passed - setting.at)) ELSE NoTime,
                  !.from = to_seconds(hw), !.set = setting.t # NoTime]
  /\ UNCHANGED <<hw, new, passed, acks, some, setting, setter>>

Agree(sec, first) == sec = first

\* read_counters: one register at a time, then the seconds again.
ReadField ==
  /\ \/ reader.pc = "first" /\ reader' = [reader EXCEPT !.pc = "min", !.first = hw.sec]
     \/ reader.pc = "min"   /\ reader' = [reader EXCEPT !.pc = "hour", !.c.min = hw.min]
     \/ reader.pc = "hour"  /\ reader' = [reader EXCEPT !.pc = "day", !.c.hour = hw.hour]
     \/ reader.pc = "day"   /\ reader' = [reader EXCEPT !.pc = "again", !.c.day = hw.day]
  /\ UNCHANGED <<hw, new, passed, acks, some, setting, setter>>

ReadAgain ==
  /\ reader.pc = "again"
  /\ LET c == [reader.c EXCEPT !.sec = hw.sec]
     IN  reader' = IF Agree(hw.sec, reader.first) \/ reader.tries = 2
                   THEN [reader EXCEPT !.pc = "done", !.c = c, !.at = to_seconds(c)]
                   ELSE [reader EXCEPT !.pc = "first", !.c = c, !.tries = @ + 1]
  /\ UNCHANGED <<hw, new, passed, acks, some, setting, setter>>

GetReturn == reader.pc = "done" /\ reader' = IdleReader /\ UNCHANGED <<hw, new, passed, acks, some, setting, setter>>

RtcNext ==
  \/ Second \/ \E f \in Fields : Take(f)
  \/ \E t \in NewTimes : SetBegin(t)
  \/ SetWrite \/ SetWaited \/ SetEnd \/ SetReturn
  \/ GetBegin \/ ReadField \/ ReadAgain \/ GetReturn

RtcSpec == RtcInit /\ [][RtcNext]_rtcvars
-----------------------------------------------------------------------------
\* Before the clock is set, a read returns a time the clock showed during the read.
\* From the moment it is being set, "readers get the time being set plus the time
\* since", and never a mixture of the fields of both, unless the RTC fails to take
\* them.  (A read that a set comes into the middle of can return one.)  When
\* rtc_set returns 0 the clock shows the time that was set.  (Unless it showed about
\* that time before, and the RTC takes a field after rtc_set has returned.)
ReadsATime ==
  /\ reader.pc = "done" /\ ~reader.cut
     => IF ~reader.set
        THEN ~Less(reader.at, reader.from) /\ ~Less(to_seconds(hw), reader.at)
        ELSE acks => /\ ~Less(reader.at, setting.t)
                     /\ ~Less(Plus(setting.t, passed - setting.at), reader.at)
  /\ setter.pc = "set" /\ setter.result = "ok"
     => LET got == to_seconds(hw)
        IN  ~Less(got, setter.t) /\ ~Less(Plus(setter.t, MaxSeconds + 3), got)
=============================================================================
