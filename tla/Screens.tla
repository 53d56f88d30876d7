------------------------------ MODULE Screens ------------------------------
(***************************************************************************)
(* The ui thread: its stack of screens and its loop (os/ui/ui.c), the loaded *)
(* apps whose callbacks it runs (os/loader/loader.c), and the alarm clock    *)
(* that pushes a screen of its own (os/apps/alarm.c).                        *)
(*                                                                         *)
(* One thread runs it all, so the hazards are in the order of calls: a       *)
(* callback pops the screen it belongs to, an app's last screen goes while   *)
(* its code runs, the stack is full.                                         *)
(***************************************************************************)
EXTENDS Integers, Sequences, SequencesExt

CONSTANTS
  None,
  App,         \* the loaded apps (app_t), and the blocks api->malloc() hands out
  Block,
  MaxDepth,    \* MAX_DEPTH
  MaxOps,      \* bound: the calls an app's callback makes
  Fails,       \* an app's start() may push a screen and then return NULL
  Day,         \* the minutes of a day
  SnoozeMin,   \* SNOOZE_MIN
  RingMin,     \* RING_MS, in minutes
  AlarmTimes   \* the times the alarm is set to

ASSUME ScreensAssumption ==
  /\ None \notin App \cup Block \cup Nat /\ "ring" \notin App
  /\ MaxDepth \in Nat \ {0} /\ MaxOps \in Nat /\ Fails \in BOOLEAN
  /\ Day \in Nat /\ SnoozeMin \in 1 .. Day - 1 /\ RingMin \in 1 .. SnoozeMin - 1
  /\ AlarmTimes \subseteq 0 .. Day - 1

VARIABLES
  stack,    \* the screens: their kind, owner and, for an app's own, block
  collect,  \* an app's screen has left the stack
  loaded,   \* the apps in the loader's list
  allocs,   \* the blocks the loader will free with each app
  heap,     \* the blocks of apps that are allocated
  calls,    \* app_current of the callbacks that run, the innermost last
  ops,      \* the calls made so far in this turn of the loop
  phase,    \* what the loop does next
  alarm,    \* alarm_on, alarm_min
  now,      \* the clock's minute
  snooze,   \* alarm_snooze_min
  fired,    \* fired_min
  ringing,  \* alarm_ringing
  age,      \* the minutes since ring_start
  seen,     \* alarm_check() has seen this minute
  rang,     \* in this minute the alarm has begun to ring, went on ringing, or not
  lost      \* a push has been dropped: "ring", or the app whose screen it was

appvars    == <<loaded, allocs, heap, calls, ops>>
clockvars  == <<now, age, seen, rang>>
alarmvars  == <<alarm, snooze, fired, ringing>>
screenvars == <<stack, collect, appvars, phase, alarmvars, clockvars, lost>>

Top        == Last(stack)
OsScreen   == [kind |-> "os", app |-> None, block |-> None]
RingScreen == [kind |-> "ring", app |-> None, block |-> None]
-----------------------------------------------------------------------------
(* The stack *)

Full == Len(stack) = MaxDepth

\* ui_push(): nothing happens when the stack is full.
Push(screen, what) ==
  IF Full THEN lost' = lost \cup what /\ UNCHANGED stack
          ELSE stack' = Append(stack, screen) /\ UNCHANGED lost

Leaving(n) == {stack[i] : i \in Len(stack) - n + 1 .. Len(stack)}

\* app_forget(), for the screens that are freed when they are popped
Forget(a, screens) == allocs[a] \ {s.block : s \in {t \in screens : t.app = a}}

\* ring_leave()
RingAfter(screens) == ringing /\ RingScreen \notin screens

\* Mutant: a screen that is freed does not count.
CollectStatic(screens) == collect \/ \E s \in screens : s.app # None /\ s.block = None

CollectAfter(screens) == collect \/ \E s \in screens : s.app # None

\* The top n screens are popped, by ui_pop() and ui_home().
Pop(n) ==
  LET gone == Leaving(n) IN
  /\ stack' = SubSeq(stack, 1, Len(stack) - n)
  /\ collect' = CollectAfter(gone)
  /\ allocs' = [a \in App |-> Forget(a, gone)]
  /\ heap' = heap \ {s.block : s \in gone}
  /\ ringing' = RingAfter(gone)

\* ui_pop() leaves the bottom screen.
ui_pop == IF Len(stack) > 1 THEN Pop(1) ELSE UNCHANGED <<stack, collect, allocs, heap, ringing>>
ui_home == Pop(Len(stack) - 1)
-----------------------------------------------------------------------------
(* The loader *)

\* unload(): the app's blocks are freed with it.
Unload(gone) ==
  /\ loaded' = loaded \ gone
  /\ heap' = heap \ UNION {allocs[a] : a \in gone}
  /\ allocs' = [a \in App |-> IF a \in gone THEN {} ELSE allocs[a]]

\* app_collect() keeps the apps that own a screen on the stack.
Owners == {s.app : s \in ToSet(stack)} \ {None}

Current == Last(calls)
Running == calls # <<>>
AppRuns == Running /\ Current # None /\ ops < MaxOps
OsRuns  == Running /\ Current = None

Call(app)    == calls' = Append(calls, app)

\* A callback of the OS ends with this call.
OsReturns == calls' = Front(calls) /\ UNCHANGED <<ops, phase>>
AppGoesOn == ops' = ops + 1 /\ UNCHANGED <<calls, phase>>

\* app_open(): a file that cannot be loaded leaves nothing behind; else start()
\* runs, as the app.
OpenApp(a) ==
  /\ OsRuns /\ Len(calls) = 1 /\ a \notin loaded /\ ops = 0
  /\ loaded' = loaded \cup {a} /\ Call(a) /\ ops' = 0
  /\ lost' = lost \ {a}
  /\ UNCHANGED <<stack, collect, allocs, heap, phase, alarmvars, clockvars>>

\* start() returns the app's first screen, which is pushed as the app's, and the
\* callback of the app list ends.
Started ==
  /\ Len(calls) = 2
  /\ Push([kind |-> "app", app |-> Current, block |-> None], {Current})
  /\ calls' = <<>> /\ ops' = 0
  /\ UNCHANGED <<collect, loaded, allocs, heap, phase, alarmvars, clockvars>>

\* start() returns NULL: the app is unloaded, and a message pushed.
NotStarted ==
  /\ Len(calls) = 2 /\ (Fails \/ Current \notin Owners)
  /\ Unload({Current})
  /\ Push([kind |-> "dialog", app |-> None, block |-> None], {})
  /\ calls' = <<>> /\ ops' = 0
  /\ UNCHANGED <<collect, phase, alarmvars, clockvars>>
-----------------------------------------------------------------------------
(* What callbacks call *)

\* ui_message(), or a screen of the app's own
AppPushes(kind) ==
  /\ AppRuns /\ kind \in {"app", "dialog"}
  /\ Push([kind |-> kind, app |-> Current, block |-> None], {}) /\ AppGoesOn
  /\ UNCHANGED <<collect, loaded, allocs, heap, alarmvars, clockvars>>

\* A screen in a block of the app's, freed when it is popped
AppPushesBlock(b) ==
  /\ AppRuns /\ b \in allocs[Current] /\ b \notin {s.block : s \in ToSet(stack)}
  /\ Push([kind |-> "app", app |-> Current, block |-> b], {}) /\ AppGoesOn
  /\ UNCHANGED <<collect, loaded, allocs, heap, alarmvars, clockvars>>

\* app_malloc() and track()
AppMallocs(b) ==
  /\ AppRuns /\ b \notin heap
  /\ heap' = heap \cup {b} /\ allocs' = [allocs EXCEPT ![Current] = @ \cup {b}] /\ AppGoesOn
  /\ UNCHANGED <<stack, collect, loaded, alarmvars, clockvars, lost>>

\* app_free()
AppFrees(b) ==
  /\ AppRuns /\ b \in allocs[Current] /\ b \notin {s.block : s \in ToSet(stack)}
  /\ heap' = heap \ {b} /\ allocs' = [allocs EXCEPT ![Current] = @ \ {b}] /\ AppGoesOn
  /\ UNCHANGED <<stack, collect, loaded, alarmvars, clockvars, lost>>

AppPops ==
  /\ AppRuns /\ Top.app = Current /\ ui_pop /\ AppGoesOn
  /\ UNCHANGED <<loaded, alarm, snooze, fired, clockvars, lost>>

AppGoesHome ==
  /\ AppRuns /\ ui_home /\ AppGoesOn
  /\ UNCHANGED <<loaded, alarm, snooze, fired, clockvars, lost>>

OsPushes ==
  /\ OsRuns /\ Push(OsScreen, {}) /\ OsReturns
  /\ UNCHANGED <<collect, loaded, allocs, heap, alarmvars, clockvars>>

OsPops ==
  /\ OsRuns /\ ui_pop /\ OsReturns
  /\ UNCHANGED <<loaded, alarm, snooze, fired, clockvars, lost>>

\* The alarm's screen: a time is set, which means wanting it, or the alarm is
\* turned off; either ends the snooze.
SetAlarm(new) ==
  /\ OsRuns /\ Len(stack) > 1 /\ OsReturns
  /\ alarm' = new /\ snooze' = None /\ seen' = FALSE
  /\ UNCHANGED <<stack, collect, loaded, allocs, heap, fired, ringing, now, age, rang, lost>>

Return ==
  /\ Len(calls) = 1 /\ calls' = <<>> /\ ops' = 0
  /\ UNCHANGED <<stack, collect, loaded, allocs, heap, phase, alarmvars, clockvars, lost>>
-----------------------------------------------------------------------------
(* The loop of ui_run() *)

Between(ph) == calls = <<>> /\ phase = ph
NextPhase(ph) == phase' = ph

\* A key or a tick for the top screen, with its app as the current one
Callback(ph, next) ==
  /\ Between(ph) /\ Top.kind # "ring" /\ NextPhase(next)
  /\ Call(Top.app)
  /\ UNCHANGED <<stack, collect, loaded, allocs, heap, ops, alarmvars, clockvars, lost>>

\* ring_key(): Snooze, or Stop
RingKey ==
  /\ Between("input") /\ Top.kind = "ring" /\ NextPhase("second")
  /\ snooze' \in {None, (now + SnoozeMin) % Day}
  /\ ui_pop
  /\ UNCHANGED <<loaded, calls, ops, alarm, fired, clockvars, lost>>

EndKey ==
  /\ Between("input") /\ NextPhase("second")
  /\ ui_home
  /\ UNCHANGED <<loaded, calls, ops, alarm, snooze, fired, clockvars, lost>>

NoInput ==
  /\ \/ Between("input") /\ NextPhase("second")
     \/ Between("second") /\ seen /\ NextPhase("tick")
     \/ Between("tick") /\ ~(Top.kind = "ring" /\ age >= RingMin) /\ NextPhase("collect")
  /\ UNCHANGED <<stack, collect, appvars, alarmvars, clockvars, lost>>

\* Mutant: the minute that rang is not forgotten when it is over.
FiredKept(f) == f

\* fired_min is kept for its minute only.
FiredNow(f) == IF f = now THEN f ELSE None

\* alarm_check(), once a second
AlarmCheck ==
  LET f     == FiredNow(fired)
      rings == /\ ~ringing /\ f # now
               /\ (alarm.on /\ alarm.min = now) \/ snooze = now
  IN /\ Between("second") /\ NextPhase("tick") /\ seen' = TRUE
     /\ IF rings
        THEN /\ fired' = now /\ ringing' = TRUE /\ age' = 0 /\ rang' = "began"
             /\ snooze' = IF snooze = now THEN None ELSE snooze
             /\ Push(RingScreen, {"ring"})
        ELSE fired' = f /\ UNCHANGED <<ringing, age, rang, snooze, stack, lost>>
     /\ UNCHANGED <<collect, appvars, alarm, now>>

\* ring_tick(), after RING_MS
RingEnds ==
  /\ Between("tick") /\ Top.kind = "ring" /\ age >= RingMin /\ NextPhase("collect")
  /\ ui_pop
  /\ UNCHANGED <<loaded, calls, ops, alarm, snooze, fired, clockvars, lost>>

\* app_collect()
Collect ==
  /\ Between("collect") /\ NextPhase("input") /\ collect' = FALSE
  /\ IF collect THEN Unload(loaded \ Owners) ELSE UNCHANGED <<loaded, heap, allocs>>
  /\ UNCHANGED <<stack, calls, ops, alarmvars, clockvars, lost>>

\* The ui thread comes round at least once in a minute.
Minute ==
  /\ Between("input") /\ seen /\ ~(ringing /\ age >= RingMin /\ "ring" \notin lost)
  /\ now' = (now + 1) % Day /\ seen' = FALSE /\ rang' = IF ringing THEN "on" ELSE "not"
  /\ age' = IF ringing /\ age < RingMin THEN age + 1 ELSE 0
  /\ UNCHANGED <<stack, collect, appvars, phase, alarmvars, lost>>

ScreensInit ==
  /\ stack = <<OsScreen>> /\ collect = FALSE
  /\ loaded = {} /\ allocs = [a \in App |-> {}] /\ heap = {}
  /\ calls = <<>> /\ ops = 0 /\ phase = "input"
  /\ alarm \in [on : BOOLEAN, min : AlarmTimes]
  /\ now = 0 /\ seen = FALSE /\ rang = "not" /\ age = 0
  /\ snooze = None /\ fired = None /\ ringing = FALSE
  /\ lost = {}

Calls ==
  \/ \E a \in App : OpenApp(a)
  \/ Started \/ NotStarted \/ AppPops \/ AppGoesHome \/ OsPushes \/ OsPops \/ Return
  \/ \E kind \in {"app", "dialog"} : AppPushes(kind)
  \/ \E b \in Block : AppPushesBlock(b) \/ AppMallocs(b) \/ AppFrees(b)
  \/ \E min \in AlarmTimes, on \in BOOLEAN : SetAlarm([on |-> on, min |-> min])

Loop ==
  \/ Callback("input", "second") \/ RingKey \/ EndKey \/ NoInput
  \/ AlarmCheck \/ Callback("tick", "collect") \/ RingEnds \/ Collect

ScreensNext == Calls \/ Loop \/ Minute

ScreensSpec == ScreensInit /\ [][ScreensNext]_screenvars
-----------------------------------------------------------------------------
\* No callback runs, and no screen is drawn, in the memory of an app that has
\* been unloaded; no block is freed twice or used after it was freed, and an app
\* leaves none behind; and an app none of whose screens is left is unloaded in the
\* same turn of the loop, unless its first screen found the stack full.
OwnersLoaded ==
  /\ \A s \in ToSet(stack) : s.app # None => s.app \in loaded
  /\ \A i \in DOMAIN calls : calls[i] # None => calls[i] \in loaded
  /\ heap = UNION {allocs[a] : a \in loaded}
  /\ \A s \in ToSet(stack) : s.block # None => s.block \in heap
  /\ Between("input") => loaded \subseteq Owners \cup lost

\* alarm.c: "when the minute comes the screen wakes and the alarm_ringing screen
\* beeps".
RingHeard == ringing => Top.kind = "ring"

\* The minute of the alarm, or of a snooze, does not pass without the alarm,
\* however the days before went; a minute rings once, however soon the ringing is
\* stopped; and the alarm rings exactly while its screen is on top to stop it,
\* unless that screen found the stack full.
RingsInTime ==
  [][/\ now' # now /\ ((alarm.on /\ alarm.min = now) \/ snooze = now)
        => rang # "not" \/ "ring" \in lost
     /\ ~ringing /\ ringing' => rang # "began"
     /\ "ring" \notin lost' => (ringing' <=> Top'.kind = "ring")]_screenvars
=============================================================================
