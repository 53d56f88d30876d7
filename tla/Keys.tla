-------------------------------- MODULE Keys --------------------------------
(***************************************************************************)
(* A key press from the matrix to the user interface: the edges the keypad    *)
(* controller latches, the interrupt handler and keypad_resume, the END key   *)
(* that a thread polls, the event queue (os/drivers/keypad.c), and what the   *)
(* UI thread believes of the keys (on_key of os/ui/ui.c).                     *)
(*                                                                         *)
(* A release that is lost makes a navigation key repeat for ever, or powers   *)
(* the phone off 2 s after END was pressed; so the question is which          *)
(* releases can be lost, and for how long the UI goes on believing.           *)
(***************************************************************************)
EXTENDS Integers, SequencesExt

CONSTANTS
  Nav,         \* the navigation keys, which repeat while they are held
  QueueSize    \* the length of the event queue

ASSUME KeysAssumption == "none" \notin Nav /\ "END" \notin Nav /\ QueueSize \in Nat \ {0}

VARIABLES
  down,    \* the keys the user holds
  seen,    \* the navigation keys the controller last saw down
  raw,     \* int_raw: the edges latched, as events
  scanOn,  \* the controller scans; sd.c pauses it around a transfer
  endWas,  \* the END thread's was
  events,  \* the queue
  ui,      \* the UI: the screen is dim or dark, swallow_key, held_key, end_down
  lost     \* the keys with a lost release, until the UI has handled a later one

keyvars == <<down, seen, raw, scanOn, endWas, events, ui, lost>>

None == "none"
End  == "END"
KeysOf == Nav \cup {End}
Press(k)   == [code |-> k, down |-> TRUE]
Release(k) == [code |-> k, down |-> FALSE]

KeysInit ==
  /\ down = {} /\ seen = {} /\ raw = {} /\ scanOn = TRUE /\ endWas = FALSE
  /\ events = <<>> /\ lost = {}
  /\ ui = [dark |-> FALSE, swallow |-> None, held |-> None, end_down |-> FALSE]
-----------------------------------------------------------------------------
(* The user and the controller *)

Toggle(k) ==
  /\ down' = IF k \in down THEN down \ {k} ELSE down \cup {k}
  /\ UNCHANGED <<seen, raw, scanOn, endWas, events, ui, lost>>

Edge(k) == IF k \in down THEN Press(k) ELSE Release(k)
Now(k)  == IF k \in down THEN seen \cup {k} ELSE seen \ {k}

\* A change of a key is latched.  The debounce is longer than the interrupt
\* latency: the edge before has been taken, unless the scan was paused.
Scan(k) ==
  /\ scanOn /\ (k \in seen) # (k \in down)
  /\ \A e \in raw : e.code # k
  /\ raw' = raw \cup {Edge(k)} /\ seen' = Now(k)
  /\ UNCHANGED <<down, scanOn, endWas, events, ui, lost>>
-----------------------------------------------------------------------------
(* The driver *)

Released(es) == {e.code : e \in {f \in es : ~f.down}}

\* post: an event that finds the queue full is dropped.
Posted(q, es) == IF Len(q) + Len(es) <= QueueSize THEN q \o es
                 ELSE q \o SubSeq(es, 1, QueueSize - Len(q))

\* keypad_isr takes the presses before the releases.
Ordered(es) ==
  {p \o r : p \in SetToSeqs({e \in es : e.down}), r \in SetToSeqs({e \in es : ~e.down})}

Taken(es, q) == {es[i] : i \in 1 .. (Len(q) - Len(events))}

\* keypad_isr: all of int_raw is cleared.  A bad scan frame is given up, and an
\* edge that comes between reading int_raw and clearing it is never seen.
Isr ==
  /\ raw' = {}
  /\ \E missed \in SUBSET {k \in Nav : scanOn /\ (k \in seen) # (k \in down)},
        bad \in BOOLEAN, es \in Ordered(raw) :
       LET q == IF bad THEN events ELSE Posted(events, es)
           got == Released(Taken(es, q))
       IN  /\ seen' = {k \in Nav : IF k \in missed THEN k \in down ELSE k \in seen}
           /\ events' = q
           /\ lost' = lost \cup (Released(raw) \ got) \cup (missed \ down)

KeypadIsr == raw # {} /\ Isr /\ UNCHANGED <<down, scanOn, endWas, ui>>

Pause == scanOn /\ scanOn' = FALSE /\ UNCHANGED <<down, seen, raw, endWas, events, ui, lost>>

\* keypad_resume collects what is latched before it turns the scan on.
Resume == ~scanOn /\ scanOn' = TRUE /\ Isr /\ UNCHANGED <<down, endWas, ui>>

\* One round of the END thread.
EndPoll ==
  /\ endWas # (End \in down)
  /\ endWas' = (End \in down)
  /\ LET e == IF endWas' THEN Press(End) ELSE Release(End)
         got == IF Len(events) < QueueSize THEN Released({e}) ELSE {}
     IN  events' = Posted(events, <<e>>) /\ lost' = lost \cup (Released({e}) \ got)
  /\ UNCHANGED <<down, seen, raw, scanOn, ui>>
-----------------------------------------------------------------------------
(* The UI thread *)

\* Mutant: while the screen is dark, releases are swallowed too.
WakesAlways(e, u) == u.dark

\* The first press only wakes the screen, and its release belongs to it.
Wakes(e, u) == e.down /\ u.dark

on_key(e, u) ==
  IF Wakes(e, u) THEN [u EXCEPT !.dark = FALSE, !.swallow = e.code]
  ELSE IF ~e.down /\ e.code = u.swallow THEN [u EXCEPT !.swallow = None]
  ELSE IF e.code = End THEN [u EXCEPT !.end_down = e.down]
  ELSE IF e.down THEN [u EXCEPT !.held = e.code]
  ELSE [u EXCEPT !.held = IF @ = e.code THEN None ELSE @]

Get ==
  /\ events # <<>>
  /\ LET e == Head(events)
     IN  /\ events' = Tail(events) /\ ui' = on_key(e, ui)
         /\ lost' = IF e.down \/ e.code = ui.swallow \/ Press(e.code) \in Range(events')
                    THEN lost ELSE lost \ {e.code}
  /\ UNCHANGED <<down, seen, raw, scanOn, endWas>>

\* every_second: the screen dims and goes dark, also while a key is held; a key
\* that repeats is no input.
Dim ==
  /\ ~ui.dark /\ ui' = [ui EXCEPT !.dark = TRUE]
  /\ UNCHANGED <<down, seen, raw, scanOn, endWas, events, lost>>

\* ui_wake, when the alarm rings.
Woken ==
  /\ ui.dark /\ ui' = [ui EXCEPT !.dark = FALSE]
  /\ UNCHANGED <<down, seen, raw, scanOn, endWas, events, lost>>

KeysNext ==
  \/ \E k \in KeysOf : Toggle(k)
  \/ \E k \in Nav : Scan(k)
  \/ KeypadIsr \/ Pause \/ Resume \/ EndPoll \/ Get \/ Dim \/ Woken

KeysSpec == KeysInit /\ [][KeysNext]_keyvars
-----------------------------------------------------------------------------
Believed == {k \in KeysOf : k = ui.held \/ (k = End /\ ui.end_down)}

\* With nothing under way any more, the UI only believes in a key that is up
\* (which then repeats, or powers the phone off) when a release
\* of that key was lost and none has been handled since.  The next one need not
\* be: it can be taken for that of a press that woke the screen.
NothingStuck ==
  events = <<>> /\ raw = {} /\ seen = down \cap Nav /\ endWas = (End \in down)
    => Believed \subseteq down \cup lost
=============================================================================
