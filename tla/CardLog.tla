------------------------------ MODULE CardLog ------------------------------
(***************************************************************************)
(* The card log of os/fs/fs.c: klog() buffers lines in RAM, log_flush()      *)
(* takes them and appends them to a file on the card.  The log thread        *)
(* flushes once a second; the ui thread flushes too, before a power-off      *)
(* (fs_sync) and before it hands the card to a USB host (fs_suspend).        *)
(*                                                                         *)
(* log_lock covers the buffer, so what is done under it is one step.  The    *)
(* file is FatFs's: each f_* call takes the volume lock, works on the card   *)
(* (and sleeps while it does) and gives the lock back; FF_FS_LOCK lets only  *)
(* one handle write a file.  f_mount takes no lock at all.                   *)
(***************************************************************************)
EXTENDS Naturals, Sequences

CONSTANTS
  Log, Ui,      \* the log thread and the ui thread
  None,         \* nobody
  Mark,         \* the line "-- lines dropped --"
  Scenes,       \* the situations of a run: what the ui thread does with the
                \* log ("sync", "suspend"), and whether FatFs calls can fail
                \* (card errors, timeouts of the volume lock)
  BufLines,     \* the lines that fit into log_buf
  RotateLines,  \* the lines of a log file that is renamed
  MaxLines      \* bound: the lines that are kept

ASSUME CardLogAssumption ==
  /\ Log # Ui /\ None \notin {Log, Ui}
  /\ Mark \notin Nat
  /\ Scenes \subseteq [ui : SUBSET {"sync", "suspend"}, fails : BOOLEAN]
  /\ BufLines \in Nat \ {0} /\ RotateLines \in Nat /\ MaxLines \in Nat

VARIABLES
  scene,    \* the situation, one of Scenes
  buf,      \* log_buf: the numbers of the lines in it
  dropped,  \* log_dropped
  last,     \* the number of the last line klog() kept
  mounted,  \* info.mounted
  out,      \* log_flush's static buffer
  took,     \* the lines each thread's flush took (only their number is in the code)
  pc,       \* where each thread is
  goal,     \* the ui thread's caller: "sync" or "suspend"
  vol,      \* the volume is registered with FatFs
  vlock,    \* the owner of the volume lock
  inside,   \* the threads inside a FatFs call
  opened,   \* the thread whose handle has log.txt open
  file, old \* log.txt and log-old.txt

buffer  == <<buf, dropped, last>>
files   == <<vol, vlock, inside, opened, file, old>>
logvars == <<scene, buffer, mounted, out, took, pc, goal, files>>

Flusher == {Log, Ui}
Calls == {"stat", "unlink", "rename", "open", "write", "close"}

Elems(s) == {s[i] : i \in DOMAIN s}

LogInit ==
  /\ scene \in Scenes
  /\ buf = <<>> /\ dropped = FALSE /\ last = 0
  /\ mounted = TRUE
  /\ out = [i \in 1 .. BufLines + 1 |-> Mark]
  /\ took = [t \in Flusher |-> <<>>]
  /\ pc = [t \in Flusher |-> "idle"]
  /\ goal = "sync"
  /\ vol = TRUE /\ vlock = None /\ inside = {} /\ opened = None
  /\ file = <<>> /\ old = <<>>

GoesTo(t, p) == pc' = [pc EXCEPT ![t] = p]

-----------------------------------------------------------------------------
(* The buffer, under log_lock *)

\* Any thread logs a line at any time.
Klog ==
  /\ \/ /\ Len(buf) < BufLines /\ last < MaxLines
        /\ last' = last + 1
        /\ buf' = Append(buf, last')
        /\ UNCHANGED dropped
     \/ /\ Len(buf) = BufLines
        /\ dropped' = TRUE
        /\ UNCHANGED <<buf, last>>
  /\ UNCHANGED <<mounted, out, took, pc, goal, files>>

\* Where log_flush returns to: the log thread's loop, fs_sync (which returns
\* too) or fs_suspend (which goes on).
Back(t) == IF t = Ui /\ goal = "suspend" THEN "stop" ELSE "idle"

\* Mutant: log_dropped is reset without a mark.
BatchUnmarked == buf

\* What a flush takes; memcpy leaves the rest of out as it was.
Batch == IF dropped THEN Append(buf, Mark) ELSE buf
Copied(b) == [i \in DOMAIN out |-> IF i <= Len(b) THEN b[i] ELSE out[i]]

\* Mutant: log_len is not reset.
FlushKeeps(t) ==
  /\ mounted
  /\ out' = Copied(Batch)
  /\ took' = [took EXCEPT ![t] = Batch]
  /\ dropped' = FALSE
  /\ GoesTo(t, "check")
  /\ UNCHANGED <<buf, last>>

\* The first half of log_flush.
Flush(t) ==
  \/ /\ mounted
     /\ out' = Copied(Batch)
     /\ took' = [took EXCEPT ![t] = Batch]
     /\ buf' = <<>> /\ dropped' = FALSE
     /\ GoesTo(t, "check")
     /\ UNCHANGED last
  \/ /\ ~mounted
     /\ GoesTo(t, "idle")
     /\ UNCHANGED <<buffer, out, took>>

LogFlush ==
  /\ pc[Log] = "idle"
  /\ Flush(Log)
  /\ UNCHANGED <<mounted, goal, files>>

\* fs_sync, and fs_suspend while the card is mounted.
UiFlush ==
  /\ pc[Ui] = "idle"
  /\ goal' \in scene.ui
  /\ goal' = "suspend" => mounted
  /\ Flush(Ui)
  /\ UNCHANGED <<mounted, files>>

\* log_flush after log_lock: info.mounted is read again, without the lock.
Check(t) ==
  /\ pc[t] = "check"
  /\ GoesTo(t, IF took[t] = <<>> \/ ~mounted THEN Back(t) ELSE "stat")
  /\ UNCHANGED <<buffer, mounted, out, took, goal, files>>
-----------------------------------------------------------------------------
(* FatFs *)

\* A path needs a registered volume; a handle dies with the unmount.
Usable(t) == IF pc[t] \in {"write", "close"} THEN opened = t ELSE vol

TakeVolume(t) ==
  /\ pc[t] \in Calls /\ t \notin inside
  /\ vlock = None /\ Usable(t)
  /\ vlock' = t /\ inside' = inside \cup {t}
  /\ UNCHANGED <<buffer, mounted, out, took, pc, goal, vol, opened, file, old>>

AfterFailure(t) ==
  CASE pc[t] = "stat" -> "open"   [] pc[t] = "unlink" -> "rename"
    [] pc[t] = "rename" -> "open" [] pc[t] = "write" -> "close"
    [] OTHER -> Back(t)

\* FR_NOT_ENABLED, FR_INVALID_OBJECT, or FR_TIMEOUT of the volume lock.
Refused(t) ==
  /\ pc[t] \in Calls /\ t \notin inside
  /\ ~Usable(t) \/ (scene.fails /\ vlock # None)
  /\ GoesTo(t, AfterFailure(t))
  /\ opened' = IF pc[t] = "close" /\ opened = t THEN None ELSE opened
  /\ UNCHANGED <<buffer, mounted, out, took, goal, vol, vlock, inside, file, old>>

\* The end of a call: the lock is given back if it is still the caller's.
GiveVolume(t) ==
  /\ t \in inside
  /\ inside' = inside \ {t}
  /\ vlock' = IF vlock = t THEN None ELSE vlock
  /\ UNCHANGED <<buffer, mounted, out, goal, vol>>

Fails(t) ==
  /\ scene.fails
  /\ GiveVolume(t)
  /\ GoesTo(t, AfterFailure(t))
  /\ opened' = IF pc[t] = "close" /\ opened = t THEN None ELSE opened
  /\ UNCHANGED <<took, file, old>>

\* Rotation, past RotateLines.
StatDone(t) ==
  /\ pc[t] = "stat" /\ GiveVolume(t)
  /\ GoesTo(t, IF Len(file) > RotateLines THEN "unlink" ELSE "open")
  /\ UNCHANGED <<took, opened, file, old>>

UnlinkDone(t) ==
  /\ pc[t] = "unlink" /\ GiveVolume(t)
  /\ old' = <<>>
  /\ GoesTo(t, "rename")
  /\ UNCHANGED <<took, opened, file>>

\* An open file (FR_LOCKED) and an existing target (FR_EXIST) are refused.
RenameDone(t) ==
  /\ pc[t] = "rename" /\ GiveVolume(t)
  /\ IF opened = None /\ old = <<>>
     THEN old' = file /\ file' = <<>> ELSE UNCHANGED <<file, old>>
  /\ GoesTo(t, "open")
  /\ UNCHANGED <<took, opened>>

\* A file that another thread writes cannot be opened (FR_LOCKED).
OpenDone(t) ==
  /\ pc[t] = "open" /\ GiveVolume(t)
  /\ IF opened = None
     THEN GoesTo(t, "write") /\ opened' = IF vol THEN t ELSE None
     ELSE GoesTo(t, Back(t)) /\ UNCHANGED opened
  /\ UNCHANGED <<took, file, old>>

\* As many lines as t took, from out as it is now.
WriteDone(t) ==
  /\ pc[t] = "write" /\ GiveVolume(t)
  /\ file' = IF opened = t THEN file \o SubSeq(out, 1, Len(took[t])) ELSE file
  /\ GoesTo(t, "close")
  /\ UNCHANGED <<took, opened, old>>

CloseDone(t) ==
  /\ pc[t] = "close" /\ GiveVolume(t)
  /\ opened' = IF opened = t THEN None ELSE opened
  /\ GoesTo(t, Back(t))
  /\ UNCHANGED <<took, file, old>>

CallDone(t) ==
  \/ StatDone(t) \/ UnlinkDone(t) \/ RenameDone(t)
  \/ OpenDone(t) \/ WriteDone(t) \/ CloseDone(t)
-----------------------------------------------------------------------------
(* The card is handed over and comes back *)

\* fs_suspend after its flush: "log_flush stops writing".
Stop ==
  /\ pc[Ui] = "stop"
  /\ mounted' = FALSE
  /\ GoesTo(Ui, "unmount")
  /\ UNCHANGED <<buffer, out, took, goal, files>>

\* f_mount(NULL): without the volume lock; every handle becomes invalid.
\* usb_enter goes on to usb_start, and the host uses the card.
Unmount ==
  /\ pc[Ui] = "unmount"
  /\ vol' = FALSE
  /\ opened' = None
  /\ GoesTo(Ui, "usb")
  /\ UNCHANGED <<buffer, mounted, out, took, goal, vlock, inside, file, old>>

\* usb_leave and fs_resume: f_mount creates the volume lock anew.
Resume ==
  /\ pc[Ui] = "usb"
  /\ vol' = TRUE
  /\ vlock' = None
  /\ mounted' \in IF scene.fails THEN BOOLEAN ELSE {TRUE}
  /\ GoesTo(Ui, "idle")
  /\ UNCHANGED <<buffer, out, took, goal, inside, opened, file, old>>

\* The card stayed away (fs_resume failed): usb_enter's fs_suspend returns at
\* once.
UsbAgain ==
  /\ pc[Ui] = "idle" /\ "suspend" \in scene.ui /\ ~mounted
  /\ GoesTo(Ui, "usb")
  /\ UNCHANGED <<buffer, mounted, out, took, goal, files>>
-----------------------------------------------------------------------------
FlushStep(t) == Check(t) \/ TakeVolume(t) \/ Refused(t) \/ Fails(t) \/ CallDone(t)

LogNext ==
  /\ \/ Klog \/ LogFlush \/ UiFlush
     \/ \E t \in Flusher : FlushStep(t)
     \/ Stop \/ Unmount \/ Resume \/ UsbAgain
  /\ UNCHANGED scene

LogSpec == LogInit /\ [][LogNext]_logvars

\* The log thread wakes up every second and gets the CPU when the more urgent
\* threads sleep.
FairLogSpec ==
  /\ LogSpec
  /\ WF_logvars(LogFlush /\ UNCHANGED scene)
  /\ WF_logvars(FlushStep(Log) /\ UNCHANGED scene)
-----------------------------------------------------------------------------
LogTypeOK ==
  /\ buf \in Seq(1 .. last) /\ Len(buf) <= BufLines
  /\ pc \in [Flusher -> Calls \cup {"idle", "check", "stop", "unmount", "usb"}]
  /\ opened \in Flusher \cup {None} /\ vlock \in Flusher \cup {None}
  /\ \A t \in Flusher : Len(took[t]) <= BufLines + 1

Rising(s) == \A i, j \in DOMAIN s : i < j /\ s[i] # Mark /\ s[j] # Mark => s[i] < s[j]

\* While the card is away no line that klog() has put in the buffer leaves it ("keep
\* them until it is back", fs.c:61).  A new line that finds it full is dropped, then
\* as ever (fs.c:46).
KeptWhileAway ==
  [][~mounted /\ buf' # buf => Len(buf') = Len(buf) + 1 /\ SubSeq(buf', 1, Len(buf)) = buf]_logvars

\* The lines that are on the card or on their way to it, oldest first.
OnTheWay == IF pc[Log] \in {"check", "stat", "unlink", "rename", "open", "write"}
            THEN took[Log] ELSE <<>>
AllLines == old \o file \o OnTheWay \o buf

\* From its oldest line on, s holds every line that klog() kept, each after those
\* before it.
NoneMissing(s) ==
  /\ Rising(s)
  /\ \A l \in Elems(s) \ {Mark} : l .. last \subseteq Elems(s)

\* The log thread is the only one that flushes, and the card works.
Undisturbed == scene = [ui |-> {}, fails |-> FALSE]

\* Whoever flushes, a line is taken once: what is in the buffer is newer than
\* every line any flush took.  And undisturbed, no line is lost, repeated or out
\* of place, rotation included.
TakenOnce ==
  /\ LogTypeOK
  /\ Rising(buf)
  /\ \A t \in Flusher : \A l \in Elems(took[t]) \ {Mark}, b \in Elems(buf) : l < b
  /\ Undisturbed => NoneMissing(AllLines)

\* Every buffered line reaches the card in the end, and for lines that found the
\* buffer full a mark that says so.
Written ==
  /\ \A n \in 1 .. MaxLines : Undisturbed /\ n \in Elems(buf) ~> (n \in Elems(file))
  /\ Undisturbed /\ dropped ~> (Mark \in Elems(file))

\* The two together: what is in the buffer stays until the card can take it, and gets
\* there.
Logged == KeptWhileAway /\ Written

\* fs_sync returns when the lines it found in the buffer are on the card
\* ("flush the log; before power-off", fs.h:37).
Flushing == pc[Ui] \in Calls \cup {"check"}

SyncFlushes ==
  [][Flushing /\ pc'[Ui] = "idle" /\ goal = "sync"
       => Elems(took[Ui]) \subseteq Elems(file') \cup Elems(old')]_logvars

\* While the card is handed over, nobody works on it through FatFs ("flush,
\* stop the log, unmount", fs.h:38).
HandedOver == pc[Ui] = "usb" => inside = {}
=============================================================================
