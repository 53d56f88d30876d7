------------------------------- MODULE MCApps -------------------------------
(***************************************************************************)
(* Four parts of the ui thread's work that share no state: its screens and    *)
(* alarm, its player and recorder, the notes, and the text editor.  Which of  *)
(* them moves is chosen at the start.                                         *)
(***************************************************************************)
EXTENDS Sound, Screens, Notes, TextEdit

VARIABLE part
partsvars == <<part, soundvars, screenvars, notesvars, editvars>>

\* A capital is wide.
MCWidth == [c \in Chars |-> IF c = "A" THEN 2 ELSE 1]

\* Part p moves, the others do not.
Still(p, v) == IF part = p THEN TRUE ELSE UNCHANGED v
Only(p) ==
  /\ part = p /\ UNCHANGED part
  /\ Still("sound", soundvars) /\ Still("screens", screenvars)
  /\ Still("notes", notesvars) /\ Still("edit", editvars)

AppsInit ==
  /\ part \in {"sound", "screens", "notes", "edit"}
  /\ SoundInit /\ ScreensInit /\ NotesInit /\ EditInit
  /\ part # "screens" => ~alarm.on
  /\ part # "notes" => \A i \in Number : entries[i] = 0
  /\ part # "edit" => text = <<>>

AppsNext ==
  \/ Only("sound") /\ SoundNext
  \/ Only("screens") /\ ScreensNext
  \/ Only("notes") /\ NotesNext
  \/ Only("edit") /\ EditNext

\* The ui thread and the interrupt go on, and a block of samples ends.
AppsSpec ==
  /\ AppsInit /\ [][AppsNext]_partsvars
  /\ WF_soundvars(Only("sound") /\ Ui)
  /\ WF_soundvars(Only("sound") /\ Isr)
  /\ WF_soundvars(Only("sound") /\ DmaBlocks)
=============================================================================
