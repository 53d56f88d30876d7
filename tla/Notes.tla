------------------------------- MODULE Notes -------------------------------
(***************************************************************************)
(* The notes (os/apps/notes.c): one file each, NOTEnnnn.TXT, listed newest    *)
(* first and edited in the text editor (ui/textedit.c), whose text is what    *)
(* the user makes of it.                                                      *)
(*                                                                         *)
(* A directory is its entries in order; FatFs, which is not part of the       *)
(* repository, reuses the first free one for a new file.                      *)
(***************************************************************************)
EXTENDS Integers, FiniteSetsExt

CONSTANTS
  MaxNotes,    \* MAX_NOTES, the notes that are listed (64)
  MaxNumber,   \* bound: the numbers of the notes
  Text, Empty, \* what can be typed, nothing among it
  NoFile,        \* no file
  CardFails    \* calls of FatFs may fail

ASSUME NotesAssumption ==
  /\ MaxNotes \in Nat \ {0} /\ MaxNumber \in Nat \ {0} /\ CardFails \in BOOLEAN
  /\ Empty \in Text /\ NoFile \notin Text

VARIABLES
  file,     \* each number's file
  entries,  \* the directory: a number, or 0 for a free entry
  list,     \* the numbers of the notes the screen lists
  left,     \* the listing has left some notes out
  screen,   \* the screen on top: the list, the editor, the question before a delete
  number    \* editing, or to_delete

notesvars == <<file, entries, list, left, screen, number>>

Number == 1 .. MaxNumber
Exists(n) == file[n] # NoFile

\* What a call of FatFs may come to.
Outcomes == IF CardFails THEN BOOLEAN ELSE {TRUE}

\* Notes of an earlier day, in any order of the directory.
NotesInit ==
  /\ entries \in {s \in [Number -> 0 .. MaxNumber] :
                    \A i, j \in Number : i # j /\ s[i] = s[j] => s[i] = 0}
  /\ file \in {f \in [Number -> {Empty, NoFile}] :
                 \A n \in Number : f[n] # NoFile <=> n \in {entries[i] : i \in Number}}
  /\ list = {} /\ left = FALSE
  /\ screen = "away"
  /\ number = 0
-----------------------------------------------------------------------------
\* load(): the notes among the first entries, up to MaxNotes or to the first call that
\* fails.  Whatever changed the files has set stale, and the list is drawn, which loads
\* it, before the next key.
Load(dir) ==
  LET First(k) == {dir[i] : i \in 1 .. k} \ {0}
  IN  \E k \in 0 .. MaxNumber :
        /\ Cardinality(First(k)) <= MaxNotes
        /\ list' = First(k) /\ left' = (First(k) # First(MaxNumber))
        /\ left' => Cardinality(First(k)) = MaxNotes \/ CardFails

Shows(s) == screen' = s

\* app_notes(), and the first draw
Enter ==
  /\ screen = "away" /\ Shows("list")
  /\ Load(entries)
  /\ UNCHANGED <<file, entries, number>>

Leave ==
  /\ screen = "list" /\ Shows("away")
  /\ list' = {} /\ left' = FALSE
  /\ UNCHANGED <<file, entries, number>>

\* open_note(): a new one, or one of the list.  What the editor gets of its file may
\* be nothing, if it is not read, or its first NOTE_MAX characters.
OpenNew ==
  /\ screen = "list" /\ Shows("edit")
  /\ number' = 0
  /\ UNCHANGED <<file, entries, list, left>>

Open ==
  /\ screen = "list" /\ Shows("edit")
  /\ \E n \in list : number' = n
  /\ UNCHANGED <<file, entries, list, left>>

\* RSoft in the editor
Discard ==
  /\ screen = "edit" /\ Shows("list")
  /\ UNCHANGED <<file, entries, list, left, number>>

\* Mutant: the note below the newest is taken for the last one.
OnePastTheOldest ==
  IF list = {} THEN 1 ELSE Min(list) + 1

\* "new: the next free number"
NextNumber ==
  IF list = {} THEN 1 ELSE Max(list) + 1

Entered(n) ==
  IF n \in {entries[i] : i \in Number} THEN entries
  ELSE [entries EXCEPT ![CHOOSE i \in Number :
          entries[i] = 0 /\ \A j \in Number : entries[j] = 0 => i <= j] = n]

\* saved(), on Center in the editor, with what the user made of the text: the file is
\* emptied and written, and nobody looks whether the writing failed.
Save ==
  /\ screen = "edit"
  /\ \E t \in Text, opened, written \in Outcomes :
       LET n == IF number = 0 THEN NextNumber ELSE number
       IN  /\ n \in Number
           /\ IF number = 0 /\ t = Empty
              THEN Shows("list") /\ UNCHANGED <<file, entries, list, left>>
              ELSE IF ~opened
              THEN UNCHANGED <<screen, file, entries, list, left>>
              ELSE /\ Shows("list")
                   /\ file' = [file EXCEPT ![n] = IF written THEN t ELSE Empty]
                   /\ entries' = Entered(n)
                   /\ Load(entries')
  /\ UNCHANGED number

\* LSoft on a note, and the answer.
AskDelete ==
  /\ screen = "list" /\ Shows("confirm")
  /\ \E n \in list : number' = n
  /\ UNCHANGED <<file, entries, list, left>>

DeleteYes ==
  /\ screen = "confirm" /\ Shows("list")
  /\ \E done \in Outcomes :
       IF done /\ Exists(number)
       THEN /\ file' = [file EXCEPT ![number] = NoFile]
            /\ entries' = [i \in Number |-> IF entries[i] = number THEN 0 ELSE entries[i]]
       ELSE UNCHANGED <<file, entries>>
  /\ Load(entries')
  /\ UNCHANGED number

DeleteNo ==
  /\ screen = "confirm" /\ Shows("list")
  /\ UNCHANGED <<file, entries, list, left, number>>

NotesNext ==
  Enter \/ Leave \/ OpenNew \/ Open \/ Discard \/ Save \/ AskDelete \/ DeleteYes \/ DeleteNo

NotesSpec == NotesInit /\ [][NotesNext]_notesvars
-----------------------------------------------------------------------------
\* The user's own doing: the note was opened, or its delete confirmed.
Meant(n) == screen \in {"edit", "confirm"} /\ number = n

\* A note that is on the card is only changed by saving that note, and only deleted
\* after the question about it, unless the listing has left notes out.
NotesKept ==
  [][\A n \in Number : Exists(n) /\ file'[n] # file[n] /\ ~left => Meant(n)]_notesvars

\* "new: the next free number" (notes.c:122): a new note never takes the place of one
\* that is on the card.
NewNumberIsFree ==
  [][\A n \in Number : Exists(n) /\ file'[n] # file[n] => Meant(n)]_notesvars
=============================================================================
