------------------------------ MODULE TextEdit ------------------------------
(***************************************************************************)
(* The text editor (os/ui/textedit.c): letters chosen by tapping a key again  *)
(* within TAP_MS, the modes, the cursor, and the lines as they wrap.          *)
(*                                                                         *)
(* Two keys, 2 and 0, of two characters each stand for the ten.  Positions in *)
(* the text count from 0, as in the code.                                     *)
(***************************************************************************)
EXTENDS Integers, Sequences, SequencesExt

CONSTANTS
  MaxText,   \* max, the longest text
  MaxLines,  \* MAX_LINES
  LineWidth, \* TEXT_W
  Width,     \* each character's width
  TapTime,   \* TAP_MS
  Multiline  \* the note's editor takes new lines

Letters == [two |-> <<"a", "2">>, zero |-> <<"space", "0">>]
TapKey == DOMAIN Letters
Chars == {"a", "A", "2", "space", "0", "newline"}   \* ASCII, two by name

ASSUME TextEditAssumption ==
  /\ {MaxText, MaxLines} \subseteq Nat \ {0} /\ LineWidth \in Nat /\ TapTime \in Nat \ {0}
  /\ Width \in [Chars -> Nat \ {0}] /\ Multiline \in BOOLEAN

VARIABLES
  text,   \* the text
  cur,    \* the cursor: the characters before it
  mode,   \* Abc, abc, ABC or 123
  tap,    \* the key being tapped, its letter, the time since: tap_key, tap_index, tap_at
  mine    \* where the run of taps has put its letter: -1 nowhere, as the text was full

editvars == <<text, cur, mode, tap, mine>>

NoTap == [key |-> "none", index |-> 1, age |-> 0]

\* ui_text_edit(), with the text it is given.
EditInit ==
  /\ text \in {<<>>, <<"2", "space", "a">>}
  /\ cur = Len(text) /\ mode = IF text = <<>> THEN "Abc" ELSE "abc"
  /\ tap = NoTap /\ mine = -1
-----------------------------------------------------------------------------
(* Lines *)

WidthOf(t) ==
  LET w[i \in 0 .. Len(t)] == IF i = 0 THEN 0 ELSE w[i - 1] + Width[t[i]] IN w[Len(t)]

\* The text from position a up to b.
Part(a, b) == SubSeq(text, a + 1, b)

\* layout(), one character: the lines so far, where the last begins, its width, and
\* the last space in it.
Wrap(l, c) ==
  LET w == l.w + Width[c]
      space == IF c = "space" THEN l.i ELSE l.space
      start == IF space >= l.start THEN space + 1 ELSE l.i
      next == [l EXCEPT !.i = @ + 1]
  IN  IF c = "newline"
      THEN [next EXCEPT !.start = l.i + 1, !.w = 0, !.space = -1,
                        !.starts = Append(@, l.i + 1)]
      ELSE IF w > LineWidth /\ l.i > l.start
      THEN [next EXCEPT !.start = start, !.w = WidthOf(Part(start, l.i + 1)), !.space = -1,
                        !.starts = Append(@, start)]
      ELSE [next EXCEPT !.w = w, !.space = space]

\* It stops when there is no room for another line.
Laid(l, c) == IF Len(l.starts) < MaxLines THEN Wrap(l, c) ELSE l

\* line_start[]
Starts ==
  LET l[i \in 0 .. Len(text)] ==
        IF i = 0 THEN [i |-> 0, start |-> 0, w |-> 0, space |-> -1, starts |-> <<0>>]
        ELSE Laid(l[i - 1], text[i])
  IN  l[Len(text)].starts

\* line_of() and line_end(), of lines that start at s
LineOf(s, pos) == CHOOSE l \in DOMAIN s :
  /\ l = 1 \/ s[l] <= pos
  /\ l < Len(s) => s[l + 1] > pos

LineEnd(s, l) ==
  LET end == IF l < Len(s) THEN s[l + 1] ELSE Len(text)
  IN  IF end > s[l] /\ text[end] = "newline" THEN end - 1 ELSE end
-----------------------------------------------------------------------------
(* Taps *)

Cased(m, c) == IF m \in {"Abc", "ABC"} /\ c = "a" THEN "A" ELSE c

Inserted(c) ==
  IF Len(text) < MaxText THEN text' = InsertAt(text, cur + 1, c) /\ cur' = cur + 1
  ELSE UNCHANGED <<text, cur>>

\* One capital, then small: also end_tap()'s.
AfterCapital ==
  IF tap # NoTap /\ mode = "Abc" /\ cur > 0 /\ text[cur] # "space" THEN "abc" ELSE mode

\* The same key again, in time.
TapsAgain(k) == tap.key = k /\ tap.age < TapTime /\ cur > 0

\* digit()
Digit ==
  \E k \in TapKey :
    IF mode = "123"
    THEN Inserted(Last(Letters[k])) /\ tap' = NoTap /\ mine' = -1 /\ UNCHANGED mode
    ELSE IF TapsAgain(k)
    THEN LET i == 1 + (tap.index % Len(Letters[k]))
         IN  /\ text' = [text EXCEPT ![cur] = Cased(mode, Letters[k][i])]
             /\ tap' = [tap EXCEPT !.index = i, !.age = 0]
             /\ UNCHANGED <<cur, mode, mine>>
    ELSE /\ mode' = AfterCapital
         /\ tap' = [key |-> k, index |-> 1, age |-> 0]
         /\ Inserted(Cased(mode', Letters[k][1]))
         /\ mine' = IF Len(text) < MaxText THEN cur ELSE -1

\* Time passes; tick() ends a run of taps that is over.
Passes ==
  /\ tap # NoTap
  /\ \/ tap.age < TapTime /\ tap' = [tap EXCEPT !.age = @ + 1] /\ UNCHANGED <<mode, mine>>
     \/ tap.age = TapTime /\ tap' = NoTap /\ mode' = AfterCapital /\ mine' = -1
  /\ UNCHANGED <<text, cur>>
-----------------------------------------------------------------------------
(* The other keys: each ends a run of taps first *)

Ended == tap' = NoTap /\ mine' = -1
Keeps == Ended /\ mode' = AfterCapital

Modes == <<"Abc", "abc", "ABC", "123">>
Star ==
  /\ Ended
  /\ mode' = Modes[1 + ((CHOOSE i \in 1 .. 4 : Modes[i] = AfterCapital) % 4)]
  /\ UNCHANGED <<text, cur>>

Hash ==
  /\ Keeps
  /\ IF Multiline THEN Inserted("newline") ELSE UNCHANGED <<text, cur>>

\* Mutant: the cursor moves under a run of taps.
LeftWhileTapping ==
  /\ cur' = IF cur > 0 THEN cur - 1 ELSE cur
  /\ UNCHANGED <<text, mode, tap, mine>>

Left ==
  /\ Keeps /\ cur' = IF cur > 0 THEN cur - 1 ELSE cur
  /\ UNCHANGED text

Right ==
  /\ Keeps /\ cur' = IF cur < Len(text) THEN cur + 1 ELSE cur
  /\ UNCHANGED text

Delete ==
  /\ Keeps
  /\ IF cur > 0 THEN text' = RemoveAt(text, cur) /\ cur' = cur - 1 ELSE UNCHANGED <<text, cur>>

\* move_line(): the last position of line l that is not right of the cursor.
Below(s, l) ==
  LET x == WidthOf(Part(s[LineOf(s, cur)], cur))
      Fits == {pos \in s[l] .. LineEnd(s, l) : WidthOf(Part(s[l], pos)) <= x}
  IN  CHOOSE pos \in Fits : \A p \in Fits : p <= pos

Vertical ==
  \E d \in {-1, 1} :
    LET s == Starts
        l == LineOf(s, cur) + d
    IN  /\ Keeps /\ cur' = IF l \in DOMAIN s THEN Below(s, l) ELSE cur
        /\ UNCHANGED text

EditNext ==
  Digit \/ Passes \/ Star \/ Hash \/ Left \/ Right \/ Delete \/ Vertical

EditSpec == EditInit /\ [][EditNext]_editvars
-----------------------------------------------------------------------------
WordEnd(pos) == CHOOSE e \in pos .. Len(text) :
  /\ e = Len(text) \/ text[e + 1] \in {"space", "newline"}
  /\ \A p \in pos .. e - 1 : text[p + 1] \notin {"space", "newline"}

\* The lines are the text, in order ("Lines as they wrap", textedit.c:42): each begins
\* after a new line, or where the one before could not take the next word, and in the
\* middle of a word only if that is all the line before holds.  Only its last character,
\* and a space after it, may go beyond the width.  There are never more than MaxLines:
\* then the last of them holds the rest of the text, however much and wherever its new
\* lines are, and the cursor still moves in it.
Wrapped ==
  LET s == Starts
      Full == Len(s) = MaxLines
  IN  /\ Len(s) <= MaxLines
      /\ \A p \in DOMAIN text :
           text[p] = "newline" => Contains(s, p) \/ (Full /\ p > Last(s))
      /\ \A l \in 2 .. Len(s) :
           /\ s[l - 1] < s[l] /\ s[l] <= Len(text)
           /\ text[s[l]] # "newline" =>
                /\ WidthOf(Part(s[l - 1], WordEnd(s[l]))) > LineWidth
                /\ text[s[l]] = "space" \/ ~Contains(Part(s[l - 1], s[l]), "space")
      /\ \A l \in DOMAIN s :
           LET end == LineEnd(s, l)
               last == IF end > s[l] /\ text[end] = "space" THEN end - 1 ELSE end
           IN  l < Len(s) \/ ~Full => WidthOf(Part(s[l], last - 1)) <= LineWidth

\* And a tap changes the letter of its own run of taps and no other, wherever the
\* cursor, the modes and the time went in between, unless the text was full when the
\* run began.
Edited ==
  /\ []Wrapped
  /\ [][Len(text') = Len(text) /\ text' # text /\ mine # -1
          => tap.key # "none" /\ \A i \in DOMAIN text : i # mine + 1 => text'[i] = text[i]]_editvars
=============================================================================
