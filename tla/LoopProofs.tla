----------------------------- MODULE LoopProofs -----------------------------
(***************************************************************************)
(* The parts whose loops have to be followed by induction: the SIM reader with *)
(* its parser, the calendar, the lines of the text editor, and the tries of a  *)
(* read of the clock.                                                          *)
(*                                                                            *)
(* CardServed, for any cards in the slots and any commands.  First what the   *)
(* parser makes of an answer to reset of any length, by induction over its    *)
(* characters; then the inductive invariant SimInv: in an activation, the     *)
(* characters read, waiting and still to be sent are a prefix of the card's   *)
(* answer; in an exchange in which nothing timed out, the characters on their *)
(* way take the driver from where it is to where the card is.                 *)
(*                                                                            *)
(* CalendarAgrees, for every year the calendar has: what the two loops of     *)
(* rtc_date_from_days return, from the sums of the years and of the months.   *)
(*                                                                            *)
(* Edited, for texts, lines and characters of any length and width: Wrapped,  *)
(* of any text at all, from the sums of the widths, by LaidInv, what layout() *)
(* has after each character, or has had since it stopped at MaxLines lines;   *)
(* and the taps, by EditInv: the letter of a run of taps is the one before    *)
(* the cursor.                                                                *)
(*                                                                            *)
(* ReadsATime, for clocks that start and are set anywhere in their 49710 days: *)
(* by RtcInv, each try of a read that is not taken has cost a second, and the  *)
(* fields of one in which no second passes are those the clock shows.          *)
(***************************************************************************)
EXTENDS Sim, Calendar, TextEdit, Rtc, FiniteSetTheorems, SequenceTheorems, WellFoundedInduction, TLAPS

\* A set of natural numbers has a least one.
LEMMA LeastNumber ==
  ASSUME NEW T \in SUBSET Nat, T # {}
  PROVE  \E x \in T : \A y \in T : x <= y
<1>1. PICK R : R = StrictSubsetOrdering(Nat)
  OBVIOUS
<1>2. PICK F : F = FiniteSubsetsOf(Nat)
  OBVIOUS
<1>3. IsWellFoundedOn(R, F)
  BY <1>1, <1>2, FS_StrictSubsetOrderingWellFounded
<1>4. PICK U : U = {0 .. n : n \in T}
  OBVIOUS
<1>5. U \subseteq F /\ U # {}
  <2>1. \A n \in T : 0 .. n \in SUBSET Nat /\ IsFiniteSet(0 .. n)
    BY FS_Interval
  <2>2. \A n \in T : 0 .. n \in F
    BY ONLY <1>2, <2>1 DEF FiniteSubsetsOf
  <2>3. QED
    BY ONLY <1>4, <2>2, T # {}
<1>6. PICK X \in U : \A Y \in U : <<Y, X>> \notin R
  BY ONLY <1>3, <1>5, WFMin
<1>7. PICK x \in T : X = 0 .. x
  BY <1>4, <1>6
<1>8. ASSUME NEW y \in T PROVE x <= y
  <2>1. x \in Nat /\ y \in Nat
    OBVIOUS
  <2>2. SUFFICES ASSUME y < x PROVE FALSE
    BY <2>1
  <2>3. 0 .. y \in U
    BY <1>4
  <2>4. 0 .. y # 0 .. x /\ 0 .. y \subseteq 0 .. x
    <3>1. x \in 0 .. x /\ x \notin 0 .. y
      BY ONLY <2>1, <2>2
    <3>2. QED
      BY ONLY <2>1, <2>2, <3>1
  <2>5. 0 .. y \in SUBSET Nat /\ X \in SUBSET Nat
    BY ONLY <1>7, <2>1
  <2>6. <<0 .. y, X>> \in R
    BY ONLY <1>1, <1>7, <2>4, <2>5 DEF StrictSubsetOrdering
  <2>7. QED
    BY ONLY <1>6, <2>3, <2>6
<1>9. QED
  BY <1>8

\* Induction over the natural numbers, for a set of them.
LEMMA Induction ==
  ASSUME NEW S, 0 \in S, \A n \in Nat : n \in S => n + 1 \in S
  PROVE  Nat \subseteq S
<1>1. SUFFICES ASSUME Nat \ S # {} PROVE FALSE
  OBVIOUS
<1>2. PICK x \in Nat \ S : \A y \in Nat \ S : x <= y
  BY <1>1, LeastNumber
<1>3. x - 1 \in Nat /\ x - 1 \in S
  BY <1>2
<1>4. x - 1 + 1 = x
  BY <1>2
<1>5. QED
  BY <1>2, <1>3, <1>4

\* A function can be defined by what follows from the value before.
Follows(f, m, n, a, g) == \A i \in m .. n : f[i] = IF i = m THEN a ELSE g[<<f[i - 1], i>>]

\* Such a function exists.
LEMMA Recursion ==
  ASSUME NEW S, NEW m \in Nat, NEW n \in Nat, NEW a \in S, NEW g \in [S \X (m .. n) -> S]
  PROVE  \E f \in [m .. n -> S] : Follows(f, m, n, a, g)
<1> DEFINE Upto(k, f) == \A i \in m .. k : f[i] = IF i = m THEN a ELSE g[<<f[i - 1], i>>]
           D == {k \in Nat : m + k <= n => \E f \in [m .. m + k -> S] : Upto(m + k, f)}
<1> SUFFICES \E f \in [m .. n -> S] : Upto(n, f)
  BY DEF Follows
<1>1. 0 \in D
  <2>1. PICK f : f = [i \in m .. m + 0 |-> a]
    OBVIOUS
  <2>2. f \in [m .. m + 0 -> S] /\ Upto(m + 0, f)
    BY <2>1
  <2>3. QED
    BY <2>2
<1>2. ASSUME NEW k \in Nat, k \in D PROVE k + 1 \in D
  <2>1. SUFFICES ASSUME m + (k + 1) <= n
                 PROVE  \E f \in [m .. m + (k + 1) -> S] : Upto(m + (k + 1), f)
    OBVIOUS
  <2>2. PICK f \in [m .. m + k -> S] : Upto(m + k, f)
    BY <1>2, <2>1
  <2>3. m + k \in m .. m + k /\ m + k + 1 \in m .. n
    BY <2>1
  <2>4. f[m + k] \in S
    BY <2>2, <2>3
  <2>5. PICK b : b = g[<<f[m + k], m + k + 1>>]
    OBVIOUS
  <2>6. b \in S
    BY ONLY <2>3, <2>4, <2>5, g \in [S \X (m .. n) -> S]
  <2>7. PICK h : h = [i \in m .. m + (k + 1) |-> IF i = m + k + 1 THEN b ELSE f[i]]
    OBVIOUS
  <2>8. \A i \in m .. m + (k + 1) : i # m + k + 1 => i \in m .. m + k
    OBVIOUS
  <2>9. h \in [m .. m + (k + 1) -> S]
    BY <2>2, <2>6, <2>7, <2>8
  <2>10. ASSUME NEW i \in m .. m + (k + 1)
         PROVE  h[i] = IF i = m THEN a ELSE g[<<h[i - 1], i>>]
    <3>1. CASE i = m + k + 1
      <4>1. i # m /\ i - 1 = m + k /\ m + k \in m .. m + (k + 1) /\ m + k # m + k + 1
        BY <3>1
      <4>2. h[i - 1] = f[m + k]
        BY ONLY <2>7, <4>1
      <4>3. h[i] = b
        BY ONLY <2>7, <2>10, <3>1
      <4>4. QED
        BY ONLY <2>5, <3>1, <4>1, <4>2, <4>3
    <3>2. CASE i # m + k + 1
      <4>1. i \in m .. m + k
        BY <2>8, <3>2
      <4>2. h[i] = f[i]
        BY <2>7, <3>2
      <4>3. f[i] = IF i = m THEN a ELSE g[<<f[i - 1], i>>]
        BY <2>2, <4>1
      <4>4. i # m => i - 1 \in m .. m + (k + 1) /\ i - 1 # m + k + 1
        BY <4>1
      <4>5. i # m => h[i - 1] = f[i - 1]
        BY ONLY <2>7, <4>4
      <4>6. QED
        BY ONLY <4>2, <4>3, <4>5
    <3>3. QED
      BY <3>1, <3>2
  <2>11. QED
    BY <2>9, <2>10
<1>3. Nat \subseteq D
  <2> HIDE DEF D
  <2>1. QED
    BY ONLY <1>1, <1>2, Induction
<1>4. CASE m <= n
  <2>1. n - m \in Nat /\ m + (n - m) = n /\ m + (n - m) <= n
    BY ONLY <1>4, m \in Nat, n \in Nat
  <2>2. n - m \in D
    <3> HIDE DEF D
    <3>1. QED
      BY ONLY <1>3, <2>1
  <2>3. QED
    BY <2>1, <2>2
<1>5. CASE n < m
  <2>1. PICK f : f = [i \in m .. n |-> a]
    OBVIOUS
  <2>2. m .. n = {}
    BY <1>5
  <2>3. QED
    BY <2>1, <2>2
<1>6. QED
  <2> HIDE DEF Upto
  <2>1. QED
    BY <1>4, <1>5

\* Characters, and what is known of a card.
Value == Nat \cup {"A", "B", "C"}
Kind == {"ts", "bad", "i", "null", "all", "one", "byte", "sw1", "sw2"}
CharType == [k : Kind, y : SUBSET {"A", "D"}, v : SUBSET Value, inv : BOOLEAN]

\* What Describes says of a card, without the limit on the length of its answer.
IsCard(c) ==
  /\ c.ts \in {"direct", "inverse", "bad"}
  /\ c.works \subseteq {"B", "C"}
  /\ c.protocols \in Seq({0, 1, 15})
  /\ c.classes \subseteq {"A", "B", "C"}
  /\ c.classes # {} => c.protocols # <<>> /\ c.protocols[Len(c.protocols)] = 15
  /\ c.hist \in Nat

\* The cards of SimAssumption.
LEMMA CardDescribed ==
  ASSUME NEW c, Describes(c)
  PROVE  IsCard(c)
BY DEF Describes, IsCard, Last

\* The type of a character.
LEMMA CharOf ==
  ASSUME NEW k \in Kind, NEW y \in SUBSET {"A", "D"}, NEW v \in SUBSET Value
  PROVE  Char(k, y, v) \in CharType
BY DEF Char, CharType

\* What a TD or T0 announces.
LEMMA AnnouncesType ==
  ASSUME NEW c, NEW i
  PROVE  Announces(c, i) \in SUBSET {"A", "D"}
BY DEF Announces

\* The protocols a card offers.
LEMMA ProtocolsType ==
  ASSUME NEW c, IsCard(c)
  PROVE  /\ Len(c.protocols) \in Nat
         /\ DOMAIN c.protocols = 1 .. Len(c.protocols)
         /\ \A i \in 1 .. Len(c.protocols) : c.protocols[i] \in {0, 1, 15}
         /\ Check(c) \in {0, 1}
         /\ c.hist + Check(c) \in Nat
BY DEF IsCard, Check

\* The interface characters of a level.
LEMMA LevelType ==
  ASSUME NEW c, IsCard(c), NEW i \in 0 .. Len(c.protocols)
  PROVE  Level(c, i) \in Seq(CharType)
<1>1. Len(c.protocols) \in Nat /\ \A j \in 1 .. Len(c.protocols) : c.protocols[j] \in {0, 1, 15}
  BY ProtocolsType
<1>2. c.classes \in SUBSET Value /\ {"A"} \in SUBSET Value
  BY DEF IsCard, Value
<1>3. Char("i", {}, IF i = 0 THEN {"A"} ELSE c.classes) \in CharType
  BY <1>2, CharOf DEF Kind
<1>4. <<>> \in Seq(CharType)
  OBVIOUS
<1>5. ASSUME "D" \in Announces(c, i)
      PROVE  <<Char("i", Announces(c, i + 1), {c.protocols[i + 1]})>> \in Seq(CharType)
  <2>1. i + 1 \in 1 .. Len(c.protocols)
    BY <1>1, <1>5 DEF Announces
  <2>2. c.protocols[i + 1] \in {0, 1, 15}
    BY <1>1, <2>1
  <2>3. {c.protocols[i + 1]} \in SUBSET Value
    BY ONLY <2>2 DEF Value
  <2>4. Char("i", Announces(c, i + 1), {c.protocols[i + 1]}) \in CharType
    BY <2>3, AnnouncesType, CharOf DEF Kind
  <2>5. QED
    BY ONLY <2>4
<1>6. QED
  BY <1>3, <1>4, <1>5, ConcatProperties DEF Level

\* The recursive definition of Levels is one of a function.
LEMMA LevelsDefined ==
  ASSUME NEW c, IsCard(c)
  PROVE  LET N == Len(c.protocols)
         IN  /\ Levels(c) \in [0 .. N + 1 -> Seq(CharType)]
             /\ Levels(c)[N + 1] = [j \in 1 .. c.hist + Check(c) |-> Char("i", {}, {})]
             /\ \A i \in 0 .. N : Levels(c)[i] = Level(c, i) \o Levels(c)[i + 1]
<1> DEFINE N == Len(c.protocols)
           End == [j \in 1 .. c.hist + Check(c) |-> Char("i", {}, {})]
           From(f) == [i \in 0 .. N + 1 |-> IF i > N THEN End ELSE Level(c, i) \o f[i + 1]]
<1>1. N \in Nat /\ End \in Seq(CharType)
  <2>1. c.hist + Check(c) \in Nat
    BY ProtocolsType
  <2>2. Char("i", {}, {}) \in CharType
    BY CharOf DEF Kind
  <2>3. QED
    BY <2>1, <2>2, ProtocolsType
<1>2. \E f : f = From(f)
  <2>1. PICK g : g = [x \in Seq(CharType) \X (0 .. N + 1) |-> IF x[2] = 0 THEN End ELSE Level(c, N + 1 - x[2]) \o x[1]]
    OBVIOUS
  <2>2. g \in [Seq(CharType) \X (0 .. N + 1) -> Seq(CharType)]
    <3> HIDE DEF End
    <3>1. \A i \in 0 .. N + 1 : i # 0 => N + 1 - i \in 0 .. N
      BY <1>1
    <3>2. \A s \in Seq(CharType), i \in 0 .. N + 1 :
            (IF i = 0 THEN End ELSE Level(c, N + 1 - i) \o s) \in Seq(CharType)
      <4> HIDE DEF N
      <4>1. SUFFICES ASSUME NEW s \in Seq(CharType), NEW i \in 0 .. N + 1, i # 0
                     PROVE  Level(c, N + 1 - i) \o s \in Seq(CharType)
        BY <1>1
      <4>2. Level(c, N + 1 - i) \in Seq(CharType)
        BY <3>1, <4>1, LevelType DEF N
      <4>3. QED
        BY ONLY <4>1, <4>2, ConcatProperties
    <3>3. QED
      BY ONLY <2>1, <3>2
  <2>3. PICK h \in [0 .. N + 1 -> Seq(CharType)] :
          \A i \in 0 .. N + 1 : h[i] = IF i = 0 THEN End ELSE g[<<h[i - 1], i>>]
    <3>1. PICK S : S = Seq(CharType)
      OBVIOUS
    <3>2. PICK n \in Nat : n = N + 1
      BY <1>1
    <3>3. End \in S /\ g \in [S \X (0 .. n) -> S] /\ 0 \in Nat /\ n \in Nat
      BY <1>1, <2>2, <3>1, <3>2
    <3>4. PICK m, a : m = 0 /\ a = End
      OBVIOUS
    <3>5. a \in S /\ g \in [S \X (m .. n) -> S] /\ m \in Nat /\ n \in Nat
      BY <3>3, <3>4
    <3>6. \E h \in [m .. n -> S] : Follows(h, m, n, a, g)
      BY ONLY <3>5, Recursion
    <3>7. QED
      <4> HIDE DEF End
      <4>1. QED
        BY ONLY <3>1, <3>2, <3>4, <3>6 DEF Follows
  <2>4. PICK f : f = [i \in 0 .. N + 1 |-> h[N + 1 - i]]
    OBVIOUS
  <2>5. ASSUME NEW i \in 0 .. N + 1
        PROVE  f[i] = IF i > N THEN End ELSE Level(c, i) \o f[i + 1]
    <3> DEFINE d == N + 1 - i
    <3> HIDE DEF End, N
    <3>1. d \in 0 .. N + 1 /\ (i > N <=> d = 0)
      BY <1>1
    <3>2. f[i] = h[d]
      BY ONLY <2>4, <2>5
    <3>3. CASE d = 0
      BY <2>3, <3>1, <3>2, <3>3
    <3>4. CASE d # 0
      <4>1. d - 1 \in 0 .. N + 1 /\ i + 1 \in 0 .. N + 1 /\ N + 1 - (i + 1) = d - 1 /\ N + 1 - d = i
        BY <1>1, <3>1, <3>4
      <4>2. f[i + 1] = h[d - 1]
        BY ONLY <2>4, <4>1
      <4>3. h[d] = g[<<h[d - 1], d>>] /\ h[d - 1] \in Seq(CharType)
        BY <2>3, <3>1, <3>4, <4>1
      <4>4. g[<<h[d - 1], d>>] = Level(c, N + 1 - d) \o h[d - 1]
        <5> HIDE DEF d
        <5>1. QED
          BY ONLY <2>1, <3>1, <3>4, <4>3
      <4>5. QED
        <5> HIDE DEF d
        <5>1. QED
          BY ONLY <3>1, <3>2, <3>4, <4>1, <4>2, <4>3, <4>4
    <3>5. QED
      BY <3>3, <3>4
  <2>6. QED
    BY ONLY <2>4, <2>5
<1>3. PICK L : L = Levels(c)
  OBVIOUS
<1>4. L = From(L)
  BY ONLY <1>2, <1>3, Zenon DEF Levels
<1>5. L[N + 1] = End /\ \A i \in 0 .. N : L[i] = Level(c, i) \o L[i + 1]
  <2> HIDE DEF End, N
  <2>1. \A i \in 0 .. N : i \in 0 .. N + 1 /\ ~(i > N)
    BY <1>1
  <2>2. N + 1 \in 0 .. N + 1 /\ N + 1 > N
    BY <1>1
  <2>3. \A i \in 0 .. N + 1 : L[i] = IF i > N THEN End ELSE Level(c, i) \o L[i + 1]
    BY ONLY <1>4
  <2>4. QED
    BY ONLY <2>1, <2>2, <2>3
<1>6. \A i \in 0 .. N + 1 : L[i] \in Seq(CharType)
  <2> DEFINE S == {k \in Nat : k <= N + 1 => L[N + 1 - k] \in Seq(CharType)}
  <2> HIDE DEF End, N
  <2>1. 0 \in S
    BY <1>1, <1>5
  <2>2. ASSUME NEW k \in Nat, k \in S PROVE k + 1 \in S
    <3>1. SUFFICES ASSUME k + 1 <= N + 1 PROVE L[N + 1 - (k + 1)] \in Seq(CharType)
      OBVIOUS
    <3>2. N + 1 - (k + 1) \in 0 .. N /\ N + 1 - (k + 1) + 1 = N + 1 - k /\ k <= N + 1
      BY <1>1, <3>1
    <3>3. Level(c, N + 1 - (k + 1)) \in Seq(CharType)
      BY ONLY <3>2, IsCard(c), LevelType DEF N
    <3>4. L[N + 1 - k] \in Seq(CharType)
      BY <2>2, <3>2
    <3>5. L[N + 1 - (k + 1)] = Level(c, N + 1 - (k + 1)) \o L[N + 1 - k]
      BY ONLY <1>5, <3>2
    <3>6. QED
      BY ONLY <3>3, <3>4, <3>5, ConcatProperties
  <2>3. Nat \subseteq S
    <3> HIDE DEF S
    <3>1. QED
      BY ONLY <2>1, <2>2, Induction
  <2>4. \A i \in 0 .. N + 1 : N + 1 - i \in Nat /\ N + 1 - i <= N + 1 /\ N + 1 - (N + 1 - i) = i
    BY <1>1
  <2>5. QED
    BY <2>3, <2>4
<1>7. QED
  <2>1. L \in [0 .. N + 1 -> Seq(CharType)]
    <3> HIDE DEF End, N
    <3>1. QED
      BY ONLY <1>4, <1>6
  <2>2. QED
    BY <1>3, <1>5, <2>1

\* A sequence with one more element in front.
LEMMA ConsProperties ==
  ASSUME NEW T, NEW x \in T, NEW s \in Seq(T)
  PROVE  /\ <<x>> \o s \in Seq(T) /\ <<x>> \o s # <<>>
         /\ Head(<<x>> \o s) = x
         /\ Tail(<<x>> \o s) = s
<1>1. PICK r : r = <<x>> \o s
  OBVIOUS
<1>2. <<x>> \in Seq(T) /\ Len(<<x>>) = 1 /\ <<x>>[1] = x
  OBVIOUS
<1>3. r \in Seq(T) /\ Len(r) = 1 + Len(s) /\ r[1] = x
  BY ONLY <1>1, <1>2, x \in T, s \in Seq(T), ConcatProperties
<1>4. \A i \in 1 .. Len(s) : r[i + 1] = s[i]
  <2>1. \A i \in 1 .. Len(s) : i + 1 \in 1 .. (1 + Len(s)) /\ ~(i + 1 <= 1) /\ i + 1 - 1 = i
    OBVIOUS
  <2>2. \A i \in 1 .. (1 + Len(s)) : r[i] = IF i <= 1 THEN <<x>>[i] ELSE s[i - 1]
    BY ONLY <1>1, <1>2, x \in T, s \in Seq(T), ConcatProperties
  <2>3. QED
    BY ONLY <2>1, <2>2
<1>5. Len(s) \in Nat /\ r # <<>>
  BY <1>3
<1>6. Tail(r) \in Seq(T) /\ Len(Tail(r)) = Len(s)
  BY <1>3, <1>5
<1>7. \A i \in 1 .. Len(s) : Tail(r)[i] = r[i + 1]
  BY <1>3, <1>5, <1>6
<1>8. Tail(r) = s
  BY <1>4, <1>6, <1>7, SeqEqual
<1>9. QED
  BY ONLY <1>1, <1>3, <1>5, <1>8

-----------------------------------------------------------------------------
(* What the answer to reset is made of *)

\* The characters of s after the first n.
Past(s, n) == [i \in 1 .. Len(s) - n |-> s[n + i]]

\* What is left of a sequence after n elements.
LEMMA PastProperties ==
  ASSUME NEW T, NEW s \in Seq(T), NEW n \in 0 .. Len(s)
  PROVE  /\ Past(s, n) \in Seq(T) /\ Len(Past(s, n)) = Len(s) - n
         /\ n = 0 => Past(s, n) = s
         /\ n < Len(s) => Past(s, n) # <<>> /\ Head(Past(s, n)) = s[n + 1]
                            /\ Tail(Past(s, n)) = Past(s, n + 1)
<1>1. Len(s) - n \in Nat /\ n \in Nat /\ Len(s) \in Nat
  OBVIOUS
<1>2. PICK l : l = Past(s, n)
  OBVIOUS
<1>3. l \in Seq(T) /\ Len(l) = Len(s) - n /\ \A i \in 1 .. Len(s) - n : l[i] = s[n + i]
  <2>1. \A i \in 1 .. Len(s) - n : n + i \in 1 .. Len(s)
    BY <1>1
  <2>2. \A i \in 1 .. Len(s) - n : s[n + i] \in T
    BY <2>1
  <2>3. l = [i \in 1 .. Len(s) - n |-> s[n + i]]
    BY <1>2 DEF Past
  <2>4. QED
    BY <1>1, <2>2, <2>3
<1>4. ASSUME n = 0 PROVE l = s
  <2>1. \A i \in 1 .. Len(s) : n + i = i
    BY <1>4
  <2>2. QED
    BY <1>3, <1>4, <2>1, SeqEqual
<1>5. ASSUME n < Len(s)
      PROVE  l # <<>> /\ Head(l) = s[n + 1] /\ Tail(l) = Past(s, n + 1)
  <2>1. Len(l) >= 1 /\ 1 \in 1 .. Len(s) - n
    BY <1>1, <1>3, <1>5
  <2>2. l # <<>> /\ Head(l) = l[1] /\ l[1] = s[n + 1]
    BY <1>3, <2>1
  <2>3. Tail(l) \in Seq(T) /\ Len(Tail(l)) = Len(s) - (n + 1)
    BY <1>1, <1>3, <2>2
  <2>4. \A i \in 1 .. Len(s) - (n + 1) : Tail(l)[i] = l[i + 1]
    BY <1>1, <1>3, <2>2, <2>3
  <2>5. \A i \in 1 .. Len(s) - (n + 1) : i + 1 \in 1 .. Len(s) - n /\ n + (i + 1) = (n + 1) + i
    BY <1>1
  <2>6. \A i \in 1 .. Len(s) - (n + 1) : Tail(l)[i] = s[(n + 1) + i]
    BY ONLY <1>3, <2>4, <2>5
  <2>7. Tail(l) = [i \in 1 .. Len(s) - (n + 1) |-> Tail(l)[i]]
    <3>1. Tail(l) \in [1 .. Len(s) - (n + 1) -> T]
      BY ONLY <2>3, LenProperties
    <3>2. QED
      BY ONLY <3>1
  <2>8. QED
    BY <2>2, <2>6, <2>7 DEF Past
<1>6. QED
  BY ONLY <1>2, <1>3, <1>4, <1>5

\* The answer to reset, character by character.
LEMMA AtrIs ==
  ASSUME NEW c, IsCard(c)
  PROVE  LET A == AtrOf(c)
             L == Levels(c)[0]
         IN  /\ A \in Seq(CharType) /\ L \in Seq(CharType) /\ Len(A) = Len(L) + 2
             /\ A[1].k = "ts" => c.ts # "bad"
             /\ A[2].y = Announces(c, 0)
             /\ \A i \in 1 .. Len(L) : A[i + 2].y = L[i].y /\ A[i + 2].v = L[i].v
             /\ \A i \in 1 .. Len(A) : A[i].inv <=> c.ts = "inverse"
<1>1. PICK L : L = Levels(c)[0]
  OBVIOUS
<1>2. L \in Seq(CharType)
  <2>1. 0 \in 0 .. Len(c.protocols) + 1
    BY ProtocolsType
  <2>2. QED
    BY <1>1, <2>1, LevelsDefined
<1>3. PICK a, b : /\ a = Char(IF c.ts = "bad" THEN "bad" ELSE "ts", {}, {})
                  /\ b = Char("i", Announces(c, 0), {})
  OBVIOUS
<1>4. a \in CharType /\ b \in CharType /\ (a.k = "ts" => c.ts # "bad") /\ b.y = Announces(c, 0)
  <2>1. (IF c.ts = "bad" THEN "bad" ELSE "ts") \in Kind /\ "i" \in Kind
    BY DEF Kind
  <2>2. QED
    BY ONLY <1>3, <2>1, AnnouncesType, CharOf DEF Char
<1>5. PICK P : P = <<a, b>> \o L
  OBVIOUS
<1>6. <<a, b>> \in Seq(CharType) /\ Len(<<a, b>>) = 2 /\ <<a, b>>[1] = a /\ <<a, b>>[2] = b
  BY <1>4
<1>7. P \in Seq(CharType) /\ Len(P) = 2 + Len(L)
  BY ONLY <1>2, <1>5, <1>6, ConcatProperties
<1>8. \A i \in 1 .. (2 + Len(L)) : P[i] = IF i <= 2 THEN <<a, b>>[i] ELSE L[i - 2]
  BY ONLY <1>2, <1>5, <1>6, ConcatProperties
<1>9. PICK A : A = AtrOf(c)
  OBVIOUS
<1>10. A = [i \in DOMAIN P |-> [P[i] EXCEPT !.inv = c.ts = "inverse"]]
  BY ONLY <1>1, <1>3, <1>5, <1>9, Zenon DEF AtrOf
<1>11. DOMAIN P = 1 .. Len(P) /\ Len(P) \in Nat /\ Len(L) \in Nat
  BY <1>2, <1>7
<1>12. \A i \in 1 .. Len(P) : P[i] \in CharType
  BY <1>7
<1>13. ASSUME NEW i \in 1 .. Len(P)
       PROVE  /\ A[i] \in CharType /\ (A[i].inv <=> c.ts = "inverse")
              /\ A[i].k = P[i].k /\ A[i].y = P[i].y /\ A[i].v = P[i].v
  <2>1. PICK x \in CharType : x = P[i]
    BY <1>12
  <2>2. PICK e \in BOOLEAN : e <=> c.ts = "inverse"
    OBVIOUS
  <2>3. PICK z : z = [x EXCEPT !.inv = e]
    OBVIOUS
  <2>4. A[i] = [P[i] EXCEPT !.inv = c.ts = "inverse"]
    BY ONLY <1>10, <1>11, <1>13
  <2>5. A[i] = z
    <3>1. e = (c.ts = "inverse")
      BY ONLY <2>2, e \in BOOLEAN
    <3>2. QED
      BY ONLY <2>1, <2>3, <2>4, <3>1
  <2>6. z \in CharType /\ (z.inv <=> e) /\ z.k = x.k /\ z.y = x.y /\ z.v = x.v
    BY <2>1, <2>2, <2>3 DEF CharType
  <2>7. QED
    BY ONLY <2>1, <2>2, <2>5, <2>6
<1>14. A \in Seq(CharType) /\ Len(A) = Len(P)
  <2>1. DOMAIN A = 1 .. Len(P)
    BY ONLY <1>10, <1>11
  <2>2. A = [i \in 1 .. Len(P) |-> A[i]]
    BY ONLY <1>10, <2>1
  <2>3. QED
    BY <1>11, <1>13, <2>2
<1>15. 1 \in 1 .. (2 + Len(L)) /\ 2 \in 1 .. (2 + Len(L)) /\ 1 <= 2 /\ 2 <= 2
  BY <1>11
<1>16. P[1] = a /\ P[2] = b
  BY ONLY <1>6, <1>8, <1>15
<1>17. ASSUME NEW i \in 1 .. Len(L)
       PROVE  i + 2 \in 1 .. Len(P) /\ P[i + 2] = L[i]
  <2>1. i + 2 \in 1 .. (2 + Len(L)) /\ ~(i + 2 <= 2) /\ i + 2 - 2 = i
    BY <1>11
  <2>2. QED
    BY ONLY <1>7, <1>8, <2>1
<1>18. /\ A[1].k = "ts" => c.ts # "bad"
       /\ A[2].y = Announces(c, 0)
  BY ONLY <1>4, <1>7, <1>13, <1>15, <1>16
<1>19. \A i \in 1 .. Len(L) : A[i + 2].y = L[i].y /\ A[i + 2].v = L[i].v
  BY ONLY <1>13, <1>17
<1>20. \A i \in 1 .. Len(A) : A[i].inv <=> c.ts = "inverse"
  BY ONLY <1>13, <1>14
<1>21. Len(A) = Len(L) + 2
  BY <1>7, <1>11, <1>14
<1>22. QED
  BY ONLY <1>1, <1>2, <1>9, <1>14, <1>18, <1>19, <1>20, <1>21

-----------------------------------------------------------------------------
(* The parser follows the card *)

\* What the parser keeps, and what the first i TDs of a card say.
ParserType ==
  [todo : SUBSET {"A", "D"}, protocols : SUBSET Value, classes : SUBSET Value,
   t15 : BOOLEAN, tck : BOOLEAN, hist : Int]

Offered(c, i) == {c.protocols[j] : j \in 1 .. i} \ {15}
Needs(c, i) == \E j \in 1 .. i : c.protocols[j] # 0

\* What the parser keeps after the TD of level i - 1, which says what comes at level i.
Read(c, a, i) ==
  /\ a.protocols = Offered(c, i)
  /\ a.t15 <=> i > 0 /\ c.protocols[i] = 15
  /\ a.tck <=> Needs(c, i)

\* R is what is left: from level i, from the TD of level i, or at the end.
AtLevel(c, a, R, i) ==
  /\ R = Levels(c)[i] /\ a.todo = Announces(c, i) /\ Read(c, a, i)
  /\ a.hist = c.hist /\ a.classes \in {{}, c.classes}

\* Before the TD of a level.
AtTd(c, a, R, i) ==
  /\ R = <<Char("i", Announces(c, i + 1), {c.protocols[i + 1]})>> \o Levels(c)[i + 1]
  /\ a.todo = {"D"} /\ Read(c, a, i)
  /\ a.hist = c.hist /\ a.classes \in {{}, c.classes}

\* Before the historical bytes.
AtTail(c, a, R) ==
  /\ a.hist + Check(c) \in Nat
  /\ R = [j \in 1 .. a.hist + Check(c) |-> Char("i", {}, {})]
  /\ a.todo = {} /\ Read(c, a, Len(c.protocols)) /\ a.classes = c.classes

\* The parser, with R still to come.
At(c, a, R) ==
  /\ a \in ParserType
  /\ \/ \E i \in 0 .. Len(c.protocols) : AtLevel(c, a, R, i) /\ a.todo # {}
     \/ \E i \in 0 .. Len(c.protocols) - 1 : AtTd(c, a, R, i)
     \/ AtTail(c, a, R)

\* The last level has no TD: with no TA either, the end of the answer is there.
LEMMA NothingAnnounced ==
  ASSUME NEW c, IsCard(c), NEW a \in ParserType, NEW R, NEW i \in 0 .. Len(c.protocols),
         AtLevel(c, a, R, i)
  PROVE  At(c, a, R)
<1>1. SUFFICES ASSUME a.todo = {} PROVE AtTail(c, a, R)
  BY DEF At
<1> DEFINE N == Len(c.protocols)
<1>2. N \in Nat /\ c.hist + Check(c) \in Nat
  BY ProtocolsType
<1>3. Announces(c, i) = {}
  BY <1>1 DEF AtLevel
<1>4. i = N /\ i # 0 /\ ~(c.classes # {} /\ c.protocols[i] = 15)
  <2>1. ~(i < N)
    BY ONLY <1>3 DEF Announces
  <2>2. i # 0 /\ ~(c.classes # {} /\ c.protocols[i] = 15)
    BY ONLY <1>3 DEF Announces
  <2>3. QED
    BY <1>2, <2>1, <2>2
<1>5. c.classes = {}
  BY <1>4 DEF IsCard
<1>6. Level(c, N) = <<>> \o <<>>
  BY <1>3, <1>4 DEF Level
<1>7. Levels(c)[N + 1] \in Seq(CharType)
  <2>1. N + 1 \in 0 .. N + 1
    BY <1>2
  <2>2. QED
    BY <2>1, LevelsDefined
<1>8. Levels(c)[N] = Levels(c)[N + 1]
  <2>1. PICK L : L = Levels(c)
    OBVIOUS
  <2>2. N \in 0 .. N
    BY <1>2
  <2>3. L[N] = Level(c, N) \o L[N + 1]
    BY <2>1, <2>2, LevelsDefined
  <2>4. Level(c, N) = <<>>
    BY ONLY <1>6, ConcatEmptySeq
  <2>5. L[N + 1] \in Seq(CharType)
    BY ONLY <1>7, <2>1
  <2>6. QED
    BY ONLY <2>1, <2>3, <2>4, <2>5, ConcatEmptySeq
<1>9. Levels(c)[N + 1] = [j \in 1 .. c.hist + Check(c) |-> Char("i", {}, {})]
  BY LevelsDefined
<1>10. QED
  BY ONLY <1>1, <1>2, <1>4, <1>5, <1>8, <1>9, AtLevel(c, a, R, i) DEF AtLevel, AtTail

\* What a step of the parser does to its record.
LEMMA StepFields ==
  ASSUME NEW a \in ParserType, NEW ch, ch.y \in SUBSET {"A", "D"}, ch.v \in SUBSET Value,
         NEW e, e = Step(a, ch)
  PROVE  /\ e \in ParserType
         /\ a.todo = {} =>
              /\ e.todo = {} /\ e.protocols = a.protocols /\ e.classes = a.classes
              /\ e.t15 = a.t15 /\ e.tck = a.tck /\ e.hist = a.hist - 1
         /\ "A" \in a.todo =>
              /\ e.todo = a.todo \ {"A"} /\ e.protocols = a.protocols
              /\ e.classes = IF a.t15 /\ a.classes = {} THEN ch.v ELSE a.classes
              /\ e.t15 = a.t15 /\ e.tck = a.tck /\ e.hist = a.hist
         /\ a.todo = {"D"} =>
              /\ e.todo = ch.y /\ e.protocols = a.protocols \cup (ch.v \ {15})
              /\ e.classes = a.classes /\ e.hist = a.hist
              /\ e.t15 <=> 15 \in ch.v
              /\ e.tck <=> a.tck \/ ch.v # {0}
<1>1. CASE a.todo = {}
  <2>1. e = [a EXCEPT !.hist = a.hist - 1]
    BY ONLY <1>1, e = Step(a, ch), Zenon DEF Step
  <2>2. a.hist - 1 \in Int
    BY DEF ParserType
  <2>3. QED
    BY ONLY <1>1, <2>1, <2>2, a \in ParserType DEF ParserType
<1>2. CASE "A" \in a.todo
  <2>1. a.todo # {} /\ a.todo # {"D"}
    BY <1>2
  <2>2. PICK cl : cl = IF a.t15 /\ a.classes = {} THEN ch.v ELSE a.classes
    OBVIOUS
  <2>3. e = [a EXCEPT !.todo = a.todo \ {"A"}, !.classes = cl]
    BY ONLY <1>2, <2>1, <2>2, e = Step(a, ch), Zenon DEF Step
  <2>4. cl \in SUBSET Value /\ a.todo \ {"A"} \in SUBSET {"A", "D"}
    BY <2>2 DEF ParserType
  <2>5. /\ e \in ParserType
        /\ e.todo = a.todo \ {"A"} /\ e.protocols = a.protocols /\ e.classes = cl
        /\ e.t15 = a.t15 /\ e.tck = a.tck /\ e.hist = a.hist
    BY ONLY <2>3, <2>4, a \in ParserType DEF ParserType
  <2>6. QED
    BY ONLY <1>2, <2>1, <2>2, <2>5
<1>3. CASE a.todo # {} /\ "A" \notin a.todo
  <2>1. a.todo = {"D"}
    BY <1>3 DEF ParserType
  <2>2. PICK pr, tt, tc : /\ pr = a.protocols \cup (ch.v \ {15})
                          /\ tt = (15 \in ch.v)
                          /\ tc = (a.tck \/ ch.v # {0})
    OBVIOUS
  <2>3. e = [a EXCEPT !.todo = ch.y, !.protocols = pr, !.t15 = tt, !.tck = tc]
    BY ONLY <1>3, <2>2, e = Step(a, ch), Zenon DEF Step
  <2>4. pr \in SUBSET Value /\ tt \in BOOLEAN /\ tc \in BOOLEAN
    BY <2>2 DEF ParserType
  <2>5. /\ e \in ParserType
        /\ e.todo = ch.y /\ e.protocols = pr /\ e.classes = a.classes
        /\ e.t15 = tt /\ e.tck = tc /\ e.hist = a.hist
    BY ONLY <2>3, <2>4, a \in ParserType, ch.y \in SUBSET {"A", "D"} DEF ParserType
  <2>6. "A" \notin {"D"} /\ {"D"} # {}
    OBVIOUS
  <2>7. (tt <=> 15 \in ch.v) /\ (tc <=> a.tck \/ ch.v # {0})
    BY ONLY <2>2
  <2>8. QED
    BY ONLY <1>3, <2>1, <2>2, <2>5, <2>6, <2>7
<1>4. QED
  BY <1>1, <1>2, <1>3

\* A TD says the protocol, and what comes at the next level.
LEMMA AfterTd ==
  ASSUME NEW c, IsCard(c), NEW a \in ParserType, NEW R, NEW i \in 0 .. Len(c.protocols) - 1,
         AtTd(c, a, R, i), NEW ch, ch.y = Head(R).y, ch.v = Head(R).v,
         NEW e, e = Step(a, ch)
  PROVE  At(c, e, Tail(R))
<1> DEFINE N == Len(c.protocols)
<1>1. N \in Nat /\ i \in Nat /\ i + 1 \in 1 .. N /\ i + 1 \in 0 .. N /\ i + 1 \in 0 .. N + 1 /\ i + 1 > 0
  BY ProtocolsType
<1>2. c.protocols[i + 1] \in {0, 1, 15}
  BY <1>1, ProtocolsType
<1>3. {c.protocols[i + 1]} \in SUBSET Value
  BY ONLY <1>2 DEF Value
<1>4. PICK d : d = Char("i", Announces(c, i + 1), {c.protocols[i + 1]})
  OBVIOUS
<1>5. d \in CharType /\ d.y = Announces(c, i + 1) /\ d.v = {c.protocols[i + 1]}
  BY <1>3, <1>4, AnnouncesType, CharOf DEF Kind, Char
<1>6. Levels(c)[i + 1] \in Seq(CharType)
  BY <1>1, LevelsDefined
<1>7. Head(R) = d /\ Tail(R) = Levels(c)[i + 1]
  <2>1. R = <<d>> \o Levels(c)[i + 1]
    BY <1>4 DEF AtTd
  <2>2. QED
    BY ONLY <1>5, <1>6, <2>1, ConsProperties
<1>8. ch.y = Announces(c, i + 1) /\ ch.v = {c.protocols[i + 1]}
  BY <1>5, <1>7
<1>9. ch.y \in SUBSET {"A", "D"} /\ ch.v \in SUBSET Value
  BY <1>3, <1>8, AnnouncesType
<1>10. a.todo = {"D"} /\ Read(c, a, i) /\ a.hist = c.hist /\ a.classes \in {{}, c.classes}
  BY DEF AtTd
<1>11. /\ e \in ParserType
       /\ e.todo = ch.y /\ e.protocols = a.protocols \cup (ch.v \ {15})
       /\ e.classes = a.classes /\ e.hist = a.hist
       /\ e.t15 <=> 15 \in ch.v
       /\ e.tck <=> a.tck \/ ch.v # {0}
  <2>1. QED
    BY ONLY <1>9, <1>10, a \in ParserType, e = Step(a, ch), StepFields
<1>12. \A j \in Int : j \in 1 .. (i + 1) <=> j \in 1 .. i \/ j = i + 1
  BY <1>1
<1>13. Offered(c, i + 1) = Offered(c, i) \cup ({c.protocols[i + 1]} \ {15})
  <2>1. 1 .. (i + 1) = (1 .. i) \cup {i + 1}
    BY <1>1
  <2>2. QED
    BY ONLY <2>1 DEF Offered
<1>14. Needs(c, i + 1) <=> Needs(c, i) \/ {c.protocols[i + 1]} # {0}
  <2>1. 1 .. (i + 1) = (1 .. i) \cup {i + 1}
    BY <1>1
  <2>2. QED
    BY ONLY <2>1 DEF Needs
<1>15. Read(c, e, i + 1)
  <2>1. e.protocols = Offered(c, i + 1)
    BY ONLY <1>8, <1>10, <1>11, <1>13 DEF Read
  <2>2. e.t15 <=> i + 1 > 0 /\ c.protocols[i + 1] = 15
    BY ONLY <1>1, <1>8, <1>11
  <2>3. e.tck <=> Needs(c, i + 1)
    BY ONLY <1>8, <1>10, <1>11, <1>14 DEF Read
  <2>4. QED
    BY ONLY <2>1, <2>2, <2>3 DEF Read
<1>16. AtLevel(c, e, Tail(R), i + 1)
  BY ONLY <1>7, <1>8, <1>10, <1>11, <1>15 DEF AtLevel
<1>17. QED
  BY ONLY <1>1, <1>11, <1>16, IsCard(c), NothingAnnounced

\* A TA takes the indicator of the classes, when T = 15 came before.
LEMMA AfterTa ==
  ASSUME NEW c, IsCard(c), NEW a \in ParserType, NEW R, NEW i \in 0 .. Len(c.protocols),
         AtLevel(c, a, R, i), "A" \in a.todo, NEW ch, ch.y = Head(R).y, ch.v = Head(R).v,
         NEW e, e = Step(a, ch)
  PROVE  At(c, e, Tail(R))
<1> DEFINE N == Len(c.protocols)
           x == Char("i", {}, IF i = 0 THEN {"A"} ELSE c.classes)
           d == Char("i", Announces(c, i + 1), {c.protocols[i + 1]})
           L == Levels(c)[i + 1]
<1>1. N \in Nat /\ i \in Nat /\ i + 1 \in 0 .. N + 1 /\ i <= N
  BY ProtocolsType
<1>2. c.classes \in SUBSET Value /\ {"A"} \in SUBSET Value
  BY DEF IsCard, Value
<1>3. x \in CharType /\ x.y = {} /\ x.v = IF i = 0 THEN {"A"} ELSE c.classes
  BY <1>2, CharOf DEF Kind, Char
<1>4. L \in Seq(CharType)
  BY <1>1, LevelsDefined
<1>5. R = Level(c, i) \o L
  <2>1. i \in 0 .. N
    OBVIOUS
  <2>2. QED
    BY <2>1, LevelsDefined DEF AtLevel
<1>6. "A" \in Announces(c, i) /\ a.todo = Announces(c, i)
  BY DEF AtLevel
<1>7. i = 0 \/ (c.classes # {} /\ c.protocols[i] = 15)
  BY ONLY <1>6 DEF Announces
<1>8. Read(c, a, i) /\ a.hist = c.hist /\ a.classes \in {{}, c.classes}
  BY DEF AtLevel
<1>9. ASSUME Head(R) = x, NEW T, T = Tail(R)
      PROVE  /\ e \in ParserType /\ e.todo = Announces(c, i) \ {"A"} /\ Read(c, e, i)
             /\ e.hist = c.hist /\ e.classes \in {{}, c.classes}
             /\ i = N => e.classes = c.classes
  <2>1. ch.y = {} /\ ch.v = IF i = 0 THEN {"A"} ELSE c.classes
    BY ONLY <1>3, <1>9, ch.y = Head(R).y, ch.v = Head(R).v
  <2>2. ch.y \in SUBSET {"A", "D"} /\ ch.v \in SUBSET Value
    BY <1>2, <2>1
  <2>3. /\ e \in ParserType
        /\ e.todo = a.todo \ {"A"} /\ e.protocols = a.protocols
        /\ e.classes = IF a.t15 /\ a.classes = {} THEN ch.v ELSE a.classes
        /\ e.t15 = a.t15 /\ e.tck = a.tck /\ e.hist = a.hist
    BY ONLY <2>2, a \in ParserType, "A" \in a.todo, e = Step(a, ch), StepFields
  <2>4. Read(c, e, i)
    BY ONLY <1>8, <2>3 DEF Read
  <2>5. a.t15 <=> i > 0 /\ c.protocols[i] = 15
    BY <1>8 DEF Read
  <2>6. i = 0 => ~a.t15
    BY <1>1, <2>5
  <2>7. e.classes \in {{}, c.classes}
    BY ONLY <1>8, <2>1, <2>3, <2>6
  <2>8. ASSUME i = N PROVE e.classes = c.classes
    <3>1. CASE i = 0
      <4>1. c.protocols = <<>>
        <5>1. c.protocols \in Seq({0, 1, 15}) /\ Len(c.protocols) = 0
          BY <2>8, <3>1 DEF IsCard
        <5>2. QED
          BY ONLY <5>1, EmptySeq
      <4>2. c.classes = {}
        BY <4>1 DEF IsCard
      <4>3. QED
        BY <2>7, <4>2
    <3>2. CASE i # 0
      <4>1. a.t15 /\ ch.v = c.classes
        BY <1>1, <1>7, <2>1, <2>5, <3>2
      <4>2. QED
        BY ONLY <1>8, <2>3, <4>1
    <3>3. QED
      BY <3>1, <3>2
  <2>9. QED
    BY ONLY <1>6, <1>8, <2>3, <2>4, <2>7, <2>8
<1>10. CASE "D" \in Announces(c, i)
  <2>1. i < N
    BY ONLY <1>10 DEF Announces
  <2>2. i \in 0 .. N - 1 /\ i + 1 \in 1 .. N
    BY <1>1, <2>1
  <2>3. c.protocols[i + 1] \in {0, 1, 15}
    BY <2>2, ProtocolsType
  <2>4. {c.protocols[i + 1]} \in SUBSET Value
    BY ONLY <2>3 DEF Value
  <2>5. d \in CharType
    BY <2>4, AnnouncesType, CharOf DEF Kind
  <2>6. Level(c, i) = <<x>> \o <<d>>
    BY ONLY <1>6, <1>10 DEF Level
  <2>7. <<x>> \in Seq(CharType) /\ <<d>> \in Seq(CharType) /\ <<d>> \o L \in Seq(CharType)
    BY <1>3, <1>4, <2>5, ConsProperties
  <2> HIDE DEF x, d, L
  <2>8. R = <<x>> \o (<<d>> \o L)
    BY ONLY <1>4, <1>5, <2>6, <2>7, ConcatAssociative
  <2>9. Head(R) = x /\ Tail(R) = <<d>> \o L
    BY ONLY <1>3, <2>7, <2>8, ConsProperties
  <2>10. e \in ParserType /\ e.todo = Announces(c, i) \ {"A"} /\ Read(c, e, i)
         /\ e.hist = c.hist /\ e.classes \in {{}, c.classes}
    BY ONLY <1>9, <2>9
  <2>11. e.todo = {"D"}
    BY <1>10, <2>10, AnnouncesType
  <2>12. AtTd(c, e, Tail(R), i)
    BY ONLY <2>9, <2>10, <2>11 DEF AtTd, d, L
  <2>13. QED
    BY ONLY <2>2, <2>10, <2>12 DEF At
<1>11. CASE "D" \notin Announces(c, i)
  <2>1. ~(i < N)
    BY ONLY <1>11 DEF Announces
  <2>2. i = N
    BY <1>1, <2>1
  <2>3. <<x>> \in Seq(CharType)
    BY <1>3
  <2>4. Level(c, i) = <<x>> \o <<>>
    BY ONLY <1>6, <1>11 DEF Level
  <2> HIDE DEF x
  <2>5. R = <<x>> \o L
    BY ONLY <1>5, <2>3, <2>4, ConcatEmptySeq
  <2>6. Head(R) = x /\ Tail(R) = L
    BY ONLY <1>3, <1>4, <2>5, ConsProperties
  <2>7. e \in ParserType /\ e.todo = Announces(c, i) \ {"A"} /\ Read(c, e, i)
         /\ e.hist = c.hist /\ e.classes = c.classes
    BY ONLY <1>9, <2>2, <2>6
  <2>8. e.todo = {}
    BY <1>11, <2>7, AnnouncesType
  <2>9. L = [j \in 1 .. c.hist + Check(c) |-> Char("i", {}, {})]
    <3>1. i + 1 = N + 1
      BY <2>2
    <3>2. QED
      BY <3>1, LevelsDefined
  <2>10. c.hist + Check(c) \in Nat
    BY ProtocolsType
  <2>11. AtTail(c, e, Tail(R))
    BY ONLY <2>2, <2>6, <2>7, <2>8, <2>9, <2>10 DEF AtTail
  <2>12. QED
    BY ONLY <2>7, <2>11 DEF At
<1>12. QED
  BY <1>10, <1>11

\* After all levels come the historical bytes and the check character.
LEMMA AfterTail ==
  ASSUME NEW c, IsCard(c), NEW a \in ParserType, NEW R, AtTail(c, a, R), R # <<>>,
         NEW ch, ch.y \in SUBSET {"A", "D"}, ch.v \in SUBSET Value,
         NEW e, e = Step(a, ch)
  PROVE  At(c, e, Tail(R))
<1> DEFINE k == a.hist + Check(c)
<1>1. /\ e \in ParserType
      /\ e.todo = {} /\ e.protocols = a.protocols /\ e.classes = a.classes
      /\ e.t15 = a.t15 /\ e.tck = a.tck /\ e.hist = a.hist - 1
  <2>1. a.todo = {}
    BY DEF AtTail
  <2>2. QED
    BY ONLY <2>1, a \in ParserType, ch.y \in SUBSET {"A", "D"}, ch.v \in SUBSET Value,
            e = Step(a, ch), StepFields
<1>2. PICK x \in CharType : x = Char("i", {}, {})
  BY CharOf DEF Kind
<1>3. k \in Nat /\ R = [j \in 1 .. k |-> x]
  BY <1>2 DEF AtTail
<1>4. k # 0
  <2>1. SUFFICES ASSUME k = 0 PROVE R = <<>>
    OBVIOUS
  <2>2. QED
    BY <1>3, <2>1
<1>5. a.hist \in Int /\ Check(c) \in {0, 1}
  BY ProtocolsType DEF ParserType
<1>6. e.hist + Check(c) = k - 1 /\ k - 1 \in Nat
  BY <1>1, <1>3, <1>4, <1>5
<1>7. Tail(R) = [j \in 1 .. k - 1 |-> x]
  <2> HIDE DEF k
  <2>1. R \in Seq(CharType) /\ Len(R) = k
    BY ONLY <1>3, x \in CharType
  <2>2. R # <<>>
    OBVIOUS
  <2>3. Tail(R) \in Seq(CharType) /\ Len(Tail(R)) = k - 1
    BY ONLY <2>1, <2>2, k \in Nat
  <2>4. \A j \in 1 .. k - 1 : Tail(R)[j] = R[j + 1] /\ j + 1 \in 1 .. k
    BY ONLY <1>3, <2>1, <2>2, <2>3
  <2>5. \A j \in 1 .. k - 1 : Tail(R)[j] = x
    BY ONLY <1>3, <2>4
  <2>6. Tail(R) \in [1 .. k - 1 -> CharType]
    BY ONLY <2>3, LenProperties
  <2>7. QED
    BY ONLY <2>5, <2>6
<1>8. Read(c, e, Len(c.protocols)) /\ e.classes = c.classes
  BY <1>1 DEF AtTail, Read
<1>9. AtTail(c, e, Tail(R))
  BY ONLY <1>1, <1>2, <1>6, <1>7, <1>8 DEF AtTail
<1>10. QED
  BY ONLY <1>1, <1>9 DEF At

\* Every character takes the parser to the next place.
LEMMA StepFollows ==
  ASSUME NEW c, IsCard(c), NEW a, NEW R, At(c, a, R), R # <<>>,
         NEW ch, ch.y = Head(R).y, ch.v = Head(R).v,
         ch.y \in SUBSET {"A", "D"}, ch.v \in SUBSET Value
  PROVE  At(c, Step(a, ch), Tail(R))
<1>1. a \in ParserType
  BY DEF At
<1>2. PICK e : e = Step(a, ch)
  OBVIOUS
<1>3. ASSUME NEW i \in 0 .. Len(c.protocols), AtLevel(c, a, R, i), a.todo # {}
      PROVE  At(c, e, Tail(R))
  <2>1. CASE "A" \in a.todo
    BY <1>1, <1>2, <1>3, <2>1, AfterTa
  <2>2. CASE "A" \notin a.todo
    <3>1. a.todo = {"D"} /\ a.todo = Announces(c, i)
      BY <1>1, <1>3, <2>2 DEF ParserType, AtLevel
    <3>2. i < Len(c.protocols)
      BY ONLY <3>1 DEF Announces
    <3>3. i \in 0 .. Len(c.protocols) - 1 /\ i + 1 \in 1 .. Len(c.protocols) /\ i + 1 \in 0 .. Len(c.protocols) + 1
      BY <3>2, ProtocolsType
    <3>4. PICK d : d = Char("i", Announces(c, i + 1), {c.protocols[i + 1]})
      OBVIOUS
    <3>5. d \in CharType
      <4>1. c.protocols[i + 1] \in {0, 1, 15}
        BY <3>3, ProtocolsType
      <4>2. {c.protocols[i + 1]} \in SUBSET Value
        BY ONLY <4>1 DEF Value
      <4>3. QED
        BY <3>4, <4>2, AnnouncesType, CharOf DEF Kind
    <3>6. Level(c, i) = <<>> \o <<d>>
      <4>1. "A" \notin Announces(c, i) /\ "D" \in Announces(c, i)
        BY ONLY <3>1
      <4>2. QED
        BY ONLY <3>4, <4>1 DEF Level
    <3>7. Level(c, i) = <<d>>
      BY ONLY <3>5, <3>6, ConcatEmptySeq
    <3>8. R = <<d>> \o Levels(c)[i + 1]
      BY <1>3, <3>7, LevelsDefined, ZenonT(40) DEF AtLevel
    <3>9. AtTd(c, a, R, i)
      BY ONLY <1>3, <3>1, <3>4, <3>8 DEF AtLevel, AtTd
    <3>10. QED
      BY <1>1, <1>2, <3>3, <3>9, AfterTd
  <2>3. QED
    BY <2>1, <2>2
<1>4. ASSUME NEW i \in 0 .. Len(c.protocols) - 1, AtTd(c, a, R, i)
      PROVE  At(c, e, Tail(R))
  BY <1>1, <1>2, <1>4, AfterTd
<1>5. ASSUME AtTail(c, a, R)
      PROVE  At(c, e, Tail(R))
  BY <1>1, <1>2, <1>5, AfterTail
<1>6. At(c, e, Tail(R))
  BY <1>3, <1>4, <1>5 DEF At
<1>7. QED
  BY <1>2, <1>6

\* A step of the parser.
LEMMA StepType ==
  ASSUME NEW a \in ParserType, NEW ch \in CharType
  PROVE  Step(a, ch) \in ParserType
<1>1. ch.y \in SUBSET {"A", "D"} /\ ch.v \in SUBSET Value
  BY DEF CharType
<1>2. QED
  BY <1>1, StepFields

\* The recursive definition of Parsed is one of a function.
LEMMA ParsedDefined ==
  ASSUME NEW raw \in Seq(CharType), Len(raw) >= 2, NEW h \in Int
  PROVE  /\ Parsed(raw, h)[2] = [todo |-> raw[2].y, protocols |-> {}, classes |-> {},
                                 t15 |-> FALSE, tck |-> FALSE, hist |-> h]
         /\ \A i \in 3 .. Len(raw) : Parsed(raw, h)[i] = Step(Parsed(raw, h)[i - 1], raw[i])
<1> DEFINE Begin == [todo |-> raw[2].y, protocols |-> {}, classes |-> {},
                     t15 |-> FALSE, tck |-> FALSE, hist |-> h]
           After(f) == [i \in 2 .. Len(raw) |-> IF i = 2 THEN Begin ELSE Step(f[i - 1], raw[i])]
<1>1. PICK n \in Nat : n = Len(raw) /\ n >= 2
  OBVIOUS
<1>2. \A i \in 2 .. n : raw[i] \in CharType
  BY <1>1
<1>3. Begin \in ParserType
  <2>1. raw[2] \in CharType
    BY <1>1, <1>2
  <2>2. raw[2].y \in SUBSET {"A", "D"}
    BY ONLY <2>1 DEF CharType
  <2>3. QED
    BY <2>2 DEF ParserType
<1>4. \E f : f = After(f)
  <2> HIDE DEF Begin
  <2>1. PICK S : S = ParserType
    OBVIOUS
  <2>2. PICK g : g = [x \in S \X (2 .. n) |-> Step(x[1], raw[x[2]])]
    OBVIOUS
  <2>3. g \in [S \X (2 .. n) -> S]
    <3>1. \A a \in S, i \in 2 .. n : Step(a, raw[i]) \in S
      BY ONLY <1>2, <2>1, StepType
    <3>2. QED
      BY ONLY <2>2, <3>1
  <2>4. PICK m, a : m = 2 /\ a = Begin
    OBVIOUS
  <2>5. a \in S /\ g \in [S \X (m .. n) -> S] /\ m \in Nat /\ n \in Nat
    BY <1>3, <2>1, <2>3, <2>4
  <2>6. PICK f \in [m .. n -> S] : Follows(f, m, n, a, g)
    BY ONLY <2>5, Recursion
  <2>7. f \in [2 .. n -> S]
    BY ONLY <2>4, <2>6, f \in [m .. n -> S]
  <2>8. ASSUME NEW i \in 2 .. n
        PROVE  f[i] = IF i = 2 THEN Begin ELSE Step(f[i - 1], raw[i])
    <3>1. f[i] = IF i = 2 THEN Begin ELSE g[<<f[i - 1], i>>]
      BY ONLY <2>4, <2>6, <2>8 DEF Follows
    <3>2. ASSUME i # 2 PROVE g[<<f[i - 1], i>>] = Step(f[i - 1], raw[i])
      <4>1. i - 1 \in 2 .. n
        BY <2>8, <3>2
      <4>2. f[i - 1] \in S
        BY ONLY <2>7, <4>1
      <4>3. QED
        BY ONLY <2>2, <2>8, <4>2
    <3>3. QED
      BY ONLY <3>1, <3>2
  <2>9. f = [i \in 2 .. n |-> f[i]]
    BY ONLY <2>7
  <2>10. f = [i \in 2 .. n |-> IF i = 2 THEN Begin ELSE Step(f[i - 1], raw[i])]
    BY ONLY <2>8, <2>9
  <2>11. QED
    BY ONLY <1>1, <2>10
<1>5. PICK f : f = Parsed(raw, h)
  OBVIOUS
<1>6. f = After(f)
  BY ONLY <1>4, <1>5, Zenon DEF Parsed
<1>7. \A i \in 2 .. n : f[i] = IF i = 2 THEN Begin ELSE Step(f[i - 1], raw[i])
  <2> HIDE DEF Begin
  <2>1. QED
    BY ONLY <1>1, <1>6
<1>8. 2 \in 2 .. n /\ \A i \in 3 .. n : i \in 2 .. n /\ i # 2
  BY <1>1
<1>9. f[2] = Begin /\ \A i \in 3 .. n : f[i] = Step(f[i - 1], raw[i])
  <2> HIDE DEF Begin
  <2>1. QED
    BY ONLY <1>7, <1>8
<1>10. QED
  BY <1>1, <1>5, <1>9

\* p is what came of the answer to reset of card c.
Came(c, p) ==
  /\ p \in Seq(CharType) /\ Len(p) <= Len(AtrOf(c))
  /\ \A i \in 1 .. Len(p) : p[i] = AtrOf(c)[i]

\* The parser follows every beginning of the answer.
LEMMA ParsedFollows ==
  ASSUME NEW c, IsCard(c), NEW p, Came(c, p), Len(p) >= 2
  PROVE  \A j \in 2 .. Len(p) : At(c, Parsed(p, c.hist)[j], Past(Levels(c)[0], j - 2))
<1> DEFINE L == Levels(c)[0]
           A == AtrOf(c)
           f == Parsed(p, c.hist)
           S == {n \in Nat : n + 2 <= Len(p) => At(c, f[n + 2], Past(L, n))}
<1>1. /\ p \in Seq(CharType) /\ Len(p) \in Nat /\ L \in Seq(CharType) /\ Len(L) \in Nat
      /\ Len(p) <= Len(L) + 2
  <2>1. p \in Seq(CharType) /\ L \in Seq(CharType) /\ Len(p) <= Len(L) + 2
    BY AtrIs DEF Came
  <2>2. QED
    BY <2>1
<1>2. c.hist \in Int /\ c.hist \in Nat
  BY DEF IsCard
<1>3. /\ f[2] = [todo |-> p[2].y, protocols |-> {}, classes |-> {},
                 t15 |-> FALSE, tck |-> FALSE, hist |-> c.hist]
      /\ \A i \in 3 .. Len(p) : f[i] = Step(f[i - 1], p[i])
  BY <1>1, <1>2, ParsedDefined
<1>4. \A i \in 1 .. Len(p) : p[i] = A[i] /\ p[i] \in CharType
  BY <1>1 DEF Came
<1>5. \A i \in 1 .. Len(L) : A[i + 2].y = L[i].y /\ A[i + 2].v = L[i].v
  BY AtrIs
<1>6. 0 \in S
  <2>1. Past(L, 0) = L
    BY <1>1, PastProperties
  <2>2. p[2].y = Announces(c, 0)
    <3>1. 2 \in 1 .. Len(p)
      BY <1>1
    <3>2. QED
      BY <1>4, <3>1, AtrIs
  <2>3. PICK a : a = f[2]
    OBVIOUS
  <2>4. a = [todo |-> Announces(c, 0), protocols |-> {}, classes |-> {},
             t15 |-> FALSE, tck |-> FALSE, hist |-> c.hist]
    BY ONLY <1>3, <2>2, <2>3
  <2>5. a \in ParserType
    BY ONLY <1>2, <2>4, AnnouncesType DEF ParserType
  <2>6. Read(c, a, 0)
    <3>1. 1 .. 0 = {} /\ ~(0 > 0)
      OBVIOUS
    <3>2. Offered(c, 0) = {} /\ ~Needs(c, 0)
      BY ONLY <3>1 DEF Offered, Needs
    <3>3. a.protocols = {} /\ a.t15 = FALSE /\ a.tck = FALSE
      BY ONLY <2>4
    <3>4. QED
      BY ONLY <3>1, <3>2, <3>3 DEF Read
  <2>7. AtLevel(c, a, L, 0)
    <3>1. a.todo = Announces(c, 0) /\ a.hist = c.hist /\ a.classes = {}
      BY ONLY <2>4
    <3>2. QED
      BY <2>6, <3>1 DEF AtLevel
  <2>8. 0 \in 0 .. Len(c.protocols)
    BY ProtocolsType
  <2>9. At(c, a, L)
    BY <2>5, <2>7, <2>8, NothingAnnounced
  <2>10. QED
    BY <2>1, <2>3, <2>9
<1>7. ASSUME NEW n \in Nat, n \in S PROVE n + 1 \in S
  <2>1. SUFFICES ASSUME n + 1 + 2 <= Len(p) PROVE At(c, f[n + 1 + 2], Past(L, n + 1))
    OBVIOUS
  <2>2. n + 3 \in 3 .. Len(p) /\ n + 3 - 1 = n + 2 /\ n + 1 + 2 = n + 3 /\ n + 2 <= Len(p)
        /\ n + 3 \in 1 .. Len(p) /\ n + 1 \in 1 .. Len(L) /\ n \in 0 .. Len(L) /\ n < Len(L)
    BY <1>1, <2>1
  <2>3. PICK a, R, ch : a = f[n + 2] /\ R = Past(L, n) /\ ch = p[n + 3]
    OBVIOUS
  <2>4. At(c, a, R)
    BY <1>7, <2>2, <2>3
  <2>5. R # <<>> /\ Head(R) = L[n + 1] /\ Tail(R) = Past(L, n + 1)
    BY ONLY <1>1, <2>2, <2>3, PastProperties, ZenonT(40)
  <2>6. ch.y = L[n + 1].y /\ ch.v = L[n + 1].v /\ ch \in CharType
    <3>1. n + 1 + 2 = n + 3
      OBVIOUS
    <3>2. QED
      BY <1>4, <1>5, <2>2, <2>3, <3>1
  <2>7. ch.y \in SUBSET {"A", "D"} /\ ch.v \in SUBSET Value
    BY ONLY <2>6 DEF CharType
  <2>8. At(c, Step(a, ch), Tail(R))
    BY ONLY <2>4, <2>5, <2>6, <2>7, IsCard(c), StepFollows
  <2>9. f[n + 3] = Step(a, ch)
    BY <1>3, <2>2, <2>3
  <2>10. QED
    BY <2>2, <2>5, <2>8, <2>9
<1>8. Nat \subseteq S
  <2> HIDE DEF S
  <2>1. QED
    BY ONLY <1>6, <1>7, Induction
<1>9. SUFFICES ASSUME NEW j \in 2 .. Len(p) PROVE At(c, f[j], Past(L, j - 2))
  OBVIOUS
<1>10. j - 2 \in Nat /\ j - 2 + 2 = j /\ j - 2 + 2 <= Len(p)
  BY <1>1
<1>11. QED
  BY <1>8, <1>10

\* An answer that the parser finds complete has come in full, and was understood.
LEMMA AtrUnderstood ==
  ASSUME NEW c, IsCard(c), NEW p, Came(c, p), Parse(p, c.hist).complete
  PROVE  Len(p) = Len(AtrOf(c)) /\ Parse(p, c.hist) = Says(c)
<1>1. p \in Seq(CharType) /\ Len(p) \in Nat
  BY DEF Came
<1>2. Len(p) >= 2
  <2>1. SUFFICES ASSUME Len(p) < 2 PROVE FALSE
    BY <1>1
  <2>2. Parse(p, c.hist) = [protocols |-> {}, classes |-> {}, complete |-> FALSE]
    BY ONLY <2>1 DEF Parse
  <2>3. QED
    BY <2>2
<1> DEFINE L == Levels(c)[0]
<1>3. PICK a, R : a = Parsed(p, c.hist)[Len(p)] /\ R = Past(L, Len(p) - 2)
  OBVIOUS
<1>4. At(c, a, R)
  <2>1. Len(p) \in 2 .. Len(p)
    BY <1>1, <1>2
  <2>2. QED
    BY <1>2, <1>3, <2>1, ParsedFollows
<1>5. Parse(p, c.hist) = [protocols |-> IF a.todo = {} /\ a.protocols = {} THEN {0} ELSE a.protocols,
                          classes |-> a.classes,
                          complete |-> a.todo = {} /\ a.hist + (IF a.tck THEN 1 ELSE 0) <= 0]
  <2>1. ~(Len(p) < 2)
    BY <1>1, <1>2
  <2>2. QED
    BY ONLY <1>3, <2>1 DEF Parse
<1>6. a.todo = {} /\ a.hist + (IF a.tck THEN 1 ELSE 0) <= 0
  <2>1. PICK b : b = (a.todo = {} /\ a.hist + (IF a.tck THEN 1 ELSE 0) <= 0)
    OBVIOUS
  <2>2. Parse(p, c.hist).complete = b
    BY ONLY <1>5, <2>1
  <2>3. b
    BY ONLY <2>2, Parse(p, c.hist).complete
  <2>4. QED
    BY ONLY <2>1, <2>3
<1>7. AtTail(c, a, R)
  BY <1>4, <1>6 DEF At, AtTd
<1>8. a.tck <=> Check(c) = 1
  <2>1. DOMAIN c.protocols = 1 .. Len(c.protocols)
    BY ProtocolsType
  <2>2. QED
    BY <1>7, <2>1 DEF AtTail, Read, Needs, Check
<1>9. a.hist + Check(c) = 0
  <2>1. a.hist \in Int /\ Check(c) \in {0, 1}
    BY <1>4, ProtocolsType DEF At, ParserType
  <2>2. a.hist + Check(c) \in Nat
    BY <1>7 DEF AtTail
  <2>3. QED
    BY ONLY <1>6, <1>8, <2>1, <2>2
<1>10. Len(p) = Len(AtrOf(c))
  <2>1. R = <<>>
    BY <1>7, <1>9 DEF AtTail
  <2>2. L \in Seq(CharType) /\ Len(AtrOf(c)) = Len(L) + 2 /\ Len(p) <= Len(AtrOf(c))
    BY AtrIs DEF Came
  <2>3. Len(L) \in Nat
    BY <2>2
  <2>4. Len(p) - 2 \in 0 .. Len(L)
    BY <1>1, <1>2, <2>2, <2>3
  <2>5. Len(R) = Len(L) - (Len(p) - 2)
    BY <1>3, <2>2, <2>4, PastProperties
  <2>6. QED
    BY <1>1, <2>1, <2>2, <2>3, <2>5
<1>11. a.protocols = Offered(c, Len(c.protocols)) /\ a.classes = c.classes
  BY <1>7 DEF AtTail, Read
<1>12. Says(c) = [protocols |-> IF a.protocols = {} THEN {0} ELSE a.protocols,
                  classes |-> c.classes, complete |-> TRUE]
  <2>1. DOMAIN c.protocols = 1 .. Len(c.protocols)
    BY ProtocolsType
  <2>2. QED
    BY ONLY <1>11, <2>1 DEF Says, Offered
<1>13. Parse(p, c.hist) = Says(c)
  <2>1. (a.todo = {} /\ a.hist + (IF a.tck THEN 1 ELSE 0) <= 0) = TRUE
    BY ONLY <1>6
  <2>2. QED
    BY ONLY <1>5, <1>6, <1>11, <1>12, <2>1
<1>14. QED
  BY <1>10, <1>13
-----------------------------------------------------------------------------
(* The invariant *)

\* The types of the state.
Present == UNION {{both[0], both[1]} : both \in SimCards}

SimType == [pc : {"out", "atr", "t0", "sw2", "bytes"}, active : Slot \cup {NoSlot},
            conv : BOOLEAN, clean : BOOLEAN, held : BOOLEAN, slot : Slot \cup {NoSlot},
            cls : {"any", "B", "C"}, mode : {"none", "scan", "indicated", "back"},
            raw : Seq(CharType), cmd : Commands \cup {NoCmd}, done : Nat, want : Nat,
            nulls : Nat, got : Seq(SUBSET Value)]
DevType ==
  [supply : [Slot -> {"off", "B", "C"}], clock : BOOLEAN, sel : Slot, rx : Seq(CharType)]
CardType ==
  [is : Present, st : {"off", "idle", "cmd", "take"}, out : Seq(CharType),
   cmd : Commands \cup {NoCmd}, did : Nat, got : Seq(Nat)]

SimTyped(sm, dv, cs) == sm \in SimType /\ dv \in DevType /\ cs \in [Slot -> CardType]

\* One slot is on, and the driver knows which; a call is about that slot.
OneIsOn(sm, dv, cs) ==
  /\ sm.held <=> sm.active # NoSlot
  /\ dv.clock <=> sm.active # NoSlot
  /\ \A s \in Slot : dv.supply[s] # "off" <=> s = sm.active
  /\ sm.active # NoSlot => dv.sel = sm.active
  /\ \A s \in Slot : cs[s].st = "off" => cs[s].out = <<>>
  /\ \A s \in Slot : s # sm.active => cs[s].st = "off"
  /\ sm.pc = "out" => sm = Rests(sm.active, sm.conv, sm.clean)
  /\ sm.pc # "out" => sm.slot = sm.active /\ sm.active \in Slot
  /\ sm.clean => sm.active \in Slot

\* The answer: what was read, what waits in the controller and what the card still sends.
All(sm, dv, c) == sm.raw \o (dv.rx \o c.out)

\* An activation is reading the answer of the card that is on.
Answers(sm, dv, c) ==
  sm.pc = "atr" =>
    /\ ~sm.conv /\ ~sm.clean /\ c.st \in {"off", "idle"}
    /\ sm.mode \in {"scan", "indicated", "back"}
    /\ sm.mode = "indicated" => dv.supply[sm.active] = "B"
    /\ All(sm, dv, c) # <<>> => c.is # NoCard /\ dv.supply[sm.active] \in c.is.works
    /\ c.is # NoCard => Came(c.is, All(sm, dv, c))
                          /\ (c.st = "idle" => Len(All(sm, dv, c)) = Len(AtrOf(c.is)))

\* A call that succeeded has read what the card says.
Activated(sm, dv, la, c) ==
  sm.pc = "out" /\ la.op = "activate" /\ la.r = "ok" =>
    /\ sm.active \in Slot
    /\ la.cls = dv.supply[sm.active] /\ la.cls \in c.is.works /\ c.is.ts # "bad"
    /\ la.atr.complete => la.atr = Says(c.is)
    /\ la.asked = "any" /\ la.cls = "C" /\ la.atr.complete /\ c.is.classes # {}
         => "C" \in c.is.classes \/ la.mode = "back"

\* The places of an exchange of command m: the driver's, and after more characters.
May(p, ch, m, inv) ==
  /\ ch.inv <=> inv
  /\ \/ p.at = "t0" /\ ch.k \in {"null", "sw1"}
     \/ p.at = "t0" /\ ch.k \in {"all", "one"} /\ p.done < m.len
     \/ p.at = "sw2" /\ ch.k = "sw2"
     \/ p.at = "bytes" /\ ch.k = "byte" /\ ch.v = {p.done + 1}

\* Where a character takes the exchange.
Then(p, ch, m) ==
  IF p.at = "bytes"
  THEN [at |-> IF p.want = 1 THEN "t0" ELSE "bytes", done |-> p.done + 1, want |-> p.want - 1]
  ELSE IF ch.k = "null" THEN p
  ELSE IF ch.k = "sw1" THEN [p EXCEPT !.at = "sw2"]
  ELSE IF ch.k = "sw2" THEN [p EXCEPT !.at = "over"]
  ELSE IF m.kind = "to" THEN [p EXCEPT !.at = "gives"]
  ELSE [p EXCEPT !.at = "bytes", !.want = IF ch.k = "all" THEN m.len - p.done ELSE 1]

\* The places of an exchange.
Place ==
  {p \in [at : {"t0", "bytes", "sw2", "over", "gives"}, done : Nat, want : Nat] :
     p.at = "bytes" <=> p.want > 0}

\* The characters s take the exchange from p to r.
Stream(s, p, r, m, inv) ==
  \E q \in [0 .. Len(s) -> Place] :
    /\ q[0] = p /\ q[Len(s)] = r
    /\ \A i \in 1 .. Len(s) : May(q[i - 1], s[i], m, inv) /\ q[i] = Then(q[i - 1], s[i], m)

\* The driver's place and the card's.
Here(sm) == [at |-> sm.pc, done |-> sm.done, want |-> sm.want]
There(c) == [at |-> IF c.st = "cmd" THEN "t0" ELSE IF c.st = "take" THEN "gives" ELSE "over",
             done |-> c.did, want |-> 0]

\* The bytes given to a card, and those read from it.
OneTo(n) == [i \in 1 .. n |-> i]
EachOf(n) == [i \in 1 .. n |-> {i}]

\* The driver and the card are in the same exchange.
Joined(sm, dv, c, inv) ==
  \E r \in Place :
    /\ Stream(dv.rx \o c.out, Here(sm), r, sm.cmd, inv)
    /\ c.st # "off" => r = There(c) /\ c.cmd = sm.cmd
                         /\ (sm.cmd.kind = "to" => c.got = OneTo(c.did))

\* As long as nothing timed out.
InStep(sm, dv, c) ==
  sm.clean =>
    /\ sm.conv <=> c.is.ts = "inverse"
    /\ sm.pc = "out" => c.st = "off" \/ (c.st = "idle" /\ c.out = <<>>)
    /\ sm.pc # "out" =>
         /\ sm.cmd \in Commands
         /\ sm.cmd.kind = "to" => sm.pc # "bytes"
         /\ sm.cmd.kind = "from" => sm.got = EachOf(sm.done)
         /\ Joined(sm, dv, c, sm.conv)

\* An exchange that ended has passed what the card sent and took.
Exchanged(sm, la, c) ==
  sm.pc = "out" /\ la.r \in {"status", "proto"} /\ sm.clean =>
    /\ la.r = "status"
    /\ c.st # "off" =>
         /\ c.st = "idle" /\ la.done = c.did
         /\ IF c.cmd.kind = "to" THEN c.got = OneTo(la.done) ELSE la.got = EachOf(la.done)

\* The bytes that passed and the bytes to come are those of the command.
Counted(sm) ==
  sm.pc \in {"t0", "sw2", "bytes"} =>
    sm.done + sm.want <= sm.cmd.len /\ (sm.pc = "bytes" <=> sm.want > 0)

\* The inductive invariant.
SimInvOf(sm, dv, cs, la) ==
  /\ SimTyped(sm, dv, cs) /\ Counted(sm)
  /\ OneIsOn(sm, dv, cs)
  /\ Answers(sm, dv, cs[sm.active])
  /\ Activated(sm, dv, la, cs[sm.active])
  /\ InStep(sm, dv, cs[sm.active])
  /\ Exchanged(sm, la, cs[sm.active])

SimInv == SimInvOf(sim, dev, cards, last)

-----------------------------------------------------------------------------
(* Streams of characters *)

\* A character that may come leads to a place.
LEMMA ThenType ==
  ASSUME NEW p \in Place, NEW ch, NEW m, m.len \in Nat, NEW inv, May(p, ch, m, inv)
  PROVE  Then(p, ch, m) \in Place
<1>1. /\ p.at \in {"t0", "bytes", "sw2", "over", "gives"} /\ p.done \in Nat /\ p.want \in Nat
      /\ p.at = "bytes" <=> p.want > 0
      /\ p = [at |-> p.at, done |-> p.done, want |-> p.want]
  BY DEF Place
<1>2. PICK e : e = Then(p, ch, m)
  OBVIOUS
<1>3. CASE p.at = "bytes"
  <2>1. e = [at |-> IF p.want = 1 THEN "t0" ELSE "bytes", done |-> p.done + 1, want |-> p.want - 1]
    BY ONLY <1>2, <1>3 DEF Then
  <2>2. p.done + 1 \in Nat /\ p.want - 1 \in Nat /\ (p.want = 1 <=> ~(p.want - 1 > 0))
    BY ONLY <1>1, <1>3
  <2>3. QED
    BY ONLY <1>2, <2>1, <2>2 DEF Place
<1>4. CASE p.at # "bytes"
  <2>1. p.want = 0
    BY <1>1, <1>4
  <2>2. CASE ch.k = "null"
    BY <1>2, <1>4, <2>2 DEF Then
  <2>3. CASE ch.k = "sw1"
    <3>1. e = [p EXCEPT !.at = "sw2"]
      BY <1>2, <1>4, <2>3 DEF Then
    <3>2. e = [at |-> "sw2", done |-> p.done, want |-> p.want]
      BY ONLY <1>1, <3>1
    <3>3. QED
      BY ONLY <1>1, <1>2, <2>1, <3>2 DEF Place
  <2>4. CASE ch.k = "sw2"
    <3>1. e = [p EXCEPT !.at = "over"]
      BY <1>2, <1>4, <2>4 DEF Then
    <3>2. e = [at |-> "over", done |-> p.done, want |-> p.want]
      BY ONLY <1>1, <3>1
    <3>3. QED
      BY ONLY <1>1, <1>2, <2>1, <3>2 DEF Place
  <2>5. CASE ch.k \in {"all", "one"}
    <3>1. p.done < m.len
      BY <2>5 DEF May
    <3>2. CASE m.kind = "to"
      <4>1. e = [p EXCEPT !.at = "gives"]
        BY <1>2, <1>4, <2>5, <3>2 DEF Then
      <4>2. e = [at |-> "gives", done |-> p.done, want |-> p.want]
        BY ONLY <1>1, <4>1
      <4>3. QED
        BY ONLY <1>1, <1>2, <2>1, <4>2 DEF Place
    <3>3. CASE m.kind # "to"
      <4>1. PICK w : w = IF ch.k = "all" THEN m.len - p.done ELSE 1
        OBVIOUS
      <4>2. w \in Nat /\ w > 0
        BY ONLY <1>1, <3>1, <4>1, m.len \in Nat
      <4>3. e = [p EXCEPT !.at = "bytes", !.want = w]
        BY <1>2, <1>4, <2>5, <3>3, <4>1 DEF Then
      <4>4. e = [at |-> "bytes", done |-> p.done, want |-> w]
        BY ONLY <1>1, <4>3
      <4>5. QED
        BY ONLY <1>1, <1>2, <4>2, <4>4 DEF Place
    <3>4. QED
      BY <3>2, <3>3
  <2>6. QED
    BY <1>4, <2>2, <2>3, <2>4, <2>5 DEF May
<1>5. QED
  BY <1>3, <1>4

\* No character leads nowhere.
LEMMA StreamEmpty ==
  ASSUME NEW p \in Place, NEW r, NEW m, NEW inv
  PROVE  Stream(<<>>, p, r, m, inv) <=> r = p
<1>1. Len(<<>>) = 0 /\ 1 .. 0 = {} /\ 0 .. 0 = {0}
  OBVIOUS
<1>2. PICK q : q = [i \in 0 .. 0 |-> p]
  OBVIOUS
<1>3. q \in [0 .. 0 -> Place] /\ q[0] = p
  BY <1>1, <1>2
<1>4. QED
  BY <1>1, <1>3 DEF Stream

\* One character.
LEMMA StreamOne ==
  ASSUME NEW p \in Place, NEW ch, NEW m, m.len \in Nat, NEW inv, May(p, ch, m, inv)
  PROVE  Stream(<<ch>>, p, Then(p, ch, m), m, inv)
<1>1. Len(<<ch>>) = 1 /\ 1 .. 1 = {1} /\ <<ch>>[1] = ch /\ 1 - 1 = 0
  OBVIOUS
<1>2. PICK e : e = Then(p, ch, m)
  OBVIOUS
<1>3. e \in Place
  BY <1>2, ThenType
<1>4. PICK q : q = [i \in 0 .. 1 |-> IF i = 0 THEN p ELSE e]
  OBVIOUS
<1>5. 0 \in 0 .. 1 /\ 1 \in 0 .. 1 /\ 1 # 0
  OBVIOUS
<1>6. q \in [0 .. 1 -> Place] /\ q[0] = p /\ q[1] = e
  BY <1>3, <1>4, <1>5
<1>7. QED
  BY <1>1, <1>2, <1>6 DEF Stream

\* The first character of a stream.
LEMMA StreamHead ==
  ASSUME NEW s \in Seq(CharType), s # <<>>, NEW p, NEW r, NEW m, NEW inv,
         Stream(s, p, r, m, inv)
  PROVE  /\ May(p, Head(s), m, inv)
         /\ Then(p, Head(s), m) \in Place
         /\ Stream(Tail(s), Then(p, Head(s), m), r, m, inv)
<1>1. PICK q \in [0 .. Len(s) -> Place] :
        /\ q[0] = p /\ q[Len(s)] = r
        /\ \A i \in 1 .. Len(s) : May(q[i - 1], s[i], m, inv) /\ q[i] = Then(q[i - 1], s[i], m)
  BY DEF Stream
<1>2. PICK n \in Nat : n = Len(s) - 1
  OBVIOUS
<1>3. Len(s) = n + 1 /\ Head(s) = s[1] /\ Tail(s) \in Seq(CharType) /\ Len(Tail(s)) = n
  BY <1>2
<1>4. \A i \in 1 .. n : Tail(s)[i] = s[i + 1]
  BY <1>2
<1>5. 1 \in 1 .. n + 1 /\ 1 - 1 = 0 /\ 1 \in 0 .. n + 1
  OBVIOUS
<1>6. May(p, Head(s), m, inv) /\ q[1] = Then(p, Head(s), m) /\ q[1] \in Place
  <2>1. May(q[1 - 1], s[1], m, inv) /\ q[1] = Then(q[1 - 1], s[1], m)
    BY ONLY <1>1, <1>3, <1>5
  <2>2. q[1 - 1] = p
    BY ONLY <1>1, <1>5
  <2>3. q[1] \in Place
    BY <1>1, <1>3, <1>5
  <2>4. QED
    BY ONLY <1>3, <2>1, <2>2, <2>3
<1>7. PICK u : u = [i \in 0 .. n |-> q[i + 1]]
  OBVIOUS
<1>8. u \in [0 .. n -> Place] /\ u[0] = q[1] /\ u[n] = r
  <2>1. \A i \in 0 .. n : i + 1 \in 0 .. Len(s)
    BY <1>3
  <2>2. 0 \in 0 .. n /\ n \in 0 .. n /\ 0 + 1 = 1
    OBVIOUS
  <2>3. \A i \in 0 .. n : q[i + 1] \in Place
    BY <1>1, <2>1
  <2>4. QED
    BY ONLY <1>1, <1>3, <1>7, <2>2, <2>3
<1>9. ASSUME NEW i \in 1 .. n
      PROVE  May(u[i - 1], Tail(s)[i], m, inv) /\ u[i] = Then(u[i - 1], Tail(s)[i], m)
  <2>1. i - 1 \in 0 .. n /\ i \in 0 .. n /\ i - 1 + 1 = i /\ i + 1 - 1 = i /\ i + 1 \in 1 .. n + 1
    OBVIOUS
  <2>2. u[i - 1] = q[i] /\ u[i] = q[i + 1]
    BY ONLY <1>7, <2>1
  <2>3. May(q[i + 1 - 1], s[i + 1], m, inv) /\ q[i + 1] = Then(q[i + 1 - 1], s[i + 1], m)
    BY ONLY <1>1, <1>3, <2>1
  <2>4. QED
    BY ONLY <1>4, <1>9, <2>1, <2>2, <2>3
<1>10. Stream(Tail(s), q[1], r, m, inv)
  BY ONLY <1>3, <1>8, <1>9 DEF Stream
<1>11. QED
  BY ONLY <1>6, <1>10

\* Two streams, one after the other.
LEMMA StreamJoin ==
  ASSUME NEW s \in Seq(CharType), NEW t \in Seq(CharType), NEW p, NEW r, NEW z, NEW m, NEW inv,
         Stream(s, p, r, m, inv), Stream(t, r, z, m, inv)
  PROVE  Stream(s \o t, p, z, m, inv)
<1>1. PICK q \in [0 .. Len(s) -> Place] :
        /\ q[0] = p /\ q[Len(s)] = r
        /\ \A i \in 1 .. Len(s) : May(q[i - 1], s[i], m, inv) /\ q[i] = Then(q[i - 1], s[i], m)
  BY DEF Stream
<1>2. PICK u \in [0 .. Len(t) -> Place] :
        /\ u[0] = r /\ u[Len(t)] = z
        /\ \A i \in 1 .. Len(t) : May(u[i - 1], t[i], m, inv) /\ u[i] = Then(u[i - 1], t[i], m)
  BY DEF Stream
<1>3. PICK a \in Nat, b \in Nat : a = Len(s) /\ b = Len(t)
  OBVIOUS
<1>4. PICK x : x = s \o t
  OBVIOUS
<1>5. Len(x) = a + b /\ \A i \in 1 .. a + b : x[i] = IF i <= a THEN s[i] ELSE t[i - a]
  BY <1>3, <1>4, ConcatProperties
<1>6. PICK v : v = [i \in 0 .. a + b |-> IF i <= a THEN q[i] ELSE u[i - a]]
  OBVIOUS
<1>7. v \in [0 .. a + b -> Place]
  <2>1. \A i \in 0 .. a + b : (i <= a => i \in 0 .. a) /\ (~(i <= a) => i - a \in 0 .. b)
    OBVIOUS
  <2>2. q \in [0 .. a -> Place] /\ u \in [0 .. b -> Place]
    BY <1>1, <1>2, <1>3
  <2>3. \A i \in 0 .. a + b : (IF i <= a THEN q[i] ELSE u[i - a]) \in Place
    BY ONLY <2>1, <2>2
  <2>4. QED
    BY ONLY <1>6, <2>3
<1>8. v[0] = p
  <2>1. 0 \in 0 .. a + b /\ 0 <= a
    OBVIOUS
  <2>2. QED
    BY ONLY <1>1, <1>6, <2>1
<1>9. v[a + b] = z
  <2>1. a + b \in 0 .. a + b /\ (a + b <= a <=> b = 0) /\ a + b - a = b /\ (b = 0 => a + b = a)
    OBVIOUS
  <2>2. CASE b = 0
    BY ONLY <1>1, <1>2, <1>3, <1>6, <2>1, <2>2
  <2>3. CASE b # 0
    BY ONLY <1>2, <1>3, <1>6, <2>1, <2>3
  <2>4. QED
    BY <2>2, <2>3
<1>10. ASSUME NEW i \in 1 .. a + b
       PROVE  May(v[i - 1], x[i], m, inv) /\ v[i] = Then(v[i - 1], x[i], m)
  <2>1. i \in 0 .. a + b /\ i - 1 \in 0 .. a + b
    OBVIOUS
  <2>2. CASE i <= a
    <3>1. i \in 1 .. a /\ i - 1 <= a
      BY <2>2
    <3>2. v[i] = q[i] /\ v[i - 1] = q[i - 1] /\ x[i] = s[i]
      BY ONLY <1>5, <1>6, <1>10, <2>1, <2>2, <3>1
    <3>3. QED
      BY ONLY <1>1, <1>3, <3>1, <3>2
  <2>3. CASE ~(i <= a)
    <3>1. i - a \in 1 .. b /\ (i - 1 <= a <=> i - 1 = a) /\ (i - 1 = a <=> i - a = 1) /\ i - 1 - a = i - a - 1
          /\ (i - a = 1 => i - a - 1 = 0)
      BY <2>3
    <3>2. v[i] = u[i - a] /\ x[i] = t[i - a]
      BY ONLY <1>5, <1>6, <1>10, <2>1, <2>3
    <3>3. v[i - 1] = u[i - a - 1]
      <4>1. CASE i - 1 = a
        <5>1. v[i - 1] = q[a]
          BY ONLY <1>6, <2>1, <3>1, <4>1
        <5>2. u[i - a - 1] = u[0]
          BY ONLY <3>1, <4>1
        <5>3. QED
          BY ONLY <1>1, <1>2, <1>3, <5>1, <5>2
      <4>2. CASE i - 1 # a
        BY ONLY <1>6, <2>1, <3>1, <4>2
      <4>3. QED
        BY <4>1, <4>2
    <3>4. QED
      BY ONLY <1>2, <1>3, <3>1, <3>2, <3>3
  <2>4. QED
    BY <2>2, <2>3
<1>11. QED
  BY ONLY <1>4, <1>5, <1>7, <1>8, <1>9, <1>10 DEF Stream

\* What came before the card stopped.
LEMMA StreamPrefix ==
  ASSUME NEW s \in Seq(CharType), NEW t \in Seq(CharType), NEW p, NEW z, NEW m, NEW inv,
         Stream(s \o t, p, z, m, inv)
  PROVE  \E r \in Place : Stream(s, p, r, m, inv)
<1>1. PICK a \in Nat, b \in Nat : a = Len(s) /\ b = Len(t)
  OBVIOUS
<1>2. PICK x : x = s \o t
  OBVIOUS
<1>3. Len(x) = a + b /\ \A i \in 1 .. a + b : x[i] = IF i <= a THEN s[i] ELSE t[i - a]
  BY <1>1, <1>2, ConcatProperties
<1>4. PICK q \in [0 .. a + b -> Place] :
        /\ q[0] = p
        /\ \A i \in 1 .. a + b : May(q[i - 1], x[i], m, inv) /\ q[i] = Then(q[i - 1], x[i], m)
  BY <1>2, <1>3 DEF Stream
<1>5. PICK u : u = [i \in 0 .. a |-> q[i]]
  OBVIOUS
<1>6. \A i \in 0 .. a : i \in 0 .. a + b
  OBVIOUS
<1>7. u \in [0 .. a -> Place] /\ u[0] = p /\ u[a] \in Place
  <2>1. 0 \in 0 .. a /\ a \in 0 .. a
    OBVIOUS
  <2>2. \A i \in 0 .. a : q[i] \in Place
    BY <1>4, <1>6
  <2>3. QED
    BY ONLY <1>4, <1>5, <2>1, <2>2
<1>8. ASSUME NEW i \in 1 .. a
      PROVE  May(u[i - 1], s[i], m, inv) /\ u[i] = Then(u[i - 1], s[i], m)
  <2>1. i \in 1 .. a + b /\ i <= a /\ i - 1 \in 0 .. a /\ i \in 0 .. a
    OBVIOUS
  <2>2. u[i - 1] = q[i - 1] /\ u[i] = q[i] /\ x[i] = s[i]
    BY ONLY <1>3, <1>5, <2>1
  <2>3. QED
    BY ONLY <1>4, <2>1, <2>2
<1>9. Stream(s, p, u[a], m, inv)
  BY ONLY <1>1, <1>7, <1>8 DEF Stream
<1>10. QED
  BY ONLY <1>7, <1>9

\* A card's bytes, d + 1 to d + n.
LEMMA StreamBytes ==
  ASSUME NEW d \in Nat, NEW n \in Nat \ {0}, NEW s \in Seq(CharType), Len(s) = n, NEW inv,
         \A i \in 1 .. n : s[i].k = "byte" /\ s[i].v = {d + i} /\ (s[i].inv <=> inv), NEW m
  PROVE  Stream(s, [at |-> "bytes", done |-> d, want |-> n], [at |-> "t0", done |-> d + n, want |-> 0], m, inv)
<1>1. PICK q : q = [i \in 0 .. n |-> [at |-> IF i = n THEN "t0" ELSE "bytes", done |-> d + i, want |-> n - i]]
  OBVIOUS
<1>2. \A i \in 0 .. n : d + i \in Nat /\ n - i \in Nat /\ (n - i > 0 <=> i # n)
  OBVIOUS
<1>3. \A i \in 0 .. n : q[i].at = (IF i = n THEN "t0" ELSE "bytes") /\ q[i].done = d + i /\ q[i].want = n - i
                        /\ q[i] = [at |-> IF i = n THEN "t0" ELSE "bytes", done |-> d + i, want |-> n - i]
  BY ONLY <1>1
<1>4. ASSUME NEW i \in 0 .. n PROVE q[i] \in Place
  <2>1. PICK b : b = q[i]
    OBVIOUS
  <2>2. b = [at |-> IF i = n THEN "t0" ELSE "bytes", done |-> d + i, want |-> n - i]
    BY ONLY <1>3, <1>4, <2>1
  <2>3. d + i \in Nat /\ n - i \in Nat /\ (n - i > 0 <=> i # n)
    BY <1>2
  <2>4. b \in Place
    <3>1. CASE i = n
      BY ONLY <2>2, <2>3, <3>1 DEF Place
    <3>2. CASE i # n
      BY ONLY <2>2, <2>3, <3>2 DEF Place
    <3>3. QED
      BY <3>1, <3>2
  <2>5. QED
    BY <2>1, <2>4
<1>5. q \in [0 .. n -> Place]
  BY ONLY <1>1, <1>4
<1>6. q[0] = [at |-> "bytes", done |-> d, want |-> n]
  <2>1. 0 \in 0 .. n /\ 0 # n /\ d + 0 = d /\ n - 0 = n
    OBVIOUS
  <2>2. QED
    BY ONLY <1>1, <2>1
<1>7. q[n] = [at |-> "t0", done |-> d + n, want |-> 0]
  <2>1. n \in 0 .. n /\ n - n = 0
    OBVIOUS
  <2>2. QED
    BY ONLY <1>1, <2>1
<1>8. ASSUME NEW i \in 1 .. n
      PROVE  May(q[i - 1], s[i], m, inv) /\ q[i] = Then(q[i - 1], s[i], m)
  <2>1. i - 1 \in 0 .. n /\ i \in 0 .. n /\ i - 1 # n /\ d + (i - 1) + 1 = d + i /\ n - (i - 1) - 1 = n - i
        /\ (n - (i - 1) = 1 <=> i = n)
    OBVIOUS
  <2>2. PICK b : b = q[i - 1]
    OBVIOUS
  <2>3. b.at = "bytes" /\ b.done = d + (i - 1) /\ b.want = n - (i - 1)
    BY ONLY <1>3, <2>1, <2>2
  <2>4. s[i].k = "byte" /\ s[i].v = {b.done + 1} /\ (s[i].inv <=> inv)
    BY <2>1, <2>3
  <2>5. May(b, s[i], m, inv)
    BY ONLY <2>3, <2>4 DEF May
  <2>6. Then(b, s[i], m) = [at |-> IF b.want = 1 THEN "t0" ELSE "bytes", done |-> b.done + 1, want |-> b.want - 1]
    BY ONLY <2>3 DEF Then
  <2>7. Then(b, s[i], m) = [at |-> IF i = n THEN "t0" ELSE "bytes", done |-> d + i, want |-> n - i]
    BY ONLY <2>1, <2>3, <2>6
  <2>8. QED
    BY ONLY <1>3, <2>1, <2>2, <2>5, <2>7
<1>9. QED
  BY ONLY <1>5, <1>6, <1>7, <1>8, Len(s) = n DEF Stream

-----------------------------------------------------------------------------
(* The invariant holds at first *)

\* The cards that are present.
LEMMA PresentCards ==
  ASSUME NEW c \in Present, c # NoCard
  PROVE  IsCard(c)
<1>1. PICK both \in SimCards : c \in {both[0], both[1]}
  BY DEF Present
<1>2. Describes(c)
  BY <1>1, SimAssumption
<1>3. QED
  BY <1>2, CardDescribed

\* A card that is off.
LEMMA OffType ==
  ASSUME NEW i \in Present
  PROVE  Off(i) \in CardType /\ Off(i).st = "off" /\ Off(i).out = <<>> /\ Off(i).is = i
BY DEF Off, CardType

\* The driver between calls.
LEMMA RestsFields ==
  ASSUME NEW a \in Slot \cup {NoSlot}, NEW conv \in BOOLEAN, NEW clean \in BOOLEAN,
         NEW z, z = Rests(a, conv, clean)
  PROVE  /\ z \in SimType
         /\ z.pc = "out" /\ z.active = a /\ z.conv = conv /\ z.clean = clean
         /\ z.held <=> a # NoSlot
         /\ z.slot = NoSlot /\ z.cls = "any" /\ z.mode = "none" /\ z.raw = <<>> /\ z.cmd = NoCmd
         /\ z.done = 0 /\ z.want = 0 /\ z.nulls = 0 /\ z.got = <<>>
<1>1. PICK h \in BOOLEAN : h = (a # NoSlot)
  OBVIOUS
<1>2. z = [pc |-> "out", active |-> a, conv |-> conv, clean |-> clean, held |-> h,
           slot |-> NoSlot, cls |-> "any", mode |-> "none", raw |-> <<>>, cmd |-> NoCmd, done |-> 0,
           want |-> 0, nulls |-> 0, got |-> <<>>]
  BY ONLY <1>1, z = Rests(a, conv, clean) DEF Rests
<1>3. NoCmd \in Commands \cup {NoCmd} /\ NoSlot \in Slot \cup {NoSlot} /\ 0 \in Nat
      /\ <<>> \in Seq(CharType) /\ <<>> \in Seq(SUBSET Value)
  OBVIOUS
<1>4. z \in SimType
  BY <1>2, <1>3 DEF SimType
<1>5. QED
  BY ONLY <1>1, <1>2, <1>4

\* The invariant holds at first.
LEMMA SimInitInv ==
  ASSUME SimInit
  PROVE  SimInv
<1>1. PICK both \in SimCards : cards = [s \in Slot |-> Off(both[s])]
  BY DEF SimInit
<1>2. \A s \in Slot : both[s] \in Present
  BY DEF Present, Slot
<1>3. \A s \in Slot : cards[s] \in CardType /\ cards[s].st = "off" /\ cards[s].out = <<>>
  BY <1>1, <1>2, OffType
<1>4. PICK z : z = sim
  OBVIOUS
<1>5. z = Rests(NoSlot, FALSE, FALSE)
  BY <1>4 DEF SimInit
<1>6. /\ z \in SimType
      /\ z.pc = "out" /\ z.active = NoSlot /\ z.conv = FALSE /\ z.clean = FALSE
      /\ z.held <=> FALSE
  <2>1. NoSlot \in Slot \cup {NoSlot} /\ FALSE \in BOOLEAN
    OBVIOUS
  <2>2. PICK a, f : a = NoSlot /\ f = FALSE
    OBVIOUS
  <2>3. a \in Slot \cup {NoSlot} /\ f \in BOOLEAN /\ z = Rests(a, f, f)
    BY ONLY <1>5, <2>1, <2>2
  <2>4. z \in SimType /\ z.pc = "out" /\ z.active = a /\ z.conv = f /\ z.clean = f /\ (z.held <=> a # NoSlot)
    BY ONLY <2>3, RestsFields
  <2>5. QED
    BY ONLY <2>2, <2>4
<1>7. dev = [supply |-> [s \in Slot |-> "off"], clock |-> FALSE, sel |-> 0, rx |-> <<>>]
  BY DEF SimInit
<1>8. dev \in DevType /\ dev.clock = FALSE /\ \A s \in Slot : dev.supply[s] = "off"
  BY <1>7 DEF DevType, Slot
<1>9. SimTyped(sim, dev, cards)
  <2>1. cards \in [Slot -> CardType]
    BY <1>1, <1>3
  <2>2. QED
    BY <1>4, <1>6, <1>8, <2>1 DEF SimTyped
<1>10. OneIsOn(sim, dev, cards)
  <2>1. NoSlot \notin Slot
    BY DEF Slot, NoSlot
  <2>2. QED
    BY <1>3, <1>4, <1>5, <1>6, <1>8, <2>1 DEF OneIsOn
<1>11. last.op = "none" /\ last.r = "ok"
  BY DEF SimInit, Returned
<1>12. QED
  BY <1>4, <1>6, <1>9, <1>10, <1>11 DEF SimInv, SimInvOf, Answers, Activated, InStep, Exchanged, Counted

-----------------------------------------------------------------------------
(* What the card does *)

\* A character moves from the front of one sequence to the end of the one before it.
LEMMA Shift ==
  ASSUME NEW T, NEW s \in Seq(T), NEW t \in Seq(T)
  PROVE  /\ s \o t \in Seq(T)
         /\ s # <<>> => s \o t # <<>> /\ Head(s \o t) = Head(s) /\ Tail(s \o t) = Tail(s) \o t
         /\ t # <<>> => Append(s, Head(t)) \o Tail(t) = s \o t
<1>1. s \o t \in Seq(T)
  BY ConcatProperties
<1>2. ASSUME s # <<>>
      PROVE  s \o t # <<>> /\ Head(s \o t) = Head(s) /\ Tail(s \o t) = Tail(s) \o t
  <2>1. PICK x, u : x = Head(s) /\ u = Tail(s)
    OBVIOUS
  <2>2. x \in T /\ u \in Seq(T)
    BY <1>2, <2>1
  <2>3. <<x>> \in Seq(T) /\ u \o t \in Seq(T)
    BY <2>2, ConcatProperties
  <2>4. s = <<x>> \o u
    BY <1>2, <2>1, <2>2
  <2>5. s \o t = <<x>> \o (u \o t)
    BY ONLY <2>2, <2>3, <2>4, t \in Seq(T), ConcatAssociative
  <2>6. QED
    BY ONLY <2>1, <2>2, <2>3, <2>5, ConsProperties
<1>3. ASSUME t # <<>>
      PROVE  Append(s, Head(t)) \o Tail(t) = s \o t
  <2>1. PICK x, u : x = Head(t) /\ u = Tail(t)
    OBVIOUS
  <2>2. x \in T /\ u \in Seq(T)
    BY <1>3, <2>1
  <2>3. <<x>> \in Seq(T)
    BY <2>2
  <2>4. t = <<x>> \o u
    BY <1>3, <2>1, <2>2
  <2>5. Append(s, x) = s \o <<x>>
    BY <2>2
  <2>6. QED
    BY ONLY <2>1, <2>2, <2>3, <2>4, <2>5, s \in Seq(T), ConcatAssociative
<1>4. QED
  BY <1>1, <1>2, <1>3

\* A step of the card that is on, as far as the driver has nothing to do with it.
LEMMA CardFrame ==
  ASSUME NEW sm, NEW dv, NEW cs, NEW la, SimInvOf(sm, dv, cs, la), sm.active \in Slot,
         NEW e \in CardType, e.is = cs[sm.active].is, e.st = "off" => e.out = <<>>,
         NEW ds, ds = [cs EXCEPT ![sm.active] = e],
         NEW dw \in DevType, dw.supply = dv.supply, dw.clock = dv.clock, dw.sel = dv.sel,
         sm.pc = "out" /\ sm.clean => e = cs[sm.active] \/ e.st = "off",
         Answers(sm, dw, e), InStep(sm, dw, e)
  PROVE  SimInvOf(sm, dw, ds, la)
<1>1. /\ sm \in SimType /\ cs \in [Slot -> CardType] /\ OneIsOn(sm, dv, cs)
      /\ Activated(sm, dv, la, cs[sm.active]) /\ Exchanged(sm, la, cs[sm.active]) /\ Counted(sm)
  BY DEF SimInvOf, SimTyped
<1>2. PICK a \in Slot : a = sm.active
  OBVIOUS
<1>3. ds \in [Slot -> CardType] /\ ds[a] = e /\ \A s \in Slot : s # a => ds[s] = cs[s]
  BY <1>1, <1>2
<1>4. SimTyped(sm, dw, ds)
  BY <1>1, <1>3 DEF SimTyped
<1>5. OneIsOn(sm, dw, ds)
  <2>1. \A s \in Slot : ds[s].st = "off" => ds[s].out = <<>>
    BY <1>1, <1>2, <1>3 DEF OneIsOn
  <2>2. \A s \in Slot : s # sm.active => ds[s].st = "off"
    BY <1>1, <1>2, <1>3 DEF OneIsOn
  <2>3. QED
    BY ONLY <1>1, <2>1, <2>2, dw.supply = dv.supply, dw.clock = dv.clock, dw.sel = dv.sel DEF OneIsOn
<1>6. Activated(sm, dw, la, e)
  BY ONLY <1>1, e.is = cs[sm.active].is, dw.supply = dv.supply DEF Activated
<1>7. Exchanged(sm, la, e)
  BY <1>1 DEF Exchanged
<1>8. ds[sm.active] = e
  BY <1>2, <1>3
<1>9. QED
  BY <1>1, <1>4, <1>5, <1>6, <1>7, <1>8 DEF SimInvOf

\* A character goes from the card to the controller.
LEMMA CardCharKeeps ==
  ASSUME SimInv, NEW s \in Slot, CardChar(s)
  PROVE  SimInv'
<1>1. PICK sm, dv, cs, la : sm = sim /\ dv = dev /\ cs = cards /\ la = last
  OBVIOUS
<1>2. PICK c, e, dw, ds : /\ c = cs[s] /\ e = [c EXCEPT !.out = Tail(c.out)]
                          /\ dw = [dv EXCEPT !.rx = Append(dv.rx, Head(c.out))]
                          /\ ds = [cs EXCEPT ![s] = e]
  OBVIOUS
<1>3. c.out # <<>> /\ sim' = sm /\ last' = la /\ dev' = dw /\ cards' = ds
  BY <1>1, <1>2 DEF CardChar
<1>4. SimInvOf(sm, dv, cs, la)
  BY <1>1 DEF SimInv
<1>5. sm \in SimType /\ dv \in DevType /\ cs \in [Slot -> CardType] /\ OneIsOn(sm, dv, cs)
  BY <1>4 DEF SimInvOf, SimTyped
<1>6. c \in CardType /\ s = sm.active
  BY <1>2, <1>3, <1>5 DEF OneIsOn
<1>7. c.out \in Seq(CharType) /\ dv.rx \in Seq(CharType)
  BY <1>5, <1>6 DEF CardType, DevType
<1>8. Tail(c.out) \in Seq(CharType) /\ Head(c.out) \in CharType /\ Append(dv.rx, Head(c.out)) \in Seq(CharType)
  BY <1>3, <1>7
<1>9. /\ e \in CardType /\ e.out = Tail(c.out)
      /\ e.is = c.is /\ e.st = c.st /\ e.cmd = c.cmd /\ e.did = c.did /\ e.got = c.got
  BY ONLY <1>2, <1>6, <1>8 DEF CardType
<1>10. /\ dw \in DevType /\ dw.rx = Append(dv.rx, Head(c.out))
       /\ dw.supply = dv.supply /\ dw.clock = dv.clock /\ dw.sel = dv.sel
  BY ONLY <1>2, <1>5, <1>8 DEF DevType
<1>11. dw.rx \o e.out = dv.rx \o c.out
  <2>1. Append(dv.rx, Head(c.out)) \o Tail(c.out) = dv.rx \o c.out
    BY ONLY <1>3, <1>7, Shift, ZenonT(60)
  <2>2. QED
    BY ONLY <1>9, <1>10, <2>1
<1>12. c.st # "off" /\ c = cs[sm.active]
  BY <1>2, <1>3, <1>5, <1>6 DEF OneIsOn
<1>13. Answers(sm, dw, e)
  <2>1. Answers(sm, dv, c)
    BY <1>4, <1>12 DEF SimInvOf
  <2>2. All(sm, dw, e) = All(sm, dv, c)
    BY ONLY <1>11 DEF All
  <2>3. QED
    BY ONLY <1>9, <1>10, <2>1, <2>2 DEF Answers
<1>14. InStep(sm, dv, c)
  BY <1>4, <1>12 DEF SimInvOf
<1>15. InStep(sm, dw, e)
  <2>1. There(e) = There(c)
    BY ONLY <1>9 DEF There
  <2>2. Joined(sm, dv, c, sm.conv) => Joined(sm, dw, e, sm.conv)
    BY ONLY <1>9, <1>11, <2>1 DEF Joined
  <2>3. sm.pc = "out" => ~sm.clean
    BY ONLY <1>3, <1>12, <1>14 DEF InStep
  <2>4. QED
    BY ONLY <1>9, <1>14, <2>2, <2>3 DEF InStep
<1>16. sm.pc = "out" => ~sm.clean
  BY ONLY <1>3, <1>12, <1>14 DEF InStep
<1>17. SimInvOf(sm, dw, ds, la)
  <2>1. ds = [cs EXCEPT ![sm.active] = e] /\ sm.active \in Slot
    BY <1>2, <1>6
  <2>2. QED
    BY ONLY <1>4, <1>9, <1>10, <1>12, <1>13, <1>15, <1>16, <2>1, CardFrame
<1>18. QED
  BY <1>3, <1>17 DEF SimInv

\* The card stops, with what it sent still to be read.
LEMMA CardStopsKeeps ==
  ASSUME SimInv, NEW s \in Slot, CardStops(s)
  PROVE  SimInv'
<1>1. PICK sm, dv, cs, la : sm = sim /\ dv = dev /\ cs = cards /\ la = last
  OBVIOUS
<1>2. PICK c, e, ds : c = cs[s] /\ e = Off(c.is) /\ ds = [cs EXCEPT ![s] = e]
  OBVIOUS
<1>3. c.st # "off" /\ sim' = sm /\ last' = la /\ dev' = dv /\ cards' = ds
  BY <1>1, <1>2 DEF CardStops
<1>4. SimInvOf(sm, dv, cs, la)
  BY <1>1 DEF SimInv
<1>5. sm \in SimType /\ dv \in DevType /\ cs \in [Slot -> CardType] /\ OneIsOn(sm, dv, cs)
  BY <1>4 DEF SimInvOf, SimTyped
<1>6. c \in CardType /\ s = sm.active /\ c = cs[sm.active]
  BY <1>2, <1>3, <1>5 DEF OneIsOn
<1>7. e \in CardType /\ e.st = "off" /\ e.out = <<>> /\ e.is = c.is
  BY <1>2, <1>6, OffType DEF CardType
<1>8. c.out \in Seq(CharType) /\ dv.rx \in Seq(CharType) /\ sm.raw \in Seq(CharType)
  BY <1>5, <1>6 DEF CardType, DevType, SimType
<1>9. dv.rx \o e.out = dv.rx
  BY ONLY <1>7, <1>8, ConcatEmptySeq
<1>10. Answers(sm, dv, e)
  <2>1. Answers(sm, dv, c)
    BY <1>4, <1>6 DEF SimInvOf
  <2>2. PICK p, q : p = All(sm, dv, c) /\ q = All(sm, dv, e)
    OBVIOUS
  <2>3. q = sm.raw \o dv.rx
    BY ONLY <1>9, <2>2 DEF All
  <2>4. q \in Seq(CharType)
    BY ONLY <1>8, <2>3, ConcatProperties
  <2>5. p = q \o c.out
    <3>1. p = sm.raw \o (dv.rx \o c.out)
      BY ONLY <2>2 DEF All
    <3>2. QED
      <4>1. (sm.raw \o dv.rx) \o c.out = sm.raw \o (dv.rx \o c.out)
        <5>1. PICK x, y, z : x = sm.raw /\ y = dv.rx /\ z = c.out
          OBVIOUS
        <5>2. (x \o y) \o z = x \o (y \o z)
          <6>1. x \in Seq(CharType) /\ y \in Seq(CharType) /\ z \in Seq(CharType)
            BY ONLY <1>8, <5>1
          <6>2. QED
            BY ONLY <6>1, ConcatAssociative
        <5>3. QED
          BY ONLY <5>1, <5>2
      <4>2. QED
        BY ONLY <2>3, <3>1, <4>1
  <2>6. /\ p \in Seq(CharType) /\ Len(p) = Len(q) + Len(c.out)
        /\ \A i \in 1 .. Len(q) + Len(c.out) : p[i] = IF i <= Len(q) THEN q[i] ELSE c.out[i - Len(q)]
    BY ONLY <1>8, <2>4, <2>5, ConcatProperties
  <2>7. Len(q) \in Nat /\ Len(c.out) \in Nat
    BY <1>8, <2>4
  <2>8. q # <<>> => p # <<>>
    <3>1. ASSUME p = <<>> PROVE Len(q) = 0
      BY <2>6, <2>7, <3>1
    <3>2. QED
      BY ONLY <2>4, <3>1, EmptySeq
  <2>9. ASSUME c.is # NoCard, Came(c.is, p) PROVE Came(c.is, q)
    <3>1. Len(q) <= Len(p)
      BY <2>6, <2>7
    <3>2. \A i \in 1 .. Len(q) : i \in 1 .. Len(q) + Len(c.out) /\ i \in 1 .. Len(p) /\ i <= Len(q)
      BY <2>6, <2>7
    <3>3. \A i \in 1 .. Len(q) : q[i] = p[i]
      BY ONLY <2>6, <3>2
    <3>4. \A i \in 1 .. Len(q) : q[i] = AtrOf(c.is)[i]
      BY ONLY <2>9, <3>2, <3>3 DEF Came
    <3>5. Len(q) <= Len(AtrOf(c.is))
      <4>1. Len(AtrOf(c.is)) \in Nat
        <5>1. IsCard(c.is)
          BY <1>6, <2>9, PresentCards DEF CardType
        <5>2. AtrOf(c.is) \in Seq(CharType)
          BY <5>1, AtrIs
        <5>3. QED
          BY <5>2
      <4>2. Len(p) <= Len(AtrOf(c.is)) /\ Len(p) \in Nat
        BY <2>6, <2>9 DEF Came
      <4>3. QED
        BY <2>7, <3>1, <4>1, <4>2
    <3>6. QED
      BY <2>4, <3>4, <3>5 DEF Came
  <2>10. QED
    BY ONLY <1>7, <2>1, <2>2, <2>8, <2>9 DEF Answers
<1>11. InStep(sm, dv, e)
  <2>1. InStep(sm, dv, c)
    BY <1>4, <1>6 DEF SimInvOf
  <2>2. ASSUME Joined(sm, dv, c, sm.conv) PROVE Joined(sm, dv, e, sm.conv)
    <3>1. PICK r \in Place : Stream(dv.rx \o c.out, Here(sm), r, sm.cmd, sm.conv)
      BY <2>2 DEF Joined
    <3>2. PICK z \in Place : Stream(dv.rx, Here(sm), z, sm.cmd, sm.conv)
      BY ONLY <1>8, <3>1, StreamPrefix
    <3>3. QED
      BY <1>7, <1>9, <3>2 DEF Joined
  <2>3. QED
    BY ONLY <1>7, <2>1, <2>2 DEF InStep
<1>12. SimInvOf(sm, dv, ds, la)
  <2>1. ds = [cs EXCEPT ![sm.active] = e] /\ sm.active \in Slot
    BY <1>2, <1>6
  <2>2. QED
    BY ONLY <1>4, <1>5, <1>6, <1>7, <1>10, <1>11, <2>1, CardFrame
<1>13. QED
  BY <1>3, <1>12 DEF SimInv

\* What a card sends, in its own convention.
SentAs(z, chars, inv) ==
  /\ z \in Seq(CharType) /\ Len(z) = Len(chars)
  /\ \A i \in 1 .. Len(chars) :
       z[i].k = chars[i].k /\ z[i].v = chars[i].v /\ (z[i].inv <=> inv)

\* Sends does that.
LEMMA SendsIs ==
  ASSUME NEW s \in Slot, NEW chars, chars \in Seq(CharType), NEW z, z = Sends(s, chars),
         NEW inv, inv \in BOOLEAN, inv = (cards[s].is.ts = "inverse")
  PROVE  SentAs(z, chars, inv)
<1>1. inv \in BOOLEAN /\ inv = (cards[s].is.ts = "inverse")
  OBVIOUS
<1>2. PICK n \in Nat : n = Len(chars)
  OBVIOUS
<1>3. z = [i \in 1 .. n |-> [chars[i] EXCEPT !.inv = inv]]
  <2>1. DOMAIN chars = 1 .. n
    BY <1>2
  <2>2. QED
    BY ONLY <1>1, <2>1, z = Sends(s, chars) DEF Sends
<1>4. ASSUME NEW i \in 1 .. n
      PROVE  /\ z[i] \in CharType
             /\ z[i].k = chars[i].k /\ z[i].v = chars[i].v /\ z[i].inv = inv
  <2>1. PICK x \in CharType : x = chars[i]
    BY <1>2
  <2>2. PICK w : w = [x EXCEPT !.inv = inv]
    OBVIOUS
  <2>3. z[i] = w
    BY ONLY <1>3, <1>4, <2>1, <2>2
  <2>4. w \in CharType /\ w.k = x.k /\ w.y = x.y /\ w.v = x.v /\ w.inv = inv
    BY ONLY <1>1, <2>2, x \in CharType DEF CharType
  <2>5. QED
    BY ONLY <2>1, <2>3, <2>4
<1>5. z = [i \in 1 .. n |-> z[i]]
  BY ONLY <1>3
<1>6. z \in Seq(CharType) /\ Len(z) = n
  BY <1>4, <1>5
<1>7. QED
  BY ONLY <1>2, <1>4, <1>6 DEF SentAs

\* What SimAssumption says of commands.
LEMMA CommandLength ==
  ASSUME NEW m \in Commands \cup {NoCmd}
  PROVE  /\ m.len \in Nat
         /\ m \in Commands => m.kind \in {"to", "from"} /\ m # NoCmd
BY SimAssumption DEF NoCmd

\* The card's place is one.
LEMMA ThereType ==
  ASSUME NEW c \in CardType
  PROVE  There(c) \in Place
<1>1. PICK a, d : a = (IF c.st = "cmd" THEN "t0" ELSE IF c.st = "take" THEN "gives" ELSE "over") /\ d = c.did
  OBVIOUS
<1>2. There(c) = [at |-> a, done |-> d, want |-> 0]
  BY ONLY <1>1 DEF There
<1>3. a \in {"t0", "gives", "over"} /\ d \in Nat
  BY <1>1 DEF CardType
<1>4. QED
  BY ONLY <1>2, <1>3 DEF Place

\* What the card sends next in an exchange takes the driver where the card is then.
CardGoes(c, e, inv) ==
  /\ e \in CardType /\ e.is = c.is /\ e.st # "off" /\ e.cmd = c.cmd
  /\ c.cmd.kind = "to" => e.did = c.did /\ e.got = c.got
  /\ inv \in BOOLEAN /\ (inv <=> c.is.ts = "inverse")
  /\ Stream(e.out, There(c), There(e), c.cmd, inv)

\* A card in a command sends what takes the driver where the card is then.
LEMMA CardSends ==
  ASSUME NEW sm, NEW dv, NEW cs, NEW la, SimInvOf(sm, dv, cs, la), NEW s \in Slot,
         NEW c, c = cs[s], c.st = "cmd", c.out = <<>>,
         NEW e, NEW inv, CardGoes(c, e, inv),
         NEW ds, ds = [cs EXCEPT ![s] = e]
  PROVE  SimInvOf(sm, dv, ds, la)
<1>0. /\ e \in CardType /\ e.is = c.is /\ e.st # "off" /\ e.cmd = c.cmd
      /\ c.cmd.kind = "to" => e.did = c.did /\ e.got = c.got
      /\ inv \in BOOLEAN /\ (inv <=> c.is.ts = "inverse")
      /\ Stream(e.out, There(c), There(e), c.cmd, inv)
  BY DEF CardGoes
<1>1. sm \in SimType /\ dv \in DevType /\ cs \in [Slot -> CardType] /\ OneIsOn(sm, dv, cs)
  BY DEF SimInvOf, SimTyped
<1>2. s = sm.active /\ c \in CardType
  BY <1>1 DEF OneIsOn
<1>3. Answers(sm, dv, c) /\ InStep(sm, dv, c)
  BY <1>2 DEF SimInvOf
<1>4. sm.pc # "atr"
  BY <1>3 DEF Answers
<1>5. Answers(sm, dv, e)
  BY <1>4 DEF Answers
<1>6. ASSUME sm.clean PROVE sm.pc # "out"
  BY <1>3, <1>6 DEF InStep
<1>7. dv.rx \in Seq(CharType) /\ e.out \in Seq(CharType) /\ sm.conv \in BOOLEAN
  BY <1>0, <1>1 DEF DevType, CardType, SimType
<1>8. ASSUME sm.clean
      PROVE  Joined(sm, dv, e, sm.conv)
  <2>1. sm.conv = inv
    BY <1>0, <1>3, <1>7, <1>8 DEF InStep
  <2>2. PICK r \in Place :
          /\ Stream(dv.rx \o c.out, Here(sm), r, sm.cmd, inv)
          /\ r = There(c) /\ c.cmd = sm.cmd /\ (sm.cmd.kind = "to" => c.got = OneTo(c.did))
    BY <1>3, <1>6, <1>8, <2>1 DEF InStep, Joined
  <2>3. dv.rx \o c.out = dv.rx
    BY ONLY <1>7, c.out = <<>>, ConcatEmptySeq
  <2>4. Stream(dv.rx, Here(sm), There(c), sm.cmd, inv) /\ Stream(e.out, There(c), There(e), sm.cmd, inv)
    BY <1>0, <2>2, <2>3
  <2>5. Stream(dv.rx \o e.out, Here(sm), There(e), sm.cmd, inv)
    <3>1. PICK p, q, z : p = Here(sm) /\ q = There(c) /\ z = There(e)
      OBVIOUS
    <3>2. Stream(dv.rx, p, q, sm.cmd, inv) /\ Stream(e.out, q, z, sm.cmd, inv)
      BY ONLY <2>4, <3>1
    <3>3. Stream(dv.rx \o e.out, p, z, sm.cmd, inv)
      BY ONLY <1>7, <3>2, StreamJoin
    <3>4. QED
      BY ONLY <3>1, <3>3
  <2>6. There(e) \in Place
    BY <1>0, ThereType
  <2>7. e.cmd = sm.cmd /\ (sm.cmd.kind = "to" => e.got = OneTo(e.did))
    BY <1>0, <2>2
  <2>8. QED
    BY <2>1, <2>5, <2>6, <2>7 DEF Joined
<1>9. InStep(sm, dv, e)
  BY ONLY <1>0, <1>3, <1>6, <1>8 DEF InStep
<1>10. /\ ds = [cs EXCEPT ![sm.active] = e] /\ sm.active \in Slot
       /\ e.is = cs[sm.active].is
       /\ sm.pc = "out" /\ sm.clean => e = cs[sm.active] \/ e.st = "off"
  BY <1>0, <1>2, <1>6
<1>11. QED
  BY ONLY <1>1, <1>5, <1>9, <1>0, <1>10, SimInvOf(sm, dv, cs, la), CardFrame

\* A NULL.
LEMMA CardNullKeeps ==
  ASSUME SimInv, NEW s \in Slot, CardNull(s)
  PROVE  SimInv'
<1>1. PICK sm, dv, cs, la : sm = sim /\ dv = dev /\ cs = cards /\ la = last
  OBVIOUS
<1>2. PICK c, x, z : c = cs[s] /\ x = Char("null", {}, {}) /\ z = Sends(s, <<x>>)
  OBVIOUS
<1>3. PICK e, ds : e = [c EXCEPT !.out = z] /\ ds = [cs EXCEPT ![s] = e]
  OBVIOUS
<1>4. c.st = "cmd" /\ c.out = <<>> /\ sim' = sm /\ last' = la /\ dev' = dv /\ cards' = ds
  BY <1>1, <1>2, <1>3 DEF CardNull, CardMay
<1>5. SimInvOf(sm, dv, cs, la)
  BY <1>1 DEF SimInv
<1>6. c \in CardType
  BY <1>2, <1>5 DEF SimInvOf, SimTyped
<1>7. x \in CharType /\ x.k = "null"
  BY <1>2, CharOf DEF Kind, Char
<1>8. PICK inv \in BOOLEAN : inv = (c.is.ts = "inverse")
  OBVIOUS
<1>9. z \in Seq(CharType) /\ Len(z) = 1 /\ z[1].k = "null" /\ (z[1].inv <=> inv)
  <2>1. <<x>> \in Seq(CharType) /\ Len(<<x>>) = 1 /\ <<x>>[1] = x /\ 1 \in 1 .. 1
    BY <1>7
  <2>2. PICK w : w = <<x>>
    OBVIOUS
  <2>3. w \in Seq(CharType) /\ z = Sends(s, w) /\ inv \in BOOLEAN /\ inv = (cards[s].is.ts = "inverse")
    BY <1>1, <1>2, <1>8, <2>1, <2>2
  <2>4. SentAs(z, w, inv)
    BY ONLY <2>3, s \in Slot, SendsIs
  <2>5. QED
    BY ONLY <1>7, <2>1, <2>2, <2>4 DEF SentAs
<1>10. /\ e \in CardType /\ e.out = z
       /\ e.is = c.is /\ e.st = c.st /\ e.cmd = c.cmd /\ e.did = c.did /\ e.got = c.got
  BY ONLY <1>3, <1>6, <1>9 DEF CardType
<1>11. PICK y, p : y = z[1] /\ p = There(c)
  OBVIOUS
<1>12. p \in Place /\ p.at = "t0" /\ There(e) = p
  BY <1>4, <1>6, <1>10, <1>11, ThereType DEF There
<1>13. May(p, y, c.cmd, inv) /\ Then(p, y, c.cmd) = p
  BY ONLY <1>9, <1>11, <1>12 DEF May, Then
<1>14. c.cmd.len \in Nat
  BY <1>6, CommandLength DEF CardType
<1>15. Stream(z, p, p, c.cmd, inv)
  <2>1. z = <<y>>
    BY ONLY <1>9, <1>11
  <2>2. Stream(<<y>>, p, Then(p, y, c.cmd), c.cmd, inv)
    BY ONLY <1>12, <1>13, <1>14, StreamOne
  <2>3. QED
    BY ONLY <1>13, <2>1, <2>2
<1>16. SimInvOf(sm, dv, ds, la)
  <2>1. CardGoes(c, e, inv)
    BY ONLY <1>4, <1>8, <1>10, <1>11, <1>12, <1>15, inv \in BOOLEAN DEF CardGoes
  <2>2. QED
    BY ONLY <1>2, <1>3, <1>4, <1>5, <2>1, s \in Slot, CardSends
<1>17. QED
  BY <1>4, <1>16 DEF SimInv

\* The status.
LEMMA CardStatusKeeps ==
  ASSUME SimInv, NEW s \in Slot, CardStatus(s)
  PROVE  SimInv'
<1>1. PICK sm, dv, cs, la : sm = sim /\ dv = dev /\ cs = cards /\ la = last
  OBVIOUS
<1>2. PICK c, x, y, z : /\ c = cs[s] /\ x = Char("sw1", {}, {}) /\ y = Char("sw2", {}, {})
                        /\ z = Sends(s, <<x, y>>)
  OBVIOUS
<1>3. PICK e, ds : e = [c EXCEPT !.st = "idle", !.out = z] /\ ds = [cs EXCEPT ![s] = e]
  OBVIOUS
<1>4. c.st = "cmd" /\ c.out = <<>> /\ sim' = sm /\ last' = la /\ dev' = dv
  BY <1>1, <1>2 DEF CardStatus, CardMay
<1>5. SimInvOf(sm, dv, cs, la)
  BY <1>1 DEF SimInv
<1>6. c \in CardType /\ cs \in [Slot -> CardType]
  BY <1>2, <1>5 DEF SimInvOf, SimTyped
<1>7. cards' = ds
  <2>1. cards' = [cs EXCEPT ![s].st = "idle", ![s].out = z]
    BY <1>1, <1>2 DEF CardStatus
  <2>2. QED
    BY <1>2, <1>3, <1>6, <2>1
<1>8. x \in CharType /\ x.k = "sw1" /\ y \in CharType /\ y.k = "sw2"
  BY <1>2, CharOf DEF Kind, Char
<1>9. PICK inv \in BOOLEAN : inv = (c.is.ts = "inverse")
  OBVIOUS
<1>10. /\ z \in Seq(CharType) /\ Len(z) = 2
       /\ z[1].k = "sw1" /\ (z[1].inv <=> inv) /\ z[2].k = "sw2" /\ (z[2].inv <=> inv)
  <2>1. /\ <<x, y>> \in Seq(CharType) /\ Len(<<x, y>>) = 2 /\ <<x, y>>[1] = x /\ <<x, y>>[2] = y
        /\ 1 \in 1 .. 2 /\ 2 \in 1 .. 2
    BY <1>8
  <2>2. PICK w : w = <<x, y>>
    OBVIOUS
  <2>3. w \in Seq(CharType) /\ z = Sends(s, w) /\ inv \in BOOLEAN /\ inv = (cards[s].is.ts = "inverse")
    BY <1>1, <1>2, <1>9, <2>1, <2>2
  <2>4. SentAs(z, w, inv)
    BY ONLY <2>3, s \in Slot, SendsIs
  <2>5. QED
    BY ONLY <1>8, <2>1, <2>2, <2>4 DEF SentAs
<1>11. /\ e \in CardType /\ e.out = z
       /\ e.is = c.is /\ e.st = "idle" /\ e.cmd = c.cmd /\ e.did = c.did /\ e.got = c.got
  BY ONLY <1>3, <1>6, <1>10 DEF CardType
<1>12. PICK a, b, p, q, r : /\ a = z[1] /\ b = z[2] /\ p = There(c)
                            /\ q = Then(p, a, c.cmd) /\ r = Then(q, b, c.cmd)
  OBVIOUS
<1>13. p \in Place /\ p = [at |-> "t0", done |-> c.did, want |-> 0] /\ p.at = "t0"
  BY <1>4, <1>6, <1>12, ThereType DEF There
<1>14. c.cmd.len \in Nat
  BY <1>6, CommandLength DEF CardType
<1>15. May(p, a, c.cmd, inv) /\ q = [at |-> "sw2", done |-> c.did, want |-> 0]
  BY ONLY <1>10, <1>12, <1>13 DEF May, Then
<1>16. q \in Place
  BY ONLY <1>12, <1>13, <1>14, <1>15, ThenType
<1>17. May(q, b, c.cmd, inv) /\ r = [at |-> "over", done |-> c.did, want |-> 0]
  BY ONLY <1>10, <1>12, <1>15 DEF May, Then
<1>18. r = There(e)
  BY ONLY <1>11, <1>17 DEF There
<1>19. Stream(z, p, r, c.cmd, inv)
  <2>1. a \in CharType /\ b \in CharType
    <3>1. 1 \in 1 .. Len(z) /\ 2 \in 1 .. Len(z)
      BY <1>10
    <3>2. z \in [1 .. Len(z) -> CharType]
      BY ONLY <1>10, LenProperties
    <3>3. QED
      BY ONLY <1>12, <3>1, <3>2
  <2>2. z = <<a>> \o <<b>>
    BY <1>10, <1>12, <2>1
  <2>3. Stream(<<a>>, p, q, c.cmd, inv) /\ Stream(<<b>>, q, r, c.cmd, inv)
    BY ONLY <1>12, <1>13, <1>14, <1>15, <1>16, <1>17, StreamOne
  <2>4. <<a>> \in Seq(CharType) /\ <<b>> \in Seq(CharType)
    BY <2>1
  <2>5. QED
    BY ONLY <2>2, <2>3, <2>4, StreamJoin
<1>20. SimInvOf(sm, dv, ds, la)
  <2>1. CardGoes(c, e, inv)
    BY ONLY <1>4, <1>9, <1>11, <1>12, <1>18, <1>19, inv \in BOOLEAN DEF CardGoes
  <2>2. QED
    BY ONLY <1>2, <1>3, <1>4, <1>5, <2>1, s \in Slot, CardSends
<1>21. QED
  BY <1>4, <1>7, <1>20 DEF SimInv

\* A procedure byte, and the bytes it announces.
LEMMA CardAckKeeps ==
  ASSUME SimInv, NEW s \in Slot, CardAck(s)
  PROVE  SimInv'
<1>1. PICK sm, dv, cs, la : sm = sim /\ dv = dev /\ cs = cards /\ la = last
  OBVIOUS
<1>2. PICK c : c = cs[s]
  OBVIOUS
<1>3. c.st = "cmd" /\ c.out = <<>> /\ c.did < c.cmd.len /\ sim' = sm /\ last' = la /\ dev' = dv
  BY <1>1, <1>2 DEF CardAck, CardMay
<1>4. SimInvOf(sm, dv, cs, la)
  BY <1>1 DEF SimInv
<1>5. c \in CardType /\ cs \in [Slot -> CardType]
  BY <1>2, <1>4 DEF SimInvOf, SimTyped
<1>6. c.cmd.len \in Nat /\ c.did \in Nat
  BY <1>5, CommandLength DEF CardType
<1>7. PICK k \in {"all", "one"} :
        cards' = [cards EXCEPT ![s] =
          IF c.cmd.kind = "to" THEN [c EXCEPT !.st = "take", !.out = Sends(s, <<Char(k, {}, {})>>)]
          ELSE [c EXCEPT !.out = Sends(s, <<Char(k, {}, {})>> \o Bytes(c.did, IF k = "one" THEN 1 ELSE c.cmd.len - c.did)),
                         !.did = c.did + (IF k = "one" THEN 1 ELSE c.cmd.len - c.did)]]
  <2>1. \E k \in {"all", "one"} :
        cards' = [cards EXCEPT ![s] =
          IF cards[s].cmd.kind = "to" THEN [cards[s] EXCEPT !.st = "take", !.out = Sends(s, <<Char(k, {}, {})>>)]
          ELSE [cards[s] EXCEPT !.out = Sends(s, <<Char(k, {}, {})>> \o Bytes(cards[s].did, IF k = "one" THEN 1 ELSE cards[s].cmd.len - cards[s].did)),
                         !.did = cards[s].did + (IF k = "one" THEN 1 ELSE cards[s].cmd.len - cards[s].did)]]
    BY Zenon DEF CardAck
  <2>2. c = cards[s]
    BY <1>1, <1>2
  <2>3. QED
    BY ONLY <2>1, <2>2
<1>8. PICK inv \in BOOLEAN : inv = (c.is.ts = "inverse")
  OBVIOUS
<1>9. PICK x, p : x = Char(k, {}, {}) /\ p = There(c)
  OBVIOUS
<1>10. x \in CharType /\ x.k = k /\ x.k \in {"all", "one"}
  BY <1>9, CharOf DEF Kind, Char
<1>11. p \in Place /\ p = [at |-> "t0", done |-> c.did, want |-> 0]
  BY <1>3, <1>5, <1>9, ThereType DEF There
<1>12. CASE c.cmd.kind = "to"
  <2>1. PICK z, e, ds : /\ z = Sends(s, <<x>>) /\ e = [c EXCEPT !.st = "take", !.out = z]
                        /\ ds = [cs EXCEPT ![s] = e]
    OBVIOUS
  <2>2. cards' = ds
    BY ONLY <1>1, <1>7, <1>9, <1>12, <2>1
  <2>3. z \in Seq(CharType) /\ Len(z) = 1 /\ z[1].k = k /\ (z[1].inv <=> inv)
    <3>1. <<x>> \in Seq(CharType) /\ Len(<<x>>) = 1 /\ <<x>>[1] = x /\ 1 \in 1 .. 1
      BY <1>10
    <3>2. PICK w : w = <<x>>
      OBVIOUS
    <3>3. w \in Seq(CharType) /\ z = Sends(s, w) /\ inv \in BOOLEAN /\ inv = (cards[s].is.ts = "inverse")
      BY <1>1, <1>2, <1>8, <2>1, <3>1, <3>2
    <3>4. SentAs(z, w, inv)
      BY ONLY <3>3, s \in Slot, SendsIs
    <3>5. QED
      BY ONLY <1>10, <3>1, <3>2, <3>4 DEF SentAs
  <2>4. /\ e \in CardType /\ e.out = z
        /\ e.is = c.is /\ e.st = "take" /\ e.cmd = c.cmd /\ e.did = c.did /\ e.got = c.got
    BY ONLY <1>5, <2>1, <2>3 DEF CardType
  <2>5. PICK y, q : y = z[1] /\ q = Then(p, y, c.cmd)
    OBVIOUS
  <2>6. May(p, y, c.cmd, inv)
    BY ONLY <1>3, <1>11, <2>3, <2>5, k \in {"all", "one"} DEF May
  <2>7. q = [at |-> "gives", done |-> c.did, want |-> 0]
    BY ONLY <1>10, <1>11, <1>12, <2>3, <2>5 DEF Then
  <2>8. q = There(e)
    BY ONLY <2>4, <2>7 DEF There
  <2>9. Stream(z, p, q, c.cmd, inv)
    <3>1. z = <<y>>
      BY ONLY <2>3, <2>5
    <3>2. Stream(<<y>>, p, Then(p, y, c.cmd), c.cmd, inv)
      BY ONLY <1>6, <1>11, <2>6, StreamOne
    <3>3. QED
      BY ONLY <2>5, <3>1, <3>2
  <2>10. SimInvOf(sm, dv, ds, la)
    <3>1. CardGoes(c, e, inv)
      BY ONLY <1>3, <1>8, <1>9, <2>4, <2>8, <2>9, inv \in BOOLEAN DEF CardGoes
    <3>2. QED
      BY ONLY <1>2, <1>3, <1>4, <2>1, <3>1, s \in Slot, CardSends
  <2>11. QED
    BY <1>3, <2>2, <2>10 DEF SimInv
<1>13. CASE c.cmd.kind # "to"
  <2>1. PICK n : n = IF k = "one" THEN 1 ELSE c.cmd.len - c.did
    OBVIOUS
  <2>2. n \in Nat \ {0}
    BY ONLY <1>3, <1>6, <2>1
  <2>3. PICK b, w : b = Bytes(c.did, n) /\ w = <<x>> \o b
    OBVIOUS
  <2>4. PICK z, e, ds : /\ z = Sends(s, w) /\ e = [c EXCEPT !.out = z, !.did = c.did + n]
                        /\ ds = [cs EXCEPT ![s] = e]
    OBVIOUS
  <2>5. cards' = ds
    BY ONLY <1>1, <1>7, <1>9, <1>13, <2>1, <2>3, <2>4
  <2>6. b \in Seq(CharType) /\ Len(b) = n /\ \A i \in 1 .. n : b[i].k = "byte" /\ b[i].v = {c.did + i}
    <3>1. ASSUME NEW i \in 1 .. n
          PROVE  /\ Char("byte", {}, {c.did + i}) \in CharType
                 /\ Char("byte", {}, {c.did + i}).k = "byte" /\ Char("byte", {}, {c.did + i}).v = {c.did + i}
      <4>1. c.did + i \in Nat
        BY <1>6, <2>2
      <4>2. {c.did + i} \in SUBSET Value
        BY <4>1 DEF Value
      <4>3. QED
        BY <4>2, CharOf DEF Kind, Char
    <3>2. b = [i \in 1 .. n |-> Char("byte", {}, {c.did + i})]
      BY ONLY <2>3 DEF Bytes
    <3>3. b \in Seq(CharType) /\ Len(b) = n
      <4>1. \A i \in 1 .. n : b[i] \in CharType
        BY ONLY <3>1, <3>2
      <4>2. b = [i \in 1 .. n |-> b[i]] /\ n \in Nat
        BY ONLY <2>2, <3>2
      <4>3. QED
        BY ONLY <4>1, <4>2
    <3>4. QED
      BY ONLY <3>1, <3>2, <3>3
  <2>7. /\ w \in Seq(CharType) /\ Len(w) = 1 + n /\ w[1] = x
        /\ \A i \in 1 .. n : w[i + 1] = b[i]
    <3>1. <<x>> \in Seq(CharType) /\ Len(<<x>>) = 1 /\ <<x>>[1] = x
      BY <1>10
    <3>2. /\ w \in Seq(CharType) /\ Len(w) = 1 + n
          /\ \A i \in 1 .. 1 + n : w[i] = IF i <= 1 THEN <<x>>[i] ELSE b[i - 1]
      BY ONLY <2>3, <2>6, <3>1, ConcatProperties
    <3>3. 1 \in 1 .. 1 + n /\ \A i \in 1 .. n : i + 1 \in 1 .. 1 + n /\ ~(i + 1 <= 1) /\ i + 1 - 1 = i
      BY <2>2
    <3>4. QED
      BY ONLY <3>1, <3>2, <3>3
  <2>8. /\ z \in Seq(CharType) /\ Len(z) = 1 + n
        /\ \A i \in 1 .. 1 + n : z[i].k = w[i].k /\ z[i].v = w[i].v /\ (z[i].inv <=> inv)
    <3>1. w \in Seq(CharType) /\ z = Sends(s, w) /\ inv \in BOOLEAN /\ inv = (cards[s].is.ts = "inverse")
      BY <1>1, <1>2, <1>8, <2>4, <2>7
    <3>2. SentAs(z, w, inv)
      BY ONLY <3>1, s \in Slot, SendsIs
    <3>3. QED
      BY ONLY <2>7, <3>2 DEF SentAs
  <2>9. c.did + n \in Nat
    BY <1>6, <2>2
  <2>10. /\ e \in CardType /\ e.out = z
         /\ e.is = c.is /\ e.st = "cmd" /\ e.cmd = c.cmd /\ e.did = c.did + n
    BY ONLY <1>3, <1>5, <2>4, <2>8, <2>9 DEF CardType
  <2>11. PICK y, t, q, r : /\ y = z[1] /\ t = Tail(z) /\ q = Then(p, y, c.cmd)
                           /\ r = [at |-> "t0", done |-> c.did + n, want |-> 0]
    OBVIOUS
  <2>12. 1 \in 1 .. 1 + n /\ z # <<>> /\ Len(z) >= 1
    BY <2>2, <2>8
  <2>13. y \in CharType /\ y.k = k /\ (y.inv <=> inv)
    BY <1>10, <2>7, <2>8, <2>11, <2>12
  <2>14. May(p, y, c.cmd, inv)
    BY ONLY <1>3, <1>11, <2>13, k \in {"all", "one"} DEF May
  <2>15. q = [at |-> "bytes", done |-> c.did, want |-> n]
    BY ONLY <1>11, <1>13, <2>1, <2>11, <2>13, k \in {"all", "one"} DEF Then
  <2>16. t \in Seq(CharType) /\ Len(t) = n /\ \A i \in 1 .. n : t[i] = z[i + 1]
    BY <2>2, <2>8, <2>11, <2>12
  <2>17. \A i \in 1 .. n : t[i].k = "byte" /\ t[i].v = {c.did + i} /\ (t[i].inv <=> inv)
    <3>1. \A i \in 1 .. n : i + 1 \in 1 .. 1 + n
      BY <2>2
    <3>2. QED
      BY ONLY <2>6, <2>7, <2>8, <2>16, <3>1, ZenonT(60)
  <2>18. Stream(t, q, r, c.cmd, inv)
    <3>1. PICK d \in Nat : d = c.did
      BY <1>6
    <3>2. \A i \in 1 .. n : t[i].k = "byte" /\ t[i].v = {d + i} /\ (t[i].inv <=> inv)
      BY ONLY <2>17, <3>1
    <3>3. Stream(t, [at |-> "bytes", done |-> d, want |-> n], [at |-> "t0", done |-> d + n, want |-> 0], c.cmd, inv)
      BY <2>2, <2>16, <3>2, StreamBytes
    <3>4. QED
      BY ONLY <2>11, <2>15, <3>1, <3>3
  <2>19. Stream(<<y>>, p, q, c.cmd, inv)
    BY ONLY <1>6, <1>11, <2>11, <2>14, StreamOne
  <2>20. z = <<y>> \o t
    BY <2>8, <2>11, <2>12, <2>13, <2>16
  <2>21. Stream(z, p, r, c.cmd, inv)
    <3>1. <<y>> \in Seq(CharType)
      BY <2>13
    <3>2. QED
      BY ONLY <2>16, <2>18, <2>19, <2>20, <3>1, StreamJoin
  <2>22. r = There(e)
    BY ONLY <2>10, <2>11 DEF There
  <2>23. SimInvOf(sm, dv, ds, la)
    <3>1. CardGoes(c, e, inv)
      BY ONLY <1>3, <1>8, <1>9, <1>13, <2>10, <2>21, <2>22, inv \in BOOLEAN DEF CardGoes
    <3>2. QED
      BY ONLY <1>2, <1>3, <1>4, <2>4, <3>1, s \in Slot, CardSends
  <2>24. QED
    BY <1>3, <2>5, <2>23 DEF SimInv
<1>14. QED
  BY <1>12, <1>13

-----------------------------------------------------------------------------
(* Power *)

\* The slot is powered, and its card, if it works at that class, begins its answer.
LEMMA PowerUpKeeps ==
  ASSUME SimInv, NEW s \in Slot, sim.active \in {NoSlot, s},
         NEW c \in {"B", "C"}, NEW asked \in {"any", "B", "C"},
         NEW way \in {"scan", "indicated", "back"}, way = "indicated" => c = "B",
         PowerUp(s, c, asked, way)
  PROVE  SimInv'
<1>1. PICK sm, dv, cs, la, k : sm = sim /\ dv = dev /\ cs = cards /\ la = last /\ k = cs[s]
  OBVIOUS
<1>2. PICK b, su, dw, e, ds, lb :
        /\ b = Rests(s, FALSE, FALSE)
        /\ su = [b EXCEPT !.pc = "atr", !.slot = s, !.cls = asked, !.mode = way]
        /\ dw = [dv EXCEPT !.supply[s] = c, !.clock = TRUE, !.sel = s, !.rx = <<>>]
        /\ e = AfterReset(s, c) /\ ds = [cs EXCEPT ![s] = e] /\ lb = last'
  OBVIOUS
<1>3. sim' = su /\ dev' = dw /\ cards' = ds /\ last' = lb
  BY <1>1, <1>2 DEF PowerUp
<1>4. SimInvOf(sm, dv, cs, la)
  BY <1>1 DEF SimInv
<1>5. sm \in SimType /\ dv \in DevType /\ cs \in [Slot -> CardType] /\ OneIsOn(sm, dv, cs) /\ k \in CardType
  BY <1>1, <1>4 DEF SimInvOf, SimTyped
<1>6. s # NoSlot /\ s \in Slot \cup {NoSlot}
  BY DEF Slot, NoSlot
<1>7. /\ b \in SimType
      /\ b.active = s /\ b.conv = FALSE /\ b.clean = FALSE /\ (b.held <=> s # NoSlot)
      /\ b.raw = <<>> /\ b.cmd = NoCmd /\ b.done = 0 /\ b.want = 0
  <2>1. PICK f : f = FALSE
    OBVIOUS
  <2>2. s \in Slot \cup {NoSlot} /\ f \in BOOLEAN /\ b = Rests(s, f, f)
    BY ONLY <1>2, <1>6, <2>1
  <2>3. /\ b \in SimType
        /\ b.active = s /\ b.conv = f /\ b.clean = f /\ (b.held <=> s # NoSlot)
        /\ b.raw = <<>> /\ b.cmd = NoCmd /\ b.done = 0 /\ b.want = 0
    BY ONLY <2>2, RestsFields
  <2>4. QED
    BY ONLY <2>1, <2>3
<1>8. /\ su \in SimType /\ su.pc = "atr" /\ su.slot = s /\ su.mode = way
      /\ su.active = s /\ su.conv = FALSE /\ su.clean = FALSE /\ su.held = b.held /\ su.raw = <<>>
  <2>1. asked \in {"any", "B", "C"} /\ way \in {"none", "scan", "indicated", "back"}
    OBVIOUS
  <2>2. /\ su.pc = "atr" /\ su.slot = s /\ su.cls = asked /\ su.mode = way
        /\ su.active = s /\ su.conv = FALSE /\ su.clean = FALSE /\ su.held = b.held /\ su.raw = <<>>
    BY ONLY <1>2, <1>7 DEF SimType
  <2>3. su \in SimType
    <3>1. PICK p, q, r : p = [b EXCEPT !.pc = "atr"] /\ q = [p EXCEPT !.slot = s] /\ r = [q EXCEPT !.cls = asked]
      OBVIOUS
    <3>2. p \in SimType
      BY ONLY <1>7, <3>1 DEF SimType
    <3>3. q \in SimType
      BY ONLY <1>6, <3>1, <3>2, ZenonT(60) DEF SimType
    <3>4. r \in SimType
      BY ONLY <2>1, <3>1, <3>3, ZenonT(60) DEF SimType
    <3>5. [r EXCEPT !.mode = way] \in SimType
      BY ONLY <2>1, <3>4 DEF SimType
    <3>6. su = [r EXCEPT !.mode = way]
      BY ONLY <1>2, <1>7, <3>1 DEF SimType
    <3>7. QED
      BY ONLY <3>5, <3>6
  <2>4. QED
    BY ONLY <2>2, <2>3
<1>9. /\ dw \in DevType /\ dw.clock = TRUE /\ dw.sel = s /\ dw.rx = <<>>
      /\ dw.supply[s] = c /\ \A t \in Slot : t # s => dw.supply[t] = dv.supply[t]
  <2>1. PICK sup : sup = [dv.supply EXCEPT ![s] = c]
    OBVIOUS
  <2>2. dv.supply \in [Slot -> {"off", "B", "C"}]
    BY <1>5 DEF DevType
  <2>3. sup \in [Slot -> {"off", "B", "C"}] /\ sup[s] = c /\ \A t \in Slot : t # s => sup[t] = dv.supply[t]
    BY ONLY <2>1, <2>2, s \in Slot, c \in {"B", "C"}
  <2>4. dw = [dv EXCEPT !.supply = sup, !.clock = TRUE, !.sel = s, !.rx = <<>>]
    BY ONLY <1>2, <1>5, <2>1 DEF DevType
  <2>5. <<>> \in Seq(CharType)
    OBVIOUS
  <2>6. QED
    BY ONLY <1>5, <2>3, <2>4, <2>5, s \in Slot DEF DevType
<1>10. /\ e \in CardType /\ e.is = k.is
       /\ \/ k.is # NoCard /\ c \in k.is.works /\ e.st = "idle" /\ e.out = AtrOf(k.is)
          \/ e.st = "off" /\ e.out = <<>>
  <2>1. k.is \in Present
    BY <1>5 DEF CardType
  <2>2. PICK o : o = Off(k.is)
    OBVIOUS
  <2>3. o \in CardType /\ o.st = "off" /\ o.out = <<>> /\ o.is = k.is
    BY ONLY <2>1, <2>2, OffType
  <2>4. CASE k.is # NoCard /\ c \in k.is.works
    <3>1. e = [o EXCEPT !.st = "idle", !.out = AtrOf(k.is)]
      BY <1>1, <1>2, <2>2, <2>4 DEF AfterReset
    <3>2. PICK a : a = AtrOf(k.is)
      OBVIOUS
    <3>3. a \in Seq(CharType)
      BY <2>1, <2>4, <3>2, PresentCards, AtrIs
    <3>4. e = [o EXCEPT !.st = "idle", !.out = a]
      BY ONLY <3>1, <3>2
    <3>5. e \in CardType /\ e.is = o.is /\ e.st = "idle" /\ e.out = a
      BY ONLY <2>3, <3>3, <3>4 DEF CardType
    <3>6. QED
      BY ONLY <2>3, <2>4, <3>2, <3>5
  <2>5. CASE ~(k.is # NoCard /\ c \in k.is.works)
    <3>1. e = o
      BY <1>1, <1>2, <2>2, <2>5 DEF AfterReset
    <3>2. QED
      BY ONLY <2>3, <3>1
  <2>6. QED
    BY <2>4, <2>5
<1>11. ds \in [Slot -> CardType] /\ ds[s] = e /\ \A t \in Slot : t # s => ds[t] = cs[t]
  BY <1>2, <1>5, <1>10
<1>12. SimTyped(su, dw, ds)
  BY ONLY <1>8, <1>9, <1>11 DEF SimTyped
<1>13. OneIsOn(su, dw, ds)
  <2>1. \A t \in Slot : t # s => t # sm.active
    BY <1>1 DEF Slot, NoSlot
  <2>2. \A t \in Slot : dw.supply[t] # "off" <=> t = s
    BY <1>5, <1>9, <2>1 DEF OneIsOn
  <2>3. \A t \in Slot : ds[t].st = "off" => ds[t].out = <<>>
    BY <1>5, <1>10, <1>11 DEF OneIsOn
  <2>4. \A t \in Slot : t # s => ds[t].st = "off"
    BY <1>5, <1>11, <2>1 DEF OneIsOn
  <2>5. QED
    BY ONLY <1>6, <1>7, <1>8, <1>9, <2>2, <2>3, <2>4, s \in Slot DEF OneIsOn
<1>14. Answers(su, dw, e)
  <2>1. e.out \in Seq(CharType)
    BY <1>10 DEF CardType
  <2>2. All(su, dw, e) = e.out
    <3>1. dw.rx \o e.out = e.out
      BY ONLY <1>9, <2>1, ConcatEmptySeq
    <3>2. su.raw \o e.out = e.out
      BY ONLY <1>8, <2>1, ConcatEmptySeq
    <3>3. QED
      BY ONLY <3>1, <3>2 DEF All
  <2>3. e.is # NoCard => Came(e.is, e.out) /\ (e.st = "idle" => Len(e.out) = Len(AtrOf(e.is)))
    <3>1. SUFFICES ASSUME e.is # NoCard
                   PROVE  Came(e.is, e.out) /\ (e.st = "idle" => Len(e.out) = Len(AtrOf(e.is)))
      OBVIOUS
    <3>2. PICK a : a = AtrOf(e.is)
      OBVIOUS
    <3>3. a \in Seq(CharType)
      BY <1>10, <3>1, <3>2, PresentCards, AtrIs DEF CardType
    <3>4. Len(a) \in Nat
      BY <3>3
    <3>5. CASE e.out = a /\ e.st = "idle"
      BY <2>1, <3>2, <3>4, <3>5 DEF Came
    <3>6. CASE e.out = <<>> /\ e.st = "off"
      BY <2>1, <3>2, <3>4, <3>6 DEF Came
    <3>7. QED
      BY <1>10, <3>2, <3>5, <3>6
  <2>4. e.out # <<>> => e.is # NoCard /\ c \in e.is.works
    BY ONLY <1>10
  <2>5. su.mode = "indicated" => dw.supply[su.active] = "B"
    BY <1>8, <1>9
  <2>6. e.st \in {"off", "idle"} /\ dw.supply[su.active] = c
    BY <1>8, <1>9, <1>10
  <2>7. QED
    BY <1>8, <2>2, <2>3, <2>4, <2>5, <2>6 DEF Answers
<1>15. /\ Activated(su, dw, lb, e) /\ InStep(su, dw, e) /\ Exchanged(su, lb, e)
       /\ Counted(su)
  BY ONLY <1>8 DEF Activated, InStep, Exchanged, Counted
<1>16. QED
  <2>1. ds[su.active] = e
    BY <1>8, <1>11
  <2>2. SimInvOf(su, dw, ds, lb)
    BY ONLY <1>12, <1>13, <1>14, <1>15, <2>1 DEF SimInvOf
  <2>3. QED
    BY <1>3, <2>2 DEF SimInv

\* The slot that was on is off.
LEMMA DarkKeeps ==
  ASSUME NEW sm, NEW dv, NEW cs, NEW la, SimInvOf(sm, dv, cs, la), NEW s \in Slot, s = sm.active,
         NEW su, su = Rests(NoSlot, FALSE, FALSE),
         NEW dw, dw = [dv EXCEPT !.supply[s] = "off", !.clock = FALSE],
         NEW ds, ds = [cs EXCEPT ![s] = Off(cs[s].is)],
         NEW lb, ~(lb.op = "activate" /\ lb.r = "ok")
  PROVE  SimInvOf(su, dw, ds, lb)
<1>1. sm \in SimType /\ dv \in DevType /\ cs \in [Slot -> CardType] /\ OneIsOn(sm, dv, cs)
  BY DEF SimInvOf, SimTyped
<1>2. /\ su \in SimType /\ su.pc = "out" /\ su.active = NoSlot /\ su.conv = FALSE /\ su.clean = FALSE
      /\ su.held <=> FALSE
  <2>1. PICK f, n : f = FALSE /\ n = NoSlot
    OBVIOUS
  <2>2. PICK z : z = Rests(n, f, f)
    OBVIOUS
  <2>3. n \in Slot \cup {NoSlot} /\ f \in BOOLEAN /\ z = Rests(n, f, f)
    BY ONLY <2>1, <2>2
  <2>4. z \in SimType /\ z.pc = "out" /\ z.active = n /\ z.conv = f /\ z.clean = f /\ (z.held <=> n # NoSlot)
    BY ONLY <2>3, RestsFields, SMTT(60)
  <2>5. su = z
    BY <2>1, <2>2
  <2>6. QED
    BY ONLY <2>1, <2>4, <2>5
<1>3. /\ dw \in DevType /\ dw.clock = FALSE
      /\ dw.supply[s] = "off" /\ \A t \in Slot : t # s => dw.supply[t] = dv.supply[t]
  <2>1. PICK sup : sup = [dv.supply EXCEPT ![s] = "off"]
    OBVIOUS
  <2>2. dv.supply \in [Slot -> {"off", "B", "C"}]
    BY <1>1 DEF DevType
  <2>3. sup \in [Slot -> {"off", "B", "C"}] /\ sup[s] = "off" /\ \A t \in Slot : t # s => sup[t] = dv.supply[t]
    BY ONLY <2>1, <2>2, s \in Slot
  <2>4. dw = [dv EXCEPT !.supply = sup, !.clock = FALSE]
    BY ONLY <1>1, <2>1, dw = [dv EXCEPT !.supply[s] = "off", !.clock = FALSE] DEF DevType
  <2>5. QED
    BY ONLY <1>1, <2>3, <2>4 DEF DevType
<1>4. PICK o : o = Off(cs[s].is)
  OBVIOUS
<1>5. o \in CardType /\ o.st = "off" /\ o.out = <<>>
  BY <1>1, <1>4, OffType DEF CardType
<1>6. ds \in [Slot -> CardType] /\ ds[s] = o /\ \A t \in Slot : t # s => ds[t] = cs[t]
  BY <1>1, <1>4, <1>5
<1>7. NoSlot \notin Slot
  BY DEF Slot, NoSlot
<1>8. OneIsOn(su, dw, ds)
  <2>1. \A t \in Slot : dw.supply[t] = "off"
    BY <1>1, <1>3 DEF OneIsOn
  <2>2. \A t \in Slot : ds[t].st = "off" /\ ds[t].out = <<>>
    BY <1>1, <1>5, <1>6 DEF OneIsOn
  <2>3. QED
    BY <1>2, <1>3, <1>7, <2>1, <2>2 DEF OneIsOn
<1>9. SimTyped(su, dw, ds)
  BY ONLY <1>2, <1>3, <1>6 DEF SimTyped
<1>10. /\ Answers(su, dw, ds[su.active]) /\ Activated(su, dw, lb, ds[su.active])
       /\ InStep(su, dw, ds[su.active]) /\ Exchanged(su, lb, ds[su.active]) /\ Counted(su)
  BY <1>2 DEF Answers, Activated, InStep, Exchanged, Counted
<1>11. QED
  BY ONLY <1>8, <1>9, <1>10 DEF SimInvOf

\* A call that only returns something else.
LEMMA OnlyReturns ==
  ASSUME NEW sm, NEW dv, NEW cs, NEW la, SimInvOf(sm, dv, cs, la),
         NEW lb, ~(lb.op = "activate" /\ lb.r = "ok"), lb.r \notin {"status", "proto"}
  PROVE  SimInvOf(sm, dv, cs, lb)
BY DEF SimInvOf, Activated, Exchanged

\* What such a call reports.
LEMMA Returns1Fields ==
  ASSUME NEW op, NEW r, Returns1(op, r)
  PROVE  last'.op = op /\ last'.r = r
BY DEF Returns1, Returned

\* A slot is activated.
LEMMA ActivateKeeps ==
  ASSUME SimInv, NEW s \in Slot, NEW cls \in {"any", "B", "C"}, Activate(s, cls)
  PROVE  SimInv'
<1>1. CASE sim.active \notin {NoSlot, s}
  <2>1. PICK sm, dv, cs, la, lb : sm = sim /\ dv = dev /\ cs = cards /\ la = last /\ lb = last'
    OBVIOUS
  <2>2. sim' = sm /\ dev' = dv /\ cards' = cs /\ lb.op = "activate" /\ lb.r = "busy"
    BY <1>1, <2>1, Returns1Fields DEF Activate
  <2>3. SimInvOf(sm, dv, cs, la)
    BY <2>1 DEF SimInv
  <2>4. SimInvOf(sm, dv, cs, lb)
    BY ONLY <2>2, <2>3, OnlyReturns
  <2>5. QED
    BY <2>1, <2>2, <2>4 DEF SimInv
<1>2. CASE sim.active \in {NoSlot, s}
  <2>1. PICK c : c = IF cls = "any" THEN "C" ELSE cls
    OBVIOUS
  <2>2. PowerUp(s, c, cls, "scan")
    BY <1>2, <2>1 DEF Activate
  <2>3. c \in {"B", "C"}
    BY <2>1
  <2>4. QED
    BY <1>2, <2>2, <2>3, PowerUpKeeps
<1>3. QED
  BY <1>1, <1>2

\* A slot is deactivated.
LEMMA DeactivateKeeps ==
  ASSUME SimInv, NEW s \in Slot, Deactivate(s)
  PROVE  SimInv'
<1>1. PICK sm, dv, cs, la, lb : sm = sim /\ dv = dev /\ cs = cards /\ la = last /\ lb = last'
  OBVIOUS
<1>2. lb.op = "deactivate" /\ lb.r = "ok"
  BY <1>1, Returns1Fields DEF Deactivate
<1>3. SimInvOf(sm, dv, cs, la)
  BY <1>1 DEF SimInv
<1>4. CASE s = sm.active
  <2>1. PICK su, dw, ds : /\ su = Rests(NoSlot, FALSE, FALSE)
                          /\ dw = [dv EXCEPT !.supply[s] = "off", !.clock = FALSE]
                          /\ ds = [cs EXCEPT ![s] = Off(cs[s].is)]
    OBVIOUS
  <2>2. sim' = su /\ dev' = dw /\ cards' = ds
    BY <1>1, <1>4, <2>1 DEF Deactivate, Darkened
  <2>3. SimInvOf(su, dw, ds, lb)
    BY <1>2, <1>3, <1>4, <2>1, DarkKeeps
  <2>4. QED
    BY <1>1, <2>2, <2>3 DEF SimInv
<1>5. CASE s # sm.active
  <2>1. sim' = sm /\ dev' = dv /\ cards' = cs
    BY <1>1, <1>5 DEF Deactivate
  <2>2. SimInvOf(sm, dv, cs, lb)
    BY ONLY <1>2, <1>3, OnlyReturns
  <2>3. QED
    BY <1>1, <2>1, <2>2 DEF SimInv
<1>6. QED
  BY <1>4, <1>5

-----------------------------------------------------------------------------
(* The answer is read *)

\* A character in the convention of the controller.
LEMMA HeardIs ==
  ASSUME NEW x \in CharType, NEW conv \in BOOLEAN, NEW h, h = [x EXCEPT !.inv = @ # conv]
  PROVE  /\ h \in CharType /\ h.k = x.k /\ h.v = x.v
         /\ h.inv <=> ~(x.inv <=> conv)
         /\ conv = FALSE => h = x
<1>1. PICK i \in BOOLEAN : i = (x.inv # conv)
  OBVIOUS
<1>2. h = [x EXCEPT !.inv = i]
  BY ONLY <1>1, h = [x EXCEPT !.inv = @ # conv]
<1>3. x.inv \in BOOLEAN
  BY DEF CharType
<1>4. h \in CharType /\ h.k = x.k /\ h.v = x.v /\ h.inv = i /\ h.y = x.y
  BY ONLY <1>2, x \in CharType, i \in BOOLEAN DEF CharType
<1>5. i <=> ~(x.inv <=> conv)
  BY <1>1, <1>3
<1>6. ASSUME conv = FALSE PROVE h = x
  <2>1. i = x.inv
    BY <1>3, <1>5, <1>6
  <2>2. QED
    BY ONLY <1>2, <2>1, x \in CharType DEF CharType
<1>7. QED
  BY <1>4, <1>5, <1>6

\* A character of the answer is read.
LEMMA AtrCharKeeps ==
  ASSUME SimInv, AtrChar
  PROVE  SimInv'
<1>1. PICK sm, dv, cs, la, a, c : /\ sm = sim /\ dv = dev /\ cs = cards /\ la = last
                                  /\ a = sm.active /\ c = cs[a]
  OBVIOUS
<1>2. PICK x, h, su, dw : /\ x = Head(dv.rx) /\ h = [x EXCEPT !.inv = @ # sm.conv]
                          /\ su = [sm EXCEPT !.raw = Append(sm.raw, h)]
                          /\ dw = [dv EXCEPT !.rx = Tail(dv.rx)]
  OBVIOUS
<1>3. /\ sm.pc = "atr" /\ dv.rx # <<>> /\ sim' = su /\ dev' = dw /\ cards' = cs /\ last' = la
  BY <1>1, <1>2 DEF AtrChar, Hears, Heard
<1>4. SimInvOf(sm, dv, cs, la)
  BY <1>1 DEF SimInv
<1>5. /\ sm \in SimType /\ dv \in DevType /\ cs \in [Slot -> CardType] /\ OneIsOn(sm, dv, cs)
      /\ Answers(sm, dv, c)
  BY <1>1, <1>4 DEF SimInvOf, SimTyped
<1>6. a \in Slot /\ c \in CardType
  BY <1>1, <1>3, <1>5 DEF OneIsOn
<1>7. dv.rx \in Seq(CharType) /\ sm.raw \in Seq(CharType) /\ c.out \in Seq(CharType)
  BY <1>5, <1>6 DEF DevType, SimType, CardType
<1>8. sm.conv = FALSE /\ sm.clean = FALSE
  BY <1>3, <1>5 DEF Answers, SimType
<1>9. x \in CharType /\ Tail(dv.rx) \in Seq(CharType)
  BY <1>2, <1>3, <1>7
<1>10. h = x
  <2>1. PICK v \in BOOLEAN : v = sm.conv
    BY <1>5 DEF SimType
  <2>2. h = [x EXCEPT !.inv = @ # v]
    BY ONLY <1>2, <2>1
  <2>3. v = FALSE => h = x
    BY <1>9, <2>2, HeardIs
  <2>4. QED
    BY ONLY <1>8, <2>1, <2>3
<1>11. Append(sm.raw, x) \in Seq(CharType)
  BY <1>7, <1>9
<1>12. /\ su \in SimType /\ su.raw = Append(sm.raw, x)
       /\ su.pc = "atr" /\ su.active = a /\ su.conv = FALSE /\ su.clean = FALSE /\ su.held = sm.held
       /\ su.slot = sm.slot /\ su.mode = sm.mode
  BY ONLY <1>1, <1>2, <1>3, <1>5, <1>8, <1>10, <1>11 DEF SimType
<1>13. /\ dw \in DevType /\ dw.rx = Tail(dv.rx)
       /\ dw.supply = dv.supply /\ dw.clock = dv.clock /\ dw.sel = dv.sel
  BY ONLY <1>2, <1>5, <1>9 DEF DevType
<1>14. All(su, dw, c) = All(sm, dv, c)
  <2>1. PICK w : w = dv.rx \o c.out
    OBVIOUS
  <2>2. w \in Seq(CharType) /\ w # <<>> /\ Head(w) = x /\ Tail(w) = Tail(dv.rx) \o c.out
    BY ONLY <1>2, <1>3, <1>7, <2>1, Shift, ZenonT(60)
  <2>3. Append(sm.raw, Head(w)) \o Tail(w) = sm.raw \o w
    <3>1. PICK r : r = sm.raw
      OBVIOUS
    <3>2. r \in Seq(CharType) /\ w \in Seq(CharType) /\ w # <<>>
      BY <1>7, <2>2, <3>1
    <3>3. Append(r, Head(w)) \o Tail(w) = r \o w
      BY ONLY <3>2, Shift
    <3>4. QED
      BY ONLY <3>1, <3>3
  <2>4. QED
    BY ONLY <1>12, <1>13, <2>1, <2>2, <2>3 DEF All
<1>15. Answers(su, dw, c)
  BY ONLY <1>1, <1>3, <1>5, <1>8, <1>12, <1>13, <1>14 DEF Answers
<1>16. OneIsOn(su, dw, cs)
  BY ONLY <1>1, <1>3, <1>5, <1>8, <1>12, <1>13 DEF OneIsOn
<1>17. Activated(su, dw, la, c) /\ InStep(su, dw, c) /\ Exchanged(su, la, c) /\ Counted(su)
  BY ONLY <1>12 DEF Activated, InStep, Exchanged, Counted
<1>18. SimInvOf(su, dw, cs, la)
  BY ONLY <1>1, <1>5, <1>12, <1>13, <1>15, <1>16, <1>17 DEF SimInvOf, SimTyped
<1>19. QED
  BY <1>3, <1>18 DEF SimInv

\* The parser says whether the answer was complete.
LEMMA ParseComplete ==
  ASSUME NEW raw, NEW h
  PROVE  Parse(raw, h).complete \in BOOLEAN
<1>1. CASE Len(raw) < 2
  BY <1>1 DEF Parse
<1>2. CASE ~(Len(raw) < 2)
  <2>1. PICK e : e = Parsed(raw, h)[Len(raw)]
    OBVIOUS
  <2>2. PICK b \in BOOLEAN : b = (e.todo = {} /\ e.hist + (IF e.tck THEN 1 ELSE 0) <= 0)
    OBVIOUS
  <2>3. Parse(raw, h) = [protocols |-> IF e.todo = {} /\ e.protocols = {} THEN {0} ELSE e.protocols,
                         classes |-> e.classes, complete |-> b]
    BY ONLY <1>2, <2>1, <2>2 DEF Parse
  <2>4. QED
    BY <2>3
<1>3. QED
  BY <1>1, <1>2

\* What was read of an answer, when nothing more waits in the controller.
LEMMA ReadOfAnswer ==
  ASSUME NEW sm, NEW dv, NEW cs, NEW la, SimInvOf(sm, dv, cs, la), sm.pc = "atr", dv.rx = <<>>,
         NEW c, c = cs[sm.active], sm.raw # <<>>
  PROVE  /\ c.is # NoCard /\ IsCard(c.is) /\ dv.supply[sm.active] \in c.is.works
         /\ Came(c.is, sm.raw)
         /\ sm.raw[1] \in CharType /\ (sm.raw[1].inv <=> c.is.ts = "inverse")
         /\ sm.raw[1].k = "ts" => c.is.ts # "bad"
         /\ Len(sm.raw) = Len(AtrOf(c.is)) => c.out = <<>>
<1>1. /\ sm \in SimType /\ cs \in [Slot -> CardType] /\ OneIsOn(sm, dv, cs) /\ Answers(sm, dv, c)
  BY DEF SimInvOf, SimTyped
<1>2. sm.active \in Slot /\ c \in CardType
  BY <1>1 DEF OneIsOn
<1>3. sm.raw \in Seq(CharType) /\ c.out \in Seq(CharType)
  BY <1>1, <1>2 DEF SimType, CardType
<1>4. PICK p : p = sm.raw \o c.out
  OBVIOUS
<1>5. All(sm, dv, c) = p
  <2>1. dv.rx \o c.out = c.out
    BY ONLY <1>3, dv.rx = <<>>, ConcatEmptySeq
  <2>2. QED
    BY ONLY <1>4, <2>1 DEF All
<1>6. p # <<>>
  BY ONLY <1>3, <1>4, sm.raw # <<>>, Shift
<1>7. c.is # NoCard /\ dv.supply[sm.active] \in c.is.works /\ Came(c.is, p)
  BY ONLY <1>1, <1>5, <1>6, sm.pc = "atr" DEF Answers
<1>8. IsCard(c.is)
  BY <1>2, <1>7, PresentCards DEF CardType
<1>9. PICK A : A = AtrOf(c.is)
  OBVIOUS
<1>10. /\ A \in Seq(CharType) /\ (A[1].k = "ts" => c.is.ts # "bad")
       /\ \A i \in 1 .. Len(A) : A[i].inv <=> c.is.ts = "inverse"
  BY <1>8, <1>9, AtrIs
<1>11. /\ p \in Seq(CharType) /\ Len(p) = Len(sm.raw) + Len(c.out)
       /\ \A i \in 1 .. Len(sm.raw) + Len(c.out) : p[i] = IF i <= Len(sm.raw) THEN sm.raw[i] ELSE c.out[i - Len(sm.raw)]
  BY ONLY <1>3, <1>4, ConcatProperties
<1>12. Len(sm.raw) \in Nat /\ Len(c.out) \in Nat /\ Len(sm.raw) >= 1 /\ Len(A) \in Nat
  BY <1>3, <1>10
<1>13. Len(p) <= Len(A) /\ \A i \in 1 .. Len(p) : p[i] = A[i]
  BY <1>7, <1>9 DEF Came
<1>19. Len(p) = Len(sm.raw) + Len(c.out) /\ Len(sm.raw) <= Len(A)
  <2>1. Len(p) = Len(sm.raw) + Len(c.out) /\ Len(p) <= Len(A)
    BY ONLY <1>11, <1>13
  <2>2. PICK l \in Nat, o \in Nat, n \in Nat : l = Len(sm.raw) /\ o = Len(c.out) /\ n = Len(A)
    BY <1>12
  <2>3. l + o <= n
    BY ONLY <2>1, <2>2
  <2>4. l <= n
    BY <2>3
  <2>5. QED
    BY ONLY <2>1, <2>2, <2>4
<1>14. Came(c.is, sm.raw)
  <2>1. \A i \in 1 .. Len(sm.raw) : i \in 1 .. Len(sm.raw) + Len(c.out) /\ i \in 1 .. Len(p) /\ i <= Len(sm.raw)
    <3>1. PICK l \in Nat, o \in Nat : l = Len(sm.raw) /\ o = Len(c.out) /\ Len(p) = l + o
      BY <1>12, <1>19
    <3>2. \A i \in 1 .. l : i \in 1 .. l + o /\ i <= l
      OBVIOUS
    <3>3. QED
      BY ONLY <3>1, <3>2
  <2>2. \A i \in 1 .. Len(sm.raw) : sm.raw[i] = A[i]
    BY ONLY <1>11, <1>13, <2>1
  <2>3. Len(sm.raw) <= Len(A)
    BY ONLY <1>19
  <2>4. QED
    BY ONLY <1>3, <1>9, <2>2, <2>3 DEF Came
<1>15. sm.raw[1] = A[1] /\ 1 \in 1 .. Len(A) /\ 1 \in 1 .. Len(sm.raw)
  <2>1. 1 \in 1 .. Len(sm.raw) /\ Len(sm.raw) <= Len(A)
    BY ONLY <1>12, <1>19
  <2>2. QED
    BY <1>9, <1>12, <1>14, <2>1 DEF Came
<1>16. sm.raw[1] \in CharType
  BY <1>3, <1>15
<1>17. ASSUME Len(sm.raw) = Len(A) PROVE c.out = <<>>
  <2>1. Len(c.out) = 0
    BY <1>11, <1>12, <1>13, <1>17
  <2>2. QED
    BY ONLY <1>3, <2>1, EmptySeq
<1>18. QED
  BY ONLY <1>7, <1>8, <1>9, <1>10, <1>14, <1>15, <1>16, <1>17

\* The answer is taken: it says what the card says, when all of it came.
LEMMA AtrTakenKeeps ==
  ASSUME SimInv, sim.pc = "atr", dev.rx = <<>>, ValidTs, AtrTaken,
         sim.mode = "scan" /\ sim.cls = "any" /\ Supplied = "C" /\ Atr.classes # {} => "C" \in Atr.classes
  PROVE  SimInv'
<1>1. PICK sm, dv, cs, la, a, c : /\ sm = sim /\ dv = dev /\ cs = cards /\ la = last
                                  /\ a = sm.active /\ c = cs[a]
  OBVIOUS
<1>2. SimInvOf(sm, dv, cs, la)
  BY <1>1 DEF SimInv
<1>3. /\ sm \in SimType /\ dv \in DevType /\ cs \in [Slot -> CardType] /\ OneIsOn(sm, dv, cs)
      /\ Answers(sm, dv, c)
  BY <1>1, <1>2 DEF SimInvOf, SimTyped
<1>4. a \in Slot /\ sm.slot = a /\ a # NoSlot /\ a \in Slot \cup {NoSlot}
  BY <1>1, <1>3 DEF OneIsOn, Slot, NoSlot
<1>5. sm.raw # <<>> /\ sm.raw[1].k = "ts" /\ dv.rx = <<>> /\ sm.pc = "atr"
  BY <1>1 DEF ValidTs
<1>6. /\ c.is # NoCard /\ IsCard(c.is) /\ dv.supply[a] \in c.is.works
      /\ Came(c.is, sm.raw)
      /\ sm.raw[1] \in CharType /\ (sm.raw[1].inv <=> c.is.ts = "inverse")
      /\ sm.raw[1].k = "ts" => c.is.ts # "bad"
      /\ Len(sm.raw) = Len(AtrOf(c.is)) => c.out = <<>>
  BY ONLY <1>1, <1>2, <1>5, ReadOfAnswer
<1>7. PICK atr : atr = Parse(sm.raw, c.is.hist)
  OBVIOUS
<1>8. Atr = atr /\ Supplied = dv.supply[a]
  <2>1. HistOf(sim.slot) = c.is.hist
    BY <1>1, <1>4, <1>6 DEF HistOf
  <2>2. QED
    BY <1>1, <1>4, <1>7, <2>1 DEF Atr, Supplied
<1>9. atr.complete \in BOOLEAN /\ sm.raw[1].inv \in BOOLEAN
  BY <1>6, <1>7, ParseComplete DEF CharType
<1>10. atr.complete => Len(sm.raw) = Len(AtrOf(c.is)) /\ atr = Says(c.is)
  BY <1>6, <1>7, AtrUnderstood
<1>11. PICK su, lb, i, k : /\ su = sim' /\ lb = last' /\ i = sm.raw[1].inv /\ k = atr.complete
  OBVIOUS
<1>12. su = Rests(a, i, k) /\ dev' = dv /\ cards' = cs
  BY <1>1, <1>4, <1>8, <1>11 DEF AtrTaken
<1>13. /\ lb.op = "activate" /\ lb.r = "ok" /\ lb.asked = sm.cls /\ lb.cls = dv.supply[a]
       /\ lb.mode = sm.mode /\ lb.atr = atr
  <2>1. last' = [Returned EXCEPT !.op = "activate", !.asked = sm.cls, !.cls = dv.supply[a],
                                 !.mode = sm.mode, !.atr = atr]
    BY <1>1, <1>8 DEF AtrTaken
  <2>2. QED
    BY <1>11, <2>1 DEF Returned
<1>14. /\ su \in SimType
       /\ su.pc = "out" /\ su.active = a /\ su.conv = i /\ su.clean = k /\ (su.held <=> a # NoSlot)
  <2>1. a \in Slot \cup {NoSlot} /\ i \in BOOLEAN /\ k \in BOOLEAN
    BY ONLY <1>4, <1>9, <1>11
  <2>2. QED
    BY ONLY <1>12, <2>1, RestsFields
<1>15. OneIsOn(su, dv, cs)
  BY ONLY <1>1, <1>3, <1>4, <1>5, <1>12, <1>14 DEF OneIsOn
<1>16. Activated(su, dv, lb, c)
  <2>1. ASSUME lb.asked = "any", lb.cls = "C", atr.complete, c.is.classes # {}
        PROVE  "C" \in c.is.classes \/ lb.mode = "back"
    <3>1. atr.classes = c.is.classes
      BY <1>10, <2>1 DEF Says
    <3>2. sm.mode \in {"scan", "indicated", "back"} /\ (sm.mode = "indicated" => dv.supply[a] = "B")
      BY <1>1, <1>3, <1>5 DEF Answers
    <3>3. CASE sm.mode = "scan"
      BY <1>1, <1>8, <1>13, <2>1, <3>1, <3>3
    <3>4. QED
      BY <1>13, <2>1, <3>2, <3>3
  <2>2. QED
    BY ONLY <1>4, <1>5, <1>6, <1>10, <1>13, <1>14, <2>1 DEF Activated
<1>17. InStep(su, dv, c)
  <2>1. c.st \in {"off", "idle"}
    BY <1>3, <1>5 DEF Answers
  <2>2. k => c.out = <<>>
    BY ONLY <1>6, <1>10, <1>11
  <2>3. i <=> c.is.ts = "inverse"
    BY ONLY <1>6, <1>11
  <2>4. QED
    BY ONLY <1>14, <2>1, <2>2, <2>3 DEF InStep
<1>18. Answers(su, dv, c) /\ Exchanged(su, lb, c) /\ Counted(su)
  BY ONLY <1>13, <1>14 DEF Answers, Exchanged, Counted
<1>19. SimInvOf(su, dv, cs, lb)
  BY ONLY <1>1, <1>3, <1>14, <1>15, <1>16, <1>17, <1>18 DEF SimInvOf, SimTyped
<1>20. QED
  BY <1>11, <1>12, <1>19 DEF SimInv

\* The activation fails.
LEMMA GivenUpKeeps ==
  ASSUME SimInv, sim.pc = "atr", GivenUp
  PROVE  SimInv'
<1>1. PICK sm, dv, cs, la, lb, s : /\ sm = sim /\ dv = dev /\ cs = cards /\ la = last /\ lb = last'
                                   /\ s = sm.slot
  OBVIOUS
<1>2. SimInvOf(sm, dv, cs, la)
  BY <1>1 DEF SimInv
<1>3. s = sm.active /\ s \in Slot
  BY <1>1, <1>2 DEF SimInvOf, OneIsOn
<1>4. PICK su, dw, ds : /\ su = Rests(NoSlot, FALSE, FALSE)
                        /\ dw = [dv EXCEPT !.supply[s] = "off", !.clock = FALSE]
                        /\ ds = [cs EXCEPT ![s] = Off(cs[s].is)]
  OBVIOUS
<1>5. sim' = su /\ dev' = dw /\ cards' = ds
  BY <1>1, <1>4 DEF GivenUp, Darkened
<1>6. ~(lb.op = "activate" /\ lb.r = "ok")
  <2>1. lb.r \in {"nocard", "badatr"}
    BY <1>1, Returns1Fields DEF GivenUp
  <2>2. QED
    BY <2>1
<1>7. SimInvOf(su, dw, ds, lb)
  BY <1>2, <1>3, <1>4, <1>6, DarkKeeps
<1>8. QED
  BY <1>1, <1>5, <1>7 DEF SimInv

\* The slot is powered up at another class.
LEMMA AgainKeeps ==
  ASSUME SimInv, sim.pc = "atr", NEW c \in {"B", "C"}, NEW way \in {"scan", "indicated", "back"},
         way = "indicated" => c = "B", Again(c, way)
  PROVE  SimInv'
<1>1. sim.slot \in Slot /\ sim.active \in {NoSlot, sim.slot} /\ sim.cls \in {"any", "B", "C"}
  BY DEF SimInv, SimInvOf, SimTyped, SimType, OneIsOn
<1>2. PowerUp(sim.slot, c, sim.cls, way)
  BY DEF Again
<1>3. QED
  BY <1>1, <1>2, PowerUpKeeps

\* The answer ends.
LEMMA AtrEndKeeps ==
  ASSUME SimInv, AtrEnd
  PROVE  SimInv'
<1>1. sim.pc = "atr" /\ dev.rx = <<>>
  BY DEF AtrEnd
<1>2. sim.mode \in {"scan", "indicated", "back"}
  BY <1>1 DEF SimInv, SimInvOf, Answers
<1>3. CASE sim.mode = "scan" /\ ~ValidTs
  <2>1. Again("B", "scan") \/ GivenUp
    BY <1>3 DEF AtrEnd
  <2>2. QED
    BY <1>1, <2>1, AgainKeeps, GivenUpKeeps
<1>4. CASE sim.mode = "scan" /\ ValidTs
  <2>1. IF sim.cls = "any" /\ Supplied = "C" /\ Atr.classes # {} /\ "C" \notin Atr.classes
        THEN Again("B", "indicated") ELSE AtrTaken
    BY <1>4 DEF AtrEnd
  <2>2. CASE sim.cls = "any" /\ Supplied = "C" /\ Atr.classes # {} /\ "C" \notin Atr.classes
    BY <1>1, <2>1, <2>2, AgainKeeps
  <2>3. CASE ~(sim.cls = "any" /\ Supplied = "C" /\ Atr.classes # {} /\ "C" \notin Atr.classes)
    BY <1>1, <1>4, <2>1, <2>3, AtrTakenKeeps
  <2>4. QED
    BY <2>2, <2>3
<1>5. CASE sim.mode = "indicated"
  <2>1. IF ValidTs THEN AtrTaken ELSE Again("C", "back")
    BY <1>5 DEF AtrEnd
  <2>2. QED
    BY <1>1, <1>5, <2>1, AgainKeeps, AtrTakenKeeps
<1>6. CASE sim.mode = "back"
  <2>1. IF ValidTs THEN AtrTaken ELSE GivenUp
    BY <1>6 DEF AtrEnd
  <2>2. QED
    BY <1>1, <1>6, <2>1, GivenUpKeeps, AtrTakenKeeps
<1>7. QED
  BY <1>2, <1>3, <1>4, <1>5, <1>6

-----------------------------------------------------------------------------
(* Commands *)

\* An exchange is under way.
InT0(sm) == sm.pc \in {"t0", "sw2", "bytes"}

\* What is left of the controller's characters when one is read.
LEMMA HearsIs ==
  ASSUME NEW dv \in DevType, dv.rx # <<>>, NEW dw, dw = [dv EXCEPT !.rx = Tail(@)]
  PROVE  /\ dw \in DevType /\ dw.rx = Tail(dv.rx)
         /\ dw.supply = dv.supply /\ dw.clock = dv.clock /\ dw.sel = dv.sel
         /\ Head(dv.rx) \in CharType
<1>1. PICK t : t = Tail(dv.rx)
  OBVIOUS
<1>2. t \in Seq(CharType) /\ Head(dv.rx) \in CharType
  BY <1>1 DEF DevType
<1>3. dw = [dv EXCEPT !.rx = t]
  BY <1>1
<1>4. QED
  BY ONLY <1>1, <1>2, <1>3, dv \in DevType DEF DevType

\* A step within an exchange.
LEMMA T0Frame ==
  ASSUME NEW sm, NEW dv, NEW cs, NEW la, SimInvOf(sm, dv, cs, la), InT0(sm),
         NEW su, su \in SimType, InT0(su),
         su.active = sm.active, su.held = sm.held, su.slot = sm.slot,
         su.conv = sm.conv, su.clean = sm.clean,
         NEW dw, dw \in DevType, dw.supply = dv.supply, dw.clock = dv.clock, dw.sel = dv.sel,
         NEW e, e \in CardType, e.st = "off" => e.out = <<>>,
         NEW ds, ds = [cs EXCEPT ![sm.active] = e],
         NEW lb, Counted(su), InStep(su, dw, e)
  PROVE  SimInvOf(su, dw, ds, lb)
<1>1. sm \in SimType /\ cs \in [Slot -> CardType] /\ OneIsOn(sm, dv, cs)
  BY DEF SimInvOf, SimTyped
<1>2. sm.pc # "out" /\ su.pc # "out" /\ su.pc # "atr"
  BY DEF InT0
<1>3. PICK a \in Slot : a = sm.active
  BY <1>1, <1>2 DEF OneIsOn
<1>4. ds \in [Slot -> CardType] /\ ds[a] = e /\ \A s \in Slot : s # a => ds[s] = cs[s]
  BY <1>1, <1>3
<1>5. SimTyped(su, dw, ds)
  BY <1>4 DEF SimTyped
<1>6. OneIsOn(su, dw, ds)
  <2>1. \A s \in Slot : ds[s].st = "off" => ds[s].out = <<>>
    BY <1>1, <1>3, <1>4 DEF OneIsOn
  <2>2. \A s \in Slot : s # su.active => ds[s].st = "off"
    BY <1>1, <1>3, <1>4 DEF OneIsOn
  <2>3. /\ su.active = sm.active /\ su.held = sm.held /\ su.slot = sm.slot /\ su.clean = sm.clean
        /\ dw.supply = dv.supply /\ dw.clock = dv.clock /\ dw.sel = dv.sel
    OBVIOUS
  <2>4. QED
    BY ONLY <1>1, <1>2, <2>1, <2>2, <2>3 DEF OneIsOn
<1>7. Answers(su, dw, e) /\ Activated(su, dw, lb, e) /\ Exchanged(su, lb, e)
  BY ONLY <1>2 DEF Answers, Activated, Exchanged
<1>8. ds[su.active] = e
  BY <1>3, <1>4
<1>9. QED
  BY ONLY <1>5, <1>6, <1>7, <1>8, Counted(su), InStep(su, dw, e) DEF SimInvOf

\* The end of an exchange.
LEMMA EndFrame ==
  ASSUME NEW sm, NEW dv, NEW cs, NEW la, SimInvOf(sm, dv, cs, la), InT0(sm),
         NEW c, c = cs[sm.active], NEW r,
         NEW su, su = Rests(sm.active, sm.conv, sm.clean /\ r # "timeout"),
         NEW dw, dw \in DevType, dw.supply = dv.supply, dw.clock = dv.clock, dw.sel = dv.sel,
         NEW lb, lb.op = "apdu", lb.r = r, lb.got = sm.got, lb.done = sm.done,
         sm.clean /\ r # "timeout" =>
           /\ r = "status"
           /\ c.st # "off" =>
                /\ c.st = "idle" /\ c.out = <<>> /\ sm.done = c.did
                /\ IF c.cmd.kind = "to" THEN c.got = OneTo(sm.done) ELSE sm.got = EachOf(sm.done)
  PROVE  SimInvOf(su, dw, cs, lb)
<1>1. /\ sm \in SimType /\ cs \in [Slot -> CardType] /\ OneIsOn(sm, dv, cs) /\ InStep(sm, dv, c)
  BY DEF SimInvOf, SimTyped
<1>2. sm.pc # "out"
  BY DEF InT0
<1>3. PICK a \in Slot : a = sm.active
  BY <1>1, <1>2 DEF OneIsOn
<1>4. PICK k \in BOOLEAN : k = (sm.clean /\ r # "timeout")
  OBVIOUS
<1>5. PICK v \in BOOLEAN : v = sm.conv
  BY <1>1 DEF SimType
<1>6. /\ su \in SimType
      /\ su.pc = "out" /\ su.active = a /\ su.conv = v /\ su.clean = k /\ (su.held <=> a # NoSlot)
  <2>1. su = Rests(a, v, k)
    BY ONLY <1>3, <1>4, <1>5, su = Rests(sm.active, sm.conv, sm.clean /\ r # "timeout")
  <2>2. a \in Slot \cup {NoSlot} /\ v \in BOOLEAN /\ k \in BOOLEAN
    OBVIOUS
  <2>3. QED
    BY ONLY <2>1, <2>2, RestsFields
<1>7. SimTyped(su, dw, cs)
  BY <1>1, <1>6 DEF SimTyped
<1>8. OneIsOn(su, dw, cs)
  <2>1. a # NoSlot
    BY DEF Slot, NoSlot
  <2>2. su = Rests(su.active, su.conv, su.clean)
    BY <1>3, <1>4, <1>5, <1>6
  <2>3. \A s \in Slot : dw.supply[s] # "off" <=> s = su.active
    BY <1>1, <1>3, <1>6 DEF OneIsOn
  <2>4. (dw.clock <=> su.active # NoSlot) /\ dw.sel = su.active
    BY <1>1, <1>3, <1>6, <2>1 DEF OneIsOn
  <2>5. \A s \in Slot : s # su.active => cs[s].st = "off"
    BY <1>1, <1>3, <1>6 DEF OneIsOn
  <2>6. \A s \in Slot : cs[s].st = "off" => cs[s].out = <<>>
    BY <1>1 DEF OneIsOn
  <2>7. su.active \in Slot
    BY <1>6
  <2>8. QED
    BY ONLY <1>6, <2>1, <2>2, <2>3, <2>4, <2>5, <2>6, <2>7 DEF OneIsOn
<1>9. Answers(su, dw, c) /\ Activated(su, dw, lb, c) /\ Counted(su)
  <2>1. lb.op = "apdu"
    OBVIOUS
  <2>2. QED
    BY ONLY <1>6, <2>1 DEF Answers, Activated, Counted
<1>10. InStep(su, dw, c)
  <2>1. k => (v <=> c.is.ts = "inverse")
    BY ONLY <1>1, <1>4, <1>5 DEF InStep
  <2>2. k => c.st = "off" \/ (c.st = "idle" /\ c.out = <<>>)
    BY <1>4
  <2>3. QED
    BY ONLY <1>6, <2>1, <2>2 DEF InStep
<1>11. Exchanged(su, lb, c)
  <2>1. k => /\ lb.r = "status"
             /\ c.st # "off" =>
                  /\ c.st = "idle" /\ lb.done = c.did
                  /\ IF c.cmd.kind = "to" THEN c.got = OneTo(lb.done) ELSE lb.got = EachOf(lb.done)
    BY <1>4
  <2>2. QED
    BY ONLY <1>6, <2>1 DEF Exchanged
<1>12. cs[su.active] = c
  BY <1>3, <1>6
<1>13. QED
  BY ONLY <1>7, <1>8, <1>9, <1>10, <1>11, <1>12 DEF SimInvOf

\* The next character of an exchange in which nothing timed out.
Goes(sm, dv, c, x) ==
  /\ May(Here(sm), x, sm.cmd, sm.conv)
  /\ sm.cmd \in Commands
  /\ sm.cmd.kind = "to" => sm.pc # "bytes"
  /\ sm.cmd.kind = "from" => sm.got = EachOf(sm.done)
  /\ \E r \in Place :
       /\ Stream(Tail(dv.rx) \o c.out, Then(Here(sm), x, sm.cmd), r, sm.cmd, sm.conv)
       /\ c.st # "off" => r = There(c) /\ c.cmd = sm.cmd
                            /\ (sm.cmd.kind = "to" => c.got = OneTo(c.did))

\* The driver's place is one.
LEMMA HereType ==
  ASSUME NEW sm \in SimType, Counted(sm), InT0(sm)
  PROVE  Here(sm) \in Place
<1>1. PICK p, d, w : p = sm.pc /\ d = sm.done /\ w = sm.want
  OBVIOUS
<1>2. p \in {"t0", "sw2", "bytes"} /\ d \in Nat /\ w \in Nat /\ (p = "bytes" <=> w > 0)
  BY <1>1 DEF SimType, Counted, InT0
<1>3. Here(sm) = [at |-> p, done |-> d, want |-> w]
  BY ONLY <1>1 DEF Here
<1>4. QED
  BY ONLY <1>2, <1>3 DEF Place

\* As long as nothing timed out, the character that waits is the next of the exchange.
LEMMA NextOfExchange ==
  ASSUME NEW sm, NEW dv, NEW cs, NEW la, SimInvOf(sm, dv, cs, la), InT0(sm), sm.clean,
         dv.rx # <<>>, NEW c, c = cs[sm.active], NEW x, x = Head(dv.rx)
  PROVE  Goes(sm, dv, c, x)
<1>1. /\ sm \in SimType /\ dv \in DevType /\ cs \in [Slot -> CardType] /\ OneIsOn(sm, dv, cs)
      /\ InStep(sm, dv, c) /\ Counted(sm)
  BY DEF SimInvOf, SimTyped
<1>2. sm.pc # "out" /\ c \in CardType
  BY <1>1 DEF InT0, OneIsOn
<1>3. /\ sm.cmd \in Commands
      /\ sm.cmd.kind = "to" => sm.pc # "bytes"
      /\ sm.cmd.kind = "from" => sm.got = EachOf(sm.done)
      /\ Joined(sm, dv, c, sm.conv)
  BY <1>1, <1>2 DEF InStep
<1>4. PICK r \in Place :
        /\ Stream(dv.rx \o c.out, Here(sm), r, sm.cmd, sm.conv)
        /\ c.st # "off" => r = There(c) /\ c.cmd = sm.cmd
                             /\ (sm.cmd.kind = "to" => c.got = OneTo(c.did))
  BY <1>3 DEF Joined
<1>5. dv.rx \in Seq(CharType) /\ c.out \in Seq(CharType)
  BY <1>1, <1>2 DEF DevType, CardType
<1>6. PICK w : w = dv.rx \o c.out
  OBVIOUS
<1>7. w \in Seq(CharType) /\ w # <<>> /\ Head(w) = x /\ Tail(w) = Tail(dv.rx) \o c.out
  BY ONLY <1>5, <1>6, x = Head(dv.rx), dv.rx # <<>>, Shift, ZenonT(40)
<1>8. PICK p, m, i : p = Here(sm) /\ m = sm.cmd /\ i = sm.conv
  OBVIOUS
<1>9. Stream(w, p, r, m, i)
  BY ONLY <1>4, <1>6, <1>8
<1>10. May(p, Head(w), m, i) /\ Stream(Tail(w), Then(p, Head(w), m), r, m, i)
  BY ONLY <1>7, <1>9, StreamHead
<1>11. QED
  BY <1>3, <1>4, <1>7, <1>8, <1>10 DEF Goes

\* After the end of an exchange, and while the driver gives its bytes, nothing comes.
LEMMA StreamStops ==
  ASSUME NEW s \in Seq(CharType), NEW p \in Place, p.at \in {"over", "gives"}, NEW r, NEW m, NEW inv,
         Stream(s, p, r, m, inv)
  PROVE  s = <<>> /\ r = p
<1>1. s = <<>>
  <2>1. SUFFICES ASSUME s # <<>> PROVE FALSE
    OBVIOUS
  <2>2. May(p, Head(s), m, inv)
    BY <2>1, StreamHead
  <2>3. QED
    BY <2>2 DEF May
<1>2. Stream(<<>>, p, r, m, inv)
  BY <1>1
<1>3. r = p
  BY <1>2, StreamEmpty
<1>4. QED
  BY <1>1, <1>3

\* A step that takes the driver where the character it reads says.
LEMMA ReadFrame ==
  ASSUME NEW sm, NEW dv, NEW cs, NEW la, SimInvOf(sm, dv, cs, la), InT0(sm), dv.rx # <<>>,
         NEW c, c = cs[sm.active], NEW x, x = Head(dv.rx),
         NEW su, su \in SimType, InT0(su), Counted(su),
         su.active = sm.active, su.held = sm.held, su.slot = sm.slot,
         su.conv = sm.conv, su.clean = sm.clean, su.cmd = sm.cmd,
         NEW dw, dw = [dv EXCEPT !.rx = Tail(@)],
         sm.clean =>
           /\ Here(su) = Then(Here(sm), x, sm.cmd)
           /\ sm.cmd.kind = "to" => su.pc # "bytes"
           /\ sm.cmd.kind = "from" => su.got = EachOf(su.done),
         NEW lb
  PROVE  SimInvOf(su, dw, cs, lb)
<1>1. /\ sm \in SimType /\ dv \in DevType /\ cs \in [Slot -> CardType] /\ OneIsOn(sm, dv, cs)
      /\ InStep(sm, dv, c)
  BY DEF SimInvOf, SimTyped
<1>2. sm.pc # "out" /\ su.pc # "out"
  BY DEF InT0
<1>3. PICK a \in Slot : a = sm.active
  BY <1>1, <1>2 DEF OneIsOn
<1>4. /\ dw \in DevType /\ dw.rx = Tail(dv.rx)
      /\ dw.supply = dv.supply /\ dw.clock = dv.clock /\ dw.sel = dv.sel
  BY <1>1, HearsIs
<1>5. c \in CardType /\ (c.st = "off" => c.out = <<>>)
  BY <1>1, <1>3 DEF OneIsOn
<1>6. cs = [cs EXCEPT ![sm.active] = c]
  BY <1>1, <1>3
<1>7. ASSUME sm.clean
      PROVE  /\ sm.cmd \in Commands
             /\ Joined(su, dw, c, su.conv)
  <2>1. Goes(sm, dv, c, x)
    BY <1>7, NextOfExchange
  <2>2. PICK r \in Place :
          /\ Stream(Tail(dv.rx) \o c.out, Then(Here(sm), x, sm.cmd), r, sm.cmd, sm.conv)
          /\ c.st # "off" => r = There(c) /\ c.cmd = sm.cmd
                               /\ (sm.cmd.kind = "to" => c.got = OneTo(c.did))
    BY <2>1 DEF Goes
  <2>3. Stream(dw.rx \o c.out, Here(su), r, su.cmd, su.conv)
    BY <1>4, <1>7, <2>2
  <2>4. Joined(su, dw, c, su.conv)
    BY <2>2, <2>3 DEF Joined
  <2>5. QED
    BY <2>1, <2>4 DEF Goes
<1>8. InStep(su, dw, c)
  <2>1. sm.clean =>
          /\ su.conv <=> c.is.ts = "inverse"
          /\ su.cmd.kind = "to" => su.pc # "bytes"
          /\ su.cmd.kind = "from" => su.got = EachOf(su.done)
    BY <1>1 DEF InStep
  <2>2. su.clean = sm.clean /\ su.cmd = sm.cmd
    OBVIOUS
  <2>3. QED
    BY ONLY <1>2, <1>7, <2>1, <2>2 DEF InStep
<1>9. /\ su.active = sm.active /\ su.held = sm.held /\ su.slot = sm.slot
      /\ su.conv = sm.conv /\ su.clean = sm.clean /\ su \in SimType /\ InT0(su) /\ Counted(su)
      /\ InT0(sm) /\ SimInvOf(sm, dv, cs, la)
  OBVIOUS
<1>10. QED
  BY ONLY <1>4, <1>5, <1>6, <1>8, <1>9, T0Frame

\* What Goes says, in the terms of a step.
LEMMA HereIs ==
  ASSUME NEW sm \in SimType, NEW ch, NEW m, NEW inv, May(Here(sm), ch, m, inv)
  PROVE  /\ ch.inv <=> inv
         /\ sm.pc = "t0" => ch.k \in {"null", "sw1", "all", "one"}
         /\ sm.pc = "t0" /\ ch.k \in {"all", "one"} => sm.done < m.len
         /\ sm.pc = "sw2" => ch.k = "sw2"
         /\ sm.pc = "bytes" => ch.k = "byte" /\ ch.v = {sm.done + 1}
BY DEF May, Here

\* A NULL.
LEMMA NullKeeps ==
  ASSUME SimInv, Null
  PROVE  SimInv'
<1>1. PICK sm, dv, cs, la, dw, lb : /\ sm = sim /\ dv = dev /\ cs = cards /\ la = last /\ dw = dev'
                                    /\ lb = last'
  OBVIOUS
<1>2. SimInvOf(sm, dv, cs, la)
  BY <1>1 DEF SimInv
<1>3. /\ sm.pc = "t0" /\ dv.rx # <<>> /\ dw = [dv EXCEPT !.rx = Tail(@)] /\ cards' = cs
      /\ Heard.k = "null"
  BY <1>1 DEF Null, Hears
<1>4. InT0(sm)
  BY <1>3 DEF InT0
<1>5. /\ sm \in SimType /\ dv \in DevType /\ Counted(sm)
      /\ dw \in DevType /\ dw.supply = dv.supply /\ dw.clock = dv.clock /\ dw.sel = dv.sel
      /\ Head(dv.rx) \in CharType
  BY <1>2, <1>3, HearsIs DEF SimInvOf, SimTyped
<1>6. PICK c, x : c = cs[sm.active] /\ x = Head(dv.rx)
  OBVIOUS
<1>7. x.k = "null"
  <2>1. PICK h, v : h = Heard /\ v = sm.conv
    OBVIOUS
  <2>2. h = [x EXCEPT !.inv = @ # v]
    BY <1>1, <1>6, <2>1 DEF Heard
  <2>3. v \in BOOLEAN
    BY <1>5, <2>1 DEF SimType
  <2>4. x \in CharType
    BY <1>5, <1>6
  <2>5. h.k = x.k
    BY ONLY <2>2, <2>3, <2>4, HeardIs
  <2>6. QED
    BY <1>3, <2>1, <2>5
<1>8. CASE sim.nulls + 1 = Nulls
  <2>1. PICK su : su = Rests(sm.active, sm.conv, sm.clean /\ "timeout" # "timeout")
    OBVIOUS
  <2>2. /\ sim' = su /\ lb.op = "apdu" /\ lb.r = "timeout" /\ lb.got = sm.got /\ lb.done = sm.done
    BY <1>1, <1>8, <2>1 DEF Null, EndsWith, Returned
  <2>3. SimInvOf(su, dw, cs, lb)
    BY <1>2, <1>4, <1>5, <1>6, <2>1, <2>2, EndFrame
  <2>4. QED
    BY <1>1, <1>3, <2>2, <2>3 DEF SimInv
<1>9. CASE sim.nulls + 1 # Nulls
  <2>1. PICK su : su = [sm EXCEPT !.nulls = @ + 1]
    OBVIOUS
  <2>2. sim' = su
    BY <1>1, <1>9, <2>1 DEF Null
  <2>3. /\ su \in SimType
        /\ su.active = sm.active /\ su.held = sm.held /\ su.slot = sm.slot /\ su.conv = sm.conv
        /\ su.clean = sm.clean /\ su.cmd = sm.cmd /\ su.pc = sm.pc /\ su.done = sm.done
        /\ su.want = sm.want /\ su.got = sm.got
    BY ONLY <1>5, <2>1, SMTT(30) DEF SimType
  <2>4. InT0(su) /\ Counted(su)
    BY ONLY <1>4, <1>5, <2>3 DEF InT0, Counted
  <2>5. Here(su) = Here(sm)
    BY ONLY <2>3 DEF Here
  <2>6. Then(Here(sm), x, sm.cmd) = Here(sm)
    BY ONLY <1>3, <1>7 DEF Then, Here
  <2>7. sm.clean => (sm.cmd.kind = "to" => sm.pc # "bytes") /\ (sm.cmd.kind = "from" => sm.got = EachOf(sm.done))
    <3>1. InStep(sm, dv, c) /\ sm.pc # "out"
      BY <1>2, <1>3, <1>6 DEF SimInvOf
    <3>2. QED
      BY ONLY <3>1 DEF InStep
  <2>8. SimInvOf(su, dw, cs, lb)
    BY <1>2, <1>3, <1>4, <1>6, <2>3, <2>4, <2>5, <2>6, <2>7, ReadFrame
  <2>9. QED
    BY <1>1, <1>3, <2>2, <2>8 DEF SimInv
<1>10. QED
  BY <1>8, <1>9

\* The character a step reads.
LEMMA ReadIs ==
  ASSUME NEW sm, NEW dv, NEW cs, NEW la, SimInvOf(sm, dv, cs, la), dv.rx # <<>>,
         NEW dw, dw = [dv EXCEPT !.rx = Tail(@)],
         NEW h, h = [Head(dv.rx) EXCEPT !.inv = @ # sm.conv], NEW x, x = Head(dv.rx)
  PROVE  /\ sm \in SimType /\ dv \in DevType /\ Counted(sm)
         /\ dw \in DevType /\ dw.supply = dv.supply /\ dw.clock = dv.clock /\ dw.sel = dv.sel
         /\ x \in CharType /\ h.k = x.k /\ h.v = x.v /\ (h.inv <=> ~(x.inv <=> sm.conv))
<1>1. /\ sm \in SimType /\ dv \in DevType /\ Counted(sm)
  BY DEF SimInvOf, SimTyped
<1>2. /\ dw \in DevType /\ dw.supply = dv.supply /\ dw.clock = dv.clock /\ dw.sel = dv.sel
      /\ x \in CharType
  BY <1>1, HearsIs
<1>3. PICK v \in BOOLEAN : v = sm.conv
  BY <1>1 DEF SimType
<1>4. h = [x EXCEPT !.inv = @ # v]
  BY <1>3
<1>5. x \in CharType /\ v \in BOOLEAN
  BY <1>2
<1>6. h.k = x.k /\ h.v = x.v
  BY ONLY <1>4, <1>5, HeardIs
<1>7. h.inv <=> ~(x.inv <=> v)
  BY ONLY <1>4, <1>5, HeardIs, Zenon
<1>8. QED
  BY <1>1, <1>2, <1>3, <1>6, <1>7

\* SW1.
LEMMA Status1Keeps ==
  ASSUME SimInv, Status1
  PROVE  SimInv'
<1>1. PICK sm, dv, cs, la, dw, lb : /\ sm = sim /\ dv = dev /\ cs = cards /\ la = last /\ dw = dev'
                                    /\ lb = last'
  OBVIOUS
<1>2. SimInvOf(sm, dv, cs, la)
  BY <1>1 DEF SimInv
<1>3. PICK c, x, h, su : /\ c = cs[sm.active] /\ x = Head(dv.rx) /\ h = Heard
                         /\ su = [sm EXCEPT !.pc = "sw2"]
  OBVIOUS
<1>4. /\ sm.pc = "t0" /\ dv.rx # <<>> /\ dw = [dv EXCEPT !.rx = Tail(@)] /\ cards' = cs
      /\ h = [Head(dv.rx) EXCEPT !.inv = @ # sm.conv] /\ h.k = "sw1" /\ sim' = su
  BY <1>1, <1>3 DEF Status1, Hears, Heard, Next1
<1>5. InT0(sm)
  BY <1>4 DEF InT0
<1>6. sm \in SimType /\ Counted(sm) /\ x.k = "sw1"
  BY <1>2, <1>3, <1>4, ReadIs
<1>7. /\ su \in SimType
      /\ su.active = sm.active /\ su.held = sm.held /\ su.slot = sm.slot /\ su.conv = sm.conv
      /\ su.clean = sm.clean /\ su.cmd = sm.cmd /\ su.pc = "sw2" /\ su.done = sm.done
      /\ su.want = sm.want /\ su.got = sm.got
  BY ONLY <1>3, <1>6 DEF SimType
<1>8. InT0(su) /\ Counted(su)
  BY ONLY <1>4, <1>6, <1>7 DEF InT0, Counted
<1>9. Here(su) = Then(Here(sm), x, sm.cmd)
  BY ONLY <1>4, <1>6, <1>7 DEF Then, Here
<1>10. sm.clean => (sm.cmd.kind = "from" => sm.got = EachOf(sm.done))
  <2>1. InStep(sm, dv, c) /\ sm.pc # "out"
    BY <1>2, <1>3, <1>4 DEF SimInvOf
  <2>2. QED
    BY ONLY <2>1 DEF InStep
<1>11. c = cs[sm.active] /\ x = Head(dv.rx) /\ dv.rx # <<>> /\ dw = [dv EXCEPT !.rx = Tail(@)]
  BY <1>3, <1>4
<1>12. sm.clean =>
         /\ Here(su) = Then(Here(sm), x, sm.cmd)
         /\ sm.cmd.kind = "to" => su.pc # "bytes"
         /\ sm.cmd.kind = "from" => su.got = EachOf(su.done)
  BY <1>7, <1>9, <1>10
<1>13. SimInvOf(su, dw, cs, lb)
  BY ONLY <1>2, <1>5, <1>7, <1>8, <1>11, <1>12, ReadFrame
<1>14. QED
  BY <1>1, <1>4, <1>13 DEF SimInv

\* SW2, the end of a command.
LEMMA Status2Keeps ==
  ASSUME SimInv, Status2
  PROVE  SimInv'
<1>1. PICK sm, dv, cs, la, dw, lb : /\ sm = sim /\ dv = dev /\ cs = cards /\ la = last /\ dw = dev'
                                    /\ lb = last'
  OBVIOUS
<1>2. SimInvOf(sm, dv, cs, la)
  BY <1>1 DEF SimInv
<1>3. PICK c, x, h, su : /\ c = cs[sm.active] /\ x = Head(dv.rx) /\ h = Heard
                         /\ su = Rests(sm.active, sm.conv, sm.clean /\ "status" # "timeout")
  OBVIOUS
<1>4. /\ sm.pc = "sw2" /\ dv.rx # <<>> /\ dw = [dv EXCEPT !.rx = Tail(@)] /\ cards' = cs
      /\ h = [Head(dv.rx) EXCEPT !.inv = @ # sm.conv] /\ sim' = su
      /\ lb.op = "apdu" /\ lb.r = "status" /\ lb.got = sm.got /\ lb.done = sm.done
  BY <1>1, <1>3 DEF Status2, Hears, Heard, EndsWith, Returned
<1>5. InT0(sm)
  BY <1>4 DEF InT0
<1>6. /\ sm \in SimType /\ dv \in DevType /\ Counted(sm)
      /\ dw \in DevType /\ dw.supply = dv.supply /\ dw.clock = dv.clock /\ dw.sel = dv.sel
  BY <1>2, <1>3, <1>4, ReadIs, SMTT(30)
<1>7. ASSUME sm.clean, c.st # "off"
      PROVE  /\ c.st = "idle" /\ c.out = <<>> /\ sm.done = c.did
             /\ IF c.cmd.kind = "to" THEN c.got = OneTo(sm.done) ELSE sm.got = EachOf(sm.done)
  <2>1. Goes(sm, dv, c, x)
    BY <1>2, <1>3, <1>4, <1>5, <1>7, NextOfExchange
  <2>2. May(Here(sm), x, sm.cmd, sm.conv) /\ sm.cmd \in Commands
        /\ (sm.cmd.kind = "from" => sm.got = EachOf(sm.done))
    BY <2>1 DEF Goes
  <2>3. PICK r \in Place :
          /\ Stream(Tail(dv.rx) \o c.out, Then(Here(sm), x, sm.cmd), r, sm.cmd, sm.conv)
          /\ r = There(c) /\ c.cmd = sm.cmd /\ (sm.cmd.kind = "to" => c.got = OneTo(c.did))
    BY <1>7, <2>1 DEF Goes
  <2>4. PICK p, m, i, w, u : /\ p = Then(Here(sm), x, sm.cmd) /\ m = sm.cmd /\ i = sm.conv
                             /\ w = Tail(dv.rx) \o c.out /\ u = Tail(dv.rx)
    OBVIOUS
  <2>5. x.k = "sw2"
    BY ONLY <1>4, <1>6, <2>2, HereIs
  <2>6. p = [Here(sm) EXCEPT !.at = "over"]
    BY ONLY <1>4, <2>4, <2>5 DEF Then, Here
  <2>7. p.at = "over" /\ p.done = sm.done /\ p \in Place
    <3>1. Here(sm) \in Place
      BY <1>5, <1>6, HereType
    <3>2. p \in Place
      <4>1. m.len \in Nat /\ Then(Here(sm), x, m) = p /\ May(Here(sm), x, m, i)
        BY <2>2, <2>4, CommandLength
      <4>2. QED
        BY ONLY <3>1, <4>1, ThenType
    <3>3. QED
      BY ONLY <2>6, <3>2 DEF Here
  <2>8. u \in Seq(CharType) /\ c.out \in Seq(CharType)
    <3>1. dv.rx \in Seq(CharType)
      BY <1>6 DEF DevType
    <3>2. c \in CardType
      BY <1>2, <1>3, <1>4 DEF SimInvOf, SimTyped, OneIsOn
    <3>3. QED
      BY <1>4, <2>4, <3>1, <3>2 DEF CardType
  <2>9. w \in Seq(CharType) /\ Stream(w, p, r, m, i)
    BY <2>3, <2>4, <2>8, ConcatProperties
  <2>10. w = <<>> /\ r = p
    BY ONLY <2>7, <2>9, StreamStops
  <2>11. c.out = <<>>
    <3>1. PICK o : o = c.out
      OBVIOUS
    <3>2. u \in Seq(CharType) /\ o \in Seq(CharType) /\ u \o o = <<>>
      BY <2>4, <2>8, <2>10, <3>1
    <3>3. Len(u \o o) = Len(u) + Len(o) /\ Len(<<>>) = 0 /\ Len(u) \in Nat /\ Len(o) \in Nat
      BY ONLY <3>2, ConcatProperties, LenProperties
    <3>4. Len(o) = 0
      BY ONLY <3>2, <3>3
    <3>5. QED
      BY ONLY <3>1, <3>2, <3>4, EmptySeq
  <2>12. There(c).at = "over" /\ There(c).done = sm.done
    BY <2>3, <2>7, <2>10
  <2>13. c.st # "cmd" /\ c.st # "take" /\ c.did = sm.done
    BY ONLY <2>12 DEF There
  <2>14. c.st = "idle"
    <3>1. c \in CardType
      BY <1>2, <1>3, <1>4 DEF SimInvOf, SimTyped, OneIsOn
    <3>2. QED
      BY <1>7, <2>13, <3>1 DEF CardType
  <2>15. sm.cmd.kind \in {"to", "from"}
    BY <2>2, CommandLength
  <2>16. QED
    BY ONLY <2>2, <2>3, <2>11, <2>13, <2>14, <2>15
<1>8. /\ c = cs[sm.active] /\ su = Rests(sm.active, sm.conv, sm.clean /\ "status" # "timeout")
      /\ lb.op = "apdu" /\ lb.r = "status" /\ lb.got = sm.got /\ lb.done = sm.done
  BY <1>3, <1>4
<1>9. PICK r : r = "status"
  OBVIOUS
<1>10. /\ c = cs[sm.active] /\ su = Rests(sm.active, sm.conv, sm.clean /\ r # "timeout")
       /\ lb.op = "apdu" /\ lb.r = r /\ lb.got = sm.got /\ lb.done = sm.done
       /\ sm.clean /\ r # "timeout" =>
            /\ r = "status"
            /\ c.st # "off" =>
                 /\ c.st = "idle" /\ c.out = <<>> /\ sm.done = c.did
                 /\ IF c.cmd.kind = "to" THEN c.got = OneTo(sm.done) ELSE sm.got = EachOf(sm.done)
  BY ONLY <1>7, <1>8, <1>9
<1>11. SimInvOf(su, dw, cs, lb)
  BY ONLY <1>2, <1>5, <1>6, <1>10, EndFrame, SMTT(30)
<1>12. QED
  BY <1>1, <1>4, <1>11 DEF SimInv

\* A character that is no procedure byte does not come as long as nothing timed out.
LEMMA NoProcedureByteKeeps ==
  ASSUME SimInv, NoProcedureByte
  PROVE  SimInv'
<1>1. PICK sm, dv, cs, la, dw, lb : /\ sm = sim /\ dv = dev /\ cs = cards /\ la = last /\ dw = dev'
                                    /\ lb = last'
  OBVIOUS
<1>2. SimInvOf(sm, dv, cs, la)
  BY <1>1 DEF SimInv
<1>3. PICK c, x, h, su : /\ c = cs[sm.active] /\ x = Head(dv.rx) /\ h = Heard
                         /\ su = Rests(sm.active, sm.conv, sm.clean /\ "proto" # "timeout")
  OBVIOUS
<1>4. /\ sm.pc = "t0" /\ dv.rx # <<>> /\ dw = [dv EXCEPT !.rx = Tail(@)] /\ cards' = cs
      /\ h = [Head(dv.rx) EXCEPT !.inv = @ # sm.conv] /\ sim' = su
      /\ h.k \notin {"null", "sw1", "all", "one"} \/ h.inv
      /\ lb.op = "apdu" /\ lb.r = "proto" /\ lb.got = sm.got /\ lb.done = sm.done
  BY <1>1, <1>3 DEF NoProcedureByte, Hears, Heard, EndsWith, Returned
<1>5. InT0(sm)
  BY <1>4 DEF InT0
<1>6. /\ sm \in SimType /\ dv \in DevType /\ Counted(sm) /\ x \in CharType
      /\ dw \in DevType /\ dw.supply = dv.supply /\ dw.clock = dv.clock /\ dw.sel = dv.sel
      /\ h.k = x.k
  BY ONLY <1>2, <1>3, <1>4, ReadIs
<1>7. ~sm.clean
  <2>1. SUFFICES ASSUME sm.clean PROVE FALSE
    OBVIOUS
  <2>2. Goes(sm, dv, c, x)
    BY <1>2, <1>3, <1>4, <1>5, <2>1, NextOfExchange
  <2>3. PICK m, i : m = sm.cmd /\ i = sm.conv
    OBVIOUS
  <2>4. May(Here(sm), x, m, i)
    BY <2>2, <2>3 DEF Goes
  <2>5. (x.inv <=> i) /\ x.k \in {"null", "sw1", "all", "one"}
    BY ONLY <1>4, <1>6, <2>4, HereIs
  <2>6. h.inv <=> ~(x.inv <=> i)
    <3>1. i \in BOOLEAN /\ x \in CharType
      BY <1>6, <2>3 DEF SimType
    <3>2. h = [x EXCEPT !.inv = @ # i]
      BY <1>3, <1>4, <2>3
    <3>3. QED
      BY ONLY <3>1, <3>2, HeardIs, Zenon
  <2>7. ~h.inv
    BY ONLY <2>5, <2>6
  <2>8. QED
    BY ONLY <1>4, <1>6, <2>5, <2>7
<1>8. PICK r : r = "proto"
  OBVIOUS
<1>9. /\ c = cs[sm.active] /\ su = Rests(sm.active, sm.conv, sm.clean /\ r # "timeout")
      /\ lb.op = "apdu" /\ lb.r = r /\ lb.got = sm.got /\ lb.done = sm.done
  BY ONLY <1>3, <1>4, <1>8
<1>10. SimInvOf(su, dw, cs, lb)
  BY ONLY <1>2, <1>5, <1>6, <1>7, <1>9, EndFrame
<1>11. QED
  BY <1>1, <1>4, <1>10 DEF SimInv

\* No byte in time.
LEMMA SilentKeeps ==
  ASSUME SimInv, Silent
  PROVE  SimInv'
<1>1. PICK sm, dv, cs, la, lb : sm = sim /\ dv = dev /\ cs = cards /\ la = last /\ lb = last'
  OBVIOUS
<1>2. SimInvOf(sm, dv, cs, la)
  BY <1>1 DEF SimInv
<1>3. PICK c, su : /\ c = cs[sm.active]
                   /\ su = Rests(sm.active, sm.conv, sm.clean /\ "timeout" # "timeout")
  OBVIOUS
<1>4. /\ InT0(sm) /\ dev' = dv /\ cards' = cs /\ sim' = su
      /\ lb.op = "apdu" /\ lb.r = "timeout" /\ lb.got = sm.got /\ lb.done = sm.done
  BY <1>1, <1>3 DEF Silent, EndsWith, Returned, InT0
<1>5. dv \in DevType
  BY <1>2 DEF SimInvOf, SimTyped
<1>6. SimInvOf(su, dv, cs, lb)
  BY <1>2, <1>3, <1>4, <1>5, EndFrame
<1>7. QED
  BY <1>1, <1>4, <1>6 DEF SimInv

\* A byte of the card.
LEMMA ByteKeeps ==
  ASSUME SimInv, Byte
  PROVE  SimInv'
<1>1. PICK sm, dv, cs, la, dw, lb : /\ sm = sim /\ dv = dev /\ cs = cards /\ la = last /\ dw = dev'
                                    /\ lb = last'
  OBVIOUS
<1>2. SimInvOf(sm, dv, cs, la)
  BY <1>1 DEF SimInv
<1>3. PICK c, x, h : c = cs[sm.active] /\ x = Head(dv.rx) /\ h = Heard
  OBVIOUS
<1>4. PICK d \in Nat, w \in Nat, g \in Seq(SUBSET Value) : d = sm.done /\ w = sm.want /\ g = sm.got
  BY <1>2 DEF SimInvOf, SimTyped, SimType
<1>5. PICK p, y : p = (IF w = 1 THEN "t0" ELSE "bytes") /\ y = Append(g, h.v)
  OBVIOUS
<1>6. PICK su : su = [sm EXCEPT !.got = y, !.done = d + 1, !.want = w - 1, !.pc = p]
  OBVIOUS
<1>7. /\ sm.pc = "bytes" /\ dv.rx # <<>> /\ dw = [dv EXCEPT !.rx = Tail(@)] /\ cards' = cs
      /\ h = [Head(dv.rx) EXCEPT !.inv = @ # sm.conv] /\ sim' = su
  <2>1. /\ sm.pc = "bytes" /\ dv.rx # <<>> /\ dw = [dv EXCEPT !.rx = Tail(@)] /\ cards' = cs
        /\ h = [Head(dv.rx) EXCEPT !.inv = @ # sm.conv]
    BY <1>1, <1>3 DEF Byte, Hears, Heard
  <2>2. sim' = [sm EXCEPT !.got = Append(@, h.v), !.done = @ + 1, !.want = @ - 1,
                          !.pc = IF sm.want = 1 THEN "t0" ELSE @]
    BY <1>1, <1>3 DEF Byte
  <2>3. sim' = su
    BY ONLY <1>4, <1>5, <1>6, <2>1, <2>2
  <2>4. QED
    BY <2>1, <2>3
<1>8. InT0(sm)
  BY <1>7 DEF InT0
<1>9. /\ sm \in SimType /\ Counted(sm) /\ h.v = x.v /\ x \in CharType
  BY <1>2, <1>3, <1>7, ReadIs
<1>10. w > 0 /\ d + w <= sm.cmd.len /\ d + 1 \in Nat /\ w - 1 \in Nat /\ (w = 1 <=> ~(w - 1 > 0))
       /\ sm.cmd.len \in Nat
  <2>1. w > 0 /\ d + w <= sm.cmd.len
    BY <1>4, <1>7, <1>8, <1>9 DEF Counted, InT0
  <2>2. sm.cmd.len \in Nat
    BY <1>9, CommandLength DEF SimType
  <2>3. QED
    BY ONLY <2>1, <2>2, d \in Nat, w \in Nat
<1>11. y \in Seq(SUBSET Value) /\ p \in {"t0", "bytes"}
  BY <1>5, <1>9 DEF CharType
<1>12. /\ su \in SimType
       /\ su.active = sm.active /\ su.held = sm.held /\ su.slot = sm.slot /\ su.conv = sm.conv
       /\ su.clean = sm.clean /\ su.cmd = sm.cmd /\ su.pc = p /\ su.done = d + 1
       /\ su.want = w - 1 /\ su.got = y
  <2>1. PICK t : t = [sm EXCEPT !.got = y]
    OBVIOUS
  <2>2. PICK u : u = [t EXCEPT !.done = d + 1]
    OBVIOUS
  <2>3. PICK z : z = [u EXCEPT !.want = w - 1]
    OBVIOUS
  <2>4. su = [z EXCEPT !.pc = p]
    BY <1>6, <2>1, <2>2, <2>3
  <2>5. /\ t \in SimType
        /\ t.active = sm.active /\ t.held = sm.held /\ t.slot = sm.slot /\ t.conv = sm.conv
        /\ t.clean = sm.clean /\ t.cmd = sm.cmd /\ t.got = y
    BY ONLY <1>9, <1>11, <2>1 DEF SimType
  <2>6. /\ u \in SimType
        /\ u.active = t.active /\ u.held = t.held /\ u.slot = t.slot /\ u.conv = t.conv
        /\ u.clean = t.clean /\ u.cmd = t.cmd /\ u.got = t.got /\ u.done = d + 1
    BY ONLY <1>10, <2>2, <2>5 DEF SimType
  <2>7. /\ z \in SimType
        /\ z.active = u.active /\ z.held = u.held /\ z.slot = u.slot /\ z.conv = u.conv
        /\ z.clean = u.clean /\ z.cmd = u.cmd /\ z.got = u.got /\ z.done = u.done /\ z.want = w - 1
    BY ONLY <1>10, <2>3, <2>6 DEF SimType
  <2>8. /\ su \in SimType
        /\ su.active = z.active /\ su.held = z.held /\ su.slot = z.slot /\ su.conv = z.conv
        /\ su.clean = z.clean /\ su.cmd = z.cmd /\ su.got = z.got /\ su.done = z.done
        /\ su.want = z.want /\ su.pc = p
    BY ONLY <1>11, <2>4, <2>7 DEF SimType
  <2>9. QED
    BY ONLY <2>5, <2>6, <2>7, <2>8
<1>13. InT0(su)
  BY <1>11, <1>12 DEF InT0
<1>14. Counted(su)
  <2>1. d + 1 + (w - 1) <= sm.cmd.len
    BY ONLY <1>10, d \in Nat, w \in Nat
  <2>2. p = "bytes" <=> w - 1 > 0
    BY <1>5, <1>10
  <2>3. QED
    BY ONLY <1>12, <2>1, <2>2 DEF Counted
<1>15. Here(su) = Then(Here(sm), x, sm.cmd)
  <2>1. Here(su) = [at |-> p, done |-> d + 1, want |-> w - 1]
    BY ONLY <1>12 DEF Here
  <2>2. Then(Here(sm), x, sm.cmd) = [at |-> IF w = 1 THEN "t0" ELSE "bytes", done |-> d + 1, want |-> w - 1]
    BY ONLY <1>4, <1>7 DEF Then, Here
  <2>3. QED
    BY ONLY <1>5, <2>1, <2>2
<1>16. ASSUME sm.clean
       PROVE  /\ sm.cmd.kind = "to" => su.pc # "bytes"
              /\ sm.cmd.kind = "from" => su.got = EachOf(su.done)
  <2>1. Goes(sm, dv, c, x)
    BY <1>2, <1>3, <1>7, <1>8, <1>16, NextOfExchange
  <2>2. PICK m, i : m = sm.cmd /\ i = sm.conv
    OBVIOUS
  <2>3. May(Here(sm), x, m, i) /\ m.kind # "to" /\ (m.kind = "from" => g = EachOf(d))
    BY <1>4, <1>7, <2>1, <2>2 DEF Goes
  <2>4. x.v = {d + 1}
    BY ONLY <1>4, <1>7, <1>9, <2>3, HereIs
  <2>5. ASSUME g = EachOf(d) PROVE y = EachOf(d + 1)
    <3>1. Len(g) = d /\ \A j \in 1 .. d : g[j] = {j}
      BY <2>5 DEF EachOf
    <3>2. y = Append(g, {d + 1})
      BY <1>5, <1>9, <2>4
    <3>3. /\ y \in Seq(SUBSET Value) /\ Len(y) = d + 1
          /\ \A j \in 1 .. d + 1 : y[j] = {j}
      BY <1>11, <3>1, <3>2
    <3>4. y = [j \in 1 .. d + 1 |-> y[j]]
      BY ONLY <3>3, LenProperties
    <3>5. QED
      BY ONLY <3>3, <3>4 DEF EachOf
  <2>6. QED
    BY <1>12, <2>2, <2>3, <2>5
<1>17. c = cs[sm.active] /\ x = Head(dv.rx) /\ dv.rx # <<>> /\ dw = [dv EXCEPT !.rx = Tail(@)]
  BY <1>3, <1>7
<1>18. sm.clean =>
         /\ Here(su) = Then(Here(sm), x, sm.cmd)
         /\ sm.cmd.kind = "to" => su.pc # "bytes"
         /\ sm.cmd.kind = "from" => su.got = EachOf(su.done)
  BY <1>15, <1>16
<1>19. SimInvOf(su, dw, cs, lb)
  BY ONLY <1>2, <1>8, <1>12, <1>13, <1>14, <1>17, <1>18, ReadFrame
<1>20. QED
  BY <1>1, <1>7, <1>19 DEF SimInv

\* What a card makes of the characters that are sent to it.
LEMMA TakesType ==
  ASSUME NEW c \in CardType, c.st = "off" => c.out = <<>>, NEW conv,
         NEW chars, chars \in Seq(Nat), NEW m, m \in Commands \cup {NoCmd},
         NEW e, e = Takes(c, conv, chars, m)
  PROVE  e \in CardType /\ e.is = c.is /\ (e.st = "off" => e.out = <<>>)
<1>1. CASE c.st = "off" \/ conv # (c.is.ts = "inverse")
  BY <1>1 DEF Takes
<1>2. CASE ~(c.st = "off" \/ conv # (c.is.ts = "inverse")) /\ m # NoCmd /\ c.st = "idle" /\ c.out = <<>>
  <2>1. e = [c EXCEPT !.st = "cmd", !.cmd = m, !.did = 0, !.got = <<>>]
    BY <1>2 DEF Takes
  <2>2. <<>> \in Seq(Nat)
    OBVIOUS
  <2>3. QED
    BY ONLY <2>1, <2>2, c \in CardType, m \in Commands \cup {NoCmd} DEF CardType
<1>3. CASE ~(c.st = "off" \/ conv # (c.is.ts = "inverse")) /\ m = NoCmd /\ c.st = "take"
  <2>1. PICK d, g : d = c.did + Len(chars) /\ g = c.got \o chars
    OBVIOUS
  <2>2. e = [c EXCEPT !.st = "cmd", !.did = d, !.got = g]
    BY <1>3, <2>1 DEF Takes
  <2>3. d \in Nat /\ g \in Seq(Nat)
    <3>1. c.did \in Nat /\ c.got \in Seq(Nat)
      BY DEF CardType
    <3>2. QED
      BY <2>1, <3>1
  <2>4. QED
    BY ONLY <2>2, <2>3, c \in CardType DEF CardType
<1>4. CASE /\ ~(c.st = "off" \/ conv # (c.is.ts = "inverse"))
           /\ ~(m # NoCmd /\ c.st = "idle" /\ c.out = <<>>) /\ ~(m = NoCmd /\ c.st = "take")
  <2>1. PICK o : o = IF c.out = <<>> THEN <<Char("sw1", {}, {})>> ELSE c.out
    OBVIOUS
  <2>2. e = [c EXCEPT !.st = "idle", !.out = o]
    BY <1>4, <2>1 DEF Takes
  <2>3. o \in Seq(CharType)
    <3>1. Char("sw1", {}, {}) \in CharType
      BY CharOf DEF Kind
    <3>2. c.out \in Seq(CharType)
      BY DEF CardType
    <3>3. QED
      BY <2>1, <3>1, <3>2
  <2>4. QED
    BY ONLY <2>2, <2>3, c \in CardType DEF CardType
<1>5. QED
  BY <1>1, <1>2, <1>3, <1>4

\* A command, for the active slot or another.
LEMMA ApduKeeps ==
  ASSUME SimInv, NEW s \in Slot, NEW m \in Commands, Apdu(s, m)
  PROVE  SimInv'
<1>1. PICK sm, dv, cs, la, dw, lb : /\ sm = sim /\ dv = dev /\ cs = cards /\ la = last /\ dw = dev'
                                    /\ lb = last'
  OBVIOUS
<1>2. SimInvOf(sm, dv, cs, la)
  BY <1>1 DEF SimInv
<1>3. CASE s # sim.active
  <2>1. sim' = sm /\ dev' = dv /\ cards' = cs /\ lb.op = "apdu" /\ lb.r = "notactive"
    BY <1>1, <1>3, Returns1Fields DEF Apdu
  <2>2. SimInvOf(sm, dv, cs, lb)
    BY ONLY <1>2, <2>1, OnlyReturns
  <2>3. QED
    BY <1>1, <2>1, <2>2 DEF SimInv
<1>4. CASE s = sim.active
  <2>1. PICK c, e, ds : c = cs[s] /\ e = Takes(c, sm.conv, <<>>, m) /\ ds = [cs EXCEPT ![s] = e]
    OBVIOUS
  <2>2. PICK t : t = [sm EXCEPT !.pc = "t0"]
    OBVIOUS
  <2>3. PICK u : u = [t EXCEPT !.slot = s]
    OBVIOUS
  <2>4. PICK su : su = [u EXCEPT !.cmd = m]
    OBVIOUS
  <2>5. PICK z : z = <<>>
    OBVIOUS
  <2>6. /\ s = sm.active /\ sm.pc = "out" /\ sim' = su /\ cards' = ds /\ dw = [dv EXCEPT !.rx = z]
    BY <1>1, <1>4, <2>1, <2>2, <2>3, <2>4, <2>5 DEF Apdu, Resting
  <2>7. /\ sm \in SimType /\ dv \in DevType /\ cs \in [Slot -> CardType] /\ OneIsOn(sm, dv, cs)
        /\ InStep(sm, dv, c)
    BY <1>2, <2>1, <2>6 DEF SimInvOf, SimTyped
  <2>8. /\ sm.done = 0 /\ sm.want = 0 /\ sm.got = <<>>
    <3>1. sm = Rests(sm.active, sm.conv, sm.clean)
      BY <2>6, <2>7 DEF OneIsOn
    <3>2. QED
      BY <3>1 DEF Rests
  <2>9. c \in CardType /\ (c.st = "off" => c.out = <<>>)
    BY <2>1, <2>7 DEF OneIsOn
  <2>10. m.len \in Nat /\ m.kind \in {"to", "from"} /\ m # NoCmd /\ m \in Commands \cup {NoCmd}
    BY CommandLength
  <2>11. e \in CardType /\ e.is = c.is /\ (e.st = "off" => e.out = <<>>)
    <3>1. PICK k, h : k = sm.conv /\ h = <<>>
      OBVIOUS
    <3>2. h \in Seq(Nat) /\ e = Takes(c, k, h, m)
      BY <2>1, <3>1
    <3>3. QED
      BY ONLY <2>9, <2>10, <3>2, TakesType
  <2>12. /\ su \in SimType /\ su.pc = "t0" /\ su.slot = s /\ su.cmd = m
         /\ su.active = sm.active /\ su.held = sm.held /\ su.conv = sm.conv /\ su.clean = sm.clean
         /\ su.done = sm.done /\ su.want = sm.want /\ su.got = sm.got
    <3>1. /\ t \in SimType /\ t.pc = "t0"
          /\ t.active = sm.active /\ t.held = sm.held /\ t.conv = sm.conv /\ t.clean = sm.clean
          /\ t.done = sm.done /\ t.want = sm.want /\ t.got = sm.got
      BY ONLY <2>2, <2>7 DEF SimType
    <3>2. /\ u \in SimType /\ u.pc = "t0" /\ u.slot = s
          /\ u.active = t.active /\ u.held = t.held /\ u.conv = t.conv /\ u.clean = t.clean
          /\ u.done = t.done /\ u.want = t.want /\ u.got = t.got
      BY ONLY <2>3, <3>1, s \in Slot DEF SimType
    <3>3. /\ su \in SimType /\ su.pc = "t0" /\ su.slot = s /\ su.cmd = m
          /\ su.active = u.active /\ su.held = u.held /\ su.conv = u.conv /\ su.clean = u.clean
          /\ su.done = u.done /\ su.want = u.want /\ su.got = u.got
      BY ONLY <2>4, <2>10, <3>2 DEF SimType
    <3>4. QED
      BY ONLY <3>1, <3>2, <3>3
  <2>13. /\ dw \in DevType /\ dw.rx = <<>>
         /\ dw.supply = dv.supply /\ dw.clock = dv.clock /\ dw.sel = dv.sel
    <3>1. z \in Seq(CharType)
      BY <2>5
    <3>2. QED
      BY ONLY <2>5, <2>6, <2>7, <3>1 DEF DevType
  <2>14. InStep(su, dw, e)
    <3>1. SUFFICES ASSUME sm.clean
                   PROVE  /\ sm.conv <=> e.is.ts = "inverse"
                          /\ m.kind = "from" => sm.got = EachOf(sm.done)
                          /\ Joined(su, dw, e, su.conv)
      <4>1. su.clean = sm.clean /\ su.cmd = m /\ m \in Commands
        BY <2>12
      <4>2. QED
        BY <2>12, <4>1 DEF InStep
    <3>2. sm.conv <=> c.is.ts = "inverse"
      BY <2>7, <3>1 DEF InStep
    <3>3. c.st = "off" \/ (c.st = "idle" /\ c.out = <<>>)
      BY <2>6, <2>7, <3>1 DEF InStep
    <3>4. EachOf(0) = <<>> /\ OneTo(0) = <<>>
      BY DEF EachOf, OneTo
    <3>5. PICK p, i, o : p = Here(su) /\ i = su.conv /\ o = dw.rx \o e.out
      OBVIOUS
    <3>6. p = [at |-> "t0", done |-> 0, want |-> 0] /\ p \in Place
      BY <2>8, <2>12, <3>5 DEF Here, Place
    <3>7. e.out = <<>> /\ (e.st # "off" => e.st = "cmd" /\ e.did = 0 /\ e.cmd = m /\ e.got = <<>>)
      <4>1. CASE c.st = "off"
        BY <2>1, <2>9, <4>1 DEF Takes
      <4>2. CASE c.st = "idle" /\ c.out = <<>>
        <5>1. ~(c.st = "off" \/ sm.conv # (c.is.ts = "inverse"))
          <6>1. sm.conv \in BOOLEAN
            BY <2>7 DEF SimType
          <6>2. QED
            BY <3>2, <4>2, <6>1
        <5>2. e = [c EXCEPT !.st = "cmd", !.cmd = m, !.did = 0, !.got = <<>>]
          BY <2>1, <2>10, <4>2, <5>1 DEF Takes
        <5>3. QED
          BY <2>9, <4>2, <5>2 DEF CardType
      <4>3. QED
        BY <3>3, <4>1, <4>2
    <3>8. o = <<>>
      BY <2>13, <3>5, <3>7
    <3>9. Stream(o, p, p, m, i)
      BY <3>6, <3>8, StreamEmpty
    <3>10. e.st # "off" => p = There(e)
      BY <3>6, <3>7 DEF There
    <3>11. Joined(su, dw, e, su.conv)
      BY <2>12, <3>4, <3>5, <3>6, <3>7, <3>9, <3>10 DEF Joined
    <3>12. QED
      BY <2>8, <2>11, <3>2, <3>4, <3>11
  <2>15. Counted(su)
    BY <2>8, <2>10, <2>12 DEF Counted
  <2>16. SimInvOf(su, dw, ds, lb)
    <3>1. /\ ds \in [Slot -> CardType] /\ ds[s] = e /\ \A k \in Slot : k # s => ds[k] = cs[k]
      BY <2>1, <2>7, <2>11
    <3>2. SimTyped(su, dw, ds)
      BY <2>12, <2>13, <3>1 DEF SimTyped
    <3>3. OneIsOn(su, dw, ds)
      <4>1. \A k \in Slot : ds[k].st = "off" => ds[k].out = <<>>
        BY <2>7, <2>11, <3>1 DEF OneIsOn
      <4>2. \A k \in Slot : k # su.active => ds[k].st = "off"
        BY <2>6, <2>7, <2>12, <3>1 DEF OneIsOn
      <4>3. su.slot = su.active /\ su.active \in Slot /\ su.pc # "out"
        BY <2>6, <2>12
      <4>4. QED
        BY ONLY <2>7, <2>12, <2>13, <4>1, <4>2, <4>3 DEF OneIsOn
    <3>4. Answers(su, dw, e) /\ Activated(su, dw, lb, e) /\ Exchanged(su, lb, e)
      BY ONLY <2>12 DEF Answers, Activated, Exchanged
    <3>5. ds[su.active] = e
      BY <2>6, <2>12, <3>1
    <3>6. QED
      BY ONLY <2>14, <2>15, <3>2, <3>3, <3>4, <3>5 DEF SimInvOf
  <2>17. QED
    BY <1>1, <2>6, <2>16 DEF SimInv
<1>5. QED
  BY <1>3, <1>4

\* The driver gives the card the bytes it asks for.
LEMMA AckToKeeps ==
  ASSUME SimInv, Ack, sim.cmd.kind = "to"
  PROVE  SimInv'
<1>1. PICK sm, dv, cs, la, dw, lb : /\ sm = sim /\ dv = dev /\ cs = cards /\ la = last /\ dw = dev'
                                    /\ lb = last'
  OBVIOUS
<1>2. SimInvOf(sm, dv, cs, la)
  BY <1>1 DEF SimInv
<1>3. PICK c, x, h : c = cs[sm.active] /\ x = Head(dv.rx) /\ h = Heard
  OBVIOUS
<1>4. PICK n, chars, e, ds : /\ n = Portion(h.k) /\ chars = [i \in 1 .. n |-> sm.done + i]
                             /\ e = Takes(c, sm.conv, chars, NoCmd)
                             /\ ds = [cs EXCEPT ![sm.active] = e]
  OBVIOUS
<1>5. PICK su : su = [sm EXCEPT !.done = @ + n]
  OBVIOUS
<1>6. /\ sm.pc = "t0" /\ dv.rx # <<>> /\ dw = [dv EXCEPT !.rx = Tail(@)]
      /\ h = [Head(dv.rx) EXCEPT !.inv = @ # sm.conv] /\ h.k \in {"all", "one"} /\ sim' = su
      /\ sm.cmd.kind = "to"
  BY <1>1, <1>3, <1>4, <1>5 DEF Ack, Hears, Heard
<1>7. InT0(sm)
  BY <1>6 DEF InT0
<1>8. /\ cs \in [Slot -> CardType] /\ OneIsOn(sm, dv, cs) /\ InStep(sm, dv, c)
  BY <1>2, <1>3 DEF SimInvOf, SimTyped
<1>9. sm.slot = sm.active /\ sm.active \in Slot
  BY <1>6, <1>8 DEF OneIsOn
<1>10. cards' = ds
  BY <1>1, <1>3, <1>4, <1>6, <1>9 DEF Ack
<1>11. /\ sm \in SimType /\ dv \in DevType /\ Counted(sm)
       /\ dw \in DevType /\ dw.supply = dv.supply /\ dw.clock = dv.clock /\ dw.sel = dv.sel
       /\ h.k = x.k
  BY ONLY <1>2, <1>3, <1>6, ReadIs
<1>12. PICK d \in Nat, l \in Nat : d = sm.done /\ l = sm.cmd.len
  BY <1>11, CommandLength DEF SimType
<1>13. n \in Nat /\ d + n <= l /\ d <= l
  <2>1. sm.done + sm.want <= sm.cmd.len /\ sm.want \in Nat
    BY <1>7, <1>11 DEF Counted, InT0, SimType
  <2>2. n = IF h.k = "all" \/ l - d = 0 THEN l - d ELSE 1
    BY <1>1, <1>4, <1>12 DEF Portion
  <2>3. PICK w \in Nat : d + w <= l
    BY <1>12, <2>1
  <2>4. QED
    BY ONLY <2>2, <2>3, d \in Nat, l \in Nat, w \in Nat
<1>14. chars \in Seq(Nat) /\ Len(chars) = n
  BY <1>4, <1>12, <1>13
<1>15. c \in CardType /\ (c.st = "off" => c.out = <<>>)
  BY <1>3, <1>8, <1>9 DEF OneIsOn
<1>16. e \in CardType /\ e.is = c.is /\ (e.st = "off" => e.out = <<>>)
  <2>1. PICK k, m : k = sm.conv /\ m = NoCmd
    OBVIOUS
  <2>2. e = Takes(c, k, chars, m) /\ m \in Commands \cup {NoCmd}
    BY <1>4, <2>1
  <2>3. QED
    BY ONLY <1>14, <1>15, <2>2, TakesType
<1>17. /\ su \in SimType
       /\ su.active = sm.active /\ su.held = sm.held /\ su.slot = sm.slot /\ su.conv = sm.conv
       /\ su.clean = sm.clean /\ su.cmd = sm.cmd /\ su.pc = "t0" /\ su.done = d + n
       /\ su.want = sm.want /\ su.got = sm.got
  <2>1. su = [sm EXCEPT !.done = d + n] /\ d + n \in Nat
    BY <1>5, <1>12, <1>13
  <2>2. QED
    BY ONLY <1>6, <1>11, <2>1 DEF SimType
<1>18. sm.want = 0
  BY <1>6, <1>7, <1>11 DEF Counted, InT0, SimType
<1>19. InT0(su) /\ Counted(su)
  <2>1. d + n + 0 <= l
    BY <1>13
  <2>2. QED
    BY <1>6, <1>12, <1>17, <1>18, <2>1 DEF InT0, Counted
<1>20. ASSUME sm.clean
       PROVE  sm.cmd \in Commands /\ Joined(su, dw, e, su.conv)
  <2>1. Goes(sm, dv, c, x)
    BY <1>2, <1>3, <1>6, <1>7, <1>20, NextOfExchange
  <2>2. May(Here(sm), x, sm.cmd, sm.conv) /\ sm.cmd \in Commands
    BY <2>1 DEF Goes
  <2>3. PICK r \in Place :
          /\ Stream(Tail(dv.rx) \o c.out, Then(Here(sm), x, sm.cmd), r, sm.cmd, sm.conv)
          /\ c.st # "off" => r = There(c) /\ c.cmd = sm.cmd /\ (sm.cmd.kind = "to" => c.got = OneTo(c.did))
    BY <2>1 DEF Goes
  <2>4. PICK p, m, i, w, u : /\ p = Then(Here(sm), x, sm.cmd) /\ m = sm.cmd /\ i = sm.conv
                             /\ w = Tail(dv.rx) \o c.out /\ u = Tail(dv.rx)
    OBVIOUS
  <2>5. p.at = "gives" /\ p.done = d /\ p \in Place
    <3>1. Here(sm) \in Place
      BY <1>7, <1>11, HereType
    <3>2. p \in Place
      <4>1. m.len \in Nat /\ Then(Here(sm), x, m) = p /\ May(Here(sm), x, m, i)
        BY <2>2, <2>4, CommandLength
      <4>2. QED
        BY ONLY <3>1, <4>1, ThenType
    <3>3. p = [Here(sm) EXCEPT !.at = "gives"]
      BY ONLY <1>6, <1>11, <2>4 DEF Then, Here
    <3>4. QED
      BY ONLY <1>12, <3>2, <3>3 DEF Here
  <2>6. u \in Seq(CharType) /\ c.out \in Seq(CharType)
    <3>1. dv.rx \in Seq(CharType)
      BY <1>11 DEF DevType
    <3>2. QED
      BY <1>6, <1>15, <2>4, <3>1 DEF CardType
  <2>7. w \in Seq(CharType) /\ Stream(w, p, r, m, i)
    BY <2>3, <2>4, <2>6, ConcatProperties
  <2>8. w = <<>> /\ r = p
    BY ONLY <2>5, <2>7, StreamStops
  <2>9. c.out = <<>> /\ u = <<>>
    <3>1. PICK o : o = c.out
      OBVIOUS
    <3>2. u \in Seq(CharType) /\ o \in Seq(CharType) /\ u \o o = <<>>
      BY <2>4, <2>6, <2>8, <3>1
    <3>3. Len(u \o o) = Len(u) + Len(o) /\ Len(<<>>) = 0 /\ Len(u) \in Nat /\ Len(o) \in Nat
      BY ONLY <3>2, ConcatProperties, LenProperties
    <3>4. Len(o) = 0 /\ Len(u) = 0
      BY ONLY <3>2, <3>3
    <3>5. QED
      BY ONLY <3>1, <3>2, <3>4, EmptySeq
  <2>10. ASSUME c.st # "off"
         PROVE  /\ e.st = "cmd" /\ e.out = <<>> /\ e.did = d + n /\ e.cmd = c.cmd
                /\ e.got = OneTo(d + n)
    <3>1. c.did = d /\ c.st = "take" /\ c.got = OneTo(d)
      <4>1. There(c).at = "gives" /\ There(c).done = d
        BY <2>3, <2>5, <2>8, <2>10
      <4>2. QED
        BY <1>6, <2>3, <2>10, <4>1 DEF There
    <3>2. ~(c.st = "off" \/ sm.conv # (c.is.ts = "inverse"))
      <4>1. sm.conv \in BOOLEAN
        BY <1>11 DEF SimType
      <4>2. sm.conv <=> c.is.ts = "inverse"
        BY <1>8, <1>20 DEF InStep
      <4>3. QED
        BY <2>10, <4>1, <4>2
    <3>3. PICK g : g = c.got \o chars
      OBVIOUS
    <3>4. e = [c EXCEPT !.st = "cmd", !.did = d + n, !.got = g]
      BY <1>4, <1>14, <3>1, <3>2, <3>3 DEF Takes
    <3>5. g = OneTo(d + n)
      <4>1. c.got \in Seq(Nat) /\ Len(c.got) = d /\ \A j \in 1 .. d : c.got[j] = j
        BY <1>15, <3>1 DEF OneTo, CardType
      <4>2. \A j \in 1 .. n : chars[j] = d + j
        BY <1>4, <1>12
      <4>3. g \in Seq(Nat) /\ Len(g) = d + n
            /\ \A j \in 1 .. d + n : g[j] = IF j <= d THEN c.got[j] ELSE chars[j - d]
        BY ONLY <1>14, <3>3, <4>1, ConcatProperties, ZenonT(40)
      <4>4. ASSUME NEW j \in 1 .. d + n PROVE g[j] = j
        <5>1. (j <= d => j \in 1 .. d) /\ (~(j <= d) => j - d \in 1 .. n /\ d + (j - d) = j)
          BY <1>13
        <5>2. QED
          BY ONLY <4>1, <4>2, <4>3, <4>4, <5>1
      <4>5. g = [j \in 1 .. d + n |-> g[j]]
        BY ONLY <4>3, LenProperties
      <4>6. QED
        BY ONLY <4>4, <4>5 DEF OneTo
    <3>6. QED
      BY ONLY <1>15, <2>9, <3>4, <3>5 DEF CardType
  <2>11. e.out = <<>> /\ (e.st # "off" => c.st # "off")
    <3>1. c.st = "off" => e = c
      BY <1>4 DEF Takes
    <3>2. QED
      BY <1>15, <2>10, <3>1
  <2>12. PICK q, o : q = Here(su) /\ o = dw.rx \o e.out
    OBVIOUS
  <2>13. q = [at |-> "t0", done |-> d + n, want |-> 0] /\ q \in Place
    <3>1. q = [at |-> "t0", done |-> d + n, want |-> 0]
      BY <1>17, <1>18, <2>12 DEF Here
    <3>2. d + n \in Nat
      BY <1>13
    <3>3. QED
      BY <3>1, <3>2 DEF Place
  <2>14. o = <<>>
    <3>1. dw.rx = <<>>
      <4>1. dw.rx = Tail(dv.rx)
        BY <1>6, <1>11, HearsIs
      <4>2. QED
        BY <2>4, <2>9, <4>1
    <3>2. QED
      BY <2>11, <2>12, <3>1
  <2>15. Stream(o, q, q, m, i)
    BY <2>13, <2>14, StreamEmpty
  <2>16. e.st # "off" => q = There(e) /\ e.cmd = sm.cmd /\ e.got = OneTo(e.did)
    BY <2>3, <2>10, <2>11, <2>13 DEF There
  <2>17. su.cmd = m /\ su.conv = i
    BY <1>17, <2>4
  <2>18. Joined(su, dw, e, su.conv)
    BY <2>4, <2>12, <2>13, <2>15, <2>16, <2>17 DEF Joined
  <2>19. QED
    BY <2>2, <2>18
<1>21. InStep(su, dw, e)
  <2>1. sm.clean => (su.conv <=> e.is.ts = "inverse")
    BY <1>8, <1>16, <1>17 DEF InStep
  <2>2. sm.cmd.kind = "to" /\ su.cmd = sm.cmd /\ su.clean = sm.clean /\ su.pc = "t0"
    BY <1>6, <1>17
  <2>3. QED
    BY ONLY <1>20, <2>1, <2>2 DEF InStep
<1>22. SimInvOf(su, dw, ds, lb)
  BY ONLY <1>2, <1>4, <1>7, <1>11, <1>16, <1>17, <1>19, <1>21, T0Frame, ZenonT(40)
<1>23. QED
  BY <1>1, <1>6, <1>10, <1>22 DEF SimInv

\* The driver expects the bytes the card announces.
LEMMA AckFromKeeps ==
  ASSUME SimInv, Ack, sim.cmd.kind # "to"
  PROVE  SimInv'
<1>1. PICK sm, dv, cs, la, dw, lb : /\ sm = sim /\ dv = dev /\ cs = cards /\ la = last /\ dw = dev'
                                    /\ lb = last'
  OBVIOUS
<1>2. SimInvOf(sm, dv, cs, la)
  BY <1>1 DEF SimInv
<1>3. PICK c, x, h : c = cs[sm.active] /\ x = Head(dv.rx) /\ h = Heard
  OBVIOUS
<1>4. PICK n, p : n = Portion(h.k) /\ p = IF n = 0 THEN "t0" ELSE "bytes"
  OBVIOUS
<1>5. PICK su : su = [sm EXCEPT !.pc = p, !.want = n]
  OBVIOUS
<1>6. /\ sm.pc = "t0" /\ dv.rx # <<>> /\ dw = [dv EXCEPT !.rx = Tail(@)] /\ cards' = cs
      /\ h = [Head(dv.rx) EXCEPT !.inv = @ # sm.conv] /\ h.k \in {"all", "one"} /\ sim' = su
      /\ sm.cmd.kind # "to"
  BY <1>1, <1>3, <1>4, <1>5 DEF Ack, Hears, Heard
<1>7. InT0(sm)
  BY <1>6 DEF InT0
<1>8. sm \in SimType /\ Counted(sm) /\ h.k = x.k
  BY ONLY <1>2, <1>3, <1>6, ReadIs
<1>9. PICK d \in Nat, l \in Nat : d = sm.done /\ l = sm.cmd.len
  BY <1>8, CommandLength DEF SimType
<1>10. n = (IF h.k = "all" \/ l - d = 0 THEN l - d ELSE 1) /\ n \in Nat /\ d + n <= l
  <2>1. sm.done + sm.want <= sm.cmd.len /\ sm.want \in Nat
    BY <1>7, <1>8 DEF Counted, InT0, SimType
  <2>2. n = IF h.k = "all" \/ l - d = 0 THEN l - d ELSE 1
    BY <1>1, <1>4, <1>9 DEF Portion
  <2>3. PICK w \in Nat : d + w <= l
    BY <1>9, <2>1
  <2>4. QED
    BY ONLY <2>2, <2>3, d \in Nat, l \in Nat, w \in Nat
<1>11. p \in {"t0", "bytes"} /\ (p = "bytes" <=> n > 0)
  BY <1>4, <1>10
<1>12. /\ su \in SimType
       /\ su.active = sm.active /\ su.held = sm.held /\ su.slot = sm.slot /\ su.conv = sm.conv
       /\ su.clean = sm.clean /\ su.cmd = sm.cmd /\ su.pc = p /\ su.done = sm.done
       /\ su.want = n /\ su.got = sm.got
  BY ONLY <1>5, <1>8, <1>10, <1>11 DEF SimType
<1>13. InT0(su)
  BY <1>11, <1>12 DEF InT0
<1>14. Counted(su)
  BY ONLY <1>9, <1>10, <1>11, <1>12 DEF Counted
<1>15. ASSUME sm.clean
       PROVE  /\ Here(su) = Then(Here(sm), x, sm.cmd)
              /\ sm.cmd.kind = "to" => su.pc # "bytes"
              /\ sm.cmd.kind = "from" => su.got = EachOf(su.done)
  <2>1. Goes(sm, dv, c, x)
    BY <1>2, <1>3, <1>6, <1>7, <1>15, NextOfExchange
  <2>2. PICK m, i : m = sm.cmd /\ i = sm.conv
    OBVIOUS
  <2>3. May(Here(sm), x, m, i) /\ (m.kind = "from" => sm.got = EachOf(sm.done))
    BY <2>1, <2>2 DEF Goes
  <2>4. d < l
    BY ONLY <1>6, <1>8, <1>9, <2>2, <2>3, HereIs
  <2>5. n = IF h.k = "all" THEN l - d ELSE 1
    BY ONLY <1>10, <2>4, d \in Nat, l \in Nat
  <2>6. p = "bytes"
    BY ONLY <1>11, <2>4, <2>5, d \in Nat, l \in Nat
  <2>7. Here(su) = [at |-> "bytes", done |-> d, want |-> n]
    BY ONLY <1>9, <1>12, <2>6 DEF Here
  <2>8. Then(Here(sm), x, sm.cmd) = [Here(sm) EXCEPT !.at = "bytes", !.want = n]
    BY ONLY <1>6, <1>8, <1>9, <2>5 DEF Then, Here
  <2>9. [Here(sm) EXCEPT !.at = "bytes", !.want = n] = [at |-> "bytes", done |-> d, want |-> n]
    <3>1. PICK k, e : k = Here(sm) /\ e = [k EXCEPT !.at = "bytes", !.want = n]
      OBVIOUS
    <3>2. k = [at |-> k.at, done |-> k.done, want |-> k.want] /\ k.done = d
      BY ONLY <1>9, <3>1 DEF Here
    <3>3. e = [at |-> "bytes", done |-> k.done, want |-> n]
      BY ONLY <3>1, <3>2
    <3>4. QED
      BY ONLY <3>1, <3>2, <3>3
  <2>10. QED
    BY ONLY <1>6, <1>12, <2>2, <2>3, <2>7, <2>8, <2>9
<1>16. c = cs[sm.active] /\ x = Head(dv.rx) /\ dv.rx # <<>> /\ dw = [dv EXCEPT !.rx = Tail(@)]
  BY <1>3, <1>6
<1>17. SimInvOf(su, dw, cs, lb)
  BY ONLY <1>2, <1>7, <1>12, <1>13, <1>14, <1>15, <1>16, ReadFrame
<1>18. QED
  BY <1>1, <1>6, <1>17 DEF SimInv

\* A procedure byte, in either direction.
LEMMA AckKeeps ==
  ASSUME SimInv, Ack
  PROVE  SimInv'
<1>1. CASE sim.cmd.kind = "to"
  BY <1>1, AckToKeeps
<1>2. CASE sim.cmd.kind # "to"
  BY <1>2, AckFromKeeps
<1>3. QED
  BY <1>1, <1>2

-----------------------------------------------------------------------------
\* Every step preserves the invariant.
LEMMA SimNextKeeps ==
  ASSUME SimInv, [SimNext]_simvars
  PROVE  SimInv'
<1>1. CASE SimCall
  <2>1. PICK s \in Slot : \/ \E cls \in {"any", "B", "C"} : Activate(s, cls)
                          \/ Deactivate(s)
                          \/ \E m \in Commands : Apdu(s, m)
    BY <1>1 DEF SimCall
  <2>2. QED
    BY <2>1, ActivateKeeps, DeactivateKeeps, ApduKeeps
<1>2. CASE SimCard
  <2>1. PICK s \in Slot : CardChar(s) \/ CardNull(s) \/ CardAck(s) \/ CardStatus(s) \/ CardStops(s)
    BY <1>2 DEF SimCard
  <2>2. QED
    BY <2>1, CardCharKeeps, CardNullKeeps, CardAckKeeps, CardStatusKeeps, CardStopsKeeps
<1>3. CASE AtrChar
  BY <1>3, AtrCharKeeps
<1>4. CASE AtrEnd
  BY <1>4, AtrEndKeeps
<1>5. CASE Null
  BY <1>5, NullKeeps
<1>6. CASE Status1
  BY <1>6, Status1Keeps
<1>7. CASE Status2
  BY <1>7, Status2Keeps
<1>8. CASE Ack
  BY <1>8, AckKeeps
<1>9. CASE NoProcedureByte
  BY <1>9, NoProcedureByteKeeps
<1>10. CASE Byte
  BY <1>10, ByteKeeps
<1>11. CASE Silent
  BY <1>11, SilentKeeps
<1>12. CASE UNCHANGED simvars
  BY <1>12 DEF simvars, SimInv
<1>13. QED
  BY <1>1, <1>2, <1>3, <1>4, <1>5, <1>6, <1>7, <1>8, <1>9, <1>10, <1>11, <1>12 DEF SimNext

\* The invariant implies the property.
LEMMA SimInvServes ==
  ASSUME SimInv
  PROVE  CardServed
<1>1. PICK sm, dv, cs, la : sm = sim /\ dv = dev /\ cs = cards /\ la = last
  OBVIOUS
<1>2. SimInvOf(sm, dv, cs, la)
  BY <1>1 DEF SimInv
<1>3. PICK c : c = cs[sm.active]
  OBVIOUS
<1>4. /\ sm \in SimType /\ dv \in DevType /\ OneIsOn(sm, dv, cs)
      /\ Activated(sm, dv, la, c) /\ Exchanged(sm, la, c)
  BY <1>2, <1>3 DEF SimInvOf, SimTyped
<1>5. SUFFICES ASSUME sm.pc = "out"
               PROVE  /\ \A s \in Slot : dv.supply[s] # "off" <=> s = sm.active
                      /\ dv.clock = sm.held /\ (sm.held <=> sm.active # NoSlot)
                      /\ la.op = "activate" /\ la.r = "ok" =>
                           LET k == cs[sm.active].is
                           IN  /\ la.cls = dv.supply[sm.active] /\ la.cls \in k.works /\ k.ts # "bad"
                               /\ la.atr.complete => la.atr = Says(k)
                               /\ la.asked = "any" /\ la.cls = "C" /\ la.atr.complete /\ k.classes # {}
                                    => "C" \in k.classes \/ la.mode = "back"
                      /\ la.r \in {"status", "proto"} /\ sm.clean =>
                           LET k == cs[sm.active]
                           IN  /\ la.r = "status"
                               /\ k.st # "off" =>
                                    /\ k.st = "idle" /\ la.done = k.did
                                    /\ IF k.cmd.kind = "to" THEN k.got = [i \in 1 .. la.done |-> i]
                                       ELSE la.got = [i \in 1 .. la.done |-> {i}]
  BY <1>1 DEF CardServed, Resting
<1>6. \A s \in Slot : dv.supply[s] # "off" <=> s = sm.active
  BY <1>4 DEF OneIsOn
<1>7. dv.clock = sm.held /\ (sm.held <=> sm.active # NoSlot)
  <2>1. dv.clock \in BOOLEAN /\ sm.held \in BOOLEAN
    BY <1>4 DEF SimType, DevType
  <2>2. QED
    BY <1>4, <2>1 DEF OneIsOn
<1>8. la.op = "activate" /\ la.r = "ok" =>
        /\ la.cls = dv.supply[sm.active] /\ la.cls \in c.is.works /\ c.is.ts # "bad"
        /\ la.atr.complete => la.atr = Says(c.is)
        /\ la.asked = "any" /\ la.cls = "C" /\ la.atr.complete /\ c.is.classes # {}
             => "C" \in c.is.classes \/ la.mode = "back"
  BY <1>4, <1>5 DEF Activated
<1>9. la.r \in {"status", "proto"} /\ sm.clean =>
        /\ la.r = "status"
        /\ c.st # "off" =>
             /\ c.st = "idle" /\ la.done = c.did
             /\ IF c.cmd.kind = "to" THEN c.got = [i \in 1 .. la.done |-> i]
                ELSE la.got = [i \in 1 .. la.done |-> {i}]
  BY <1>4, <1>5 DEF Exchanged, OneTo, EachOf
<1>10. QED
  BY ONLY <1>3, <1>6, <1>7, <1>8, <1>9

\* The SIM serves its caller, whatever the cards and the commands.
THEOREM CardIsServed == SimSpec => []CardServed
<1>1. SimInit => SimInv
  BY SimInitInv
<1>2. SimInv /\ [SimNext]_simvars => SimInv'
  BY SimNextKeeps
<1>3. SimInv => CardServed
  BY SimInvServes
<1>4. QED
  BY <1>1, <1>2, <1>3, PTL DEF SimSpec
-----------------------------------------------------------------------------
\* The functions of YearLoop and MonthLoop: from <<p, d>>, as long as L[p] is not more than
\* what is left, and up to b.
Loop(f, a, b, N, L) ==
  f = [p \in (a .. b) \X (0 .. N) |->
         IF p[2] >= L[p[1]] /\ p[1] < b THEN f[<<p[1] + 1, p[2] - L[p[1]]>>] ELSE p]

\* There is such a function.
LEMMA LoopDefined ==
  ASSUME NEW a \in Nat, NEW b \in Nat, a <= b, NEW N \in Nat, NEW L \in [a .. b -> Nat]
  PROVE  \E f : Loop(f, a, b, N, L)
<1> DEFINE P == (a .. b) \X (0 .. N)
           S == [0 .. N -> P]
           final == [d \in 0 .. N |-> <<b, d>>]
           before(h, y) == [d \in 0 .. N |-> IF d >= L[y] THEN h[d - L[y]] ELSE <<y, d>>]
<1>1. PICK n \in Nat : n = b - a
  OBVIOUS
<1>2. PICK g : g = [q \in S \X (0 .. n) |-> IF q[2] = 0 THEN q[1] ELSE before(q[1], b - q[2])]
  OBVIOUS
<1>3. final \in S
  OBVIOUS
<1>4. \A h \in S, i \in 0 .. n : i # 0 => before(h, b - i) \in S
  <2>1. SUFFICES ASSUME NEW h \in S, NEW i \in 0 .. n, i # 0, NEW d \in 0 .. N
                 PROVE  (IF d >= L[b - i] THEN h[d - L[b - i]] ELSE <<b - i, d>>) \in P
    OBVIOUS
  <2>2. b - i \in a .. b
    BY <1>1
  <2>3. PICK l \in Nat : l = L[b - i]
    BY <2>2
  <2>4. d >= l => d - l \in 0 .. N
    BY ONLY l \in Nat, d \in 0 .. N, N \in Nat
  <2>5. QED
    BY <2>2, <2>3, <2>4
<1>5. g \in [S \X (0 .. n) -> S]
  <2> HIDE DEF S, before
  <2>1. QED
    BY ONLY <1>2, <1>4
<1>6. PICK G \in [0 .. n -> S] : Follows(G, 0, n, final, g)
  <2>1. PICK m, s : m = 0 /\ s = final /\ m \in Nat
    OBVIOUS
  <2>2. PICK T : T = S
    OBVIOUS
  <2>3. s \in T /\ g \in [T \X (m .. n) -> T]
    <3> HIDE DEF S, final
    <3>1. QED
      BY ONLY <1>3, <1>5, <2>1, <2>2
  <2>4. \E G \in [m .. n -> T] : Follows(G, m, n, s, g)
    BY ONLY <1>1, <2>1, <2>3, Recursion
  <2>5. QED
    <3> HIDE DEF S, final
    <3>1. QED
      BY ONLY <2>1, <2>2, <2>4
<1>7. G[0] = final /\ \A i \in 0 .. n : i # 0 => G[i] = before(G[i - 1], b - i)
  <2> HIDE DEF final
  <2>1. \A i \in 0 .. n : G[i] = IF i = 0 THEN final ELSE g[<<G[i - 1], i>>]
    BY <1>6 DEF Follows
  <2>2. 0 \in 0 .. n
    BY <1>1
  <2>3. ASSUME NEW i \in 0 .. n, i # 0 PROVE G[i] = before(G[i - 1], b - i)
    <3>1. i - 1 \in 0 .. n
      BY <2>3
    <3>2. G[i - 1] \in S
      BY <1>6, <3>1
    <3> HIDE DEF S, before
    <3>3. g[<<G[i - 1], i>>] = before(G[i - 1], b - i)
      BY ONLY <1>2, <2>3, <3>2
    <3>4. QED
      BY ONLY <2>1, <2>3, <3>3
  <2>4. QED
    BY <2>1, <2>2, <2>3
<1>8. PICK f : f = [p \in P |-> G[b - p[1]][p[2]]]
  OBVIOUS
<1>9. ASSUME NEW p \in P
      PROVE  f[p] = IF p[2] >= L[p[1]] /\ p[1] < b THEN f[<<p[1] + 1, p[2] - L[p[1]]>>] ELSE p
  <2>1. PICK y \in a .. b, d \in 0 .. N : p = <<y, d>>
    OBVIOUS
  <2>2. PICK l \in Nat : l = L[y]
    OBVIOUS
  <2>3. f[<<y, d>>] = G[b - y][d]
    BY <1>8
  <2>4. CASE y = b
    <3>1. b - y = 0
      BY <2>4
    <3>2. f[p] = final[d]
      BY <1>7, <2>1, <2>3, <3>1
    <3>3. final[d] = <<b, d>>
      OBVIOUS
    <3>4. p[1] = b /\ ~(b < b)
      BY <2>1, <2>4
    <3>5. QED
      BY ONLY <2>1, <2>4, <3>2, <3>3, <3>4
  <2>5. CASE y < b
    <3>1. PICK i \in 0 .. n : i = b - y
      BY <1>1
    <3>2. i # 0 /\ b - i = y /\ y + 1 \in a .. b /\ b - (y + 1) = i - 1
      BY <2>5, <3>1
    <3>3. G[i] = before(G[i - 1], y)
      <4> HIDE DEF before
      <4>1. QED
        BY <1>7, <3>2
    <3>4. f[p] = IF d >= l THEN G[i - 1][d - l] ELSE <<y, d>>
      BY ONLY <2>1, <2>2, <2>3, <3>1, <3>3, d \in 0 .. N
    <3>5. d >= l => f[<<y + 1, d - l>>] = G[i - 1][d - l]
      <4>1. d >= l => d - l \in 0 .. N
        BY ONLY l \in Nat, d \in 0 .. N, N \in Nat
      <4>2. QED
        BY ONLY <1>8, <3>2, <4>1
    <3>6. QED
      BY ONLY <2>1, <2>2, <2>5, <3>4, <3>5
  <2>6. QED
    BY <2>4, <2>5
<1>10. PICK h : h = [p \in P |-> IF p[2] >= L[p[1]] /\ p[1] < b
                               THEN f[<<p[1] + 1, p[2] - L[p[1]]>>] ELSE p]
  OBVIOUS
<1>11. f = h
  <2> HIDE DEF P
  <2>1. \A p \in P : f[p] = h[p]
    BY ONLY <1>9, <1>10
  <2>2. QED
    BY ONLY <1>8, <1>10, <2>1
<1>12. QED
  BY ONLY <1>10, <1>11 DEF Loop

\* St[p] is the sum of the lengths before p, and d falls into m.
FallsInto(d, m, a, b, N, L, St) ==
  /\ a \in Nat /\ b \in Nat /\ N \in Nat
  /\ L \in [a .. b -> Nat] /\ St \in [a .. b -> Nat]
  /\ m \in a .. b /\ d \in 0 .. N
  /\ St[a] = 0
  /\ \A j \in a .. b : j < b => St[j + 1] = St[j] + L[j]
  /\ \A j \in a .. m : St[j] <= d
  /\ d - St[m] < L[m]

\* Then it returns m, and the rest of d.
LEMMA LoopResult ==
  ASSUME NEW a, NEW b, NEW N, NEW L, NEW f, NEW St, NEW d, NEW m,
         Loop(f, a, b, N, L), FallsInto(d, m, a, b, N, L, St)
  PROVE  f[<<a, d>>] = <<m, d - St[m]>>
<1> USE DEF FallsInto
<1> DEFINE D == {k \in Nat : a + k <= m => f[<<a, d>>] = f[<<a + k, d - St[a + k]>>]}
<1>1. \A p \in (a .. b) \X (0 .. N) :
        f[p] = IF p[2] >= L[p[1]] /\ p[1] < b THEN f[<<p[1] + 1, p[2] - L[p[1]]>>] ELSE p
  <2>1. Loop(f, a, b, N, L)
    OBVIOUS
  <2>2. QED
    BY ONLY <2>1 DEF Loop
<1>2. \A y \in a .. b, e \in 0 .. N :
        f[<<y, e>>] = IF e >= L[y] /\ y < b THEN f[<<y + 1, e - L[y]>>] ELSE <<y, e>>
  BY ONLY <1>1
<1>3. 0 \in D
  <2>1. a + 0 = a /\ d - 0 = d
    OBVIOUS
  <2>2. QED
    BY <2>1
<1>4. ASSUME NEW k \in Nat, k \in D PROVE k + 1 \in D
  <2>1. SUFFICES ASSUME a + (k + 1) <= m
                 PROVE  f[<<a, d>>] = f[<<a + (k + 1), d - St[a + (k + 1)]>>]
    OBVIOUS
  <2>2. PICK y \in a .. b : y = a + k
    BY <2>1
  <2>3. y < b /\ y <= m /\ y + 1 = a + (k + 1) /\ y + 1 \in a .. m /\ y \in a .. m /\ y + 1 \in a .. b
    BY <2>1, <2>2
  <2>4. St[y + 1] = St[y] + L[y] /\ St[y + 1] <= d /\ St[y] <= d
    BY <2>3
  <2>5. PICK s \in Nat, l \in Nat, t \in Nat : s = St[y] /\ l = L[y] /\ t = St[y + 1]
    BY <2>3
  <2>6. d - s \in 0 .. N /\ d - s >= l /\ d - s - l = d - t
    <3>1. t = s + l /\ t <= d /\ s <= d
      BY ONLY <2>4, <2>5
    <3>2. QED
      BY ONLY <3>1, s \in Nat, l \in Nat, t \in Nat, d \in 0 .. N, N \in Nat
  <2>7. f[<<y, d - s>>] = f[<<y + 1, d - t>>]
    BY ONLY <1>2, <2>3, <2>5, <2>6, y \in a .. b
  <2>8. f[<<a, d>>] = f[<<y, d - s>>]
    BY <1>4, <2>2, <2>3, <2>5
  <2>9. QED
    BY ONLY <2>3, <2>5, <2>7, <2>8
<1>5. Nat \subseteq D
  <2> HIDE DEF D
  <2>1. QED
    BY ONLY <1>3, <1>4, Induction
<1>6. PICK k \in Nat : a + k = m
  <2>1. m - a \in Nat /\ a + (m - a) = m
    OBVIOUS
  <2>2. QED
    BY <2>1
<1>7. f[<<a, d>>] = f[<<m, d - St[m]>>]
  <2>1. a + k <= m
    BY <1>6
  <2>2. QED
    BY <1>5, <1>6, <2>1
<1>8. PICK s \in Nat, l \in Nat : s = St[m] /\ l = L[m]
  OBVIOUS
<1>9. d - s \in 0 .. N /\ ~(d - s >= l)
  <2>1. St[m] <= d
    OBVIOUS
  <2>2. QED
    BY <1>8, <2>1
<1>10. f[<<m, d - s>>] = <<m, d - s>>
  BY ONLY <1>2, <1>8, <1>9, m \in a .. b
<1>11. QED
  BY <1>7, <1>8, <1>10

-----------------------------------------------------------------------------
YearRange == RTC_YEAR_MIN .. RTC_YEAR_MAX

\* In those years every fourth is a leap year.
LEMMA LeapYears ==
  \A y \in 1980 .. 2100 : /\ (rtc_leap_year(y) <=> y % 4 = 0) \/ y = 2100
                          /\ leaps_before(y) = (y - 1) \div 4 - 15
<1> SUFFICES ASSUME NEW y \in 1980 .. 2100
             PROVE  /\ (rtc_leap_year(y) <=> y % 4 = 0) \/ y = 2100
                    /\ leaps_before(y) = (y - 1) \div 4 - 15
  OBVIOUS
<1>1. (y % 100 = 0 <=> y = 2000 \/ y = 2100) /\ 2000 % 400 = 0 /\ 2000 % 4 = 0
  OBVIOUS
<1>2. y % 400 = 0 <=> y = 2000
  OBVIOUS
<1>3. (y - 1) \div 400 - (y - 1) \div 100 = -15
  OBVIOUS
<1>4. QED
  BY <1>1, <1>2, <1>3 DEF rtc_leap_year, leaps_before

\* The days before a year.
Start(y) == 365 * (y - 1980) + (y - 1) \div 4 - 494

LEMMA YearStarts ==
  /\ Start(1980) = 0
  /\ \A y \in 1980 .. 2100 : Start(y) \in Nat
  /\ \A y \in YearRange : Start(y + 1) = Start(y) + YearDays(y)
  /\ \A x, y \in 1980 .. 2100 : x <= y => Start(x) <= Start(y)
  /\ Start(2099) = 43465
<1>1. Start(1980) = 0 /\ Start(2099) = 43465
  BY DEF Start
<1>2. \A y \in 1980 .. 2100 : Start(y) \in Nat
  BY DEF Start
<1>3. ASSUME NEW y \in YearRange PROVE Start(y + 1) = Start(y) + YearDays(y)
  <2>1. y \in 1980 .. 2099
    BY DEF YearRange, RTC_YEAR_MIN, RTC_YEAR_MAX
  <2>2. rtc_leap_year(y) <=> y % 4 = 0
    BY <2>1, LeapYears
  <2>3. y \div 4 = (y - 1) \div 4 + (IF y % 4 = 0 THEN 1 ELSE 0)
    BY ONLY <2>1
  <2>4. YearDays(y) = 365 + (IF y % 4 = 0 THEN 1 ELSE 0)
    BY ONLY <2>2 DEF YearDays
  <2>5. QED
    BY ONLY <2>1, <2>3, <2>4 DEF Start
<1>4. ASSUME NEW x \in 1980 .. 2100, NEW y \in 1980 .. 2100, x <= y PROVE Start(x) <= Start(y)
  <2>1. (x - 1) \div 4 <= (y - 1) \div 4
    BY ONLY <1>4
  <2>2. QED
    BY ONLY <1>4, <2>1 DEF Start
<1>5. QED
  BY <1>1, <1>2, <1>3, <1>4

\* The days of the months, and those before a month.
MonthStart == <<0, 31, 59, 90, 120, 151, 181, 212, 243, 273, 304, 334>>
LeapDay(y, m) == IF m > 2 /\ rtc_leap_year(y) THEN 1 ELSE 0

LEMMA MonthDays ==
  ASSUME NEW y
  PROVE  /\ \A m \in 1 .. 12 : rtc_days_in_month(y, m) \in 28 .. 31
         /\ rtc_days_in_month(y, 12) = 31
         /\ \A m \in 1 .. 11 : MonthStart[m + 1] + LeapDay(y, m + 1)
                               = MonthStart[m] + LeapDay(y, m) + rtc_days_in_month(y, m)
         /\ MonthStart[12] + LeapDay(y, 12) + 31 = YearDays(y)
         /\ \A m \in 1 .. 12 : MonthStart[m] + LeapDay(y, m) \in Nat
<1>1. \A m \in 1 .. 12 : month_days[m] \in 28 .. 31 /\ (m = 2 => month_days[m] = 28)
  BY DEF month_days
<1>2. \A m \in 1 .. 12 : rtc_days_in_month(y, m) = month_days[m] + (IF m = 2 /\ rtc_leap_year(y) THEN 1 ELSE 0)
  BY DEF rtc_days_in_month
<1>3. \A m \in 1 .. 12 : rtc_days_in_month(y, m) \in 28 .. 31
  BY ONLY <1>1, <1>2
<1>4. rtc_days_in_month(y, 12) = 31
  BY ONLY <1>2 DEF month_days
<1>5. \A m \in 1 .. 11 : MonthStart[m + 1] = MonthStart[m] + month_days[m]
  BY ONLY DEF MonthStart, month_days
<1>6. \A m \in 1 .. 12 : MonthStart[m] \in Nat
  BY ONLY DEF MonthStart
<1>7. ASSUME NEW m \in 1 .. 11
      PROVE  MonthStart[m + 1] + LeapDay(y, m + 1)
             = MonthStart[m] + LeapDay(y, m) + rtc_days_in_month(y, m)
  <2>1. LeapDay(y, m + 1) = LeapDay(y, m) + (IF m = 2 /\ rtc_leap_year(y) THEN 1 ELSE 0)
    BY DEF LeapDay
  <2>2. LeapDay(y, m) \in {0, 1}
    BY DEF LeapDay
  <2>3. m \in 1 .. 12 /\ m + 1 \in 1 .. 12
    OBVIOUS
  <2>4. PICK p \in Nat, q \in Nat, r \in Int :
          p = MonthStart[m] /\ q = MonthStart[m + 1] /\ r = month_days[m]
    <3>1. month_days[m] \in Int
      BY ONLY <1>1, <2>3
    <3>2. QED
      BY ONLY <1>6, <2>3, <3>1
  <2>5. q = p + r /\ rtc_days_in_month(y, m) = r + (IF m = 2 /\ rtc_leap_year(y) THEN 1 ELSE 0)
    BY ONLY <1>2, <1>5, <2>3, <2>4, m \in 1 .. 11
  <2>6. QED
    BY ONLY <2>1, <2>2, <2>4, <2>5
<1>8. MonthStart[12] + LeapDay(y, 12) + 31 = YearDays(y)
  BY ONLY DEF MonthStart, LeapDay, YearDays
<1>9. \A m \in 1 .. 12 : MonthStart[m] + LeapDay(y, m) \in Nat
  BY ONLY <1>6 DEF LeapDay
<1>10. QED
  BY ONLY <1>3, <1>4, <1>7, <1>8, <1>9

LEMMA DaysBeforeIs ==
  ASSUME NEW y, NEW month \in 1 .. 12
  PROVE  DaysBefore(y, month) = MonthStart[month] + LeapDay(y, month)
<1> DEFINE From(f) == [m \in 1 .. 12 |-> IF m = 1 THEN 0 ELSE f[m - 1] + rtc_days_in_month(y, m - 1)]
<1>1. \A m \in 1 .. 11 : MonthStart[m + 1] + LeapDay(y, m + 1)
                         = MonthStart[m] + LeapDay(y, m) + rtc_days_in_month(y, m)
  BY MonthDays
<1>2. MonthStart[1] = 0 /\ LeapDay(y, 1) = 0
  BY ONLY DEF MonthStart, LeapDay
<1>3. \A m \in 1 .. 12 : m # 1 => m - 1 \in 1 .. 11 /\ m - 1 \in 1 .. 12 /\ m - 1 + 1 = m
  OBVIOUS
<1>4. \E f : f = From(f)
  <2>1. PICK f : f = [m \in 1 .. 12 |-> MonthStart[m] + LeapDay(y, m)]
    OBVIOUS
  <2>2. PICK h : h = From(f)
    OBVIOUS
  <2>3. ASSUME NEW m \in 1 .. 12 PROVE f[m] = h[m]
    <3>1. CASE m = 1
      BY ONLY <1>2, <2>1, <2>2, <3>1
    <3>2. CASE m # 1
      <4>1. PICK n \in 1 .. 11 : n = m - 1
        BY ONLY <1>3, <2>3, <3>2
      <4>2. n + 1 = m /\ n \in 1 .. 12
        BY ONLY <1>3, <2>3, <3>2, <4>1
      <4>3. h[m] = f[n] + rtc_days_in_month(y, n)
        BY ONLY <2>2, <2>3, <3>2, <4>1
      <4>4. f[n] = MonthStart[n] + LeapDay(y, n) /\ f[m] = MonthStart[m] + LeapDay(y, m)
        BY ONLY <2>1, <2>3, <4>2
      <4>5. MonthStart[m] + LeapDay(y, m) = MonthStart[n] + LeapDay(y, n) + rtc_days_in_month(y, n)
        BY ONLY <1>1, <4>1, <4>2
      <4>6. QED
        BY ONLY <4>3, <4>4, <4>5
    <3>3. QED
      BY <3>1, <3>2
  <2>4. f = h
    BY ONLY <2>1, <2>2, <2>3
  <2>5. QED
    BY ONLY <2>2, <2>4
<1>5. PICK f : f = CHOOSE g : g = From(g)
  OBVIOUS
<1>6. f = From(f)
  BY ONLY <1>4, <1>5, Zenon
<1>7. DaysBefore(y, month) = f[month]
  BY ONLY <1>5, Zenon DEF DaysBefore
<1> DEFINE S == {k \in Nat : k + 1 \in 1 .. 12 => f[k + 1] = MonthStart[k + 1] + LeapDay(y, k + 1)}
<1>8. 0 \in S
  <2>1. f[1] = 0 /\ 0 + 1 = 1
    BY ONLY <1>6
  <2>2. QED
    BY ONLY <1>2, <2>1
<1>9. ASSUME NEW k \in Nat, k \in S PROVE k + 1 \in S
  <2>1. SUFFICES ASSUME k + 1 + 1 \in 1 .. 12
                 PROVE  f[k + 1 + 1] = MonthStart[k + 1 + 1] + LeapDay(y, k + 1 + 1)
    OBVIOUS
  <2>2. PICK n \in 1 .. 11, m \in 1 .. 12 : n = k + 1 /\ m = n + 1
    BY <2>1
  <2>3. m # 1 /\ m - 1 = n /\ n \in 1 .. 12
    BY ONLY <2>2, n \in 1 .. 11
  <2>4. f[m] = f[n] + rtc_days_in_month(y, n)
    BY ONLY <1>6, <2>3, m \in 1 .. 12
  <2>5. f[n] = MonthStart[n] + LeapDay(y, n)
    BY <1>9, <2>2, <2>3
  <2>6. MonthStart[m] + LeapDay(y, m) = MonthStart[n] + LeapDay(y, n) + rtc_days_in_month(y, n)
    BY ONLY <1>1, <2>2, n \in 1 .. 11
  <2>7. QED
    BY ONLY <2>2, <2>4, <2>5, <2>6
<1>10. Nat \subseteq S
  <2> HIDE DEF S
  <2>1. QED
    BY ONLY <1>8, <1>9, Induction
<1>11. PICK k \in Nat : k + 1 = month
  <2>1. month - 1 \in Nat /\ month - 1 + 1 = month
    OBVIOUS
  <2>2. QED
    BY <2>1
<1>12. QED
  BY <1>7, <1>10, <1>11

\* The days between 1980-01-01 and a date.
LEMMA DaysOf ==
  ASSUME NEW t, t.year \in YearRange, t.month \in 1 .. 12,
         t.day \in 1 .. rtc_days_in_month(t.year, t.month)
  PROVE  rtc_days_from_date(t)
         = Start(t.year) + MonthStart[t.month] + LeapDay(t.year, t.month) + t.day - 1
<1>1. t.year \in 1980 .. 2099 /\ RTC_YEAR_MIN = 1980
  BY DEF YearRange, RTC_YEAR_MIN, RTC_YEAR_MAX
<1>2. leaps_before(t.year) = (t.year - 1) \div 4 - 15 /\ leaps_before(1980) = 479
  BY <1>1, LeapYears
<1>3. DaysBefore(t.year, t.month) = MonthStart[t.month] + LeapDay(t.year, t.month)
  BY DaysBeforeIs
<1>4. MonthStart[t.month] + LeapDay(t.year, t.month) \in Nat /\ MonthStart[t.month] \in Int
      /\ LeapDay(t.year, t.month) \in Int
  BY MonthDays DEF MonthStart, LeapDay
<1>5. rtc_days_from_date(t) = 365 * (t.year - 1980) + leaps_before(t.year) - leaps_before(1980)
                              + DaysBefore(t.year, t.month) + t.day - 1
  BY ONLY <1>1, t.year \in YearRange, t.day \in 1 .. rtc_days_in_month(t.year, t.month)
     DEF rtc_days_from_date, YearRange
<1>6. rtc_days_in_month(t.year, t.month) \in 28 .. 31
  BY MonthDays
<1>7. t.day \in Int
  BY ONLY <1>6, t.day \in 1 .. rtc_days_in_month(t.year, t.month)
<1>8. QED
  BY ONLY <1>1, <1>2, <1>3, <1>4, <1>5, <1>7 DEF Start

\* The years rtc_date_from_days goes over.
LEMMA YearLoopIs ==
  ASSUME NEW days \in Nat, NEW y \in YearRange, Start(y) <= days, days - Start(y) < YearDays(y)
  PROVE  YearLoop(days)[<<RTC_YEAR_MIN, days>>] = <<y, days - Start(y)>>
<1>1. PICK a \in Nat, b \in Nat : a = RTC_YEAR_MIN /\ b = RTC_YEAR_MAX
  BY DEF RTC_YEAR_MIN, RTC_YEAR_MAX
<1>2. PICK L : L = [x \in a .. b |-> YearDays(x)]
  OBVIOUS
<1>3. PICK St : St = [x \in a .. b |-> Start(x)]
  OBVIOUS
<1>4. a = 1980 /\ b = 2099 /\ a <= b
  BY <1>1 DEF RTC_YEAR_MIN, RTC_YEAR_MAX
<1>5. L \in [a .. b -> Nat]
  BY ONLY <1>2 DEF YearDays
<1>6. \A x \in a .. b : x \in 1980 .. 2100 /\ x \in YearRange
  BY <1>4 DEF YearRange, RTC_YEAR_MIN, RTC_YEAR_MAX
<1>7. St \in [a .. b -> Nat] /\ St[a] = 0
  BY ONLY <1>3, <1>4, <1>6, YearStarts
<1>8. ASSUME NEW j \in a .. b, j < b PROVE St[j + 1] = St[j] + L[j]
  <2>1. j + 1 \in a .. b
    BY ONLY <1>4, <1>8
  <2>2. St[j + 1] = Start(j + 1) /\ St[j] = Start(j) /\ L[j] = YearDays(j)
    BY ONLY <1>2, <1>3, <2>1, j \in a .. b
  <2>3. Start(j + 1) = Start(j) + YearDays(j)
    BY ONLY <1>6, YearStarts, j \in a .. b
  <2>4. QED
    BY ONLY <2>2, <2>3
<1>9. y \in a .. b
  BY <1>1 DEF YearRange
<1>10. ASSUME NEW j \in a .. y PROVE St[j] <= days
  <2>1. j \in a .. b /\ j <= y
    BY ONLY <1>4, <1>9, <1>10
  <2>2. Start(j) <= Start(y) /\ Start(j) \in Nat /\ Start(y) \in Nat
    <3>1. j \in 1980 .. 2100 /\ y \in 1980 .. 2100
      BY ONLY <1>6, <1>9, <2>1
    <3>2. QED
      BY ONLY <2>1, <3>1, YearStarts
  <2>3. St[j] = Start(j)
    BY ONLY <1>3, <2>1
  <2>4. QED
    BY ONLY <2>2, <2>3, Start(y) <= days, days \in Nat
<1>11. St[y] = Start(y) /\ days - St[y] < L[y]
  BY <1>2, <1>3, <1>9
<1>12. days \in 0 .. days
  OBVIOUS
<1> DEFINE From(f) == [p \in (RTC_YEAR_MIN .. RTC_YEAR_MAX) \X (0 .. days) |->
                         IF p[2] >= YearDays(p[1]) /\ p[1] < RTC_YEAR_MAX
                         THEN f[<<p[1] + 1, p[2] - YearDays(p[1])>>] ELSE p]
<1>13. PICK f : f = CHOOSE g : g = From(g)
  OBVIOUS
<1>14. YearLoop(days) = f
  BY ONLY <1>13, Zenon DEF YearLoop
<1>15. \A g : Loop(g, a, b, days, L) <=> g = From(g)
  <2>1. SUFFICES ASSUME NEW g
                 PROVE  [p \in (a .. b) \X (0 .. days) |->
                           IF p[2] >= L[p[1]] /\ p[1] < b THEN g[<<p[1] + 1, p[2] - L[p[1]]>>] ELSE p]
                        = From(g)
    <3> HIDE DEF From
    <3>1. QED
      BY ONLY <2>1, Zenon DEF Loop
  <2>2. \A p \in (a .. b) \X (0 .. days) : L[p[1]] = YearDays(p[1])
    BY ONLY <1>2
  <2>3. QED
    BY ONLY <1>1, <2>2
<1>16. \E g : Loop(g, a, b, days, L)
  <2>1. a <= b
    BY <1>4
  <2>2. QED
    BY ONLY <1>5, <2>1, LoopDefined, a \in Nat, b \in Nat, days \in Nat
<1>17. Loop(f, a, b, days, L)
  <2>1. \E g : g = From(g)
    BY ONLY <1>15, <1>16
  <2>2. f = From(f)
    BY ONLY <1>13, <2>1, Zenon
  <2>3. QED
    BY ONLY <1>15, <2>2
<1>18. \A j \in a .. b : j < b => St[j + 1] = St[j] + L[j]
  BY ONLY <1>8
<1>19. \A j \in a .. y : St[j] <= days
  BY ONLY <1>10
<1>20. f[<<a, days>>] = <<y, days - St[y]>>
  <2>1. St[a] = 0 /\ days - St[y] < L[y]
    BY ONLY <1>7, <1>11
  <2>2. FallsInto(days, y, a, b, days, L, St)
    BY ONLY <1>5, <1>7, <1>9, <1>12, <1>18, <1>19, <2>1, a \in Nat, b \in Nat, days \in Nat
       DEF FallsInto
  <2>3. QED
    BY ONLY <1>17, <2>2, LoopResult, SMTT(30)
<1>21. QED
  BY ONLY <1>1, <1>11, <1>14, <1>20

\* The months it goes over.
LEMMA MonthLoopIs ==
  ASSUME NEW y, NEW m \in 1 .. 12, NEW days \in 0 .. 366,
         MonthStart[m] + LeapDay(y, m) <= days,
         days - (MonthStart[m] + LeapDay(y, m)) < rtc_days_in_month(y, m)
  PROVE  MonthLoop(y)[<<1, days>>] = <<m, days - (MonthStart[m] + LeapDay(y, m))>>
<1>1. PICK a \in Nat, b \in Nat, N \in Nat : a = 1 /\ b = 12 /\ N = 366
  OBVIOUS
<1>2. PICK L : L = [x \in a .. b |-> rtc_days_in_month(y, x)]
  OBVIOUS
<1>3. PICK St : St = [x \in a .. b |-> MonthStart[x] + LeapDay(y, x)]
  OBVIOUS
<1>4. \A x \in 1 .. 12 : rtc_days_in_month(y, x) \in 28 .. 31
  BY MonthDays
<1>5. L \in [a .. b -> Nat]
  BY ONLY <1>1, <1>2, <1>4
<1>6. \A x \in 1 .. 12 : MonthStart[x] + LeapDay(y, x) \in Nat
  BY MonthDays
<1>7. St \in [a .. b -> Nat]
  BY ONLY <1>1, <1>3, <1>6
<1>8. St[a] = 0
  <2>1. MonthStart[1] = 0 /\ LeapDay(y, 1) = 0
    BY ONLY DEF MonthStart, LeapDay
  <2>2. QED
    BY ONLY <1>1, <1>3, <2>1
<1>9. ASSUME NEW j \in a .. b, j < b PROVE St[j + 1] = St[j] + L[j]
  <2>1. j + 1 \in a .. b /\ j \in 1 .. 11
    BY ONLY <1>1, <1>9
  <2>2. /\ St[j + 1] = MonthStart[j + 1] + LeapDay(y, j + 1)
        /\ St[j] = MonthStart[j] + LeapDay(y, j)
        /\ L[j] = rtc_days_in_month(y, j)
    BY ONLY <1>2, <1>3, <2>1, j \in a .. b
  <2>3. MonthStart[j + 1] + LeapDay(y, j + 1)
        = MonthStart[j] + LeapDay(y, j) + rtc_days_in_month(y, j)
    BY ONLY <2>1, MonthDays
  <2>4. QED
    BY ONLY <2>2, <2>3
<1>10. m \in a .. b
  BY ONLY <1>1, m \in 1 .. 12
<1>11. St[m] = MonthStart[m] + LeapDay(y, m) /\ days - St[m] < L[m] /\ St[m] <= days
  <2>1. St[m] = MonthStart[m] + LeapDay(y, m) /\ L[m] = rtc_days_in_month(y, m)
    BY ONLY <1>2, <1>3, <1>10
  <2>2. QED
    BY <2>1
<1>12. ASSUME NEW j \in a .. m PROVE St[j] <= days
  <2>1. MonthStart[j] + LeapDay(y, j) <= MonthStart[m] + LeapDay(y, m)
    <3>1. j \in 1 .. 12 /\ j <= m
      BY ONLY <1>1, <1>12, m \in 1 .. 12
    <3>2. MonthStart[j] <= MonthStart[m] /\ MonthStart[j] \in Nat /\ MonthStart[m] \in Nat
      BY ONLY <3>1, m \in 1 .. 12 DEF MonthStart
    <3>3. LeapDay(y, j) <= LeapDay(y, m) /\ LeapDay(y, j) \in Nat /\ LeapDay(y, m) \in Nat
      BY ONLY <3>1, m \in 1 .. 12 DEF LeapDay
    <3>4. QED
      BY ONLY <3>2, <3>3
  <2>2. j \in a .. b
    BY ONLY <1>1, <1>12, m \in 1 .. 12
  <2>3. St[j] <= St[m] /\ St[j] \in Nat /\ St[m] \in Nat
    BY ONLY <1>3, <1>7, <1>10, <1>11, <2>1, <2>2
  <2>4. QED
    BY ONLY <1>11, <2>3, days \in 0 .. 366
<1> DEFINE From(f) == [p \in (1 .. 12) \X (0 .. 366) |->
                         IF p[2] >= rtc_days_in_month(y, p[1]) /\ p[1] < 12
                         THEN f[<<p[1] + 1, p[2] - rtc_days_in_month(y, p[1])>>] ELSE p]
<1>13. PICK f : f = CHOOSE g : g = From(g)
  OBVIOUS
<1>14. MonthLoop(y) = f
  BY ONLY <1>13, Zenon DEF MonthLoop
<1>15. \A g : Loop(g, a, b, N, L) <=> g = From(g)
  <2>1. SUFFICES ASSUME NEW g
                 PROVE  [p \in (a .. b) \X (0 .. N) |->
                           IF p[2] >= L[p[1]] /\ p[1] < b THEN g[<<p[1] + 1, p[2] - L[p[1]]>>] ELSE p]
                        = From(g)
    <3> HIDE DEF From
    <3>1. QED
      BY ONLY <2>1, Zenon DEF Loop
  <2>2. \A p \in (a .. b) \X (0 .. N) : L[p[1]] = rtc_days_in_month(y, p[1])
    BY ONLY <1>2
  <2>3. QED
    BY ONLY <1>1, <2>2
<1>16. \E g : Loop(g, a, b, N, L)
  <2>1. a <= b
    BY <1>1
  <2>2. QED
    BY ONLY <1>5, <2>1, LoopDefined, a \in Nat, b \in Nat, N \in Nat
<1>17. Loop(f, a, b, N, L)
  <2>1. \E g : g = From(g)
    BY ONLY <1>15, <1>16
  <2>2. f = From(f)
    BY ONLY <1>13, <2>1, ZenonT(40)
  <2>3. QED
    BY ONLY <1>15, <2>2
<1>18. \A j \in a .. b : j < b => St[j + 1] = St[j] + L[j]
  BY ONLY <1>9
<1>19. \A j \in a .. m : St[j] <= days
  BY ONLY <1>12
<1>20. days \in 0 .. N
  BY ONLY <1>1, days \in 0 .. 366
<1>21. f[<<a, days>>] = <<m, days - St[m]>>
  <2>1. FallsInto(days, m, a, b, N, L, St)
    BY ONLY <1>5, <1>7, <1>8, <1>10, <1>11, <1>18, <1>19, <1>20, a \in Nat, b \in Nat, N \in Nat
       DEF FallsInto
  <2>2. QED
    BY ONLY <1>17, <2>1, LoopResult, SMTT(30)
<1>22. QED
  BY ONLY <1>1, <1>11, <1>14, <1>21

-----------------------------------------------------------------------------
\* A date the calendar has.
Valid(t) ==
  /\ t \in [year : YearRange, month : 1 .. 12, day : 1 .. 31]
  /\ t.day <= rtc_days_in_month(t.year, t.month)

\* What the calendar says of a date.
LEMMA DateIs ==
  ASSUME NEW t, Valid(t)
  PROVE  LET days == rtc_days_from_date(t)
         IN  /\ days = Start(t.year) + MonthStart[t.month] + LeapDay(t.year, t.month) + t.day - 1
             /\ days \in 0 .. RTC_DAY_MAX
             /\ rtc_weekday(t) = (days + 2) % 7
             /\ rtc_date_from_days(days)
                  = [year |-> t.year, month |-> t.month, day |-> t.day, wday |-> (days + 2) % 7]
<1>1. PICK days, y, m, e : days = rtc_days_from_date(t) /\ y = t.year /\ m = t.month /\ e = t.day
  OBVIOUS
<1>2. y \in YearRange /\ m \in 1 .. 12 /\ e \in 1 .. 31 /\ e <= rtc_days_in_month(y, m)
  BY <1>1 DEF Valid
<1>3. e \in 1 .. rtc_days_in_month(y, m)
  <2>1. rtc_days_in_month(y, m) \in 28 .. 31
    BY <1>2, MonthDays
  <2>2. QED
    BY ONLY <1>2, <2>1
<1>4. days = Start(y) + MonthStart[m] + LeapDay(y, m) + e - 1
  BY ONLY <1>1, <1>2, <1>3, DaysOf
<1>5. Start(y) \in Nat /\ y \in 1980 .. 2100 /\ y <= 2099 /\ Start(y) <= 43465
  <2>1. y \in 1980 .. 2100 /\ y <= 2099 /\ 2099 \in 1980 .. 2100
    BY <1>2 DEF YearRange, RTC_YEAR_MIN, RTC_YEAR_MAX
  <2>2. Start(y) <= Start(2099) /\ Start(2099) = 43465 /\ Start(y) \in Nat
    BY ONLY <2>1, YearStarts
  <2>3. QED
    BY ONLY <2>1, <2>2
<1>6. PICK s \in Nat : s = MonthStart[m] + LeapDay(y, m)
  BY <1>2, MonthDays
<1>7. MonthStart[m] \in Nat /\ LeapDay(y, m) \in Nat
  BY <1>2 DEF MonthStart, LeapDay
<1>8. days = Start(y) + s + e - 1
  BY ONLY <1>2, <1>4, <1>5, <1>6, <1>7
<1>9. s + rtc_days_in_month(y, m) <= YearDays(y)
  <2>1. PICK s12 \in Nat : s12 = MonthStart[12] + LeapDay(y, 12)
    BY MonthDays
  <2>2. s12 + 31 = YearDays(y) /\ rtc_days_in_month(y, 12) = 31
    BY ONLY <2>1, MonthDays
  <2>3. rtc_days_in_month(y, m) \in 28 .. 31
    BY ONLY <1>2, MonthDays
  <2>4. CASE m = 12
    BY ONLY <1>6, <2>1, <2>2, <2>4, <2>3
  <2>5. CASE m # 12
    <3>1. MonthStart[m] + 30 <= MonthStart[12] /\ MonthStart[12] \in Nat
      BY ONLY <1>2, <2>5 DEF MonthStart
    <3>2. LeapDay(y, m) <= LeapDay(y, 12) /\ LeapDay(y, 12) \in Nat
      BY ONLY <1>2 DEF LeapDay
    <3>3. QED
      BY ONLY <1>6, <1>7, <2>1, <2>2, <2>3, <3>1, <3>2
  <2>6. QED
    BY <2>4, <2>5
<1>10. YearDays(y) \in 365 .. 366
  BY DEF YearDays
<1>11. rtc_days_in_month(y, m) \in 28 .. 31
  BY <1>2, MonthDays
<1>12. y = 2099 => YearDays(y) = 365
  BY LeapYears DEF YearDays
<1>13. days \in Nat /\ days - Start(y) = s + e - 1 /\ s + e - 1 \in 0 .. 365 /\ s + e - 1 < YearDays(y)
  <2>1. PICK c \in Nat, l \in Nat, z \in Nat :
          c = Start(y) /\ l = rtc_days_in_month(y, m) /\ z = YearDays(y)
    BY ONLY <1>5, <1>10, <1>11
  <2>2. days = c + s + e - 1 /\ s + l <= z /\ e <= l /\ z <= 366 /\ e >= 1 /\ e \in Nat
    BY ONLY <1>2, <1>8, <1>9, <1>10, <2>1
  <2>3. days \in Nat /\ days - c = s + e - 1 /\ s + e - 1 \in 0 .. 365 /\ s + e - 1 < z
    BY ONLY <2>2, c \in Nat, l \in Nat, z \in Nat, s \in Nat
  <2>4. QED
    BY ONLY <2>1, <2>3
<1>14. days <= RTC_DAY_MAX
  <2>1. CASE y = 2099
    BY ONLY <1>5, <1>12, <1>13, <2>1 DEF RTC_DAY_MAX
  <2>2. CASE y # 2099
    <3>1. Start(2098) = 43100 /\ Start(y) <= Start(2098)
      <4>1. Start(2098) = 43100
        BY ONLY DEF Start
      <4>2. y <= 2098 /\ 2098 \in 1980 .. 2100
        BY ONLY <1>5, <2>2
      <4>3. QED
        BY ONLY <1>5, <4>1, <4>2, YearStarts
    <3>2. QED
      BY ONLY <1>5, <1>13, <3>1 DEF RTC_DAY_MAX
  <2>3. QED
    BY <2>1, <2>2
<1>15. YearLoop(days)[<<RTC_YEAR_MIN, days>>] = <<y, s + e - 1>>
  <2>1. Start(y) <= days /\ days - Start(y) < YearDays(y)
    BY ONLY <1>5, <1>6, <1>8, <1>13, <1>2
  <2>2. YearLoop(days)[<<RTC_YEAR_MIN, days>>] = <<y, days - Start(y)>>
    BY ONLY <1>2, <1>13, <2>1, YearLoopIs
  <2>3. QED
    BY ONLY <1>13, <2>2
<1>16. MonthLoop(y)[<<1, s + e - 1>>] = <<m, e - 1>>
  <2>1. PICK r \in 0 .. 366 : r = s + e - 1
    BY ONLY <1>13
  <2>2. s <= r /\ r - s < rtc_days_in_month(y, m) /\ r - s = e - 1
    <3>1. PICK l \in Nat : l = rtc_days_in_month(y, m)
      BY ONLY <1>11
    <3>2. e <= l /\ e \in 1 .. 31
      BY ONLY <1>2, <3>1
    <3>3. s <= r /\ r - s < l /\ r - s = e - 1
      BY ONLY <2>1, <3>2, l \in Nat, s \in Nat
    <3>4. QED
      BY ONLY <3>1, <3>3
  <2>3. MonthLoop(y)[<<1, r>>] = <<m, r - (MonthStart[m] + LeapDay(y, m))>>
    BY ONLY <1>2, <1>6, <2>2, MonthLoopIs, r \in 0 .. 366
  <2>4. QED
    BY ONLY <1>6, <2>1, <2>2, <2>3
<1>17. rtc_date_from_days(days) = [year |-> y, month |-> m, day |-> e - 1 + 1, wday |-> (days + 2) % 7]
  <2>1. ~(days > RTC_DAY_MAX)
    BY ONLY <1>13, <1>14 DEF RTC_DAY_MAX
  <2>2. QED
    BY ONLY <1>15, <1>16, <2>1 DEF rtc_date_from_days
<1>18. rtc_weekday(t) = (days + 2) % 7
  <2>1. ~(days < 0)
    BY ONLY <1>13
  <2>2. QED
    BY ONLY <1>1, <2>1 DEF rtc_weekday
<1>19. e - 1 + 1 = e /\ days \in 0 .. RTC_DAY_MAX
  <2>1. e \in 1 .. 31 /\ days \in Nat
    BY ONLY <1>2, <1>13
  <2>2. \A k \in 1 .. 31 : k - 1 + 1 = k
    OBVIOUS
  <2>3. \A k \in Nat : k <= RTC_DAY_MAX => k \in 0 .. RTC_DAY_MAX
    <3>1. PICK M \in Nat : M = RTC_DAY_MAX
      BY ONLY DEF RTC_DAY_MAX
    <3>2. QED
      BY ONLY <3>1, M \in Nat
  <2>4. QED
    BY ONLY <1>14, <2>1, <2>2, <2>3
<1>20. QED
  BY ONLY <1>1, <1>4, <1>17, <1>18, <1>19

\* date is a date, and the counts are those the calendar gives it.
CalInv == Valid(date) /\ dayNo = rtc_days_from_date(date) /\ wday = (dayNo + 2) % 7

LEMMA CalInitInv == CalInit => CalInv
<1> SUFFICES ASSUME CalInit PROVE CalInv
  OBVIOUS
<1>1. PICK y \in Years : /\ date = [year |-> y, month |-> 1, day |-> 1]
                         /\ dayNo = rtc_days_from_date(date) /\ wday = rtc_weekday(date)
  BY DEF CalInit
<1>2. y \in YearRange
  BY CalendarAssumption DEF YearRange
<1>3. 1 <= rtc_days_in_month(y, 1)
  <2>1. rtc_days_in_month(y, 1) \in 28 .. 31
    BY MonthDays
  <2>2. QED
    BY <2>1
<1>4. Valid(date)
  BY ONLY <1>1, <1>2, <1>3 DEF Valid
<1>5. rtc_weekday(date) = (rtc_days_from_date(date) + 2) % 7
  BY ONLY <1>4, DateIs
<1>6. QED
  BY ONLY <1>1, <1>4, <1>5 DEF CalInv

\* The day after: the count of the days goes up by one.
LEMMA NextDayIs ==
  ASSUME NEW t, Valid(t), ~(t.month = 12 /\ t.day = 31), NEW u,
         u = IF t.day < rtc_days_in_month(t.year, t.month)
             THEN [t EXCEPT !.day = @ + 1] ELSE [t EXCEPT !.day = 1, !.month = @ + 1]
  PROVE  Valid(u) /\ rtc_days_from_date(u) = rtc_days_from_date(t) + 1
<1>1. PICK y, m, e : y = t.year /\ m = t.month /\ e = t.day
  OBVIOUS
<1>2. t = [year |-> y, month |-> m, day |-> e] /\ y \in YearRange /\ m \in 1 .. 12 /\ e \in 1 .. 31
      /\ e <= rtc_days_in_month(y, m)
  BY ONLY <1>1, Valid(t) DEF Valid
<1>3. PICK l \in 28 .. 31 : l = rtc_days_in_month(y, m)
  BY ONLY <1>2, MonthDays
<1>4. PICK c \in Nat, s \in Nat : c = Start(y) /\ s = MonthStart[m] + LeapDay(y, m)
  <2>1. y \in 1980 .. 2100
    BY ONLY <1>2 DEF YearRange, RTC_YEAR_MIN, RTC_YEAR_MAX
  <2>2. Start(y) \in Nat
    BY ONLY <2>1, YearStarts
  <2>3. MonthStart[m] + LeapDay(y, m) \in Nat
    BY ONLY <1>2, MonthDays
  <2>4. QED
    BY ONLY <2>2, <2>3
<1>5. ASSUME NEW n \in 1 .. 12, NEW k \in 1 .. 31, NEW z, z = MonthStart[n] + LeapDay(y, n),
             NEW v, v = [year |-> y, month |-> n, day |-> k], k <= rtc_days_in_month(y, n)
      PROVE  Valid(v) /\ rtc_days_from_date(v) = c + z + k - 1
  <2>1. Valid(v)
    BY ONLY <1>2, <1>5, n \in 1 .. 12, k \in 1 .. 31 DEF Valid
  <2>2. rtc_days_from_date(v) = Start(v.year) + MonthStart[v.month] + LeapDay(v.year, v.month) + v.day - 1
    BY ONLY <2>1, DateIs
  <2>3. v.year = y /\ v.month = n /\ v.day = k
    BY ONLY <1>5
  <2>4. MonthStart[n] \in Nat /\ LeapDay(y, n) \in Nat
    BY ONLY n \in 1 .. 12 DEF MonthStart, LeapDay
  <2>5. QED
    BY ONLY <1>4, <1>5, <2>1, <2>2, <2>3, <2>4, c \in Nat, k \in 1 .. 31
<1>6. rtc_days_from_date(t) = c + s + e - 1
  BY ONLY <1>2, <1>4, <1>5
<1>7. CASE e < l
  <2>1. PICK k \in 1 .. 31 : k = e + 1
    BY ONLY <1>2, <1>7, l \in 28 .. 31
  <2>2. u = [year |-> y, month |-> m, day |-> k]
    BY ONLY <1>1, <1>2, <1>3, <1>7, <2>1,
            u = IF t.day < rtc_days_in_month(t.year, t.month)
                THEN [t EXCEPT !.day = @ + 1] ELSE [t EXCEPT !.day = 1, !.month = @ + 1]
  <2>3. k <= rtc_days_in_month(y, m)
    BY ONLY <1>2, <1>3, <1>7, <2>1, l \in 28 .. 31
  <2>4. Valid(u) /\ rtc_days_from_date(u) = c + s + k - 1
    BY ONLY <1>2, <1>4, <1>5, <2>2, <2>3, k \in 1 .. 31
  <2>5. c + s + k - 1 = c + s + e - 1 + 1
    BY ONLY <1>2, <2>1, c \in Nat, s \in Nat
  <2>6. QED
    BY ONLY <1>6, <2>4, <2>5
<1>8. CASE ~(e < l)
  <2>1. e = l
    BY ONLY <1>2, <1>3, <1>8, l \in 28 .. 31
  <2>2. m # 12
    <3>1. SUFFICES ASSUME m = 12 PROVE FALSE
      OBVIOUS
    <3>2. l = 31
      BY ONLY <1>3, <3>1, MonthDays
    <3>3. QED
      BY ONLY <1>1, <2>1, <3>1, <3>2, ~(t.month = 12 /\ t.day = 31)
  <2>3. PICK n \in 1 .. 12 : n = m + 1 /\ m \in 1 .. 11
    BY ONLY <1>2, <2>2
  <2>4. u = [year |-> y, month |-> n, day |-> 1]
    BY ONLY <1>1, <1>2, <1>3, <1>8, <2>3,
            u = IF t.day < rtc_days_in_month(t.year, t.month)
                THEN [t EXCEPT !.day = @ + 1] ELSE [t EXCEPT !.day = 1, !.month = @ + 1]
  <2>5. PICK z : z = MonthStart[n] + LeapDay(y, n)
    OBVIOUS
  <2>6. z = s + l
    BY ONLY <1>3, <1>4, <2>3, <2>5, MonthDays
  <2>7. rtc_days_in_month(y, n) \in 28 .. 31
    BY ONLY MonthDays, n \in 1 .. 12
  <2>8. PICK k \in 1 .. 31 : k = 1
    OBVIOUS
  <2>9. k <= rtc_days_in_month(y, n)
    BY ONLY <2>7, <2>8
  <2>10. Valid(u) /\ rtc_days_from_date(u) = c + z + k - 1
    BY ONLY <1>5, <2>4, <2>5, <2>8, <2>9, n \in 1 .. 12, k \in 1 .. 31
  <2>11. c + z + k - 1 = c + s + e - 1 + 1
    BY ONLY <2>1, <2>6, <2>8, c \in Nat, s \in Nat, l \in 28 .. 31
  <2>12. QED
    BY ONLY <1>6, <2>10, <2>11
<1>9. QED
  BY <1>7, <1>8

LEMMA CalNextInv == CalInv /\ [NextDay]_calvars => CalInv'
<1> SUFFICES ASSUME CalInv, [NextDay]_calvars PROVE CalInv'
  OBVIOUS
<1>1. CASE NextDay
  <2>1. PICK t, u : t = date /\ u = date'
    OBVIOUS
  <2>2. Valid(t) /\ ~(t.month = 12 /\ t.day = 31)
    BY <1>1, <2>1 DEF CalInv, NextDay, LastDay
  <2>3. u = IF t.day < rtc_days_in_month(t.year, t.month)
            THEN [t EXCEPT !.day = @ + 1] ELSE [t EXCEPT !.day = 1, !.month = @ + 1]
    BY ONLY <1>1, <2>1 DEF NextDay
  <2>4. Valid(u) /\ rtc_days_from_date(u) = rtc_days_from_date(t) + 1
    BY ONLY <2>2, <2>3, NextDayIs
  <2>5. dayNo' = dayNo + 1 /\ wday' = (wday + 1) % 7 /\ dayNo = rtc_days_from_date(t)
        /\ wday = (dayNo + 2) % 7
    BY <1>1, <2>1 DEF NextDay, CalInv
  <2>6. dayNo \in Int
    <3>1. dayNo \in 0 .. RTC_DAY_MAX
      BY ONLY <2>2, <2>5, DateIs
    <3>2. QED
      BY ONLY <3>1
  <2>7. (((dayNo + 2) % 7) + 1) % 7 = (dayNo + 1 + 2) % 7
    BY ONLY <2>6
  <2>8. Valid(date)' /\ dayNo' = rtc_days_from_date(date)'
    BY ONLY <2>1, <2>4, <2>5
  <2>9. QED
    BY ONLY <2>5, <2>7, <2>8 DEF CalInv
<1>2. CASE UNCHANGED calvars
  BY <1>2 DEF calvars, CalInv
<1>3. QED
  BY <1>1, <1>2

\* What the invariant says of the agreement.
LEMMA CalInvAgrees == CalInv => CalendarAgrees
<1> SUFFICES ASSUME CalInv PROVE CalendarAgrees
  OBVIOUS
<1>1. Valid(date) /\ dayNo = rtc_days_from_date(date) /\ wday = (dayNo + 2) % 7
  BY DEF CalInv
<1>2. /\ dayNo = Start(date.year) + MonthStart[date.month] + LeapDay(date.year, date.month) + date.day - 1
      /\ rtc_weekday(date) = wday
      /\ rtc_date_from_days(dayNo)
           = [year |-> date.year, month |-> date.month, day |-> date.day, wday |-> wday]
  BY ONLY <1>1, DateIs
<1>3. PICK y \in YearRange : y = date.year
  BY ONLY <1>1 DEF Valid
<1>4. Start(y) \in Nat /\ Start(y + 1) = Start(y) + YearDays(y) /\ y \in 1980 .. 2099 /\ Start(1980) = 0
      /\ Start(2099) = 43465
  <2>1. y \in 1980 .. 2099 /\ y \in 1980 .. 2100
    BY DEF YearRange, RTC_YEAR_MIN, RTC_YEAR_MAX
  <2>2. QED
    BY ONLY <2>1, YearStarts, y \in YearRange
<1>5. LastDay => dayNo = Start(y) + YearDays(y) - 1
  <2>1. SUFFICES ASSUME date.month = 12, date.day = 31 PROVE dayNo = Start(y) + YearDays(y) - 1
    BY DEF LastDay
  <2>2. dayNo = Start(y) + MonthStart[12] + LeapDay(y, 12) + 31 - 1
    BY ONLY <1>2, <1>3, <2>1
  <2>3. MonthStart[12] + LeapDay(y, 12) + 31 = YearDays(y)
    BY ONLY MonthDays
  <2>4. MonthStart[12] \in Nat /\ LeapDay(y, 12) \in Nat
    BY ONLY DEF MonthStart, LeapDay
  <2>5. QED
    BY ONLY <1>4, <2>2, <2>3, <2>4
<1>6. YearDays(y) \in 365 .. 366
  BY DEF YearDays
<1>7. ASSUME LastDay, NEW next, next = [year |-> date.year + 1, month |-> 1, day |-> 1]
      PROVE  rtc_days_from_date(next) = IF date.year = RTC_YEAR_MAX THEN -1 ELSE dayNo + 1
  <2>1. CASE y = RTC_YEAR_MAX
    <3>1. next.year \notin RTC_YEAR_MIN .. RTC_YEAR_MAX
      BY ONLY <1>3, <1>7, <2>1 DEF RTC_YEAR_MIN, RTC_YEAR_MAX
    <3>2. rtc_days_from_date(next) = -1
      BY ONLY <3>1 DEF rtc_days_from_date
    <3>3. QED
      BY ONLY <1>3, <2>1, <3>2
  <2>2. CASE y # RTC_YEAR_MAX
    <3>1. PICK x \in YearRange : x = y + 1
      BY ONLY <1>4, <2>2 DEF YearRange, RTC_YEAR_MIN, RTC_YEAR_MAX
    <3>2. next = [year |-> x, month |-> 1, day |-> 1]
      BY ONLY <1>3, <1>7, <3>1
    <3>3. rtc_days_in_month(x, 1) \in 28 .. 31
      BY ONLY MonthDays
    <3>4. 1 <= rtc_days_in_month(x, 1)
      BY ONLY <3>3
    <3>5. Valid(next)
      BY ONLY <3>1, <3>2, <3>4 DEF Valid
    <3>6. rtc_days_from_date(next) = Start(x) + MonthStart[1] + LeapDay(x, 1) + 1 - 1
      <4>1. rtc_days_from_date(next) = Start(next.year) + MonthStart[next.month]
                                       + LeapDay(next.year, next.month) + next.day - 1
        BY ONLY <3>5, DateIs
      <4>2. next.year = x /\ next.month = 1 /\ next.day = 1
        BY ONLY <3>2
      <4>3. QED
        BY ONLY <4>1, <4>2
    <3>7. MonthStart[1] = 0 /\ LeapDay(x, 1) = 0
      BY ONLY DEF MonthStart, LeapDay
    <3>8. rtc_days_from_date(next) = dayNo + 1
      BY ONLY <1>4, <1>5, <1>6, <1>7, <3>1, <3>6, <3>7
    <3>9. QED
      BY ONLY <1>3, <2>2, <3>8
  <2>3. QED
    BY <2>1, <2>2
<1>8. date = [year |-> 1980, month |-> 1, day |-> 1] => dayNo = 0 /\ wday = 2
  <2>1. SUFFICES ASSUME date.year = 1980, date.month = 1, date.day = 1 PROVE dayNo = 0 /\ wday = 2
    OBVIOUS
  <2>2. MonthStart[1] = 0 /\ LeapDay(1980, 1) = 0
    BY ONLY DEF MonthStart, LeapDay
  <2>3. dayNo = 0
    BY ONLY <1>2, <1>4, <2>1, <2>2
  <2>4. QED
    BY ONLY <1>1, <2>3
<1>9. LastDay /\ date.year = RTC_YEAR_MAX => dayNo = RTC_DAY_MAX
  <2>1. YearDays(2099) = 365
    BY LeapYears DEF YearDays
  <2>2. QED
    BY ONLY <1>3, <1>4, <1>5, <2>1 DEF RTC_YEAR_MAX, RTC_DAY_MAX
<1>10. QED
  BY ONLY <1>1, <1>2, <1>7, <1>8, <1>9 DEF CalendarAgrees

\* CalendarAgrees, for any years: the dates and the day numbers of rtc.c go up together.
THEOREM CalendarIsRight == CalSpec => []CalendarAgrees
<1>1. CalInit => CalInv
  BY CalInitInv
<1>2. CalInv /\ [NextDay]_calvars => CalInv'
  BY CalNextInv
<1>3. CalInv => CalendarAgrees
  BY CalInvAgrees
<1>4. QED
  BY <1>1, <1>2, <1>3, PTL DEF CalSpec

-----------------------------------------------------------------------------
(* The text editor *)

\* The sums of the widths of the characters before each position.
Sums(P) ==
  /\ P \in [0 .. Len(text) -> Nat] /\ P[0] = 0
  /\ \A i \in 1 .. Len(text) : P[i] = P[i - 1] + Width[text[i]]

LEMMA SumsExist ==
  ASSUME text \in Seq(Chars)
  PROVE  \E P : Sums(P)
<1>1. PICK m, n, a : m = 0 /\ n = Len(text) /\ a = 0
  OBVIOUS
<1>2. PICK g : g = [q \in Nat \X (m .. n) |-> IF q[2] = 0 THEN q[1] ELSE q[1] + Width[text[q[2]]]]
  OBVIOUS
<1>3. m \in Nat /\ n \in Nat /\ a \in Nat
  BY <1>1
<1>4. ASSUME NEW k \in Nat, NEW i \in m .. n, i # 0 PROVE k + Width[text[i]] \in Nat
  <2>1. i \in 1 .. Len(text)
    BY <1>1, <1>4
  <2>2. text[i] \in Chars
    BY <2>1
  <2>3. Width[text[i]] \in Nat
    BY <2>2, TextEditAssumption
  <2>4. QED
    BY <2>3
<1>5. g \in [Nat \X (m .. n) -> Nat]
  BY ONLY <1>2, <1>4
<1>6. PICK P \in [m .. n -> Nat] : Follows(P, m, n, a, g)
  BY ONLY <1>3, <1>5, Recursion
<1>7. \A i \in m .. n : P[i] = IF i = m THEN a ELSE g[<<P[i - 1], i>>]
  BY <1>6 DEF Follows
<1>8. P[0] = 0
  <2>1. m \in m .. n
    BY ONLY <1>1, <1>3
  <2>2. P[m] = a
    BY ONLY <1>7, <2>1
  <2>3. QED
    BY ONLY <1>1, <2>2
<1>9. ASSUME NEW i \in 1 .. n PROVE P[i] = P[i - 1] + Width[text[i]]
  <2>1. i \in m .. n /\ i - 1 \in m .. n /\ i # m /\ i # 0
    BY ONLY <1>1, <1>3, <1>9
  <2>2. P[i] = g[<<P[i - 1], i>>] /\ P[i - 1] \in Nat
    BY ONLY <1>6, <1>7, <2>1
  <2>3. QED
    BY ONLY <1>2, <2>1, <2>2
<1>10. QED
  BY ONLY <1>1, <1>6, <1>8, <1>9 DEF Sums

LEMMA SumsGrow ==
  ASSUME text \in Seq(Chars), NEW P, Sums(P)
  PROVE  \A i, j \in 0 .. Len(text) : i < j => P[i] < P[j]
<1>1. SUFFICES ASSUME NEW i \in 0 .. Len(text) PROVE \A j \in 0 .. Len(text) : i < j => P[i] < P[j]
  OBVIOUS
<1>2. PICK n \in Nat : n = Len(text)
  OBVIOUS
<1>3. ASSUME NEW j \in 1 .. n PROVE P[j - 1] < P[j] /\ P[j - 1] \in Nat /\ P[j] \in Nat
  <2>1. text[j] \in Chars /\ j \in 1 .. Len(text)
    BY <1>2
  <2>2. Width[text[j]] \in Nat \ {0}
    BY <2>1, TextEditAssumption
  <2>3. P[j] = P[j - 1] + Width[text[j]]
    BY <2>1 DEF Sums
  <2>4. j - 1 \in 0 .. Len(text)
    BY <2>1
  <2>5. P[j - 1] \in Nat
    BY <2>4 DEF Sums
  <2>6. QED
    BY ONLY <2>2, <2>3, <2>5
<1> DEFINE S == {k \in Nat : i + k + 1 <= n => P[i] < P[i + k + 1]}
<1>4. 0 \in S
  <2>1. SUFFICES ASSUME i + 0 + 1 <= n PROVE P[i] < P[i + 0 + 1]
    OBVIOUS
  <2>2. i + 1 \in 1 .. n /\ i + 1 - 1 = i /\ i + 0 + 1 = i + 1
    BY <2>1
  <2>3. QED
    BY <1>3, <2>2
<1>5. ASSUME NEW k \in Nat, k \in S PROVE k + 1 \in S
  <2>1. SUFFICES ASSUME i + (k + 1) + 1 <= n PROVE P[i] < P[i + (k + 1) + 1]
    OBVIOUS
  <2>2. PICK j \in 1 .. n : j = i + (k + 1) + 1
    BY <2>1
  <2>3. j - 1 = i + k + 1 /\ i + k + 1 <= n
    BY ONLY <2>2, k \in Nat, i \in 0 .. Len(text), <1>2, n \in Nat
  <2>4. P[i] < P[j - 1]
    BY <1>5, <2>3
  <2>5. P[i] \in Nat
    BY DEF Sums
  <2>6. QED
    BY ONLY <1>3, <2>2, <2>4, <2>5, j \in 1 .. n
<1>6. Nat \subseteq S
  <2> HIDE DEF S
  <2>1. QED
    BY ONLY <1>4, <1>5, Induction
<1>7. ASSUME NEW j \in 0 .. Len(text), i < j PROVE P[i] < P[j]
  <2>1. PICK k \in Nat : i + k + 1 = j /\ j <= n
    <3>1. j - i - 1 \in Nat /\ i + (j - i - 1) + 1 = j /\ j <= n
      BY <1>2, <1>7
    <3>2. QED
      BY <3>1
  <2>2. k \in S
    BY ONLY <1>6, k \in Nat
  <2>3. QED
    BY <2>1, <2>2
<1>8. QED
  BY <1>7

\* What WidthOf computes.
LEMMA WidthIs ==
  ASSUME NEW t \in Seq(Chars), NEW f \in [0 .. Len(t) -> Int], f[0] = 0,
         \A i \in 1 .. Len(t) : f[i] = f[i - 1] + Width[t[i]]
  PROVE  WidthOf(t) = f[Len(t)]
<1> DEFINE From(h) == [i \in 0 .. Len(t) |-> IF i = 0 THEN 0 ELSE h[i - 1] + Width[t[i]]]
<1>1. PICK n \in Nat : n = Len(t)
  OBVIOUS
<1>2. f = From(f)
  <2>1. PICK h : h = From(f)
    OBVIOUS
  <2>2. ASSUME NEW i \in 0 .. Len(t) PROVE f[i] = h[i]
    <3>1. CASE i = 0
      BY <2>1, <3>1
    <3>2. CASE i # 0
      <4>1. i \in 1 .. Len(t)
        BY <3>2
      <4>2. h[i] = f[i - 1] + Width[t[i]]
        BY ONLY <2>1, <2>2, <3>2
      <4>3. QED
        BY <4>1, <4>2
    <3>3. QED
      BY <3>1, <3>2
  <2>3. f = h
    BY ONLY <2>1, <2>2, f \in [0 .. Len(t) -> Int]
  <2>4. QED
    BY ONLY <2>1, <2>3
<1>3. PICK w : w = CHOOSE h : h = From(h)
  OBVIOUS
<1>4. w = From(w)
  BY ONLY <1>2, <1>3, Zenon
<1>5. WidthOf(t) = w[Len(t)]
  BY ONLY <1>3, Zenon DEF WidthOf
<1> DEFINE S == {k \in Nat : k <= n => w[k] = f[k]}
<1>6. 0 \in S
  <2>1. w[0] = 0
    BY ONLY <1>1, <1>4
  <2>2. QED
    BY <2>1
<1>7. ASSUME NEW k \in Nat, k \in S PROVE k + 1 \in S
  <2>1. SUFFICES ASSUME k + 1 <= n PROVE w[k + 1] = f[k + 1]
    OBVIOUS
  <2>2. PICK j \in 1 .. Len(t) : j = k + 1 /\ j - 1 = k /\ j # 0 /\ j \in 0 .. Len(t)
    BY <1>1, <2>1
  <2>3. w[j] = w[j - 1] + Width[t[j]]
    BY ONLY <1>4, <2>2
  <2>4. w[k] = f[k]
    BY <1>7, <2>1
  <2>5. f[j] = f[j - 1] + Width[t[j]]
    OBVIOUS
  <2>6. QED
    BY ONLY <2>2, <2>3, <2>4, <2>5
<1>8. Nat \subseteq S
  <2> HIDE DEF S
  <2>1. QED
    BY ONLY <1>6, <1>7, Induction
<1>9. QED
  BY <1>1, <1>5, <1>8

\* The width of a part of the text.
LEMMA WidthOfPart ==
  ASSUME text \in Seq(Chars), NEW P, Sums(P), NEW a \in 0 .. Len(text), NEW b \in -1 .. Len(text)
  PROVE  WidthOf(Part(a, b)) = IF b < a THEN 0 ELSE P[b] - P[a]
<1>1. CASE b < a
  <2>1. Part(a, b) = <<>>
    BY <1>1, SubSeqEmpty DEF Part
  <2>2. PICK t : t = Part(a, b)
    OBVIOUS
  <2>3. t \in Seq(Chars) /\ Len(t) = 0
    BY ONLY <2>1, <2>2
  <2>4. PICK f : f = [i \in 0 .. Len(t) |-> 0]
    OBVIOUS
  <2>5. f \in [0 .. Len(t) -> Int] /\ f[0] = 0 /\ f[Len(t)] = 0
    BY ONLY <2>3, <2>4
  <2>6. \A i \in 1 .. Len(t) : f[i] = f[i - 1] + Width[t[i]]
    BY ONLY <2>3
  <2>7. WidthOf(t) = f[Len(t)]
    BY ONLY <2>3, <2>5, <2>6, WidthIs
  <2>8. QED
    BY <1>1, <2>2, <2>5, <2>7
<1>2. CASE a <= b
  <2>1. PICK t, n : t = Part(a, b) /\ n = b - a
    OBVIOUS
  <2>2. t = SubSeq(text, a + 1, b) /\ n \in Nat /\ b \in 0 .. Len(text) /\ a + 1 \in 1 .. Len(text) + 1
    BY <1>2, <2>1 DEF Part
  <2>3. t \in Seq(Chars) /\ Len(t) = n /\ \A i \in 1 .. n : t[i] = text[a + i]
    <3>1. Len(t) = n
      BY <1>2, <2>1, <2>2, SubSeqProperties
    <3>2. \A i \in 1 .. n : t[i] = text[a + i]
      <4>1. SUFFICES ASSUME NEW i \in 1 .. n PROVE t[i] = text[a + i]
        OBVIOUS
      <4>2. t[i] = text[a + 1 + i - 1]
        BY <1>2, <2>1, <2>2, SubSeqProperties
      <4>3. a + 1 + i - 1 = a + i
        BY <2>2
      <4>4. QED
        BY <4>2, <4>3
    <3>3. t \in Seq(Chars)
      BY <1>2, <2>1, <2>2, SubSeqProperties
    <3>4. QED
      BY <3>1, <3>2, <3>3
  <2>4. PICK f : f = [i \in 0 .. n |-> P[a + i] - P[a]]
    OBVIOUS
  <2>5. \A i \in 0 .. n : P[a + i] \in Nat /\ a + i \in 0 .. Len(text)
    <3>1. \A i \in 0 .. n : a + i \in 0 .. Len(text)
      BY <1>2, <2>1
    <3>2. QED
      BY <3>1 DEF Sums
  <2>6. f \in [0 .. n -> Int] /\ f[0] = 0 /\ f[n] = P[b] - P[a]
    <3>1. a + 0 = a /\ a + n = b /\ 0 \in 0 .. n /\ n \in 0 .. n
      BY <2>1, <2>2
    <3>2. P[a] \in Nat
      BY <2>5, <3>1
    <3>3. QED
      BY ONLY <2>4, <2>5, <3>1, <3>2
  <2>7. ASSUME NEW i \in 1 .. n PROVE f[i] = f[i - 1] + Width[t[i]]
    <3>1. i \in 0 .. n /\ i - 1 \in 0 .. n /\ a + i \in 1 .. Len(text) /\ a + (i - 1) = a + i - 1
      BY <2>2, <2>5
    <3>2. P[a + i] = P[a + (i - 1)] + Width[text[a + i]]
      BY <3>1 DEF Sums
    <3>3. P[a + i] \in Nat /\ P[a + (i - 1)] \in Nat /\ P[a] \in Nat
      <4>1. 0 \in 0 .. n /\ a + 0 = a
        BY <2>2
      <4>2. QED
        BY <2>5, <3>1, <4>1
    <3>4. text[a + i] \in Chars
      BY <3>1
    <3>5. Width[text[a + i]] \in Nat
      BY <3>4, TextEditAssumption
    <3>6. f[i] = P[a + i] - P[a] /\ f[i - 1] = P[a + (i - 1)] - P[a]
      BY ONLY <2>4, <3>1
    <3>7. Width[t[i]] = Width[text[a + i]]
      BY <2>3
    <3>8. QED
      BY ONLY <3>2, <3>3, <3>5, <3>6, <3>7, SMTT(30)
  <2>8. WidthOf(t) = f[n]
    <3>1. f \in [0 .. Len(t) -> Int] /\ f[0] = 0
      BY ONLY <2>3, <2>6
    <3>2. \A i \in 1 .. Len(t) : f[i] = f[i - 1] + Width[t[i]]
      BY ONLY <2>3, <2>7
    <3>3. t \in Seq(Chars)
      BY ONLY <2>3
    <3>4. WidthOf(t) = f[Len(t)]
      BY ONLY <3>1, <3>2, <3>3, WidthIs
    <3>5. QED
      BY ONLY <2>3, <3>4
  <2>9. QED
    BY ONLY <1>2, <2>1, <2>6, <2>8, a \in 0 .. Len(text), b \in -1 .. Len(text)
<1>3. QED
  BY <1>1, <1>2

-----------------------------------------------------------------------------
Breaks == {"space", "newline"}

\* A word ends at a space, a new line or the end of the text.
LEMMA WordEndIs ==
  ASSUME text \in Seq(Chars), NEW b \in 0 .. Len(text)
  PROVE  /\ WordEnd(b) \in b .. Len(text)
         /\ WordEnd(b) = Len(text) \/ text[WordEnd(b) + 1] \in Breaks
<1> DEFINE Ends(e) == /\ e = Len(text) \/ text[e + 1] \in Breaks
                      /\ \A p \in b .. e - 1 : text[p + 1] \notin Breaks
           T == {e \in b .. Len(text) : e = Len(text) \/ text[e + 1] \in Breaks}
<1>1. PICK n \in Nat : n = Len(text)
  OBVIOUS
<1>2. T \in SUBSET Nat /\ T # {}
  <2>1. n \in T
    BY <1>1
  <2>2. QED
    BY <2>1
<1>3. PICK x \in T : \A y \in T : x <= y
  <2> HIDE DEF T
  <2>1. QED
    BY ONLY <1>2, LeastNumber
<1>4. ASSUME NEW p \in b .. x - 1 PROVE text[p + 1] \notin Breaks
  <2>1. p \in b .. n /\ p # n /\ p < x
    BY <1>1, <1>3
  <2>2. p \notin T
    BY <1>3, <2>1
  <2>3. QED
    BY <1>1, <2>1, <2>2
<1>5. x \in b .. Len(text) /\ Ends(x)
  BY <1>3, <1>4
<1>6. WordEnd(b) = CHOOSE e \in b .. Len(text) : Ends(e)
  BY DEF WordEnd, Breaks
<1>7. WordEnd(b) \in b .. Len(text) /\ Ends(WordEnd(b))
  <2> HIDE DEF Ends
  <2>1. QED
    BY ONLY <1>5, <1>6
<1>8. QED
  BY <1>7

\* What Wrapped says of a line from a up to b, the last but those that follow it.
LastOf(a, b) ==
  LET end == IF text[b] = "newline" THEN b - 1 ELSE b
  IN  IF end > a /\ text[end] = "space" THEN end - 1 ELSE end

Line(P, a, b) ==
  /\ a < b
  /\ text[b] # "newline" =>
       /\ P[WordEnd(b)] - P[a] > LineWidth
       /\ text[b] = "space" \/ \A p \in a + 1 .. b : text[p] # "space"
  /\ LastOf(a, b) > a => P[LastOf(a, b) - 1] - P[a] <= LineWidth

\* layout(), when i characters are done: r.start begins the line it is in, and it
\* is not too wide but for its final character.
LineInv(P, i, r) ==
  /\ r \in [i : Nat, start : Nat, w : Int, space : Int, starts : Seq(Nat)]
  /\ r.i = i /\ r.start \in 0 .. i /\ r.w = P[i] - P[r.start] /\ r.space \in -1 .. i - 1
  /\ r.starts # <<>> /\ r.starts[Len(r.starts)] = r.start
  /\ r.start < i => P[i - 1] - P[r.start] <= LineWidth
  /\ r.w > LineWidth => i = r.start + 1 \/ r.space < r.start
  /\ r.space >= r.start => text[r.space + 1] = "space"
  /\ \A p \in r.start + 1 .. i : text[p] # "newline" /\ (p > r.space + 1 => text[p] # "space")
  /\ \A p \in 1 .. i : text[p] = "newline" => \E l \in 1 .. Len(r.starts) : r.starts[l] = p
  /\ \A l \in 1 .. Len(r.starts) : r.starts[l] <= i
  /\ \A l \in 2 .. Len(r.starts) : Line(P, r.starts[l - 1], r.starts[l])

\* A line more: what is asked of the starts.
MayStart(P, i, r, b, z) ==
  /\ LineInv(P, i, r) /\ b \in 0 .. i + 1 /\ Line(P, r.start, b) /\ z = Append(r.starts, b)
  /\ text[i + 1] = "newline" => b = i + 1

AreStarts(P, i, b, z) ==
  /\ z \in Seq(Nat) /\ z # <<>> /\ z[Len(z)] = b
  /\ \A p \in 1 .. i + 1 : text[p] = "newline" => \E l \in 1 .. Len(z) : z[l] = p
  /\ \A l \in 1 .. Len(z) : z[l] <= i + 1
  /\ \A l \in 2 .. Len(z) : Line(P, z[l - 1], z[l])

LEMMA StartMore ==
  ASSUME NEW P, NEW i \in Nat, NEW r, NEW b, NEW z, MayStart(P, i, r, b, z)
  PROVE  AreStarts(P, i, b, z)
<1>1. /\ LineInv(P, i, r) /\ b \in 0 .. i + 1 /\ Line(P, r.start, b) /\ z = Append(r.starts, b)
      /\ text[i + 1] = "newline" => b = i + 1
  BY DEF MayStart
<1>2. PICK s, n : s = r.starts /\ n = Len(s)
  OBVIOUS
<1>3. /\ s \in Seq(Nat) /\ s # <<>> /\ s[n] = r.start
      /\ \A p \in 1 .. i : text[p] = "newline" => \E l \in 1 .. n : s[l] = p
      /\ \A l \in 1 .. n : s[l] <= i
      /\ \A l \in 2 .. n : Line(P, s[l - 1], s[l])
  BY <1>1, <1>2 DEF LineInv
<1>4. n \in Nat \ {0}
  BY ONLY <1>2, <1>3, EmptySeq, LenProperties
<1>5. z \in Seq(Nat) /\ Len(z) = n + 1 /\ z[n + 1] = b /\ \A l \in 1 .. n : z[l] = s[l]
  <2>1. b \in Nat /\ z = Append(s, b)
    BY <1>1, <1>2
  <2>2. QED
    BY ONLY <1>2, <1>3, <2>1, AppendProperties
<1>6. z # <<>> /\ z[Len(z)] = b
  BY ONLY <1>4, <1>5, EmptySeq
<1>7. ASSUME NEW p \in 1 .. i + 1, text[p] = "newline" PROVE \E l \in 1 .. Len(z) : z[l] = p
  <2>1. CASE p = i + 1
    <3>1. b = p
      BY ONLY <1>1, <1>7, <2>1
    <3>2. z[n + 1] = p /\ n + 1 \in 1 .. Len(z)
      BY ONLY <1>4, <1>5, <3>1
    <3>3. QED
      BY ONLY <3>2
  <2>2. CASE p # i + 1
    <3>1. p \in 1 .. i
      BY <2>2
    <3>2. PICK l \in 1 .. n : s[l] = p
      BY ONLY <1>3, <1>7, <3>1
    <3>3. l \in 1 .. Len(z) /\ z[l] = p
      BY <1>4, <1>5, <3>2
    <3>4. QED
      BY ONLY <3>3
  <2>3. QED
    BY <2>1, <2>2
<1>8. ASSUME NEW l \in 1 .. Len(z) PROVE z[l] <= i + 1
  <2>1. CASE l = n + 1
    BY ONLY <1>5, <1>1, <2>1, i \in Nat
  <2>2. CASE l # n + 1
    <3>1. l \in 1 .. n
      BY ONLY <1>4, <1>5, <1>8, <2>2
    <3>2. z[l] = s[l] /\ s[l] <= i /\ s[l] \in Nat
      <4>1. s[l] \in Nat
        BY ONLY <1>2, <1>3, <3>1, ElementOfSeq
      <4>2. QED
        BY ONLY <1>3, <1>5, <3>1, <4>1
    <3>3. QED
      BY ONLY <3>2, i \in Nat
  <2>3. QED
    BY <2>1, <2>2
<1>9. ASSUME NEW l \in 2 .. Len(z) PROVE Line(P, z[l - 1], z[l])
  <2>1. CASE l = n + 1
    <3>1. l - 1 = n /\ n \in 1 .. n
      BY ONLY <1>4, <2>1
    <3>2. z[l - 1] = r.start /\ z[l] = b
      BY ONLY <1>3, <1>5, <2>1, <3>1
    <3>3. QED
      BY ONLY <1>1, <3>2
  <2>2. CASE l # n + 1
    <3>1. l \in 2 .. n /\ l \in 1 .. n /\ l - 1 \in 1 .. n
      BY ONLY <1>4, <1>5, <1>9, <2>2
    <3>2. z[l] = s[l] /\ z[l - 1] = s[l - 1] /\ Line(P, s[l - 1], s[l])
      BY ONLY <1>3, <1>5, <3>1
    <3>3. QED
      BY ONLY <3>2
  <2>3. QED
    BY <2>1, <2>2
<1>10. QED
  BY ONLY <1>5, <1>6, <1>7, <1>8, <1>9 DEF AreStarts

\* A new line that is read ends the line.
LEMMA WrapNewline ==
  ASSUME text \in Seq(Chars), NEW P, Sums(P), NEW i \in Nat, i < Len(text), NEW r, LineInv(P, i, r),
         text[i + 1] = "newline"
  PROVE  LineInv(P, i + 1, Wrap(r, text[i + 1]))
<1>1. PICK a, z, q : a = r.start /\ z = Append(r.starts, i + 1) /\ q = Wrap(r, text[i + 1])
  OBVIOUS
<1>2. /\ r \in [i : Nat, start : Nat, w : Int, space : Int, starts : Seq(Nat)]
      /\ r.i = i /\ a \in 0 .. i /\ (a < i => P[i - 1] - P[a] <= LineWidth)
  BY <1>1 DEF LineInv
<1>3. q = [i |-> i + 1, start |-> i + 1, w |-> 0, space |-> -1, starts |-> z]
  BY ONLY <1>1, <1>2, text[i + 1] = "newline" DEF Wrap
<1>4. \A j, k \in 0 .. Len(text) : j < k => P[j] < P[k]
  BY SumsGrow
<1>5. \A j \in 0 .. Len(text) : P[j] \in Nat
  BY DEF Sums
<1>6. Line(P, a, i + 1)
  <2>1. a < i + 1
    BY ONLY <1>2, i \in Nat
  <2>2. PICK l : l = LastOf(a, i + 1)
    OBVIOUS
  <2>3. l = i \/ (l = i - 1 /\ i > a)
    <3>1. i + 1 - 1 = i
      OBVIOUS
    <3>2. QED
      BY ONLY <2>2, <3>1, text[i + 1] = "newline" DEF LastOf
  <2>4. l > a => P[l - 1] - P[a] <= LineWidth
    <3>1. SUFFICES ASSUME l > a PROVE P[l - 1] - P[a] <= LineWidth
      OBVIOUS
    <3>2. P[i - 1] - P[a] <= LineWidth /\ a < i
      BY ONLY <1>2, <2>3, <3>1, i \in Nat
    <3>3. CASE l = i
      BY ONLY <3>2, <3>3
    <3>4. CASE l = i - 1
      <4>1. l - 1 \in 0 .. Len(text) /\ i - 1 \in 0 .. Len(text) /\ a \in 0 .. Len(text) /\ l - 1 < i - 1
        BY <1>2, <3>1, <3>4
      <4>2. P[l - 1] < P[i - 1] /\ P[l - 1] \in Nat /\ P[i - 1] \in Nat /\ P[a] \in Nat
        BY ONLY <1>4, <1>5, <4>1
      <4>3. QED
        BY ONLY <3>2, <4>2, TextEditAssumption DEF TextEditAssumption
    <3>5. QED
      BY ONLY <2>3, <3>3, <3>4
  <2>5. QED
    BY ONLY <2>1, <2>2, <2>4, text[i + 1] = "newline" DEF Line
<1>7. i + 1 \in 0 .. i + 1 /\ i + 1 \in Nat
  OBVIOUS
<1>8. PICK b \in 0 .. i + 1 : b = i + 1
  BY ONLY <1>7
<1>9. Line(P, r.start, b) /\ z = Append(r.starts, b)
  BY ONLY <1>1, <1>6, <1>8
<1>10. /\ z \in Seq(Nat) /\ z # <<>> /\ z[Len(z)] = b
       /\ \A p \in 1 .. i + 1 : text[p] = "newline" => \E l \in 1 .. Len(z) : z[l] = p
       /\ \A l \in 1 .. Len(z) : z[l] <= i + 1
       /\ \A l \in 2 .. Len(z) : Line(P, z[l - 1], z[l])
  <2>1. text[i + 1] = "newline" => b = i + 1
    BY ONLY <1>8
  <2>2. MayStart(P, i, r, b, z)
    BY ONLY <1>9, <2>1, LineInv(P, i, r), b \in 0 .. i + 1, Zenon DEF MayStart
  <2>3. QED
    BY ONLY <2>2, StartMore, i \in Nat, Zenon DEF AreStarts
<1>11. /\ z \in Seq(Nat) /\ z # <<>> /\ z[Len(z)] = i + 1
       /\ \A p \in 1 .. i + 1 : text[p] = "newline" => \E l \in 1 .. Len(z) : z[l] = p
       /\ \A l \in 1 .. Len(z) : z[l] <= i + 1
       /\ \A l \in 2 .. Len(z) : Line(P, z[l - 1], z[l])
  BY ONLY <1>8, <1>10
<1>12. P[i + 1] \in Nat
  BY <1>5
<1>13. LineInv(P, i + 1, q)
  <2>1. q \in [i : Nat, start : Nat, w : Int, space : Int, starts : Seq(Nat)]
    BY ONLY <1>3, <1>7, <1>11
  <2>2. q.i = i + 1 /\ q.start = i + 1 /\ q.w = 0 /\ q.space = -1 /\ q.starts = z
    BY ONLY <1>3
  <2>3. ~(0 > LineWidth)
    BY TextEditAssumption
  <2>4. \A p \in i + 1 + 1 .. i + 1 : FALSE
    OBVIOUS
  <2>5. -1 \in -1 .. i + 1 - 1 /\ ~(-1 >= i + 1) /\ ~(i + 1 < i + 1) /\ i + 1 \in 0 .. i + 1
    OBVIOUS
  <2>6. P[i + 1] - P[i + 1] = 0
    BY <1>12
  <2>7. QED
    BY ONLY <1>11, <2>1, <2>2, <2>3, <2>4, <2>5, <2>6 DEF LineInv
<1>14. QED
  BY ONLY <1>1, <1>13

\* A character that fits, or has a line for itself.
LEMMA WrapOn ==
  ASSUME text \in Seq(Chars), NEW P, Sums(P), NEW i \in Nat, i < Len(text), NEW r, LineInv(P, i, r),
         text[i + 1] # "newline", ~(r.w + Width[text[i + 1]] > LineWidth /\ i > r.start)
  PROVE  LineInv(P, i + 1, Wrap(r, text[i + 1]))
<1>1. PICK a, c, q, w, v :
        /\ a = r.start /\ c = text[i + 1] /\ q = Wrap(r, text[i + 1]) /\ w = r.w + Width[c]
        /\ v = IF c = "space" THEN i ELSE r.space
  OBVIOUS
<1>2. /\ r \in [i : Nat, start : Nat, w : Int, space : Int, starts : Seq(Nat)]
      /\ r.i = i /\ a \in 0 .. i /\ (a < i => P[i - 1] - P[a] <= LineWidth)
      /\ r.w = P[i] - P[a] /\ r.space \in -1 .. i - 1
      /\ (r.space >= a => text[r.space + 1] = "space")
      /\ \A p \in a + 1 .. i : text[p] # "newline" /\ (p > r.space + 1 => text[p] # "space")
  BY <1>1 DEF LineInv
<1>3. ~(w > LineWidth /\ i > a)
  BY <1>1
<1>4. q = [i |-> i + 1, start |-> a, w |-> w, space |-> v, starts |-> r.starts]
  BY ONLY <1>1, <1>2, <1>3, text[i + 1] # "newline" DEF Wrap
<1>5. \A j \in 0 .. Len(text) : P[j] \in Nat
  BY DEF Sums
<1>6. w = P[i + 1] - P[a] /\ P[i + 1] > P[i]
  <2>1. i + 1 \in 1 .. Len(text) /\ i + 1 - 1 = i /\ i + 1 \in 0 .. Len(text) /\ i \in 0 .. Len(text)
        /\ a \in 0 .. Len(text)
    BY <1>2
  <2>2. P[i + 1] = P[i] + Width[c]
    BY ONLY <1>1, <2>1, Sums(P) DEF Sums
  <2>3. P[i] \in Nat /\ P[a] \in Nat /\ P[i + 1] \in Nat
    BY ONLY <1>5, <2>1
  <2>4. c \in Chars
    BY <1>1, <2>1
  <2>5. Width[c] \in Nat \ {0}
    BY <2>4, TextEditAssumption
  <2>6. r.w = P[i] - P[a] /\ w = r.w + Width[c]
    BY ONLY <1>1, <1>2
  <2>7. QED
    BY ONLY <2>2, <2>3, <2>5, <2>6
<1>7. q \in [i : Nat, start : Nat, w : Int, space : Int, starts : Seq(Nat)]
  <2>1. i + 1 \in 0 .. Len(text) /\ a \in 0 .. Len(text)
    BY <1>2
  <2>2. w \in Int
    BY ONLY <1>5, <1>6, <2>1
  <2>3. v \in Int /\ i + 1 \in Nat /\ a \in Nat
    BY ONLY <1>1, <1>2, i \in Nat
  <2>4. QED
    BY ONLY <1>2, <1>4, <2>2, <2>3
<1>8. q.i = i + 1 /\ q.start = a /\ q.w = w /\ q.space = v /\ q.starts = r.starts
  BY ONLY <1>4
<1>9. v \in -1 .. i + 1 - 1 /\ a \in 0 .. i + 1
  BY ONLY <1>1, <1>2, i \in Nat
<1>10. P[i + 1 - 1] - P[a] <= LineWidth
  <2>1. i + 1 - 1 = i /\ i \in 0 .. Len(text) /\ i + 1 \in 0 .. Len(text) /\ a \in 0 .. Len(text)
    BY <1>2
  <2>2. CASE i = a
    <3>1. P[a] - P[a] = 0
      BY <1>5, <2>1
    <3>2. QED
      BY <2>1, <2>2, <3>1, TextEditAssumption
  <2>3. CASE i # a
    <3>1. i > a
      BY ONLY <1>2, <2>3, i \in Nat
    <3>2. ~(P[i + 1] - P[a] > LineWidth)
      BY ONLY <1>3, <1>6, <3>1
    <3>3. P[i] \in Nat /\ P[a] \in Nat /\ P[i + 1] \in Nat /\ LineWidth \in Nat
      BY <1>5, <2>1, TextEditAssumption
    <3>4. QED
      BY ONLY <1>6, <2>1, <3>2, <3>3
  <2>4. QED
    BY <2>2, <2>3
<1>11. w > LineWidth => i + 1 = a + 1 \/ v < a
  BY ONLY <1>2, <1>3, i \in Nat
<1>12. v >= a => text[v + 1] = "space"
  BY ONLY <1>1, <1>2
<1>13. \A p \in a + 1 .. i + 1 : text[p] # "newline" /\ (p > v + 1 => text[p] # "space")
  <2>1. SUFFICES ASSUME NEW p \in a + 1 .. i + 1
                 PROVE  text[p] # "newline" /\ (p > v + 1 => text[p] # "space")
    OBVIOUS
  <2>2. CASE p = i + 1
    BY ONLY <1>1, <2>2, i \in Nat, text[i + 1] # "newline"
  <2>3. CASE p # i + 1
    <3>1. p \in a + 1 .. i /\ (p > v + 1 => p > r.space + 1)
      BY ONLY <1>1, <1>2, <2>3, p \in a + 1 .. i + 1, i \in Nat
    <3>2. QED
      BY ONLY <1>2, <3>1
  <2>4. QED
    BY <2>2, <2>3
<1>14. /\ r.starts # <<>> /\ r.starts[Len(r.starts)] = a
       /\ \A p \in 1 .. i : text[p] = "newline" => \E l \in 1 .. Len(r.starts) : r.starts[l] = p
       /\ \A l \in 1 .. Len(r.starts) : r.starts[l] <= i
       /\ \A l \in 2 .. Len(r.starts) : Line(P, r.starts[l - 1], r.starts[l])
  BY <1>1 DEF LineInv
<1>15. \A p \in 1 .. i + 1 : text[p] = "newline" => \E l \in 1 .. Len(r.starts) : r.starts[l] = p
  <2>1. \A p \in 1 .. i + 1 : p \in 1 .. i \/ p = i + 1
    OBVIOUS
  <2>2. QED
    BY ONLY <1>14, <2>1, text[i + 1] # "newline"
<1>16. \A l \in 1 .. Len(r.starts) : r.starts[l] <= i + 1
  <2>1. SUFFICES ASSUME NEW l \in 1 .. Len(r.starts) PROVE r.starts[l] <= i + 1
    OBVIOUS
  <2>2. r.starts[l] \in Nat /\ r.starts[l] <= i
    <3>1. r.starts \in Seq(Nat)
      BY ONLY <1>2
    <3>2. r.starts[l] \in Nat
      BY ONLY <3>1, ElementOfSeq, l \in 1 .. Len(r.starts)
    <3>3. QED
      BY ONLY <1>14, <3>2, l \in 1 .. Len(r.starts)
  <2>3. QED
    BY ONLY <2>2, i \in Nat
<1>17. LineInv(P, i + 1, q)
  BY ONLY <1>6, <1>7, <1>8, <1>9, <1>10, <1>11, <1>12, <1>13, <1>14, <1>15, <1>16 DEF LineInv
<1>18. QED
  BY ONLY <1>1, <1>17

\* A character that does not fit: the line ends after its last space, or before it.
LEMMA WrapWide ==
  ASSUME text \in Seq(Chars), NEW P, Sums(P), NEW i \in Nat, i < Len(text), NEW r, LineInv(P, i, r),
         text[i + 1] # "newline", r.w + Width[text[i + 1]] > LineWidth, i > r.start
  PROVE  LineInv(P, i + 1, Wrap(r, text[i + 1]))
<1>1. PICK a, c, q, v, b :
        /\ a = r.start /\ c = text[i + 1] /\ q = Wrap(r, text[i + 1])
        /\ v = IF c = "space" THEN i ELSE r.space
        /\ b = IF v >= a THEN v + 1 ELSE i
  OBVIOUS
<1>2. /\ r \in [i : Nat, start : Nat, w : Int, space : Int, starts : Seq(Nat)]
      /\ r.i = i /\ a \in 0 .. i /\ (a < i => P[i - 1] - P[a] <= LineWidth)
      /\ r.w = P[i] - P[a] /\ r.space \in -1 .. i - 1
      /\ (r.w > LineWidth => i = a + 1 \/ r.space < a)
      /\ (r.space >= a => text[r.space + 1] = "space")
      /\ \A p \in a + 1 .. i : text[p] # "newline" /\ (p > r.space + 1 => text[p] # "space")
  BY <1>1 DEF LineInv
<1>3. a < i /\ c # "newline" /\ LineWidth \in Nat
  BY <1>1, <1>2, TextEditAssumption
<1>4. \A j \in 0 .. Len(text) : P[j] \in Nat
  BY DEF Sums
<1>5. \A j, k \in 0 .. Len(text) : j < k => P[j] < P[k]
  BY SumsGrow
<1>6. i + 1 \in 0 .. Len(text) /\ i \in 0 .. Len(text) /\ a \in 0 .. Len(text) /\ i + 1 \in 1 .. Len(text)
  BY <1>2
<1>7. P[i + 1] - P[a] > LineWidth
  <2>1. P[i + 1] = P[i] + Width[c]
    <3>1. i + 1 - 1 = i
      OBVIOUS
    <3>2. QED
      BY ONLY <1>1, <1>6, <3>1, Sums(P) DEF Sums
  <2>2. c \in Chars
    BY <1>1, <1>6
  <2>3. Width[c] \in Nat
    BY <2>2, TextEditAssumption
  <2>4. P[i] \in Nat /\ P[a] \in Nat
    BY ONLY <1>4, <1>6
  <2>5. r.w + Width[c] > LineWidth
    BY <1>1
  <2>6. QED
    BY ONLY <1>2, <1>3, <2>1, <2>3, <2>4, <2>5, SMTT(30)
<1>8. /\ v \in -1 .. i /\ (v >= a => text[v + 1] = "space") /\ (v = i <=> c = "space")
      /\ b \in a + 1 .. i + 1 /\ (b = i + 1 <=> c = "space")
  <2>1. v \in -1 .. i /\ (v = i <=> c = "space")
    BY ONLY <1>1, <1>2, i \in Nat
  <2>2. v >= a => text[v + 1] = "space"
    BY ONLY <1>1, <1>2
  <2>3. b \in a + 1 .. i + 1 /\ (b = i + 1 <=> v = i)
    BY ONLY <1>1, <1>2, <1>3, <2>1, i \in Nat
  <2>4. QED
    BY ONLY <2>1, <2>2, <2>3
<1>9. b \in 0 .. Len(text) /\ b \in 0 .. i + 1 /\ b \in Nat
  BY <1>2, <1>8
<1>10. \A p \in a + 1 .. i : text[p] # "newline" /\ (p > v + 1 => text[p] # "space")
  <2>1. SUFFICES ASSUME NEW p \in a + 1 .. i PROVE text[p] # "newline" /\ (p > v + 1 => text[p] # "space")
    OBVIOUS
  <2>2. text[p] # "newline" /\ (p > r.space + 1 => text[p] # "space")
    BY ONLY <1>2, <2>1
  <2>3. v = i \/ v = r.space
    BY ONLY <1>1
  <2>4. ~(p > i + 1)
    BY ONLY <1>2, <2>1, i \in Nat
  <2>5. QED
    BY ONLY <2>2, <2>3, <2>4
<1>11. text[b] # "newline" /\ (text[b] = "space" \/ \A p \in a + 1 .. b : text[p] # "space")
       /\ (text[b] = "space" => v >= a)
  <2>1. CASE v >= a
    <3>1. text[b] = "space"
      BY ONLY <1>1, <1>8, <2>1
    <3>2. QED
      BY ONLY <2>1, <3>1
  <2>2. CASE ~(v >= a)
    <3>1. b = i
      BY ONLY <1>1, <2>2
    <3>2. \A p \in a + 1 .. b : text[p] # "newline" /\ text[p] # "space"
      <4>1. \A p \in a + 1 .. i : p > v + 1
        BY ONLY <1>2, <1>8, <2>2, i \in Nat
      <4>2. QED
        BY ONLY <1>10, <3>1, <4>1
    <3>3. b \in a + 1 .. b
      BY ONLY <1>2, <1>3, <3>1, i \in Nat
    <3>4. QED
      BY ONLY <3>2, <3>3
  <2>3. QED
    BY <2>1, <2>2
<1>12. WordEnd(b) \in i + 1 .. Len(text)
  <2>1. /\ WordEnd(b) \in b .. Len(text)
        /\ WordEnd(b) = Len(text) \/ text[WordEnd(b) + 1] \in Breaks
    BY <1>9, WordEndIs
  <2>2. PICK e : e = WordEnd(b)
    OBVIOUS
  <2>3. ~(e <= i)
    <3>1. SUFFICES ASSUME e <= i PROVE FALSE
      OBVIOUS
    <3>2. e \in b .. i /\ text[e + 1] \in Breaks
      BY <2>1, <2>2, <3>1, <1>8
    <3>3. b # i + 1
      BY ONLY <1>8, <3>2, i \in Nat, <1>2
    <3>4. c \notin Breaks
      BY ONLY <1>3, <1>8, <3>3 DEF Breaks
    <3>5. e # i
      BY ONLY <1>1, <3>2, <3>4
    <3>6. e + 1 \in a + 1 .. i /\ e + 1 > v + 1
      <4>1. a \in Nat /\ v \in Int /\ b \in Int /\ a + 1 <= b
        BY ONLY <1>2, <1>8, i \in Nat
      <4>2. b = v + 1 \/ b = i
        BY ONLY <1>1
      <4>3. e \in Int /\ b <= e /\ e <= i /\ e # i
        BY ONLY <3>2, <3>5, <4>1, i \in Nat
      <4>4. QED
        BY ONLY <4>1, <4>2, <4>3, i \in Nat
    <3>7. text[e + 1] # "newline" /\ text[e + 1] # "space"
      BY ONLY <1>10, <3>6
    <3>8. QED
      BY ONLY <3>2, <3>7 DEF Breaks
  <2>4. QED
    BY <2>1, <2>2, <2>3, <1>8
<1>13. P[WordEnd(b)] - P[a] > LineWidth
  <2>1. PICK e \in i + 1 .. Len(text) : e = WordEnd(b)
    BY <1>12
  <2>2. e \in 0 .. Len(text) /\ (e = i + 1 \/ i + 1 < e)
    BY <1>6
  <2>3. P[i + 1] <= P[e]
    <3>1. CASE e = i + 1
      BY ONLY <1>4, <1>6, <3>1
    <3>2. CASE i + 1 < e
      <4>1. P[i + 1] < P[e]
        BY ONLY <1>5, <1>6, <2>2, <3>2
      <4>2. P[i + 1] \in Nat /\ P[e] \in Nat
        BY ONLY <1>4, <1>6, <2>2
      <4>3. QED
        BY ONLY <4>1, <4>2
    <3>3. QED
      BY ONLY <2>2, <3>1, <3>2
  <2>4. P[i + 1] \in Nat /\ P[e] \in Nat /\ P[a] \in Nat
    BY ONLY <1>4, <1>6, <2>2
  <2>5. QED
    BY ONLY <1>3, <1>7, <2>1, <2>3, <2>4
<1>14. LastOf(a, b) > a => P[LastOf(a, b) - 1] - P[a] <= LineWidth
  <2>1. SUFFICES ASSUME LastOf(a, b) > a PROVE P[LastOf(a, b) - 1] - P[a] <= LineWidth
    OBVIOUS
  <2>2. PICK l : l = LastOf(a, b)
    OBVIOUS
  <2>3. l = IF b > a /\ text[b] = "space" THEN b - 1 ELSE b
    BY ONLY <1>11, <2>2 DEF LastOf
  <2>4. l \in a + 1 .. i
    <3>1. l \in b - 1 .. b /\ (l = b => text[b] # "space")
      BY ONLY <1>8, <2>3, i \in Nat, <1>2
    <3>2. b = i + 1 => text[b] = "space"
      BY ONLY <1>1, <1>8
    <3>3. l > a
      BY ONLY <2>1, <2>2
    <3>4. QED
      BY ONLY <1>2, <1>8, <3>1, <3>2, <3>3, i \in Nat
  <2>5. l - 1 \in 0 .. Len(text) /\ i - 1 \in 0 .. Len(text) /\ (l = i \/ l - 1 < i - 1)
    BY <1>2, <2>4
  <2>6. P[i - 1] - P[a] <= LineWidth
    BY ONLY <1>2, <1>3
  <2>7. P[l - 1] \in Nat /\ P[i - 1] \in Nat /\ P[a] \in Nat
    BY ONLY <1>4, <1>6, <2>5
  <2>8. P[l - 1] <= P[i - 1]
    <3>1. l = i \/ P[l - 1] < P[i - 1]
      BY ONLY <1>5, <2>5
    <3>2. QED
      BY ONLY <2>7, <3>1
  <2>9. P[l - 1] - P[a] <= LineWidth
    BY ONLY <1>3, <2>6, <2>7, <2>8
  <2>10. QED
    BY ONLY <2>2, <2>9
<1>15. Line(P, a, b)
  <2>1. a < b
    BY ONLY <1>2, <1>8, i \in Nat
  <2>2. QED
    BY ONLY <1>11, <1>13, <1>14, <2>1 DEF Line
<1>16. PICK z : z = Append(r.starts, b)
  OBVIOUS
<1>17. /\ z \in Seq(Nat) /\ z # <<>> /\ z[Len(z)] = b
       /\ \A p \in 1 .. i + 1 : text[p] = "newline" => \E l \in 1 .. Len(z) : z[l] = p
       /\ \A l \in 1 .. Len(z) : z[l] <= i + 1
       /\ \A l \in 2 .. Len(z) : Line(P, z[l - 1], z[l])
  <2>1. b \in 0 .. i + 1 /\ Line(P, r.start, b) /\ z = Append(r.starts, b) /\ text[i + 1] # "newline"
    BY ONLY <1>1, <1>9, <1>15, <1>16, text[i + 1] # "newline"
  <2>2. text[i + 1] = "newline" => b = i + 1
    BY ONLY <2>1
  <2>3. b \in 0 .. i + 1 /\ Line(P, r.start, b) /\ z = Append(r.starts, b)
    BY ONLY <2>1
  <2>4. MayStart(P, i, r, b, z)
    BY ONLY <2>2, <2>3, LineInv(P, i, r), Zenon DEF MayStart
  <2>5. QED
    BY ONLY <2>4, StartMore, i \in Nat, Zenon DEF AreStarts
<1>18. PICK w : w = P[i + 1] - P[b]
  OBVIOUS
<1>19. WidthOf(Part(b, i + 1)) = w
  <2>1. PICK e : e = i + 1
    OBVIOUS
  <2>2. e \in -1 .. Len(text) /\ ~(e < b)
    BY <1>6, <1>9, <2>1
  <2>3. WidthOf(Part(b, e)) = P[e] - P[b]
    BY <1>9, <2>2, WidthOfPart
  <2>4. QED
    BY ONLY <1>18, <2>1, <2>3
<1>20. q = [i |-> i + 1, start |-> b, w |-> w, space |-> -1, starts |-> z]
  <2>1. r.w + Width[c] > LineWidth /\ i > r.start
    BY <1>1
  <2>2. q = [r EXCEPT !.i = i + 1, !.start = b, !.w = WidthOf(Part(b, i + 1)), !.space = -1, !.starts = z]
    BY ONLY <1>1, <1>2, <1>3, <1>16, <2>1 DEF Wrap
  <2>3. QED
    BY ONLY <1>2, <1>19, <2>2
<1>21. q.i = i + 1 /\ q.start = b /\ q.w = w /\ q.space = -1 /\ q.starts = z
  BY ONLY <1>20
<1>22. q \in [i : Nat, start : Nat, w : Int, space : Int, starts : Seq(Nat)]
  <2>1. w \in Int
    BY ONLY <1>4, <1>6, <1>9, <1>18
  <2>2. i + 1 \in Nat
    OBVIOUS
  <2>3. QED
    BY ONLY <1>9, <1>17, <1>20, <2>1, <2>2
<1>23. -1 \in -1 .. i + 1 - 1 /\ ~(-1 >= b) /\ (w > LineWidth => i + 1 = b + 1 \/ -1 < b)
  BY ONLY <1>9, i \in Nat
<1>24. b < i + 1 => P[i + 1 - 1] - P[b] <= LineWidth
  <2>1. SUFFICES ASSUME b < i + 1 PROVE P[i] - P[b] <= LineWidth
    <3>1. i + 1 - 1 = i
      OBVIOUS
    <3>2. QED
      BY <3>1
  <2>2. P[i] \in Nat /\ P[a] \in Nat /\ P[b] \in Nat
    BY ONLY <1>4, <1>6, <1>9
  <2>3. CASE b = i
    BY ONLY <1>3, <2>2, <2>3
  <2>4. CASE b # i
    <3>1. v >= a /\ b = v + 1 /\ c # "space" /\ v = r.space
      BY ONLY <1>1, <1>8, <2>1, <2>4, i \in Nat
    <3>2. i # a + 1 /\ ~(r.space < a)
      BY ONLY <1>2, <1>8, <2>1, <2>4, <3>1, i \in Nat
    <3>3. ~(P[i] - P[a] > LineWidth)
      BY ONLY <1>2, <3>2
    <3>4. P[a] < P[b]
      <4>1. a < b
        BY ONLY <1>2, <1>8, i \in Nat
      <4>2. QED
        BY ONLY <1>5, <1>6, <1>9, <4>1
    <3>5. QED
      BY ONLY <1>3, <2>2, <3>3, <3>4
  <2>5. QED
    BY <2>3, <2>4
<1>25. \A p \in b + 1 .. i + 1 : text[p] # "newline" /\ (p > -1 + 1 => text[p] # "space")
  <2>1. SUFFICES ASSUME NEW p \in b + 1 .. i + 1 PROVE text[p] # "newline" /\ text[p] # "space"
    OBVIOUS
  <2>2. b # i + 1
    BY ONLY <1>9, i \in Nat, p \in b + 1 .. i + 1
  <2>3. c # "space" /\ c # "newline"
    BY ONLY <1>3, <1>8, <2>2
  <2>4. CASE p = i + 1
    BY ONLY <1>1, <2>3, <2>4
  <2>5. CASE p # i + 1
    <3>1. p \in a + 1 .. i /\ p > v + 1
      BY ONLY <1>1, <1>2, <1>8, <2>5, i \in Nat, p \in b + 1 .. i + 1, SMTT(30)
    <3>2. QED
      BY ONLY <1>10, <3>1
  <2>6. QED
    BY <2>4, <2>5
<1>26. LineInv(P, i + 1, q)
  <2>1. /\ q.i = i + 1 /\ q.start \in 0 .. i + 1 /\ q.w = P[i + 1] - P[q.start]
        /\ q.space \in -1 .. (i + 1) - 1
    <3>1. (i + 1) - 1 = i + (1 - 1)
      OBVIOUS
    <3>2. QED
      BY ONLY <1>9, <1>18, <1>21, <1>23, <3>1
  <2>2. q.starts # <<>> /\ q.starts[Len(q.starts)] = q.start
    BY ONLY <1>17, <1>21
  <2>3. q.start < i + 1 => P[(i + 1) - 1] - P[q.start] <= LineWidth
    <3>1. (i + 1) - 1 = i + (1 - 1)
      OBVIOUS
    <3>2. QED
      BY ONLY <1>21, <1>24, <3>1
  <2>4. q.w > LineWidth => i + 1 = q.start + 1 \/ q.space < q.start
    BY ONLY <1>21, <1>23
  <2>5. q.space >= q.start => text[q.space + 1] = "space"
    BY ONLY <1>21, <1>23
  <2>6. \A p \in q.start + 1 .. i + 1 : text[p] # "newline" /\ (p > q.space + 1 => text[p] # "space")
    BY ONLY <1>21, <1>25
  <2>7. /\ \A p \in 1 .. i + 1 : text[p] = "newline" => \E l \in 1 .. Len(q.starts) : q.starts[l] = p
        /\ \A l \in 1 .. Len(q.starts) : q.starts[l] <= i + 1
        /\ \A l \in 2 .. Len(q.starts) : Line(P, q.starts[l - 1], q.starts[l])
    BY ONLY <1>17, <1>21
  <2>8. QED
    BY ONLY <1>22, <2>1, <2>2, <2>3, <2>4, <2>5, <2>6, <2>7, Zenon DEF LineInv
<1>27. QED
  BY ONLY <1>1, <1>26

LEMMA WrapKeeps ==
  ASSUME text \in Seq(Chars), NEW P, Sums(P), NEW i \in Nat, i < Len(text), NEW r, LineInv(P, i, r)
  PROVE  LineInv(P, i + 1, Wrap(r, text[i + 1]))
<1>1. CASE text[i + 1] = "newline"
  BY <1>1, WrapNewline
<1>2. CASE text[i + 1] # "newline" /\ ~(r.w + Width[text[i + 1]] > LineWidth /\ i > r.start)
  BY <1>2, WrapOn
<1>3. CASE text[i + 1] # "newline" /\ r.w + Width[text[i + 1]] > LineWidth /\ i > r.start
  BY <1>3, WrapWide
<1>4. QED
  BY ONLY <1>1, <1>2, <1>3

\* layout() has come to character i, or has stopped before it with the last line there
\* is room for.
LaidTo(P, j, i, r) ==
  LineInv(P, j, r) /\ Len(r.starts) <= MaxLines /\ (j = i \/ Len(r.starts) = MaxLines)

LaidInv(P, i, r) == \E j \in 0 .. i : LaidTo(P, j, i, r)

LEMMA WrapAppends ==
  ASSUME NEW r \in [i : Nat, start : Nat, w : Int, space : Int, starts : Seq(Nat)], NEW c,
         NEW q, q = Wrap(r, c), q.starts \in Seq(Nat)
  PROVE  Len(q.starts) \in Nat /\ Len(q.starts) <= Len(r.starts) + 1
<1>1. PICK s, z, v, b :
        /\ s = r.starts /\ z = q.starts /\ v = (IF c = "space" THEN r.i ELSE r.space)
        /\ b = (IF c = "newline" THEN r.i + 1 ELSE IF v >= r.start THEN v + 1 ELSE r.i)
  OBVIOUS
<1>2. z = s \/ z = Append(s, b)
  BY <1>1 DEF Wrap
<1>3. s \in Seq(Nat) /\ z \in Seq(Nat)
  BY <1>1
<1>4. b \in Nat
  <2>1. r.i \in Nat /\ r.start \in Nat /\ r.space \in Int
    OBVIOUS
  <2>2. QED
    BY ONLY <1>1, <2>1
<1>5. Len(s) \in Nat /\ Len(z) \in Nat
  BY ONLY <1>3, LenProperties
<1>6. Len(Append(s, b)) = Len(s) + 1
  BY ONLY <1>3, <1>4, AppendProperties
<1>7. Len(z) = Len(s) \/ Len(z) = Len(s) + 1
  BY ONLY <1>2, <1>6
<1>8. Len(z) <= Len(s) + 1
  BY ONLY <1>5, <1>7
<1>9. QED
  BY ONLY <1>1, <1>5, <1>8

LEMMA LaidKeeps ==
  ASSUME text \in Seq(Chars), NEW P, Sums(P), NEW i \in Nat, i < Len(text), NEW r, LaidInv(P, i, r)
  PROVE  LaidInv(P, i + 1, Laid(r, text[i + 1]))
<1>1. PICK j \in 0 .. i : LaidTo(P, j, i, r)
  BY DEF LaidInv
<1>2. LineInv(P, j, r) /\ Len(r.starts) <= MaxLines /\ (j = i \/ Len(r.starts) = MaxLines)
  BY ONLY <1>1, Zenon DEF LaidTo
<1>3. r \in [i : Nat, start : Nat, w : Int, space : Int, starts : Seq(Nat)]
  BY ONLY <1>2 DEF LineInv
<1>4. Len(r.starts) \in Nat /\ MaxLines \in Nat
  <2>1. r.starts \in Seq(Nat)
    BY ONLY <1>3
  <2>2. Len(r.starts) \in Nat
    BY ONLY <2>1, LenProperties
  <2>3. QED
    BY <2>2, TextEditAssumption
<1>5. CASE Len(r.starts) < MaxLines
  <2>1. Len(r.starts) # MaxLines
    BY ONLY <1>4, <1>5
  <2>2. j = i
    BY ONLY <1>2, <2>1
  <2>3. PICK q : q = Wrap(r, text[i + 1])
    OBVIOUS
  <2>4. LineInv(P, i, r)
    BY ONLY <1>2, <2>2
  <2>5. LineInv(P, i + 1, q)
    BY <2>3, <2>4, WrapKeeps
  <2>6. q.starts \in Seq(Nat)
    BY ONLY <2>5 DEF LineInv
  <2>7. Len(q.starts) \in Nat /\ Len(q.starts) <= Len(r.starts) + 1
    BY ONLY <1>3, <2>3, <2>6, WrapAppends
  <2>8. Len(q.starts) <= MaxLines
    <3>1. PICK m \in Nat, k \in Nat : m = Len(r.starts) /\ k = Len(q.starts)
      BY ONLY <1>4, <2>7
    <3>2. m < MaxLines /\ k <= m + 1
      BY ONLY <1>5, <2>7, <3>1
    <3>3. k <= MaxLines
      BY ONLY <1>4, <3>2, m \in Nat, k \in Nat
    <3>4. QED
      BY ONLY <3>1, <3>3
  <2>9. LaidTo(P, i + 1, i + 1, q)
    BY ONLY <2>5, <2>8, Zenon DEF LaidTo
  <2>10. i + 1 \in 0 .. i + 1
    OBVIOUS
  <2>11. Laid(r, text[i + 1]) = q
    BY ONLY <1>5, <2>3 DEF Laid
  <2>12. QED
    BY ONLY <2>9, <2>10, <2>11 DEF LaidInv
<1>6. CASE ~(Len(r.starts) < MaxLines)
  <2>1. Len(r.starts) = MaxLines
    BY ONLY <1>2, <1>4, <1>6
  <2>2. LaidTo(P, j, i + 1, r)
    BY ONLY <1>2, <2>1, Zenon DEF LaidTo
  <2>3. j \in 0 .. i + 1
    OBVIOUS
  <2>4. Laid(r, text[i + 1]) = r
    BY ONLY <1>6 DEF Laid
  <2>5. QED
    BY ONLY <2>2, <2>3, <2>4 DEF LaidInv
<1>7. QED
  BY <1>5, <1>6

LEMMA LaidType ==
  ASSUME NEW P, NEW i, NEW r, LaidInv(P, i, r)
  PROVE  r \in [i : Nat, start : Nat, w : Int, space : Int, starts : Seq(Nat)]
BY DEF LaidInv, LaidTo, LineInv

\* At the end of layout().
LEMMA LayoutIs ==
  ASSUME text \in Seq(Chars), NEW P, Sums(P)
  PROVE  \E r : LaidInv(P, Len(text), r) /\ Starts = r.starts
<1> DEFINE R == [i : Nat, start : Nat, w : Int, space : Int, starts : Seq(Nat)]
           first == [i |-> 0, start |-> 0, w |-> 0, space |-> -1, starts |-> <<0>>]
           From(l) == [i \in 0 .. Len(text) |-> IF i = 0 THEN first ELSE Laid(l[i - 1], text[i])]
<1>1. PICK n \in Nat : n = Len(text)
  OBVIOUS
<1>2. LaidInv(P, 0, first) /\ first \in R
  <2>1. PICK z : z = <<0>>
    OBVIOUS
  <2>2. z \in Seq(Nat) /\ z # <<>> /\ Len(z) = 1 /\ z[Len(z)] = 0 /\ z[1] = 0
    BY ONLY <2>1
  <2>3. PICK r : r = first
    OBVIOUS
  <2>4. r.i = 0 /\ r.start = 0 /\ r.w = 0 /\ r.space = -1 /\ r.starts = z /\ r \in R
    BY ONLY <2>1, <2>2, <2>3
  <2>5. P[0] - P[0] = 0 /\ ~(0 > LineWidth)
    BY TextEditAssumption DEF Sums
  <2>6. /\ 0 \in 0 .. 0 /\ -1 \in -1 .. 0 - 1 /\ ~(0 < 0) /\ ~(-1 >= 0)
        /\ (\A p \in 0 + 1 .. 0 : FALSE) /\ (\A p \in 1 .. 0 : FALSE)
        /\ (\A l \in 2 .. 1 : FALSE)
    OBVIOUS
  <2>7. \A l \in 1 .. Len(r.starts) : r.starts[l] <= 0
    <3>1. Len(r.starts) = 1 /\ r.starts[1] = 0
      BY ONLY <2>2, <2>4
    <3>2. \A l \in 1 .. 1 : r.starts[l] <= 0
      <4>1. \A l \in 1 .. 1 : l = 1
        OBVIOUS
      <4>2. QED
        BY ONLY <3>1, <4>1
    <3>3. QED
      BY ONLY <3>1, <3>2
  <2>8. LineInv(P, 0, r)
    BY ONLY <2>2, <2>4, <2>5, <2>6, <2>7 DEF LineInv
  <2>9. Len(r.starts) = 1 /\ 1 <= MaxLines
    <3>1. Len(r.starts) = 1
      BY ONLY <2>2, <2>4
    <3>2. QED
      BY <3>1, TextEditAssumption
  <2>10. LaidTo(P, 0, 0, r)
    BY ONLY <2>8, <2>9 DEF LaidTo
  <2>11. LaidInv(P, 0, r)
    BY ONLY <2>6, <2>10 DEF LaidInv
  <2>12. QED
    BY ONLY <2>3, <2>4, <2>11
<1>3. ASSUME NEW k \in Nat, NEW r, LaidInv(P, k, r), k + 1 <= n
      PROVE  LaidInv(P, k + 1, Laid(r, text[k + 1])) /\ Laid(r, text[k + 1]) \in R
  <2>1. LaidInv(P, k + 1, Laid(r, text[k + 1]))
    BY <1>1, <1>3, LaidKeeps
  <2>2. QED
    BY <2>1, LaidType
<1>4. \E f : f = From(f)
  <2> HIDE DEF R, first
  <2>1. PICK g : g = [q \in R \X (0 .. n) |->
                        IF Laid(q[1], text[q[2]]) \in R THEN Laid(q[1], text[q[2]]) ELSE first]
    OBVIOUS
  <2>2. g \in [R \X (0 .. n) -> R]
    BY ONLY <1>2, <2>1
  <2>3. PICK m, a, T : m = 0 /\ a = first /\ T = R
    OBVIOUS
  <2>4. a \in T /\ m \in Nat /\ n \in Nat /\ g \in [T \X (m .. n) -> T]
    BY ONLY <1>2, <2>2, <2>3, n \in Nat
  <2>5. PICK f \in [m .. n -> T] : Follows(f, m, n, a, g)
    BY ONLY <2>4, Recursion
  <2>6. /\ f \in [0 .. n -> R] /\ f[0] = first
        /\ \A i \in 0 .. n : i # 0 => f[i] = g[<<f[i - 1], i>>]
    <3>1. \A i \in m .. n : f[i] = IF i = m THEN a ELSE g[<<f[i - 1], i>>]
      BY <2>5 DEF Follows
    <3>2. 0 \in 0 .. n
      BY ONLY n \in Nat
    <3>3. QED
      BY ONLY <2>3, <2>5, <3>1, <3>2
  <2>7. ASSUME NEW k \in Nat, k + 1 <= n, LaidInv(P, k, f[k])
        PROVE  f[k + 1] = Laid(f[k], text[k + 1]) /\ LaidInv(P, k + 1, f[k + 1])
    <3>1. PICK j \in 0 .. n : j = k + 1 /\ j # 0 /\ j - 1 = k /\ k \in 0 .. n
      BY <2>7
    <3>2. f[k] \in R
      BY ONLY <2>6, <3>1
    <3>3. PICK w : w = Laid(f[k], text[j])
      OBVIOUS
    <3>4. w \in R /\ LaidInv(P, k + 1, w)
      BY ONLY <1>3, <2>7, <3>1, <3>3, k \in Nat
    <3>5. f[j] = g[<<f[k], j>>]
      BY ONLY <2>6, <3>1
    <3>6. g[<<f[k], j>>] = w
      BY ONLY <2>1, <3>1, <3>2, <3>3, <3>4
    <3>7. QED
      BY ONLY <3>1, <3>3, <3>4, <3>5, <3>6
  <2> DEFINE S == {k \in Nat : k <= n => LaidInv(P, k, f[k])}
  <2>8. 0 \in S
    BY <1>2, <2>6
  <2>9. ASSUME NEW k \in Nat, k \in S PROVE k + 1 \in S
    <3>1. SUFFICES ASSUME k + 1 <= n PROVE LaidInv(P, k + 1, f[k + 1])
      OBVIOUS
    <3>2. k <= n
      BY <3>1
    <3>3. QED
      BY <2>7, <2>9, <3>1, <3>2
  <2>10. Nat \subseteq S
    <3> HIDE DEF S
    <3>1. QED
      BY ONLY <2>8, <2>9, Induction
  <2>11. PICK h : h = From(f)
    OBVIOUS
  <2>12. ASSUME NEW i \in 0 .. n PROVE f[i] = h[i]
    <3>1. CASE i = 0
      BY <1>1, <2>6, <2>11, <3>1
    <3>2. CASE i # 0
      <4>1. PICK k \in Nat : k + 1 = i /\ i - 1 = k /\ k <= n
        <5>1. i - 1 \in Nat /\ i - 1 + 1 = i /\ i - 1 <= n
          BY <3>2
        <5>2. QED
          BY ONLY <5>1
      <4>2. LaidInv(P, k, f[k]) /\ k + 1 <= n
        BY <2>10, <4>1
      <4>3. f[i] = Laid(f[k], text[i])
        BY ONLY <2>7, <4>1, <4>2, k \in Nat
      <4>4. h[i] = Laid(f[k], text[i])
        BY ONLY <1>1, <2>11, <3>2, <4>1, i \in 0 .. n
      <4>5. QED
        BY ONLY <4>3, <4>4
    <3>3. QED
      BY <3>1, <3>2
  <2>13. f = h
    BY ONLY <1>1, <2>6, <2>11, <2>12
  <2>14. QED
    BY ONLY <2>11, <2>13
<1>5. PICK l : l = CHOOSE h : h = From(h)
  OBVIOUS
<1>6. l = From(l)
  <2> HIDE DEF first
  <2>1. QED
    BY ONLY <1>4, <1>5, Zenon
<1>7. Starts = l[Len(text)].starts
  BY ONLY <1>5, Zenon DEF Starts
<1> DEFINE S == {k \in Nat : k <= n => LaidInv(P, k, l[k])}
<1> HIDE DEF first, R
<1>8. 0 \in S
  <2>1. l[0] = first
    BY ONLY <1>1, <1>6
  <2>2. QED
    BY <1>2, <2>1
<1>9. ASSUME NEW k \in Nat, k \in S PROVE k + 1 \in S
  <2>1. SUFFICES ASSUME k + 1 <= n PROVE LaidInv(P, k + 1, l[k + 1])
    OBVIOUS
  <2>2. k <= n /\ k + 1 \in 0 .. n /\ k + 1 # 0 /\ k + 1 - 1 = k
    BY <2>1
  <2>3. LaidInv(P, k, l[k])
    BY <1>9, <2>2
  <2>4. l[k + 1] = Laid(l[k], text[k + 1])
    BY ONLY <1>1, <1>6, <2>2
  <2>5. QED
    BY ONLY <1>3, <2>1, <2>3, <2>4, k \in Nat
<1>10. Nat \subseteq S
  <2> HIDE DEF S
  <2>1. QED
    BY ONLY <1>8, <1>9, Induction
<1>11. LaidInv(P, Len(text), l[Len(text)])
  BY <1>1, <1>10
<1>12. QED
  BY ONLY <1>7, <1>11

\* Lines as they wrap.
LEMMA LinesWrap ==
  ASSUME text \in Seq(Chars)
  PROVE  Wrapped
<1>1. PICK P : Sums(P)
  BY SumsExist
<1>2. PICK r : LaidInv(P, Len(text), r) /\ Starts = r.starts
  BY <1>1, LayoutIs
<1>3. PICK s, n, m : s = Starts /\ n = Len(text) /\ m = Len(s)
  OBVIOUS
<1>20. PICK i \in 0 .. n : LaidTo(P, i, n, r)
  BY ONLY <1>2, <1>3 DEF LaidInv
<1>21. LineInv(P, i, r) /\ m <= MaxLines /\ (i = n \/ m = MaxLines)
  BY ONLY <1>2, <1>3, <1>20 DEF LaidTo
<1>22. /\ s \in Seq(Nat) /\ s # <<>> /\ s[m] = r.start /\ r.start \in 0 .. i
       /\ r.start < i => P[i - 1] - P[r.start] <= LineWidth
       /\ \A p \in r.start + 1 .. i : text[p] # "newline"
       /\ \A p \in 1 .. i : text[p] = "newline" => \E l \in 1 .. m : s[l] = p
       /\ \A l \in 1 .. m : s[l] <= i
       /\ \A l \in 2 .. m : Line(P, s[l - 1], s[l])
  BY ONLY <1>2, <1>3, <1>21 DEF LineInv
<1>23. n \in Nat /\ i \in Nat /\ i <= n
  <2>1. n \in Nat
    BY <1>3
  <2>2. QED
    BY ONLY <2>1, i \in 0 .. n
<1>4. /\ s \in Seq(Nat) /\ s # <<>> /\ s[m] = r.start /\ r.start \in 0 .. n
      /\ \A l \in 1 .. m : s[l] <= n
      /\ \A l \in 2 .. m : Line(P, s[l - 1], s[l])
  <2>1. r.start \in 0 .. n
    BY ONLY <1>22, <1>23
  <2>2. ASSUME NEW l \in 1 .. m PROVE s[l] <= n
    <3>1. s[l] \in Nat
      BY ONLY <1>3, <1>22, ElementOfSeq, l \in 1 .. m
    <3>2. s[l] <= i
      BY ONLY <1>22, l \in 1 .. m
    <3>3. QED
      BY ONLY <1>23, <3>1, <3>2
  <2>3. QED
    BY ONLY <1>22, <2>1, <2>2
<1>5. m \in Nat \ {0} /\ n \in Nat /\ \A l \in 1 .. m : s[l] \in 0 .. n
  <2>1. m \in Nat \ {0}
    BY ONLY <1>3, <1>4, EmptySeq, LenProperties
  <2>2. n \in Nat
    BY <1>3
  <2>3. ASSUME NEW l \in 1 .. m PROVE s[l] \in 0 .. n
    <3>1. s[l] \in Nat /\ s[l] <= n
      BY ONLY <1>3, <1>4, ElementOfSeq, l \in 1 .. m
    <3>2. QED
      BY ONLY <2>2, <3>1
  <2>4. QED
    BY ONLY <2>1, <2>2, <2>3
<1>6. \A j \in 0 .. n : P[j] \in Nat
  BY <1>1, <1>3 DEF Sums
<1>7. \A j, k \in 0 .. n : j < k => P[j] < P[k]
  BY <1>1, <1>3, SumsGrow
<1>8. ASSUME NEW a \in 0 .. n, NEW b \in 0 .. n, a <= b PROVE WidthOf(Part(a, b)) = P[b] - P[a]
  <2>1. b \in -1 .. Len(text) /\ ~(b < a) /\ a \in 0 .. Len(text)
    BY <1>3, <1>5, <1>8
  <2>2. QED
    BY <1>1, <2>1, WidthOfPart
<1>9. ASSUME NEW a \in 0 .. n, NEW b \in -1 .. n, b < a PROVE WidthOf(Part(a, b)) = 0
  <2>1. b \in -1 .. Len(text) /\ a \in 0 .. Len(text)
    BY <1>3, <1>5, <1>9
  <2>2. QED
    BY <1>1, <1>9, <2>1, WidthOfPart
<1>10. ASSUME NEW p \in DOMAIN text, text[p] = "newline"
       PROVE  Contains(s, p) \/ (Len(s) = MaxLines /\ p > Last(s))
  <2>1. p \in 1 .. n
    BY <1>3
  <2>2. CASE p <= i
    <3>1. p \in 1 .. i
      BY ONLY <1>23, <2>1, <2>2
    <3>2. QED
      BY ONLY <1>3, <1>10, <1>22, <3>1 DEF Contains
  <2>3. CASE ~(p <= i)
    <3>1. i # n /\ p > r.start
      BY ONLY <1>22, <1>23, <2>1, <2>3
    <3>2. Last(s) = r.start
      BY ONLY <1>3, <1>22 DEF Last
    <3>3. QED
      BY ONLY <1>3, <1>21, <3>1, <3>2
  <2>4. QED
    BY <2>2, <2>3
<1>11. ASSUME NEW l \in 2 .. Len(s)
       PROVE  /\ s[l - 1] < s[l] /\ s[l] <= Len(text)
              /\ text[s[l]] # "newline" =>
                   /\ WidthOf(Part(s[l - 1], WordEnd(s[l]))) > LineWidth
                   /\ text[s[l]] = "space" \/ ~Contains(Part(s[l - 1], s[l]), "space")
  <2>1. PICK a, b : a = s[l - 1] /\ b = s[l]
    OBVIOUS
  <2>2. a \in 0 .. n /\ b \in 0 .. n /\ Line(P, a, b)
    <3>1. l \in 1 .. m /\ l - 1 \in 1 .. m /\ l \in 2 .. m
      BY ONLY <1>3, <1>5, l \in 2 .. Len(s)
    <3>2. QED
      BY ONLY <1>4, <1>5, <2>1, <3>1
  <2>3. a < b /\ b <= n
    BY ONLY <1>5, <2>2 DEF Line
  <2>4. ASSUME text[b] # "newline"
        PROVE  WidthOf(Part(a, WordEnd(b))) > LineWidth
    <3>1. b \in 0 .. Len(text)
      BY ONLY <1>3, <2>2
    <3>2. WordEnd(b) \in b .. Len(text)
      BY <3>1, WordEndIs
    <3>3. WordEnd(b) \in 0 .. n /\ a <= WordEnd(b)
      BY ONLY <1>3, <1>5, <2>2, <2>3, <3>2
    <3>4. WidthOf(Part(a, WordEnd(b))) = P[WordEnd(b)] - P[a]
      BY ONLY <1>8, <2>2, <3>3
    <3>5. QED
      BY ONLY <2>2, <2>4, <3>4 DEF Line
  <2>5. ASSUME text[b] # "newline", text[b] # "space"
        PROVE  ~Contains(Part(a, b), "space")
    <3>1. \A p \in a + 1 .. b : text[p] # "space"
      BY ONLY <2>2, <2>5 DEF Line
    <3>2. PICK t : t = Part(a, b)
      OBVIOUS
    <3>3. t = SubSeq(text, a + 1, b) /\ a + 1 \in 1 .. Len(text) + 1 /\ b \in a .. Len(text)
      BY <1>3, <2>2, <2>3, <3>2 DEF Part
    <3>4. Len(t) = b - a /\ \A k \in 1 .. b - a : t[k] = text[a + 1 + k - 1]
      BY <1>3, <2>2, <2>3, <3>3, SubSeqProperties
    <3>5. \A k \in 1 .. b - a : a + 1 + k - 1 \in a + 1 .. b
      BY ONLY <2>2
    <3>6. \A k \in 1 .. Len(t) : t[k] # "space"
      BY ONLY <3>1, <3>4, <3>5
    <3>7. QED
      BY ONLY <3>2, <3>6 DEF Contains
  <2>6. QED
    BY ONLY <1>3, <2>1, <2>3, <2>4, <2>5
<1>12. ASSUME NEW l \in DOMAIN s, l < Len(s) \/ ~(Len(s) = MaxLines),
              NEW end, end = LineEnd(s, l),
              NEW final, final = IF end > s[l] /\ text[end] = "space" THEN end - 1 ELSE end
       PROVE  WidthOf(Part(s[l], final - 1)) <= LineWidth
  <2>1. l \in 1 .. m
    BY ONLY <1>3, <1>4, l \in DOMAIN s, LenProperties
  <2>2. PICK a \in 0 .. n : a = s[l]
    BY ONLY <1>5, <2>1
  <2>3. end \in a .. n /\ final \in a .. n /\ (final > a => P[final - 1] - P[a] <= LineWidth)
    <3>1. CASE l < m
      <4>1. l + 1 \in 2 .. m /\ l + 1 - 1 = l /\ l + 1 \in 1 .. m
        BY ONLY <1>5, <2>1, <3>1
      <4>2. PICK b \in 0 .. n : b = s[l + 1]
        BY ONLY <1>5, <4>1
      <4>3. Line(P, a, b)
        BY ONLY <1>4, <2>2, <4>1, <4>2
      <4>4. a < b
        BY ONLY <4>3 DEF Line
      <4>5. b > a
        BY ONLY <4>4, a \in 0 .. n, b \in 0 .. n
      <4>6. end = IF text[b] = "newline" THEN b - 1 ELSE b
        BY ONLY <1>3, <1>12, <2>2, <3>1, <4>2, <4>5 DEF LineEnd
      <4>7. final = LastOf(a, b)
        BY ONLY <1>12, <2>2, <4>6 DEF LastOf
      <4>8. end \in a .. n
        BY ONLY <4>5, <4>6, a \in 0 .. n, b \in 0 .. n, <1>5
      <4>9. final \in a .. n
        BY ONLY <1>12, <2>2, <4>8, a \in 0 .. n, <1>5
      <4>10. final > a => P[final - 1] - P[a] <= LineWidth
        BY ONLY <4>3, <4>7 DEF Line
      <4>11. QED
        BY ONLY <4>8, <4>9, <4>10
    <3>2. CASE ~(l < m)
      <4>1. l = m /\ a = r.start
        <5>1. l = m
          BY ONLY <1>5, <2>1, <3>2
        <5>2. QED
          BY ONLY <1>4, <2>2, <5>1
      <4>9. i = n
        BY ONLY <1>3, <1>12, <1>21, <3>2
      <4>2. ~(n > a /\ text[n] = "newline")
        <5>1. n > a => n \in a + 1 .. n
          BY ONLY <1>5, a \in 0 .. n
        <5>2. QED
          BY ONLY <1>22, <4>1, <4>9, <5>1
      <4>3. end = n
        BY ONLY <1>3, <1>12, <2>2, <3>2, <4>2 DEF LineEnd
      <4>4. final \in a .. n /\ (final > a => n > a /\ (final = n \/ final - 1 < n - 1))
        BY ONLY <1>5, <1>12, <2>2, <4>3, a \in 0 .. n
      <4>5. ASSUME final > a PROVE P[final - 1] - P[a] <= LineWidth
        <5>1. P[n - 1] - P[a] <= LineWidth
          BY ONLY <1>22, <1>5, <4>1, <4>4, <4>5, <4>9, a \in 0 .. n
        <5>2. final - 1 \in 0 .. n /\ n - 1 \in 0 .. n
          BY ONLY <1>5, <4>4, <4>5, a \in 0 .. n
        <5>3. final = n \/ P[final - 1] < P[n - 1]
          BY ONLY <1>7, <4>4, <4>5, <5>2
        <5>4. P[final - 1] \in Nat /\ P[n - 1] \in Nat /\ P[a] \in Nat
          BY ONLY <1>6, <5>2, a \in 0 .. n
        <5>5. LineWidth \in Nat
          BY TextEditAssumption
        <5>6. CASE final = n
          BY ONLY <5>1, <5>6
        <5>7. CASE P[final - 1] < P[n - 1]
          BY ONLY <5>1, <5>4, <5>5, <5>7
        <5>8. QED
          BY ONLY <5>3, <5>6, <5>7
      <4>6. end \in a .. n
        BY ONLY <1>5, <4>3, a \in 0 .. n
      <4>7. QED
        BY ONLY <4>4, <4>5, <4>6
    <3>3. QED
      BY ONLY <3>1, <3>2
  <2>4. PICK e : e = final - 1
    OBVIOUS
  <2>5. e \in -1 .. n /\ (final > a => a <= e /\ e \in 0 .. n) /\ (~(final > a) => e < a)
    BY ONLY <1>5, <2>3, <2>4, a \in 0 .. n
  <2>6. CASE final > a
    <3>1. WidthOf(Part(a, e)) = P[e] - P[a]
      BY ONLY <1>8, <2>5, <2>6, a \in 0 .. n
    <3>2. QED
      BY ONLY <2>2, <2>3, <2>4, <2>6, <3>1
  <2>7. CASE ~(final > a)
    <3>1. WidthOf(Part(a, e)) = 0
      BY ONLY <1>9, <2>5, <2>7, a \in 0 .. n
    <3>2. 0 <= LineWidth
      BY TextEditAssumption
    <3>3. QED
      BY ONLY <2>2, <2>4, <3>1, <3>2
  <2>8. QED
    BY <2>6, <2>7
<1>13. QED
  BY ONLY <1>3, <1>10, <1>11, <1>12, <1>21 DEF Wrapped

-----------------------------------------------------------------------------
\* The cursor is in the text, and a run of taps that has a letter is just behind it.
EditInv ==
  /\ text \in Seq(Chars) /\ cur \in 0 .. Len(text)
  /\ tap.index \in Nat
  /\ mine # -1 => tap.key # "none" /\ mine = cur - 1

\* What a step does to the text.
Changes ==
  Len(text') = Len(text) /\ text' # text /\ mine # -1
    => tap.key # "none" /\ \A i \in DOMAIN text : i # mine + 1 => text'[i] = text[i]

LEMMA InsertedIs ==
  ASSUME EditInv, NEW c \in Chars, Inserted(c)
  PROVE  /\ text' \in Seq(Chars) /\ cur' \in 0 .. Len(text')
         /\ text' = text \/ Len(text') # Len(text)
         /\ Len(text) < MaxText => cur' = cur + 1
<1>1. text \in Seq(Chars) /\ cur \in 0 .. Len(text)
  BY DEF EditInv
<1>2. CASE Len(text) < MaxText
  <2>1. PICK p, q, n : p = SubSeq(text, 1, (cur + 1) - 1) /\ q = SubSeq(text, cur + 1, Len(text)) /\ n = Len(text)
    OBVIOUS
  <2>2. text' = p \o <<c>> \o q /\ cur' = cur + 1
    <3>1. /\ text' = SubSeq(text, 1, (cur + 1) - 1) \o <<c>> \o SubSeq(text, cur + 1, Len(text))
          /\ cur' = cur + 1
      <4>1. text' = InsertAt(text, cur + 1, c) /\ cur' = cur + 1
        BY ONLY <1>2, Inserted(c) DEF Inserted
      <4>2. QED
        BY ONLY <4>1, Zenon DEF InsertAt
    <3>2. QED
      BY ONLY <2>1, <3>1, Zenon
  <2>3. n \in Nat /\ cur \in 0 .. n
    BY <1>1, <2>1
  <2>4. p \in Seq(Chars) /\ Len(p) = cur
    <3>1. (cur + 1) - 1 = cur /\ 1 \in 1 .. Len(text) + 1 /\ cur \in 0 .. Len(text)
      BY <1>1
    <3>2. p = SubSeq(text, 1, cur)
      BY <2>1, <3>1
    <3>3. p \in Seq(Chars) /\ Len(p) = IF 1 <= cur THEN cur - 1 + 1 ELSE 0
      BY ONLY <1>1, <3>1, <3>2, SubSeqProperties
    <3>4. QED
      BY ONLY <2>3, <3>3
  <2>5. q \in Seq(Chars) /\ Len(q) = n - cur
    <3>1. cur + 1 \in 1 .. Len(text) + 1 /\ Len(text) \in cur + 1 - 1 .. Len(text)
      BY <1>1
    <3>2. q \in Seq(Chars) /\ Len(q) = IF cur + 1 <= Len(text) THEN Len(text) - (cur + 1) + 1 ELSE 0
      BY ONLY <1>1, <2>1, <3>1, SubSeqProperties
    <3>3. QED
      BY ONLY <2>1, <2>3, <3>2
  <2>6. <<c>> \in Seq(Chars) /\ Len(<<c>>) = 1
    OBVIOUS
  <2>7. p \o <<c>> \in Seq(Chars) /\ Len(p \o <<c>>) = cur + 1
    BY ONLY <2>4, <2>6, ConcatProperties
  <2>8. text' \in Seq(Chars) /\ Len(text') = cur + 1 + (n - cur)
    <3>1. PICK u : u = p \o <<c>>
      OBVIOUS
    <3>2. u \in Seq(Chars) /\ Len(u) = cur + 1 /\ text' = u \o q
      BY ONLY <2>2, <2>7, <3>1, Zenon
    <3>3. u \o q \in Seq(Chars) /\ Len(u \o q) = Len(u) + Len(q)
      BY ONLY <2>5, <3>2, ConcatProperties
    <3>4. QED
      BY ONLY <2>5, <3>2, <3>3, Zenon
  <2>9. PICK k : k = Len(text')
    OBVIOUS
  <2>10. k = n + 1 /\ cur + 1 \in 0 .. k
    <3>1. k = cur + 1 + (n - cur)
      BY ONLY <2>8, <2>9, Zenon
    <3>2. QED
      BY ONLY <2>3, <3>1
  <2>11. cur' = cur + 1 /\ cur' \in 0 .. Len(text') /\ Len(text') # Len(text)
    <3>1. cur' = cur + 1
      BY ONLY <2>2, Zenon
    <3>2. k # n
      BY ONLY <2>3, <2>10
    <3>3. QED
      BY ONLY <2>1, <2>9, <2>10, <3>1, <3>2, Zenon
  <2>12. QED
    BY ONLY <2>8, <2>11, Zenon
<1>3. CASE ~(Len(text) < MaxText)
  BY <1>1, <1>3 DEF Inserted
<1>4. QED
  BY <1>2, <1>3

\* A digit.
LEMMA DigitKeeps ==
  ASSUME EditInv, Digit
  PROVE  EditInv' /\ Changes
<1>1. PICK k \in TapKey :
        IF mode = "123"
        THEN Inserted(Last(Letters[k])) /\ tap' = NoTap /\ mine' = -1 /\ UNCHANGED mode
        ELSE IF TapsAgain(k)
        THEN LET i == 1 + (tap.index % Len(Letters[k]))
             IN  /\ text' = [text EXCEPT ![cur] = Cased(mode, Letters[k][i])]
                 /\ tap' = [tap EXCEPT !.index = i, !.age = 0]
                 /\ UNCHANGED <<cur, mode, mine>>
        ELSE /\ mode' = AfterCapital
             /\ tap' = [key |-> k, index |-> 1, age |-> 0]
             /\ Inserted(Cased(mode', Letters[k][1]))
             /\ mine' = IF Len(text) < MaxText THEN cur ELSE -1
  BY DEF Digit
<1>2. /\ text \in Seq(Chars) /\ cur \in 0 .. Len(text) /\ tap.index \in Nat
      /\ mine # -1 => tap.key # "none" /\ mine = cur - 1
  BY DEF EditInv
<1>3. /\ k \in {"two", "zero"} /\ Len(Letters[k]) = 2
      /\ Letters[k][1] \in Chars /\ Letters[k][2] \in Chars
  BY DEF TapKey, Letters, Chars
<1>4. \A m, c : c \in Chars => Cased(m, c) \in Chars
  BY DEF Cased, Chars
<1>5. CASE mode = "123"
  <2>1. Inserted(Last(Letters[k])) /\ tap' = NoTap /\ mine' = -1
    BY ONLY <1>1, <1>5
  <2>2. Last(Letters[k]) \in Chars
    BY ONLY <1>3 DEF Last
  <2>3. /\ text' \in Seq(Chars) /\ cur' \in 0 .. Len(text')
        /\ text' = text \/ Len(text') # Len(text)
    BY <2>1, <2>2, InsertedIs
  <2>4. tap'.index \in Nat
    BY ONLY <2>1 DEF NoTap
  <2>5. QED
    BY ONLY <2>1, <2>3, <2>4 DEF EditInv, Changes
<1>6. CASE mode # "123" /\ TapsAgain(k)
  <2>1. PICK i : i = 1 + (tap.index % Len(Letters[k]))
    OBVIOUS
  <2>2. text' = [text EXCEPT ![cur] = Cased(mode, Letters[k][i])]
        /\ tap' = [tap EXCEPT !.index = i, !.age = 0] /\ cur' = cur /\ mine' = mine
    BY ONLY <1>1, <1>6, <2>1
  <2>3. i \in 1 .. 2
    BY ONLY <1>2, <1>3, <2>1
  <2>4. PICK c \in Chars : c = Cased(mode, Letters[k][i])
    BY ONLY <1>3, <1>4, <2>3
  <2>5. cur \in 1 .. Len(text) /\ tap.key = k
    BY ONLY <1>2, <1>6, LenProperties DEF TapsAgain
  <2>6. text' \in Seq(Chars) /\ Len(text') = Len(text)
    BY ONLY <1>2, <2>2, <2>4, <2>5, ExceptSeq
  <2>7. \A j \in DOMAIN text : j # cur => text'[j] = text[j]
    BY ONLY <2>2
  <2>8. tap.key # "none"
    BY ONLY <1>3, <2>5
  <2>9. tap'.index \in Nat /\ (mine # -1 => tap'.key # "none")
    <3>1. mine # -1 => tap'.key # "none"
      <4>1. CASE tap.key \in {"two", "zero"}
        <5>1. tap'.key = tap.key \/ "key" \notin DOMAIN tap
          BY ONLY <2>2
        <5>2. QED
          BY ONLY <2>2, <2>8, <5>1
      <4>2. QED
        BY ONLY <1>3, <2>5, <4>1
    <3>2. QED
      BY ONLY <2>2, <2>3, <3>1
  <2>10. mine # -1 => mine + 1 = cur
    BY ONLY <1>2
  <2>11. QED
    BY ONLY <1>2, <2>2, <2>6, <2>7, <2>8, <2>9, <2>10 DEF EditInv, Changes
<1>7. CASE mode # "123" /\ ~TapsAgain(k)
  <2>1. /\ tap' = [key |-> k, index |-> 1, age |-> 0]
        /\ Inserted(Cased(mode', Letters[k][1]))
        /\ mine' = IF Len(text) < MaxText THEN cur ELSE -1
    BY ONLY <1>1, <1>7
  <2>2. PICK c \in Chars : c = Cased(mode', Letters[k][1])
    BY ONLY <1>3, <1>4
  <2>3. /\ text' \in Seq(Chars) /\ cur' \in 0 .. Len(text')
        /\ text' = text \/ Len(text') # Len(text)
        /\ Len(text) < MaxText => cur' = cur + 1
    BY <2>1, <2>2, InsertedIs
  <2>4. tap'.index \in Nat /\ tap'.key # "none"
    BY ONLY <1>3, <2>1
  <2>5. mine' # -1 => mine' = cur' - 1
    <3>1. SUFFICES ASSUME mine' # -1 PROVE mine' = cur' - 1
      OBVIOUS
    <3>2. Len(text) < MaxText /\ mine' = cur
      BY ONLY <2>1, <3>1
    <3>3. cur' = cur + 1
      BY ONLY <2>3, <3>2
    <3>4. cur \in Int
      BY <1>2
    <3>5. QED
      BY ONLY <3>2, <3>3, <3>4
  <2>6. QED
    BY ONLY <2>3, <2>4, <2>5 DEF EditInv, Changes
<1>8. QED
  BY <1>5, <1>6, <1>7

\* A key that moves the cursor.
LEMMA MoveKeeps ==
  ASSUME EditInv, Ended, UNCHANGED text, cur' \in 0 .. Len(text)
  PROVE  EditInv' /\ Changes
<1>1. tap' = NoTap /\ mine' = -1 /\ text' = text
  BY DEF Ended
<1>2. tap'.index \in Nat
  BY ONLY <1>1 DEF NoTap
<1>3. text \in Seq(Chars)
  BY DEF EditInv
<1>4. QED
  BY ONLY <1>1, <1>2, <1>3, cur' \in 0 .. Len(text) DEF EditInv, Changes

LEMMA DeleteKeeps ==
  ASSUME EditInv, Delete
  PROVE  EditInv' /\ Changes
<1>1. text \in Seq(Chars) /\ cur \in 0 .. Len(text)
  BY DEF EditInv
<1>2. tap' = NoTap /\ mine' = -1 /\ tap'.index \in Nat
  BY DEF Delete, Keeps, Ended, NoTap
<1>3. CASE ~(cur > 0)
  <2>1. text' = text /\ cur' = cur
    BY <1>3 DEF Delete
  <2>2. QED
    BY ONLY <1>1, <1>2, <2>1 DEF EditInv, Changes
<1>4. CASE cur > 0
  <2>1. PICK p, q, n : p = SubSeq(text, 1, cur - 1) /\ q = SubSeq(text, cur + 1, Len(text)) /\ n = Len(text)
    OBVIOUS
  <2>2. text' = p \o q /\ cur' = cur - 1
    BY <1>4, <2>1 DEF Delete, RemoveAt
  <2>3. n \in Nat /\ cur \in 1 .. n
    BY <1>1, <1>4, <2>1
  <2>4. p \in Seq(Chars) /\ Len(p) = cur - 1
    <3>1. 1 \in 1 .. Len(text) + 1 /\ cur - 1 \in 1 - 1 .. Len(text)
      BY <1>1, <1>4
    <3>2. p \in Seq(Chars) /\ Len(p) = IF 1 <= cur - 1 THEN cur - 1 - 1 + 1 ELSE 0
      BY ONLY <1>1, <2>1, <3>1, SubSeqProperties
    <3>3. QED
      BY ONLY <2>3, <3>2
  <2>5. q \in Seq(Chars) /\ Len(q) = n - cur
    <3>1. cur + 1 \in 1 .. Len(text) + 1 /\ Len(text) \in cur + 1 - 1 .. Len(text)
      BY <1>1
    <3>2. q \in Seq(Chars) /\ Len(q) = IF cur + 1 <= Len(text) THEN Len(text) - (cur + 1) + 1 ELSE 0
      BY ONLY <1>1, <2>1, <3>1, SubSeqProperties
    <3>3. QED
      BY ONLY <2>1, <2>3, <3>2
  <2>6. text' \in Seq(Chars) /\ Len(text') = cur - 1 + (n - cur)
    <3>1. p \o q \in Seq(Chars) /\ Len(p \o q) = Len(p) + Len(q)
      BY ONLY <2>4, <2>5, ConcatProperties
    <3>2. QED
      BY ONLY <2>2, <2>4, <2>5, <3>1, Zenon
  <2>7. Len(text') = n - 1 /\ cur' \in 0 .. Len(text') /\ Len(text') # Len(text)
    <3>1. PICK k : k = Len(text')
      OBVIOUS
    <3>2. k = cur - 1 + (n - cur)
      BY ONLY <2>6, <3>1, Zenon
    <3>3. k = n - 1 /\ cur - 1 \in 0 .. k /\ k # n
      BY ONLY <2>3, <3>2
    <3>4. QED
      BY ONLY <2>1, <2>2, <3>1, <3>3, Zenon
  <2>8. QED
    BY ONLY <1>2, <2>6, <2>7 DEF EditInv, Changes
<1>5. QED
  BY <1>3, <1>4

LEMMA HashKeeps ==
  ASSUME EditInv, Hash
  PROVE  EditInv' /\ Changes
<1>1. tap' = NoTap /\ mine' = -1 /\ tap'.index \in Nat
  BY DEF Hash, Keeps, Ended, NoTap
<1>2. CASE Multiline
  <2>1. PICK c \in Chars : c = "newline"
    BY DEF Chars
  <2>2. Inserted(c)
    BY <1>2, <2>1 DEF Hash
  <2>3. /\ text' \in Seq(Chars) /\ cur' \in 0 .. Len(text')
        /\ text' = text \/ Len(text') # Len(text)
    BY <2>2, InsertedIs
  <2>4. QED
    BY ONLY <1>1, <2>3 DEF EditInv, Changes
<1>3. CASE ~Multiline
  <2>1. text' = text /\ cur' = cur
    BY <1>3 DEF Hash
  <2>2. QED
    BY ONLY <1>1, <2>1, EditInv DEF EditInv, Changes
<1>4. QED
  BY <1>2, <1>3

\* The line the cursor is on.
LEMMA LineOfIs ==
  ASSUME NEW s \in Seq(Nat), s # <<>>, NEW pos \in Nat
  PROVE  LineOf(s, pos) \in DOMAIN s
<1>1. PICK n \in Nat : n = Len(s) /\ n > 0 /\ DOMAIN s = 1 .. n
  <2>1. Len(s) \in Nat /\ Len(s) # 0 /\ DOMAIN s = 1 .. Len(s)
    BY EmptySeq, LenProperties
  <2>2. PICK n \in Nat : n = Len(s)
    BY ONLY <2>1
  <2>3. n # 0 /\ DOMAIN s = 1 .. n
    BY ONLY <2>1, <2>2, Zenon
  <2>4. n > 0
    BY ONLY <2>3, n \in Nat
  <2>5. QED
    BY ONLY <2>2, <2>3, <2>4, n \in Nat, Zenon
<1> DEFINE On(l) == (l = 1 \/ s[l] <= pos) /\ (l < Len(s) => s[l + 1] > pos)
           T == {l \in 1 .. n : l < n => s[l + 1] > pos}
<1>2. T \in SUBSET Nat /\ T # {}
  <2>1. n \in T
    <3>1. n \in 1 .. n /\ ~(n < n)
      BY ONLY <1>1, n \in Nat
    <3>2. QED
      BY ONLY <3>1
  <2>2. T \in SUBSET Nat
    OBVIOUS
  <2>3. QED
    <3> HIDE DEF T
    <3>1. QED
      BY ONLY <2>1, <2>2
<1>3. PICK l \in T : \A y \in T : l <= y
  <2> HIDE DEF T
  <2>1. QED
    BY ONLY <1>2, LeastNumber
<1>4. On(l)
  <2>1. l \in 1 .. n /\ (l < n => s[l + 1] > pos)
    BY <1>3
  <2>2. ASSUME l # 1 PROVE s[l] <= pos
    <3>1. l - 1 \in 1 .. n /\ l - 1 < n /\ l - 1 + 1 = l /\ ~(l <= l - 1)
      BY <2>1, <2>2
    <3>2. l - 1 \notin T
      BY ONLY <1>3, <3>1
    <3>3. ~(s[l] > pos)
      BY ONLY <3>1, <3>2
    <3>4. s[l] \in Nat
      BY ONLY <1>1, <2>1, ElementOfSeq, s \in Seq(Nat)
    <3>5. QED
      BY ONLY <3>3, <3>4, pos \in Nat
  <2>3. QED
    BY ONLY <1>1, <2>1, <2>2
<1>5. l \in DOMAIN s
  BY <1>1, <1>3
<1>6. LineOf(s, pos) = CHOOSE x \in DOMAIN s : On(x)
  BY DEF LineOf
<1>7. QED
  <2> HIDE DEF On
  <2>1. QED
    BY ONLY <1>4, <1>5, <1>6

LEMMA VerticalKeeps ==
  ASSUME EditInv, Vertical
  PROVE  EditInv' /\ Changes
<1>1. PICK d \in {-1, 1} :
        LET s == Starts
            l == LineOf(s, cur) + d
        IN  /\ Keeps /\ cur' = IF l \in DOMAIN s THEN Below(s, l) ELSE cur
            /\ UNCHANGED text
  BY DEF Vertical
<1>2. PICK s, l : s = Starts /\ l = LineOf(s, cur) + d
  OBVIOUS
<1>3. Ended /\ UNCHANGED text /\ cur' = IF l \in DOMAIN s THEN Below(s, l) ELSE cur
  BY ONLY <1>1, <1>2 DEF Keeps
<1>4. text \in Seq(Chars) /\ cur \in 0 .. Len(text)
  BY DEF EditInv
<1>5. PICK n \in Nat : n = Len(text)
  BY <1>4
<1>6. PICK P : Sums(P)
  BY <1>4, SumsExist
<1>15. PICK r : LaidInv(P, Len(text), r) /\ Starts = r.starts
  BY <1>4, <1>6, LayoutIs
<1>7. PICK i \in 0 .. n : LineInv(P, i, r)
  BY ONLY <1>5, <1>15 DEF LaidInv, LaidTo
<1>8. s \in Seq(Nat) /\ s # <<>> /\ \A x \in 1 .. Len(s) : s[x] <= n
  <2>1. s \in Seq(Nat) /\ s # <<>> /\ \A x \in 1 .. Len(s) : s[x] <= i
    BY ONLY <1>2, <1>7, <1>15 DEF LineInv
  <2>2. ASSUME NEW x \in 1 .. Len(s) PROVE s[x] <= n
    <3>1. s[x] \in Nat
      BY ONLY <2>1, ElementOfSeq, x \in 1 .. Len(s)
    <3>2. s[x] <= i
      BY ONLY <2>1, x \in 1 .. Len(s)
    <3>3. QED
      BY ONLY <3>1, <3>2, n \in Nat, i \in 0 .. n
  <2>3. QED
    BY ONLY <2>1, <2>2
<1>9. \A x \in DOMAIN s : s[x] \in 0 .. n
  <2>1. SUFFICES ASSUME NEW x \in DOMAIN s PROVE s[x] \in 0 .. n
    OBVIOUS
  <2>2. x \in 1 .. Len(s)
    BY ONLY <1>8, LenProperties, x \in DOMAIN s
  <2>3. s[x] \in Nat /\ s[x] <= n
    BY ONLY <1>8, <2>2, ElementOfSeq
  <2>4. QED
    BY ONLY <2>3, n \in Nat
<1>10. \A a, b \in 0 .. n : a <= b => WidthOf(Part(a, b)) = P[b] - P[a]
  <2>1. SUFFICES ASSUME NEW a \in 0 .. n, NEW b \in 0 .. n, a <= b PROVE WidthOf(Part(a, b)) = P[b] - P[a]
    OBVIOUS
  <2>2. b \in -1 .. Len(text) /\ ~(b < a) /\ a \in 0 .. Len(text)
    BY <1>5, <2>1
  <2>3. QED
    BY <1>4, <1>6, <2>2, WidthOfPart
<1>11. ASSUME NEW a \in 0 .. n, NEW b \in 0 .. n PROVE WidthOf(Part(a, b)) >= 0
  <2>1. CASE a <= b
    <3>1. P[a] \in Nat /\ P[b] \in Nat
      BY <1>5, <1>6 DEF Sums
    <3>2. a = b \/ P[a] < P[b]
      <4>1. a = b \/ a < b
        BY <2>1
      <4>2. QED
        BY <1>4, <1>5, <1>6, <4>1, SumsGrow
    <3>3. QED
      BY ONLY <1>10, <2>1, <3>1, <3>2, <1>11
  <2>2. CASE ~(a <= b)
    <3>1. b \in -1 .. Len(text) /\ b < a /\ a \in 0 .. Len(text)
      BY <1>5, <2>2
    <3>2. WidthOf(Part(a, b)) = 0
      BY <1>4, <1>6, <3>1, WidthOfPart
    <3>3. QED
      BY ONLY <3>2
  <2>3. QED
    BY <2>1, <2>2
<1>12. CASE l \in DOMAIN s
  <2>1. LineOf(s, cur) \in DOMAIN s
    <3>1. cur \in Nat
      BY <1>4
    <3>2. QED
      BY ONLY <1>8, <3>1, LineOfIs
  <2>2. PICK x : x = WidthOf(Part(s[LineOf(s, cur)], cur))
    OBVIOUS
  <2>3. x >= 0
    <3>1. s[LineOf(s, cur)] \in 0 .. n /\ cur \in 0 .. n
      BY ONLY <1>4, <1>5, <1>9, <2>1
    <3>2. QED
      BY ONLY <1>11, <2>2, <3>1
  <2>4. PICK a, e : a = s[l] /\ e = LineEnd(s, l)
    OBVIOUS
  <2>5. a \in 0 .. n /\ e \in 0 .. n /\ e >= a
    <3>1. a \in 0 .. n
      BY ONLY <1>9, <1>12, <2>4
    <3>2. PICK end : end = IF l < Len(s) THEN s[l + 1] ELSE Len(text)
      OBVIOUS
    <3>3. e = IF end > a /\ text[end] = "newline" THEN end - 1 ELSE end
      BY ONLY <2>4, <3>2 DEF LineEnd
    <3>4. end \in 0 .. n /\ end >= a
      <4>1. l \in 1 .. Len(s) /\ Len(s) \in Nat
        BY ONLY <1>8, <1>12, LenProperties
      <4>2. CASE l < Len(s)
        <5>1. l + 1 \in 2 .. Len(s) /\ l + 1 - 1 = l /\ l + 1 \in 1 .. Len(s)
          BY ONLY <4>1, <4>2
        <5>2. Line(P, s[l + 1 - 1], s[l + 1])
          <6>1. \A y \in 2 .. Len(s) : Line(P, s[y - 1], s[y])
            BY ONLY <1>2, <1>7, <1>15, Zenon DEF LineInv
          <6>2. PICK y \in 2 .. Len(s) : y = l + 1
            BY ONLY <5>1
          <6>3. Line(P, s[y - 1], s[y])
            BY ONLY <6>1, Zenon
          <6>4. QED
            <7>1. s[l + 1 - 1] = s[y - 1] /\ s[l + 1] = s[y]
              BY ONLY <4>1, <6>2
            <7>2. QED
              BY ONLY <6>3, <7>1, Zenon
        <5>3. a < s[l + 1]
          BY ONLY <2>4, <5>1, <5>2 DEF Line
        <5>4. s[l + 1] \in 0 .. n
          BY ONLY <1>8, <1>9, <5>1, LenProperties
        <5>5. QED
          BY ONLY <3>1, <3>2, <4>2, <5>3, <5>4
      <4>3. CASE ~(l < Len(s))
        BY ONLY <1>5, <3>1, <3>2, <4>3, n \in Nat
      <4>4. QED
        BY ONLY <4>2, <4>3
    <3>5. QED
      BY ONLY <3>1, <3>3, <3>4, n \in Nat
  <2> DEFINE Fits == {pos \in a .. e : WidthOf(Part(a, pos)) <= x}
  <2>6. a \in Fits
    <3>1. a <= a /\ a \in a .. e
      BY ONLY <2>5, n \in Nat
    <3>2. P[a] - P[a] = 0
      <4>1. P[a] \in Nat
        BY <1>5, <1>6, <2>5 DEF Sums
      <4>2. QED
        BY ONLY <4>1
    <3>3. WidthOf(Part(a, a)) = 0
      BY ONLY <1>10, <2>5, <3>1, <3>2
    <3>4. QED
      BY ONLY <2>3, <3>1, <3>3
  <2>7. \E pos \in Fits : \A p \in Fits : p <= pos
    <3> DEFINE T == {k \in Nat : e - k \in Fits}
    <3>1. T \in SUBSET Nat /\ T # {}
      <4>1. e - a \in Nat /\ e - (e - a) = a
        BY ONLY <2>5, n \in Nat
      <4>2. e - a \in T
        BY ONLY <2>6, <4>1
      <4>3. QED
        BY ONLY <4>2
    <3>2. PICK k \in T : \A y \in T : k <= y
      <4> HIDE DEF T
      <4>1. QED
        BY ONLY <3>1, LeastNumber
    <3>3. e - k \in Fits /\ k \in Nat
      BY <3>2
    <3>4. ASSUME NEW p \in Fits PROVE p <= e - k
      <4>1. p \in a .. e
        BY <3>4
      <4>2. e - p \in Nat /\ e - (e - p) = p
        BY ONLY <2>5, <4>1, n \in Nat
      <4>3. e - p \in T
        BY ONLY <3>4, <4>2
      <4>4. k <= e - p
        BY ONLY <3>2, <4>3
      <4>5. QED
        BY ONLY <2>5, <3>3, <4>1, <4>4, n \in Nat
    <3>5. QED
      BY ONLY <3>3, <3>4
  <2>8. Below(s, l) = CHOOSE pos \in Fits : \A p \in Fits : p <= pos
    BY ONLY <2>2, <2>4 DEF Below
  <2>9. Below(s, l) \in Fits
    <3> HIDE DEF Fits
    <3>1. QED
      BY ONLY <2>7, <2>8
  <2>10. Below(s, l) \in 0 .. n
    <3>1. Below(s, l) \in a .. e
      BY ONLY <2>9
    <3>2. QED
      BY ONLY <2>5, <3>1, n \in Nat
  <2>11. cur' \in 0 .. Len(text)
    BY ONLY <1>3, <1>5, <1>12, <2>10
  <2>12. QED
    BY <1>3, <2>11, MoveKeeps
<1>13. CASE l \notin DOMAIN s
  <2>1. cur' \in 0 .. Len(text)
    BY ONLY <1>3, <1>4, <1>13
  <2>2. QED
    BY <1>3, <2>1, MoveKeeps
<1>14. QED
  BY <1>12, <1>13

LEMMA EditNextKeeps == EditInv /\ [EditNext]_editvars => EditInv' /\ Changes
<1> SUFFICES ASSUME EditInv, [EditNext]_editvars PROVE EditInv' /\ Changes
  OBVIOUS
<1>1. text \in Seq(Chars) /\ cur \in 0 .. Len(text)
  BY DEF EditInv
<1>2. CASE Digit
  BY <1>2, DigitKeeps
<1>3. CASE Passes
  <2>1. text' = text /\ cur' = cur
    BY <1>3 DEF Passes
  <2>2. CASE tap' = [tap EXCEPT !.age = @ + 1] /\ mine' = mine
    <3>1. tap'.index = tap.index /\ tap'.key = tap.key
      BY <2>2
    <3>2. QED
      BY ONLY <2>1, <2>2, <3>1, EditInv DEF EditInv, Changes
  <2>3. CASE tap' = NoTap /\ mine' = -1
    <3>1. tap'.index \in Nat
      BY <2>3 DEF NoTap
    <3>2. QED
      BY ONLY <1>1, <2>1, <2>3, <3>1 DEF EditInv, Changes
  <2>4. QED
    BY <1>3, <2>2, <2>3 DEF Passes
<1>4. CASE Star
  <2>1. Ended /\ UNCHANGED text /\ cur' \in 0 .. Len(text)
    BY <1>1, <1>4 DEF Star
  <2>2. QED
    BY <2>1, MoveKeeps
<1>5. CASE Hash
  BY <1>5, HashKeeps
<1>6. CASE Left
  <2>1. Ended /\ UNCHANGED text /\ cur' \in 0 .. Len(text)
    BY <1>1, <1>6 DEF Left, Keeps
  <2>2. QED
    BY <2>1, MoveKeeps
<1>7. CASE Right
  <2>1. Ended /\ UNCHANGED text /\ cur' \in 0 .. Len(text)
    BY <1>1, <1>7 DEF Right, Keeps
  <2>2. QED
    BY <2>1, MoveKeeps
<1>8. CASE Delete
  BY <1>8, DeleteKeeps
<1>9. CASE Vertical
  BY <1>9, VerticalKeeps
<1>10. CASE UNCHANGED editvars
  BY <1>10 DEF editvars, EditInv, Changes
<1>11. QED
  BY <1>2, <1>3, <1>4, <1>5, <1>6, <1>7, <1>8, <1>9, <1>10 DEF EditNext

\* Edited, for texts, lines and characters of any length and width.
THEOREM TextIsEdited == EditSpec => Edited
<1>1. EditInit => EditInv
  <2> SUFFICES ASSUME EditInit PROVE EditInv
    OBVIOUS
  <2>1. text \in Seq(Chars) /\ cur \in 0 .. Len(text)
    <3>1. text = <<>> \/ text = <<"2", "space", "a">>
      BY DEF EditInit
    <3>2. <<>> \in Seq(Chars) /\ Len(<<>>) \in Nat
      OBVIOUS
    <3>3. <<"2", "space", "a">> \in Seq(Chars) /\ Len(<<"2", "space", "a">>) \in Nat
      BY DEF Chars
    <3>4. cur = Len(text)
      BY DEF EditInit
    <3>5. text \in Seq(Chars) /\ Len(text) \in Nat
      BY ONLY <3>1, <3>2, <3>3, Zenon
    <3>6. PICK n \in Nat : n = Len(text)
      BY ONLY <3>5
    <3>7. n \in 0 .. n
      BY ONLY n \in Nat
    <3>8. QED
      BY ONLY <3>4, <3>5, <3>6, <3>7, Zenon
  <2>2. tap = NoTap /\ mine = -1
    BY DEF EditInit
  <2>3. QED
    BY ONLY <2>1, <2>2 DEF EditInv, NoTap
<1>2. EditInv /\ [EditNext]_editvars => EditInv' /\ [Changes]_editvars
  BY EditNextKeeps
<1>3. EditInv => Wrapped
  BY LinesWrap DEF EditInv
<1>4. QED
  BY <1>1, <1>2, <1>3, PTL DEF EditSpec, Edited, Changes

-----------------------------------------------------------------------------
(* The clock *)

\* Seconds of a time, and of what the counters show; and as 32 bits.
SecondsOf(t) == 86400 * t[1] + t[2]
ShownBy(c) == 86400 * c.day + 3600 * c.hour + 60 * c.min + c.sec
Word(n) == IF n < 4294967296 THEN n ELSE n - 4294967296

ATime(t) == t \in Nat \X Nat /\ t[2] < 86400
Counters(c) ==
  /\ c \in [day : Nat, hour : Nat, min : Nat, sec : Nat]
  /\ c.day < 65536 /\ c.hour < 24 /\ c.min < 60 /\ c.sec < 60

\* Neither the days nor the 32 bits run over.
NoWrap ==
  /\ \A t \in RtcStarts : /\ Word(SecondsOf(t)) + MaxSeconds < 4294967296
                          /\ SecondsOf(t) + MaxSeconds < 86400 * 65536
  /\ \A t \in NewTimes : SecondsOf(t) + MaxSeconds < 4294967296

RtcTypes ==
  /\ Counters(hw) /\ passed \in Nat /\ passed <= MaxSeconds /\ acks = TRUE
  /\ setting \in [on : BOOLEAN, t : Int \X Int, at : Nat]
  /\ setter \in [pc : {"idle", "write", "wait", "check", "set"}, t : Int \X Int, acked : BOOLEAN,
                 result : {"none", "ok", "timeout"}]
  /\ reader \in [pc : {"idle", "first", "min", "hour", "day", "again", "done"}, first : Nat,
                 c : [day : Int, hour : Int, min : Int, sec : Int], tries : Nat, at : Int \X Int,
                 from : Int \X Int, secs : Nat, set : BOOLEAN, cut : BOOLEAN]

\* Until the clock is set.
Unset ==
  setting.t = NoTime =>
    /\ ~setting.on /\ setter.pc = "idle" /\ DOMAIN new = {}
    /\ Word(ShownBy(hw)) + (MaxSeconds - passed) < 4294967296
    /\ ShownBy(hw) + (MaxSeconds - passed) < 86400 * 65536

\* From then on: the RTC has taken some of the fields, or all and the seconds since.
Set ==
  setting.t # NoTime =>
    /\ setting.t \in NewTimes /\ setting.at <= passed
    /\ setter.pc # "idle" => setter.t = setting.t
    /\ (setting.on <=> setter.pc \in {"write", "wait"})
    /\ DOMAIN new \subseteq Fields
    /\ \A f \in DOMAIN new : new[f] = FieldsOf(setting.t)[f]
    /\ DOMAIN new # {} => setter.pc = "wait" /\ \A f \in Fields \ DOMAIN new : hw[f] = FieldsOf(setting.t)[f]
    /\ setter.pc # "write" /\ DOMAIN new = {} =>
         /\ SecondsOf(setting.t) <= ShownBy(hw)
         /\ ShownBy(hw) <= SecondsOf(setting.t) + (passed - setting.at)

\* The fields read in a try, if no second has passed in it.
Same(r, c) ==
  /\ r.pc \in {"hour", "day", "again"} => r.c.min = c.min
  /\ r.pc \in {"day", "again"} => r.c.hour = c.hour
  /\ r.pc = "again" => r.c.day = c.day

\* n seconds have passed in this try, and one at least in each of those before.
Tried(r, c) ==
  \E n \in {0, 1, 2} :
    /\ n + r.tries <= r.secs
    /\ r.pc = "first" => n = 0
    /\ r.pc # "first" => r.first < 60 /\ c.sec = (r.first + n) % 60 /\ (n = 0 => Same(r, c))

Reading ==
  Reads /\ ~reader.cut =>
    /\ ~setting.on /\ (reader.set <=> setting.t # NoTime)
    /\ reader.secs <= ReadSeconds
    /\ ~reader.set => ATime(reader.from) /\ Word(ShownBy(hw)) = SecondsOf(reader.from) + reader.secs
    /\ Tried(reader, hw)

Done ==
  reader.pc = "done" /\ ~reader.cut =>
    /\ ATime(reader.at) /\ (reader.set <=> setting.t # NoTime)
    /\ ~reader.set =>
         /\ ATime(reader.from) /\ SecondsOf(reader.from) <= SecondsOf(reader.at)
         /\ SecondsOf(reader.at) <= Word(ShownBy(hw))
    /\ reader.set =>
         /\ SecondsOf(setting.t) <= SecondsOf(reader.at)
         /\ SecondsOf(reader.at) <= SecondsOf(setting.t) + (passed - setting.at)

\* The inductive invariant.
RtcInv == RtcTypes /\ some = Fields /\ Unset /\ Set /\ Reading /\ Done

-----------------------------------------------------------------------------
\* The comparison, the 32 bits, the sum and the fields, in seconds.
LEMMA LessIs ==
  ASSUME NEW a, NEW b, ATime(a), ATime(b)
  PROVE  Less(a, b) <=> SecondsOf(a) < SecondsOf(b)
<1>1. PICK m, n, p, q : m = a[1] /\ n = a[2] /\ p = b[1] /\ q = b[2]
  OBVIOUS
<1>2. m \in Nat /\ n \in Nat /\ p \in Nat /\ q \in Nat /\ n < 86400 /\ q < 86400
  BY <1>1 DEF ATime
<1>3. m < p \/ (m = p /\ n < q) <=> 86400 * m + n < 86400 * p + q
  BY ONLY <1>2
<1>4. QED
  BY ONLY <1>1, <1>3 DEF Less, SecondsOf

LEMMA WrapIs ==
  ASSUME NEW t, ATime(t), t[1] < 65536
  PROVE  ATime(Wrap32(t)) /\ SecondsOf(Wrap32(t)) = Word(SecondsOf(t))
<1>1. PICK d, s : d = t[1] /\ s = t[2]
  OBVIOUS
<1>2. d \in Nat /\ s \in Nat /\ s < 86400 /\ d < 65536 /\ t = <<d, s>>
  BY <1>1 DEF ATime
<1>3. CASE d < 49710 \/ (d = 49710 /\ s < 23296)
  <2>1. Wrap32(t) = t
    BY ONLY <1>1, <1>3 DEF Wrap32, Less
  <2>2. 86400 * d + s < 4294967296
    BY ONLY <1>2, <1>3
  <2>3. QED
    BY <1>1, <2>1, <2>2 DEF SecondsOf, Word
<1>4. CASE ~(d < 49710 \/ (d = 49710 /\ s < 23296))
  <2>1. ~(86400 * d + s < 4294967296)
    BY ONLY <1>2, <1>4
  <2>2. Word(SecondsOf(t)) = 86400 * d + s - 4294967296
    <3>1. SecondsOf(t) = 86400 * d + s
      BY ONLY <1>1 DEF SecondsOf
    <3>2. Word(SecondsOf(t)) = SecondsOf(t) - 4294967296
      BY ONLY <2>1, <3>1 DEF Word
    <3>3. QED
      BY ONLY <1>2, <3>1, <3>2
  <2>3. CASE s >= 23296
    <3>1. Wrap32(t) = <<d - 49710, s - 23296>>
      BY ONLY <1>1, <1>4, <2>3 DEF Wrap32, Less
    <3>2. d - 49710 \in Nat /\ s - 23296 \in Nat /\ s - 23296 < 86400
          /\ 86400 * (d - 49710) + (s - 23296) = 86400 * d + s - 4294967296
      BY ONLY <1>2, <1>4, <2>3
    <3>3. QED
      BY ONLY <2>2, <3>1, <3>2 DEF SecondsOf, ATime
  <2>4. CASE ~(s >= 23296)
    <3>1. Wrap32(t) = <<d - 49711, s - 23296 + 86400>>
      BY ONLY <1>1, <1>4, <2>4 DEF Wrap32, Less
    <3>2. d - 49711 \in Nat /\ s - 23296 + 86400 \in Nat /\ s - 23296 + 86400 < 86400
          /\ 86400 * (d - 49711) + (s - 23296 + 86400) = 86400 * d + s - 4294967296
      BY ONLY <1>2, <1>4, <2>4
    <3>3. QED
      BY ONLY <2>2, <3>1, <3>2 DEF SecondsOf, ATime
  <2>5. QED
    BY <2>3, <2>4
<1>5. QED
  BY <1>3, <1>4

LEMMA PlusIs ==
  ASSUME NEW t, ATime(t), NEW n \in Nat
  PROVE  ATime(Plus(t, n)) /\ SecondsOf(Plus(t, n)) = SecondsOf(t) + n
<1>1. PICK d, s : d = t[1] /\ s = t[2]
  OBVIOUS
<1>2. d \in Nat /\ s \in Nat
  BY <1>1 DEF ATime
<1>3. PICK p, q : p = (s + n) \div 86400 /\ q = (s + n) % 86400
  OBVIOUS
<1>4. p \in Nat /\ q \in Nat /\ q < 86400 /\ s + n = 86400 * p + q
  BY ONLY <1>2, <1>3, n \in Nat
<1>5. Plus(t, n) = <<d + p, q>>
  BY ONLY <1>1, <1>3 DEF Plus
<1>6. d + p \in Nat /\ 86400 * (d + p) + q = 86400 * d + s + n
  BY ONLY <1>2, <1>4, n \in Nat
<1>7. QED
  BY ONLY <1>1, <1>4, <1>5, <1>6 DEF ATime, SecondsOf

LEMMA FieldsIs ==
  ASSUME NEW t, ATime(t), t[1] < 65536
  PROVE  Counters(FieldsOf(t)) /\ ShownBy(FieldsOf(t)) = SecondsOf(t)
<1>1. PICK d, s : d = t[1] /\ s = t[2]
  OBVIOUS
<1>2. d \in Nat /\ s \in Nat /\ s < 86400 /\ d < 65536
  BY <1>1 DEF ATime
<1>3. PICK h, m, n, q : h = s \div 3600 /\ q = s \div 60 /\ m = q % 60 /\ n = s % 60
  OBVIOUS
<1>4. q \in Nat /\ n \in Nat /\ n < 60 /\ s = 60 * q + n
  BY ONLY <1>2, <1>3
<1>5. h \in Nat /\ h < 24 /\ 3600 * h <= s /\ s < 3600 * h + 3600
  BY ONLY <1>2, <1>3
<1>6. m \in Nat /\ m < 60 /\ q = 60 * h + m
  <2>1. PICK k : k = q \div 60
    OBVIOUS
  <2>2. k \in Nat /\ m \in Nat /\ m < 60 /\ q = 60 * k + m
    BY ONLY <1>3, <1>4, <2>1
  <2>3. k = h
    BY ONLY <1>2, <1>4, <1>5, <2>2
  <2>4. QED
    BY ONLY <2>2, <2>3
<1>7. FieldsOf(t) = [day |-> d, hour |-> h, min |-> m, sec |-> n]
  BY ONLY <1>1, <1>3 DEF FieldsOf
<1>8. 86400 * d + 3600 * h + 60 * m + n = 86400 * d + s
  BY ONLY <1>2, <1>4, <1>5, <1>6
<1>9. QED
  BY ONLY <1>1, <1>2, <1>4, <1>5, <1>6, <1>7, <1>8 DEF Counters, ShownBy, SecondsOf

LEMMA CountIs ==
  ASSUME NEW c, Counters(c)
  PROVE  /\ Counters(Count(c)) /\ Count(c).sec = (c.sec + 1) % 60
         /\ ShownBy(c) \in Nat
         /\ ShownBy(c) + 1 < 86400 * 65536 => ShownBy(Count(c)) = ShownBy(c) + 1
<1>1. PICK d, h, m, s : d = c.day /\ h = c.hour /\ m = c.min /\ s = c.sec
  OBVIOUS
<1>2. /\ d \in Nat /\ h \in Nat /\ m \in Nat /\ s \in Nat
      /\ d < 65536 /\ h < 24 /\ m < 60 /\ s < 60 /\ c = [day |-> d, hour |-> h, min |-> m, sec |-> s]
  BY <1>1 DEF Counters
<1>3. PICK n : n = 86400 * d + 3600 * h + 60 * m + s
  OBVIOUS
<1>4. ShownBy(c) = n /\ n \in Nat
  BY ONLY <1>1, <1>2, <1>3 DEF ShownBy
<1>5. PICK k : k = Count(c)
  OBVIOUS
<1>6. \A w, x, y, z \in Nat :
        k = [day |-> w, hour |-> x, min |-> y, sec |-> z] /\ w < 65536 /\ x < 24 /\ y < 60 /\ z < 60
          => Counters(k) /\ k.sec = z /\ ShownBy(k) = 86400 * w + 3600 * x + 60 * y + z
  BY ONLY DEF Counters, ShownBy
<1>7. CASE s < 59
  <2>1. k = [day |-> d, hour |-> h, min |-> m, sec |-> s + 1]
    BY ONLY <1>1, <1>2, <1>5, <1>7 DEF Count
  <2>2. s + 1 \in Nat /\ s + 1 < 60 /\ (s + 1) % 60 = s + 1
    BY ONLY <1>2, <1>7
  <2>3. Counters(k) /\ k.sec = s + 1 /\ ShownBy(k) = 86400 * d + 3600 * h + 60 * m + (s + 1)
    <3>1. PICK z \in Nat : z = s + 1
      BY ONLY <2>2
    <3>2. k = [day |-> d, hour |-> h, min |-> m, sec |-> z] /\ z < 60
      BY ONLY <2>1, <2>2, <3>1
    <3>3. Counters(k) /\ k.sec = z /\ ShownBy(k) = 86400 * d + 3600 * h + 60 * m + z
      BY ONLY <1>2, <1>6, <3>2, z \in Nat
    <3>4. QED
      BY ONLY <3>1, <3>3
  <2>4. 86400 * d + 3600 * h + 60 * m + (s + 1) = n + 1
    BY ONLY <1>2, <1>3
  <2>5. QED
    BY ONLY <1>1, <1>4, <1>5, <2>2, <2>3, <2>4
<1>8. CASE s = 59 /\ m < 59
  <2>1. k = [day |-> d, hour |-> h, min |-> m + 1, sec |-> 0]
    <3>1. k = [c EXCEPT !.sec = 0, !.min = @ + 1]
      BY ONLY <1>1, <1>5, <1>8 DEF Count
    <3>2. PICK e, x : e = [c EXCEPT !.sec = 0] /\ x = m + 1
      OBVIOUS
    <3>3. e = [day |-> d, hour |-> h, min |-> m, sec |-> 0]
      BY ONLY <1>2, <3>2
    <3>4. k = [e EXCEPT !.min = x]
      BY ONLY <1>1, <3>1, <3>2
    <3>5. k = [day |-> d, hour |-> h, min |-> x, sec |-> 0]
      BY ONLY <3>3, <3>4
    <3>6. QED
      BY ONLY <3>2, <3>5
  <2>2. m + 1 \in Nat /\ m + 1 < 60 /\ (s + 1) % 60 = 0 /\ 0 \in Nat /\ 0 < 60
    BY ONLY <1>2, <1>8
  <2>3. Counters(k) /\ k.sec = 0 /\ ShownBy(k) = 86400 * d + 3600 * h + 60 * (m + 1) + 0
    BY ONLY <1>2, <1>6, <2>1, <2>2
  <2>4. 86400 * d + 3600 * h + 60 * (m + 1) + 0 = n + 1
    BY ONLY <1>2, <1>3, <1>8
  <2>5. QED
    BY ONLY <1>1, <1>4, <1>5, <2>2, <2>3, <2>4
<1>9. CASE s = 59 /\ m = 59 /\ h < 23
  <2>1. k = [day |-> d, hour |-> h + 1, min |-> 0, sec |-> 0]
    <3>1. k = [c EXCEPT !.sec = 0, !.min = 0, !.hour = @ + 1]
      BY ONLY <1>1, <1>5, <1>9 DEF Count
    <3>2. PICK e, g, x : e = [c EXCEPT !.sec = 0] /\ g = [e EXCEPT !.min = 0] /\ x = h + 1
      OBVIOUS
    <3>3. e = [day |-> d, hour |-> h, min |-> m, sec |-> 0]
      BY ONLY <1>2, <3>2
    <3>4. g = [day |-> d, hour |-> h, min |-> 0, sec |-> 0]
      <4>1. g = [e EXCEPT !.min = 0]
        BY ONLY <3>2
      <4>2. QED
        BY ONLY <3>3, <4>1
    <3>5. k = [g EXCEPT !.hour = x]
      BY ONLY <1>1, <3>1, <3>2
    <3>6. k = [day |-> d, hour |-> x, min |-> 0, sec |-> 0]
      BY ONLY <3>4, <3>5
    <3>7. QED
      BY ONLY <3>2, <3>6
  <2>2. h + 1 \in Nat /\ h + 1 < 24 /\ (s + 1) % 60 = 0 /\ 0 \in Nat /\ 0 < 60
    BY ONLY <1>2, <1>9
  <2>3. Counters(k) /\ k.sec = 0 /\ ShownBy(k) = 86400 * d + 3600 * (h + 1) + 60 * 0 + 0
    BY ONLY <1>2, <1>6, <2>1, <2>2
  <2>4. 86400 * d + 3600 * (h + 1) + 60 * 0 + 0 = n + 1
    BY ONLY <1>2, <1>3, <1>9
  <2>5. QED
    BY ONLY <1>1, <1>4, <1>5, <2>2, <2>3, <2>4
<1>10. CASE s = 59 /\ m = 59 /\ h = 23
  <2>1. PICK e : e = (d + 1) % 65536
    OBVIOUS
  <2>2. k = [day |-> e, hour |-> 0, min |-> 0, sec |-> 0]
    BY ONLY <1>1, <1>2, <1>5, <1>10, <2>1 DEF Count
  <2>3. e \in Nat /\ e < 65536 /\ (d + 1 < 65536 => e = d + 1) /\ (s + 1) % 60 = 0
        /\ 0 \in Nat /\ 0 < 60 /\ 0 < 24
    BY ONLY <1>2, <1>10, <2>1
  <2>4. Counters(k) /\ k.sec = 0 /\ ShownBy(k) = 86400 * e + 3600 * 0 + 60 * 0 + 0
    BY ONLY <1>6, <2>2, <2>3
  <2>5. n + 1 < 86400 * 65536 => d + 1 < 65536
    BY ONLY <1>2, <1>3, <1>10
  <2>6. d + 1 < 65536 => 86400 * e + 3600 * 0 + 60 * 0 + 0 = n + 1
    BY ONLY <1>2, <1>3, <1>10, <2>3
  <2>7. QED
    BY ONLY <1>1, <1>4, <1>5, <2>3, <2>4, <2>5, <2>6
<1>11. QED
  BY ONLY <1>2, <1>7, <1>8, <1>9, <1>10

LEMMA ShownIs ==
  ASSUME NEW c, Counters(c)
  PROVE  ATime(to_seconds(c)) /\ SecondsOf(to_seconds(c)) = Word(ShownBy(c))
<1>1. PICK d, h, m, s : d = c.day /\ h = c.hour /\ m = c.min /\ s = c.sec
  OBVIOUS
<1>2. /\ d \in Nat /\ h \in Nat /\ m \in Nat /\ s \in Nat
      /\ d < 65536 /\ h < 24 /\ m < 60 /\ s < 60
  BY <1>1 DEF Counters
<1>3. PICK n : n = 3600 * h + 60 * m + s
  OBVIOUS
<1>4. n \in Nat /\ n < 86400 /\ 86400 * d + n = 86400 * d + 3600 * h + 60 * m + s
  BY ONLY <1>2, <1>3
<1>5. PICK t : t = <<d, n>>
  OBVIOUS
<1>6. ATime(t) /\ t[1] < 65536 /\ SecondsOf(t) = ShownBy(c)
  BY ONLY <1>1, <1>2, <1>4, <1>5 DEF ATime, SecondsOf, ShownBy
<1>7. to_seconds(c) = Wrap32(t)
  <2>1. c.day = d /\ 3600 * c.hour + 60 * c.min + c.sec = n
    BY ONLY <1>1, <1>3
  <2>2. QED
    BY ONLY <1>5, <2>1, SMT DEF to_seconds
<1>8. QED
  BY ONLY <1>6, <1>7, WrapIs

LEMMA WordMore ==
  ASSUME NEW n \in Nat
  PROVE  /\ Word(n) \in Int
         /\ n < 4294967296 => Word(n) = n
         /\ Word(n) + 1 < 4294967296 => Word(n + 1) = Word(n) + 1
  BY DEF Word

LEMMA BoundsAre ==
  MaxSeconds \in Nat /\ ReadSeconds \in Nat
BY RtcAssumption

LEMMA TimeTypes ==
  ASSUME NEW t \in RtcStarts \cup NewTimes
  PROVE  ATime(t) /\ t[1] < 65536 /\ t # NoTime /\ t \in Int \X Int /\ SecondsOf(t) \in Nat
<1>1. t \in Nat \X Nat /\ t[1] < 65536 /\ t[2] < 86400
  BY RtcAssumption
<1>2. PICK d \in Nat, s \in Nat : t = <<d, s>>
  BY ONLY <1>1
<1>3. 86400 * d + s \in Nat /\ d # -1 /\ d \in Int /\ s \in Int
  BY ONLY d \in Nat, s \in Nat
<1>4. QED
  BY ONLY <1>1, <1>2, <1>3 DEF ATime, NoTime, SecondsOf

FieldTaken(c, d, f, e) == f \in Fields /\ e = [c EXCEPT ![f] = d[f]]

LEMMA SetField ==
  ASSUME NEW c, NEW d, Counters(c), Counters(d), NEW f, NEW e, FieldTaken(c, d, f, e)
  PROVE  Counters(e) /\ e[f] = d[f] /\ \A g \in Fields \ {f} : e[g] = c[g]
<1>1. f \in {"day", "hour", "min", "sec"} /\ e = [c EXCEPT ![f] = d[f]]
  BY DEF Fields, FieldTaken
<1>2. /\ c \in [day : Nat, hour : Nat, min : Nat, sec : Nat]
      /\ c.day < 65536 /\ c.hour < 24 /\ c.min < 60 /\ c.sec < 60
      /\ d \in [day : Nat, hour : Nat, min : Nat, sec : Nat]
      /\ d.day < 65536 /\ d.hour < 24 /\ d.min < 60 /\ d.sec < 60
  BY DEF Counters
<1>3. CASE f = "day"
  <2>1. e = [day |-> d.day, hour |-> c.hour, min |-> c.min, sec |-> c.sec]
    <3>1. PICK x : x = d.day
      OBVIOUS
    <3>2. e = [c EXCEPT !.day = x]
      BY ONLY <1>3, <1>1, <3>1
    <3>3. c = [day |-> c.day, hour |-> c.hour, min |-> c.min, sec |-> c.sec]
      BY ONLY <1>2
    <3>4. QED
      BY ONLY <3>1, <3>2, <3>3
  <2>2. QED
    BY ONLY <1>2, <1>3, <2>1 DEF Counters, Fields
<1>4. CASE f = "hour"
  <2>1. e = [day |-> c.day, hour |-> d.hour, min |-> c.min, sec |-> c.sec]
    <3>1. PICK x : x = d.hour
      OBVIOUS
    <3>2. e = [c EXCEPT !.hour = x]
      BY ONLY <1>4, <1>1, <3>1
    <3>3. c = [day |-> c.day, hour |-> c.hour, min |-> c.min, sec |-> c.sec]
      BY ONLY <1>2
    <3>4. QED
      BY ONLY <3>1, <3>2, <3>3
  <2>2. QED
    BY ONLY <1>2, <1>4, <2>1 DEF Counters, Fields
<1>5. CASE f = "min"
  <2>1. e = [day |-> c.day, hour |-> c.hour, min |-> d.min, sec |-> c.sec]
    <3>1. PICK x : x = d.min
      OBVIOUS
    <3>2. e = [c EXCEPT !.min = x]
      BY ONLY <1>5, <1>1, <3>1
    <3>3. c = [day |-> c.day, hour |-> c.hour, min |-> c.min, sec |-> c.sec]
      BY ONLY <1>2
    <3>4. QED
      BY ONLY <3>1, <3>2, <3>3
  <2>2. QED
    BY ONLY <1>2, <1>5, <2>1 DEF Counters, Fields
<1>6. CASE f = "sec"
  <2>1. e = [day |-> c.day, hour |-> c.hour, min |-> c.min, sec |-> d.sec]
    <3>1. PICK x : x = d.sec
      OBVIOUS
    <3>2. e = [c EXCEPT !.sec = x]
      BY ONLY <1>6, <1>1, <3>1
    <3>3. c = [day |-> c.day, hour |-> c.hour, min |-> c.min, sec |-> c.sec]
      BY ONLY <1>2
    <3>4. QED
      BY ONLY <3>1, <3>2, <3>3
  <2>2. QED
    BY ONLY <1>2, <1>6, <2>1 DEF Counters, Fields
<1>7. QED
  BY <1>1, <1>3, <1>4, <1>5, <1>6

LEMMA SameShown ==
  ASSUME NEW c, NEW d, \A g \in Fields : c[g] = d[g]
  PROVE  ShownBy(c) = ShownBy(d)
<1>1. c.day = d.day /\ c.hour = d.hour /\ c.min = d.min /\ c.sec = d.sec
  BY DEF Fields
<1>2. QED
  BY ONLY <1>1 DEF ShownBy

-----------------------------------------------------------------------------
LEMMA RtcInitInv ==
  ASSUME RtcInit, NoWrap, acks = TRUE
  PROVE  RtcInv
<1>1. PICK t \in RtcStarts : hw = FieldsOf(t)
  BY DEF RtcInit
<1>2. /\ new = <<>> /\ some = Fields /\ passed = 0 /\ acks = TRUE
      /\ setting = [on |-> FALSE, t |-> NoTime, at |-> 0]
      /\ setter = IdleSetter /\ reader = IdleReader
  BY DEF RtcInit
<1>3. ATime(t) /\ t[1] < 65536
  BY TimeTypes
<1>4. Counters(hw) /\ ShownBy(hw) = SecondsOf(t)
  BY ONLY <1>1, <1>3, FieldsIs
<1>5. NoTime \in Int \X Int
  BY DEF NoTime
<1>6. FieldsOf(NoTime) \in [day : Int, hour : Int, min : Int, sec : Int]
  <2>1. -1 \in Int /\ (0 \div 3600) \in Int /\ ((0 \div 60) % 60) \in Int /\ (0 % 60) \in Int
    OBVIOUS
  <2>2. NoTime[1] = -1 /\ NoTime[2] = 0
    BY DEF NoTime
  <2>3. QED
    BY ONLY <2>1, <2>2 DEF FieldsOf
<1>7. RtcTypes
  <2>1. reader.pc = "idle"
    BY ONLY <1>2 DEF IdleReader
  <2>2. reader \in [pc : {"idle", "first", "min", "hour", "day", "again", "done"}, first : Nat,
                 c : [day : Int, hour : Int, min : Int, sec : Int], tries : Nat, at : Int \X Int,
                 from : Int \X Int, secs : Nat, set : BOOLEAN, cut : BOOLEAN]
    BY ONLY <1>2, <1>5, <1>6 DEF IdleReader
  <2>3. setter \in [pc : {"idle", "write", "wait", "check", "set"}, t : Int \X Int, acked : BOOLEAN,
                 result : {"none", "ok", "timeout"}]
    BY ONLY <1>2, <1>5 DEF IdleSetter
  <2>4. setting \in [on : BOOLEAN, t : Int \X Int, at : Nat]
    BY ONLY <1>2, <1>5
  <2>5. 0 <= MaxSeconds
    BY ONLY BoundsAre
  <2>6. QED
    BY ONLY <1>2, <1>4, <2>2, <2>3, <2>4, <2>5 DEF RtcTypes
<1>8. Unset
  <2>1. /\ Word(SecondsOf(t)) + MaxSeconds < 4294967296
        /\ SecondsOf(t) + MaxSeconds < 86400 * 65536
    BY DEF NoWrap
  <2>2. MaxSeconds - passed = MaxSeconds
    BY ONLY <1>2, BoundsAre
  <2>3. DOMAIN new = {}
    BY ONLY <1>2
  <2>4. ~setting.on /\ setter.pc = "idle"
    BY ONLY <1>2 DEF IdleSetter
  <2>5. QED
    BY ONLY <1>4, <2>1, <2>2, <2>3, <2>4 DEF Unset
<1>9. Set
  BY ONLY <1>2 DEF Set
<1>10. Reading /\ Done
  BY ONLY <1>2 DEF Reading, Reads, Done, IdleReader
<1>11. QED
  BY ONLY <1>2, <1>7, <1>8, <1>9, <1>10 DEF RtcInv

LEMMA SecondKeeps ==
  ASSUME RtcInv, NoWrap, ReadSeconds <= 2, Second
  PROVE  RtcInv'
<1>1. /\ DOMAIN new \in {{}, some} /\ passed < MaxSeconds /\ passed' = passed + 1
      /\ Reads => reader.secs < ReadSeconds
      /\ hw' = Count(hw)
      /\ reader' = IF Reads THEN [reader EXCEPT !.secs = @ + 1] ELSE reader
      /\ new' = new /\ acks' = acks /\ some' = some /\ setting' = setting /\ setter' = setter
  BY DEF Second
<1>2. RtcTypes /\ some = Fields /\ Unset /\ Set /\ Reading /\ Done
  BY DEF RtcInv
<1>3. passed \in Nat /\ MaxSeconds \in Nat /\ ReadSeconds \in Nat
  BY ONLY <1>2, BoundsAre DEF RtcTypes
<1>4. Counters(hw)
  BY <1>2 DEF RtcTypes
<1>5. PICK s, s2 : s = ShownBy(hw) /\ s2 = ShownBy(hw')
  OBVIOUS
<1>6. /\ Counters(hw') /\ hw'.sec = (hw.sec + 1) % 60 /\ s \in Nat
      /\ s + 1 < 86400 * 65536 => s2 = s + 1
  BY ONLY <1>1, <1>4, <1>5, CountIs
<1>7. /\ reader'.pc = reader.pc /\ reader'.cut = reader.cut /\ reader'.set = reader.set
      /\ reader'.first = reader.first /\ reader'.c = reader.c /\ reader'.tries = reader.tries
      /\ reader'.at = reader.at /\ reader'.from = reader.from
      /\ Reads => reader'.secs = reader.secs + 1
  BY ONLY <1>1, <1>2 DEF RtcTypes
<1>8. Reads' <=> Reads
  BY ONLY <1>7 DEF Reads
<1>9. RtcTypes'
  <2>1. reader.secs + 1 \in Nat
    BY ONLY <1>2 DEF RtcTypes
  <2>2. passed' \in Nat /\ passed' <= MaxSeconds
    BY ONLY <1>1, <1>3
  <2>3. reader' \in [pc : {"idle", "first", "min", "hour", "day", "again", "done"}, first : Nat,
                 c : [day : Int, hour : Int, min : Int, sec : Int], tries : Nat, at : Int \X Int,
                 from : Int \X Int, secs : Nat, set : BOOLEAN, cut : BOOLEAN]
    BY ONLY <1>1, <1>2, <2>1 DEF RtcTypes
  <2>4. QED
    BY ONLY <1>1, <1>2, <1>6, <2>2, <2>3 DEF RtcTypes
<1>10. setting.t = NoTime => Word(s) \in Int /\ Word(s2) = Word(s) + 1 /\ s2 = s + 1
  <2>1. SUFFICES ASSUME setting.t = NoTime PROVE Word(s) \in Int /\ Word(s2) = Word(s) + 1 /\ s2 = s + 1
    OBVIOUS
  <2>2. /\ Word(s) + (MaxSeconds - passed) < 4294967296
        /\ s + (MaxSeconds - passed) < 86400 * 65536
    BY ONLY <1>2, <1>5, <2>1 DEF Unset
  <2>3. s2 = s + 1
    BY ONLY <1>1, <1>3, <1>6, <2>2
  <2>4. Word(s) \in Int
    BY ONLY <1>6, WordMore
  <2>5. Word(s) + 1 < 4294967296
    BY ONLY <1>1, <1>3, <2>2, <2>4
  <2>6. QED
    BY ONLY <1>6, <2>3, <2>4, <2>5, WordMore
<1>11. Unset'
  <2>1. CASE setting.t = NoTime
    <3>1. /\ Word(s) + (MaxSeconds - passed) < 4294967296
          /\ s + (MaxSeconds - passed) < 86400 * 65536
          /\ ~setting.on /\ setter.pc = "idle" /\ DOMAIN new = {}
      BY ONLY <1>2, <1>5, <2>1 DEF Unset
    <3>2. /\ Word(s2) + (MaxSeconds - passed') < 4294967296
          /\ s2 + (MaxSeconds - passed') < 86400 * 65536
      BY ONLY <1>1, <1>3, <1>6, <1>10, <2>1, <3>1
    <3>3. QED
      BY ONLY <1>1, <1>5, <3>1, <3>2 DEF Unset
  <2>2. CASE setting.t # NoTime
    BY ONLY <1>1, <2>2 DEF Unset
  <2>3. QED
    BY ONLY <2>1, <2>2
<1>12. Set'
  <2>1. CASE setting.t = NoTime
    <3>1. (setting.t = NoTime)'
      BY ONLY <1>1, <2>1
    <3>2. QED
      BY ONLY <3>1 DEF Set
  <2>10. SUFFICES ASSUME setting.t # NoTime PROVE Set'
    BY <2>1
  <2>2. /\ setting.t \in NewTimes /\ setting.at <= passed
        /\ setter.pc # "idle" => setter.t = setting.t
        /\ (setting.on <=> setter.pc \in {"write", "wait"})
        /\ DOMAIN new \subseteq Fields
        /\ \A f \in DOMAIN new : new[f] = FieldsOf(setting.t)[f]
        /\ DOMAIN new # {} => setter.pc = "wait"
        /\ setter.pc # "write" /\ DOMAIN new = {} =>
              SecondsOf(setting.t) <= s /\ s <= SecondsOf(setting.t) + (passed - setting.at)
    BY ONLY <1>2, <1>5, <2>10 DEF Set
  <2>3. DOMAIN new = {} \/ Fields \ DOMAIN new = {}
    BY ONLY <1>1, <1>2
  <2>4. setting.at \in Nat
    BY ONLY <1>2 DEF RtcTypes
  <2>5. SecondsOf(setting.t) \in Nat /\ SecondsOf(setting.t) + MaxSeconds < 4294967296
    BY <2>2, TimeTypes DEF NoWrap
  <2>6. setting.at <= passed'
    BY ONLY <1>1, <1>3, <2>2, <2>4
  <2>7. setter.pc # "write" /\ DOMAIN new = {} =>
          SecondsOf(setting.t) <= s2 /\ s2 <= SecondsOf(setting.t) + (passed' - setting.at)
    <3>1. SUFFICES ASSUME setter.pc # "write", DOMAIN new = {}
          PROVE  SecondsOf(setting.t) <= s2 /\ s2 <= SecondsOf(setting.t) + (passed' - setting.at)
      OBVIOUS
    <3>2. SecondsOf(setting.t) <= s /\ s <= SecondsOf(setting.t) + (passed - setting.at)
      BY ONLY <2>2, <3>1
    <3>3. s + 1 < 86400 * 65536
      BY ONLY <1>1, <1>3, <1>6, <2>4, <2>5, <3>2
    <3>4. PICK x, y, z : x = SecondsOf(setting.t) /\ y = setting.at /\ z = passed'
      OBVIOUS
    <3>5. /\ x \in Nat /\ y \in Nat /\ z = passed + 1 /\ s2 = s + 1
          /\ x <= s /\ s <= x + (passed - y)
      BY ONLY <1>1, <1>6, <2>4, <2>5, <3>2, <3>3, <3>4
    <3>6. x <= s2 /\ s2 <= x + (z - y)
      BY ONLY <1>3, <1>6, <3>5
    <3>7. QED
      BY ONLY <3>4, <3>6
  <2>8. DOMAIN new # {} => \A f \in Fields \ DOMAIN new : hw'[f] = FieldsOf(setting.t)[f]
    BY ONLY <2>3
  <2>9. QED
    BY ONLY <1>1, <1>5, <2>2, <2>6, <2>7, <2>8 DEF Set
<1>13. Reading'
  <2>1. SUFFICES ASSUME Reads, ~reader.cut PROVE Reading'
    BY <1>7, <1>8 DEF Reading
  <2>2. /\ ~setting.on /\ (reader.set <=> setting.t # NoTime)
        /\ ~reader.set => ATime(reader.from) /\ Word(s) = SecondsOf(reader.from) + reader.secs
        /\ Tried(reader, hw)
    BY ONLY <1>2, <1>5, <2>1 DEF Reading
  <2>3. reader.secs \in Nat /\ reader.tries \in Nat /\ reader.first \in Nat
    BY ONLY <1>2 DEF RtcTypes
  <2>4. reader'.secs = reader.secs + 1 /\ reader'.secs <= ReadSeconds
    BY ONLY <1>1, <1>3, <1>7, <2>1, <2>3
  <2>5. ~reader.set => Word(s2) = SecondsOf(reader.from) + reader'.secs
    <3>1. SUFFICES ASSUME ~reader.set PROVE Word(s2) = SecondsOf(reader.from) + reader'.secs
      OBVIOUS
    <3>2. SecondsOf(reader.from) \in Nat
      <4>1. ATime(reader.from)
        BY ONLY <2>2, <3>1
      <4>2. QED
        BY ONLY <4>1 DEF ATime, SecondsOf
    <3>3. QED
      BY ONLY <1>10, <2>2, <2>3, <2>4, <3>1, <3>2
  <2>6. Tried(reader, hw)'
    <3>1. PICK n \in {0, 1, 2} :
            /\ n + reader.tries <= reader.secs
            /\ reader.pc = "first" => n = 0
            /\ reader.pc # "first" => reader.first < 60 /\ hw.sec = (reader.first + n) % 60
      BY ONLY <2>2 DEF Tried
    <3>2. CASE reader.pc = "first"
      <4>1. 0 + reader'.tries <= reader'.secs
        BY ONLY <1>7, <2>3, <2>4, <3>1, <3>2
      <4>2. QED
        BY ONLY <1>7, <3>2, <4>1 DEF Tried
    <3>3. CASE reader.pc # "first"
      <4>1. PICK m : m = n + 1
        OBVIOUS
      <4>2. m + reader'.tries <= reader'.secs /\ m \in {0, 1, 2} /\ m # 0
        BY ONLY <1>7, <1>3, <2>3, <2>4, <3>1, <4>1, ReadSeconds <= 2
      <4>3. (hw.sec + 1) % 60 = (reader.first + m) % 60
        BY ONLY <2>3, <3>1, <3>3, <4>1
      <4>4. hw'.sec = (reader'.first + m) % 60 /\ reader'.first < 60
        BY ONLY <1>6, <1>7, <3>1, <3>3, <4>3
      <4>5. QED
        BY ONLY <1>7, <3>3, <4>2, <4>4 DEF Tried
    <3>4. QED
      BY <3>2, <3>3
  <2>7. QED
    BY ONLY <1>1, <1>5, <1>7, <2>2, <2>4, <2>5, <2>6 DEF Reading
<1>14. Done'
  <2>1. SUFFICES ASSUME reader.pc = "done", ~reader.cut PROVE Done'
    BY <1>7 DEF Done
  <2>2. /\ ATime(reader.at) /\ (reader.set <=> setting.t # NoTime)
        /\ ~reader.set =>
             /\ ATime(reader.from) /\ SecondsOf(reader.from) <= SecondsOf(reader.at)
             /\ SecondsOf(reader.at) <= Word(s)
        /\ reader.set =>
             /\ SecondsOf(setting.t) <= SecondsOf(reader.at)
             /\ SecondsOf(reader.at) <= SecondsOf(setting.t) + (passed - setting.at)
    BY ONLY <1>2, <1>5, <2>1 DEF Done
  <2>3. SecondsOf(reader.at) \in Nat
    BY ONLY <2>2 DEF ATime, SecondsOf
  <2>4. ~reader.set => SecondsOf(reader.at) <= Word(s2)
    BY ONLY <1>10, <2>2, <2>3
  <2>5. reader.set => SecondsOf(reader.at) <= SecondsOf(setting.t) + (passed' - setting.at)
    <3>1. SUFFICES ASSUME reader.set
          PROVE  SecondsOf(reader.at) <= SecondsOf(setting.t) + (passed' - setting.at)
      OBVIOUS
    <3>2. setting.t \in NewTimes
      BY ONLY <1>2, <2>2, <3>1 DEF Set
    <3>3. SecondsOf(setting.t) \in Nat
      BY <3>2, TimeTypes
    <3>4. setting.at \in Nat
      BY ONLY <1>2 DEF RtcTypes
    <3>5. QED
      BY ONLY <1>1, <1>3, <2>2, <2>3, <3>1, <3>3, <3>4
  <2>6. QED
    BY ONLY <1>1, <1>5, <1>7, <2>2, <2>4, <2>5 DEF Done
<1>15. some' = Fields
  BY ONLY <1>1, <1>2
<1>16. QED
  BY ONLY <1>9, <1>11, <1>12, <1>13, <1>14, <1>15 DEF RtcInv

\* A write, or a field taken: the reader cannot be between two registers.
LEMMA NotWhileRead ==
  ASSUME RtcInv, setter.pc \in {"write", "wait"}
  PROVE  /\ setting.t # NoTime /\ setting.on
         /\ Reads /\ ~reader.cut => FALSE
<1>1. Unset /\ Set /\ Reading
  BY DEF RtcInv
<1>2. setter.pc # "idle"
  OBVIOUS
<1>3. setting.t # NoTime
  BY ONLY <1>1, <1>2 DEF Unset
<1>4. setting.on
  BY ONLY <1>1, <1>3, setter.pc \in {"write", "wait"} DEF Set
<1>5. QED
  BY ONLY <1>1, <1>3, <1>4 DEF Reading

\* What a read returned stays good while the clock shows the same, or is set.
LEMMA DoneStays ==
  ASSUME RtcInv, reader' = reader, passed' = passed, setting'.t = setting.t, setting'.at = setting.at,
         setting.t # NoTime \/ ShownBy(hw') = ShownBy(hw)
  PROVE  Done'
<1>1. Done
  BY DEF RtcInv
<1>2. QED
  BY ONLY <1>1, reader' = reader, passed' = passed, setting'.t = setting.t, setting'.at = setting.at,
          setting.t # NoTime \/ ShownBy(hw') = ShownBy(hw)
     DEF Done

LEMMA TakeKeeps ==
  ASSUME RtcInv, NoWrap, NEW f \in Fields, Take(f)
  PROVE  RtcInv'
<1>1. /\ f \in DOMAIN new /\ hw' = [hw EXCEPT ![f] = new[f]]
      /\ new' = [g \in DOMAIN new \ {f} |-> new[g]]
      /\ passed' = passed /\ acks' = acks /\ some' = some /\ setting' = setting
      /\ setter' = setter /\ reader' = reader
  BY DEF Take
<1>2. RtcTypes /\ some = Fields /\ Unset /\ Set /\ Reading /\ Done
  BY DEF RtcInv
<1>3. setting.t # NoTime
  BY ONLY <1>1, <1>2 DEF Unset
<1>4. /\ setting.t \in NewTimes /\ setting.at <= passed
      /\ setter.pc # "idle" => setter.t = setting.t
      /\ (setting.on <=> setter.pc \in {"write", "wait"})
      /\ DOMAIN new \subseteq Fields
      /\ \A g \in DOMAIN new : new[g] = FieldsOf(setting.t)[g]
      /\ setter.pc = "wait"
      /\ \A g \in Fields \ DOMAIN new : hw[g] = FieldsOf(setting.t)[g]
  BY ONLY <1>1, <1>2, <1>3 DEF Set
<1>5. setting.on /\ (Reads /\ ~reader.cut => FALSE)
  BY <1>4, NotWhileRead
<1>6. ATime(setting.t) /\ setting.t[1] < 65536
  BY <1>4, TimeTypes
<1>7. PICK d : d = FieldsOf(setting.t)
  OBVIOUS
<1>8. Counters(d) /\ ShownBy(d) = SecondsOf(setting.t)
  BY ONLY <1>6, <1>7, FieldsIs
<1>9. hw' = [hw EXCEPT ![f] = d[f]]
  BY ONLY <1>1, <1>4, <1>7
<1>10. Counters(hw)
  BY ONLY <1>2 DEF RtcTypes
<1>11. Counters(hw') /\ hw'[f] = d[f] /\ \A g \in Fields \ {f} : hw'[g] = hw[g]
  <2>1. PICK c, e : c = hw /\ e = hw'
    OBVIOUS
  <2>2. FieldTaken(c, d, f, e) /\ Counters(c)
    BY ONLY <1>9, <1>10, <2>1, f \in Fields DEF FieldTaken
  <2>3. Counters(e) /\ e[f] = d[f] /\ \A g \in Fields \ {f} : e[g] = c[g]
    BY ONLY <1>8, <2>2, SetField
  <2>4. QED
    BY ONLY <2>1, <2>3
<1>12. DOMAIN new' = DOMAIN new \ {f} /\ \A g \in DOMAIN new' : new'[g] = d[g]
  BY ONLY <1>1, <1>4, <1>7
<1>13. \A g \in Fields \ DOMAIN new' : hw'[g] = d[g]
  BY ONLY <1>4, <1>7, <1>11, <1>12
<1>14. RtcTypes'
  BY ONLY <1>1, <1>2, <1>11 DEF RtcTypes
<1>15. Unset'
  BY ONLY <1>1, <1>3 DEF Unset
<1>16. Set'
  <2>1. DOMAIN new' = {} =>
          /\ SecondsOf(setting.t) <= ShownBy(hw')
          /\ ShownBy(hw') <= SecondsOf(setting.t) + (passed - setting.at)
    <3>1. SUFFICES ASSUME DOMAIN new' = {}
          PROVE  /\ SecondsOf(setting.t) <= ShownBy(hw')
                 /\ ShownBy(hw') <= SecondsOf(setting.t) + (passed - setting.at)
      OBVIOUS
    <3>2. \A g \in Fields : hw'[g] = d[g]
      BY ONLY <1>13, <3>1
    <3>3. ShownBy(hw') = SecondsOf(setting.t)
      BY ONLY <1>8, <3>2, SameShown
    <3>4. SecondsOf(setting.t) \in Nat
      BY <1>4, TimeTypes
    <3>5. passed \in Nat /\ setting.at \in Nat
      BY ONLY <1>2 DEF RtcTypes
    <3>6. QED
      BY ONLY <1>4, <3>3, <3>4, <3>5
  <2>2. DOMAIN new' \subseteq Fields
    BY ONLY <1>4, <1>12
  <2>3. QED
    BY ONLY <1>1, <1>4, <1>7, <1>12, <1>13, <2>1, <2>2 DEF Set
<1>17. Reading'
  BY ONLY <1>1, <1>5 DEF Reading, Reads
<1>18. Done'
  BY ONLY <1>1, <1>3, RtcInv, DoneStays
<1>19. QED
  BY ONLY <1>1, <1>2, <1>14, <1>15, <1>16, <1>17, <1>18 DEF RtcInv

LEMMA SetBeginKeeps ==
  ASSUME RtcInv, NoWrap, NEW t \in NewTimes, SetBegin(t)
  PROVE  RtcInv'
<1>1. /\ setter.pc = "idle" /\ ~setting.on /\ setting.t = NoTime
      /\ setting' = [on |-> TRUE, t |-> t, at |-> passed]
      /\ setter' = [IdleSetter EXCEPT !.pc = "write", !.t = t]
      /\ reader' = [reader EXCEPT !.cut = TRUE]
      /\ hw' = hw /\ new' = new /\ passed' = passed /\ acks' = acks /\ some' = some
  BY DEF SetBegin
<1>2. RtcTypes /\ some = Fields /\ Unset
  BY DEF RtcInv
<1>3. t \in Int \X Int /\ t # NoTime
  BY TimeTypes
<1>4. passed \in Nat /\ reader'.cut = TRUE
  BY ONLY <1>1, <1>2 DEF RtcTypes
<1>5. RtcTypes'
  <2>1. reader' \in [pc : {"idle", "first", "min", "hour", "day", "again", "done"}, first : Nat,
                 c : [day : Int, hour : Int, min : Int, sec : Int], tries : Nat, at : Int \X Int,
                 from : Int \X Int, secs : Nat, set : BOOLEAN, cut : BOOLEAN]
    BY ONLY <1>1, <1>2 DEF RtcTypes
  <2>2. setter' = [pc |-> "write", t |-> t, acked |-> FALSE, result |-> "none"]
    BY ONLY <1>1 DEF IdleSetter
  <2>3. setter' \in [pc : {"idle", "write", "wait", "check", "set"}, t : Int \X Int, acked : BOOLEAN,
                 result : {"none", "ok", "timeout"}]
    BY ONLY <1>3, <2>2
  <2>4. setting' \in [on : BOOLEAN, t : Int \X Int, at : Nat]
    BY ONLY <1>1, <1>3, <1>4
  <2>5. QED
    BY ONLY <1>1, <1>2, <2>1, <2>3, <2>4 DEF RtcTypes
<1>6. setting'.t = t /\ setting'.at = passed /\ setting'.on = TRUE /\ setter'.pc = "write"
      /\ setter'.t = t
  BY ONLY <1>1 DEF IdleSetter
<1>7. Unset'
  BY ONLY <1>3, <1>6 DEF Unset
<1>8. Set'
  <2>1. DOMAIN new' = {}
    BY ONLY <1>1, <1>2 DEF Unset
  <2>2. QED
    BY ONLY <1>1, <1>4, <1>6, <2>1, t \in NewTimes DEF Set
<1>9. Reading' /\ Done'
  BY ONLY <1>4 DEF Reading, Done
<1>10. QED
  BY ONLY <1>1, <1>2, <1>5, <1>7, <1>8, <1>9 DEF RtcInv

LEMMA SetWriteKeeps ==
  ASSUME RtcInv, NoWrap, SetWrite
  PROVE  RtcInv'
<1>1. /\ setter.pc = "write" /\ setter' = [setter EXCEPT !.pc = "wait"]
      /\ some' \in (IF acks THEN {Fields} ELSE SUBSET Fields)
      /\ new' = [f \in some' |-> FieldsOf(setter.t)[f]]
      /\ hw' = hw /\ passed' = passed /\ acks' = acks /\ setting' = setting /\ reader' = reader
  BY DEF SetWrite
<1>2. RtcTypes /\ some = Fields /\ Unset /\ Set /\ Reading /\ Done
  BY DEF RtcInv
<1>3. setting.t # NoTime /\ setting.on /\ (Reads /\ ~reader.cut => FALSE)
  BY ONLY <1>1, RtcInv, NotWhileRead
<1>4. some' = Fields
  BY ONLY <1>1, <1>2 DEF RtcTypes
<1>5. setting.t \in NewTimes /\ setting.at <= passed /\ setter.t = setting.t
  BY ONLY <1>1, <1>2, <1>3 DEF Set
<1>6. setter'.pc = "wait" /\ setter'.t = setter.t
  BY ONLY <1>1, <1>2 DEF RtcTypes
<1>7. DOMAIN new' = Fields /\ \A f \in Fields : new'[f] = FieldsOf(setting.t)[f]
  BY ONLY <1>1, <1>4, <1>5
<1>8. RtcTypes'
  BY ONLY <1>1, <1>2 DEF RtcTypes
<1>9. Unset'
  BY ONLY <1>1, <1>3 DEF Unset
<1>10. Set'
  <2>1. DOMAIN new' # {}
    BY ONLY <1>7 DEF Fields
  <2>2. QED
    BY ONLY <1>1, <1>3, <1>5, <1>6, <1>7, <2>1 DEF Set
<1>11. Reading'
  BY ONLY <1>1, <1>3 DEF Reading, Reads
<1>12. Done'
  BY ONLY <1>1, <1>3, RtcInv, DoneStays
<1>13. QED
  BY ONLY <1>4, <1>8, <1>9, <1>10, <1>11, <1>12 DEF RtcInv

LEMMA SetWaitedKeeps ==
  ASSUME RtcInv, NoWrap, SetWaited
  PROVE  RtcInv'
<1>1. /\ setter.pc = "wait" /\ (DOMAIN new = {} \/ ~acks)
      /\ setter' = [setter EXCEPT !.pc = "check", !.acked = DOMAIN new = {} /\ some = Fields]
      /\ setting' = [setting EXCEPT !.on = FALSE]
      /\ hw' = hw /\ new' = new /\ passed' = passed /\ acks' = acks /\ some' = some
      /\ reader' = reader
  BY DEF SetWaited
<1>2. RtcTypes /\ some = Fields /\ Unset /\ Set /\ Reading /\ Done
  BY DEF RtcInv
<1>3. setting.t # NoTime /\ setting.on /\ (Reads /\ ~reader.cut => FALSE)
  BY ONLY <1>1, RtcInv, NotWhileRead
<1>4. DOMAIN new = {}
  BY ONLY <1>1, <1>2 DEF RtcTypes
<1>5. setter'.pc = "check" /\ setter'.t = setter.t
  BY ONLY <1>1, <1>2 DEF RtcTypes
<1>6. setting'.on = FALSE /\ setting'.t = setting.t /\ setting'.at = setting.at
  BY ONLY <1>1, <1>2 DEF RtcTypes
<1>7. RtcTypes'
  <2>1. (DOMAIN new = {} /\ some = Fields) \in BOOLEAN
    OBVIOUS
  <2>2. PICK b \in BOOLEAN : b = (DOMAIN new = {} /\ some = Fields)
    BY ONLY <2>1
  <2>3. setter' = [setter EXCEPT !.pc = "check", !.acked = b]
    BY ONLY <1>1, <2>2
  <2>4. setter' \in [pc : {"idle", "write", "wait", "check", "set"}, t : Int \X Int, acked : BOOLEAN,
                 result : {"none", "ok", "timeout"}]
    BY ONLY <1>2, <2>3, b \in BOOLEAN DEF RtcTypes
  <2>5. setting' \in [on : BOOLEAN, t : Int \X Int, at : Nat]
    BY ONLY <1>1, <1>2 DEF RtcTypes
  <2>6. QED
    BY ONLY <1>1, <1>2, <2>4, <2>5 DEF RtcTypes
<1>8. Unset'
  BY ONLY <1>3, <1>6 DEF Unset
<1>9. Set'
  BY ONLY <1>1, <1>2, <1>3, <1>4, <1>5, <1>6 DEF Set
<1>10. Reading'
  BY ONLY <1>1, <1>3 DEF Reading, Reads
<1>11. Done'
  BY ONLY <1>1, <1>3, <1>6, RtcInv, DoneStays
<1>12. QED
  BY ONLY <1>1, <1>2, <1>7, <1>8, <1>9, <1>10, <1>11 DEF RtcInv

\* The setter's last steps leave the clock and the readers alone.
LEMMA SetterGoesOn ==
  ASSUME RtcInv,
         UNCHANGED <<hw, new, passed, acks, some, setting, reader>>,
         setter' \in [pc : {"idle", "write", "wait", "check", "set"}, t : Int \X Int, acked : BOOLEAN,
                       result : {"none", "ok", "timeout"}],
         setter.pc \in {"check", "set"}, setter'.pc \in {"set", "idle"},
         setter'.pc # "idle" => setter'.t = setter.t
  PROVE  RtcInv'
<1>1. /\ hw' = hw /\ new' = new /\ passed' = passed /\ acks' = acks /\ some' = some
      /\ setting' = setting /\ reader' = reader
  OBVIOUS
<1>2. RtcTypes /\ some = Fields /\ Unset /\ Set /\ Reading /\ Done
  BY DEF RtcInv
<1>3. setting.t # NoTime
  <2>1. setter.pc # "idle"
    OBVIOUS
  <2>2. QED
    BY ONLY <1>2, <2>1 DEF Unset
<1>4. setter.pc \in {"check", "set"} /\ setter'.pc \in {"set", "idle"}
      /\ (setter'.pc # "idle" => setter'.t = setter.t)
  OBVIOUS
<1>5. RtcTypes'
  BY ONLY <1>1, <1>2,
          setter' \in [pc : {"idle", "write", "wait", "check", "set"}, t : Int \X Int, acked : BOOLEAN,
                       result : {"none", "ok", "timeout"}]
     DEF RtcTypes
<1>6. Unset'
  BY ONLY <1>1, <1>3 DEF Unset
<1>7. Set'
  BY ONLY <1>1, <1>2, <1>3, <1>4 DEF Set
<1>8. Reading'
  BY ONLY <1>1, <1>2 DEF Reading, Reads
<1>9. Done'
  BY ONLY <1>1, <1>2 DEF Done
<1>10. QED
  BY ONLY <1>1, <1>2, <1>5, <1>6, <1>7, <1>8, <1>9 DEF RtcInv

LEMMA SetEndKeeps ==
  ASSUME RtcInv, SetEnd
  PROVE  RtcInv'
<1>1. RtcTypes
  BY DEF RtcInv
<1>2. PICK x \in {"ok", "timeout"} : setter' = [setter EXCEPT !.pc = "set", !.result = x]
  BY DEF SetEnd
<1>3. setter.pc = "check" /\ UNCHANGED <<hw, new, passed, acks, some, setting, reader>>
  BY DEF SetEnd
<1>4. setter' \in [pc : {"idle", "write", "wait", "check", "set"}, t : Int \X Int, acked : BOOLEAN,
                  result : {"none", "ok", "timeout"}]
  BY ONLY <1>1, <1>2, x \in {"ok", "timeout"} DEF RtcTypes
<1>5. setter'.pc = "set" /\ setter'.t = setter.t
  BY ONLY <1>1, <1>2 DEF RtcTypes
<1>6. QED
  BY <1>3, <1>4, <1>5, SetterGoesOn

LEMMA SetReturnKeeps ==
  ASSUME RtcInv, SetReturn
  PROVE  RtcInv'
<1>1. setter.pc = "set" /\ UNCHANGED <<hw, new, passed, acks, some, setting, reader>>
      /\ setter' = [pc |-> "idle", t |-> NoTime, acked |-> FALSE, result |-> "none"]
  BY DEF SetReturn, IdleSetter
<1>2. NoTime \in Int \X Int
  BY DEF NoTime
<1>3. setter' \in [pc : {"idle", "write", "wait", "check", "set"}, t : Int \X Int, acked : BOOLEAN,
                  result : {"none", "ok", "timeout"}]
  BY ONLY <1>1, <1>2
<1>4. setter'.pc = "idle"
  BY ONLY <1>1
<1>5. QED
  BY <1>1, <1>3, <1>4, SetterGoesOn

-----------------------------------------------------------------------------
\* A step of the reader leaves the clock and the setter alone.
LEMMA ReaderGoesOn ==
  ASSUME RtcInv,
         UNCHANGED <<hw, new, passed, acks, some, setting, setter>>,
         reader' \in [pc : {"idle", "first", "min", "hour", "day", "again", "done"}, first : Nat,
                       c : [day : Int, hour : Int, min : Int, sec : Int], tries : Nat, at : Int \X Int,
                       from : Int \X Int, secs : Nat, set : BOOLEAN, cut : BOOLEAN],
         Reading', Done'
  PROVE  RtcInv'
<1>1. /\ hw' = hw /\ new' = new /\ passed' = passed /\ acks' = acks /\ some' = some
      /\ setting' = setting /\ setter' = setter
  OBVIOUS
<1>2. RtcTypes /\ some = Fields /\ Unset /\ Set
  BY DEF RtcInv
<1>3. RtcTypes'
  BY ONLY <1>1, <1>2,
          reader' \in [pc : {"idle", "first", "min", "hour", "day", "again", "done"}, first : Nat,
                       c : [day : Int, hour : Int, min : Int, sec : Int], tries : Nat, at : Int \X Int,
                       from : Int \X Int, secs : Nat, set : BOOLEAN, cut : BOOLEAN]
     DEF RtcTypes
<1>4. Unset'
  BY ONLY <1>1, <1>2 DEF Unset
<1>5. Set'
  BY ONLY <1>1, <1>2 DEF Set
<1>6. QED
  BY ONLY <1>1, <1>2, <1>3, <1>4, <1>5, Reading', Done' DEF RtcInv

LEMMA IdleReaderType ==
  IdleReader \in [pc : {"idle", "first", "min", "hour", "day", "again", "done"}, first : Nat,
                  c : [day : Int, hour : Int, min : Int, sec : Int], tries : Nat, at : Int \X Int,
                  from : Int \X Int, secs : Nat, set : BOOLEAN, cut : BOOLEAN]
<1>1. NoTime \in Int \X Int
  BY DEF NoTime
<1>2. FieldsOf(NoTime) \in [day : Int, hour : Int, min : Int, sec : Int]
  <2>1. -1 \in Int /\ (0 \div 3600) \in Int /\ ((0 \div 60) % 60) \in Int /\ (0 % 60) \in Int
    OBVIOUS
  <2>2. NoTime[1] = -1 /\ NoTime[2] = 0
    BY DEF NoTime
  <2>3. QED
    BY ONLY <2>1, <2>2 DEF FieldsOf
<1>3. QED
  BY ONLY <1>1, <1>2 DEF IdleReader

LEMMA GetReturnKeeps ==
  ASSUME RtcInv, GetReturn
  PROVE  RtcInv'
<1>1. reader' = IdleReader /\ UNCHANGED <<hw, new, passed, acks, some, setting, setter>>
  BY DEF GetReturn
<1>2. reader'.pc = "idle"
  BY ONLY <1>1 DEF IdleReader
<1>3. Reading' /\ Done'
  BY ONLY <1>2 DEF Reading, Reads, Done
<1>4. QED
  BY <1>1, <1>3, IdleReaderType, ReaderGoesOn

\* The clock as it is set: the window of Set is the 32-bit one.
LEMMA SetShows ==
  ASSUME RtcInv, NoWrap, setting.t # NoTime
  PROVE  /\ ATime(setting.t) /\ SecondsOf(setting.t) \in Nat
         /\ setting.at \in Nat /\ passed \in Nat /\ setting.at <= passed /\ passed <= MaxSeconds
         /\ SecondsOf(setting.t) + MaxSeconds < 4294967296
         /\ ~setting.on =>
              /\ SecondsOf(setting.t) <= Word(ShownBy(hw))
              /\ Word(ShownBy(hw)) <= SecondsOf(setting.t) + (passed - setting.at)
<1>1. RtcTypes /\ Set
  BY DEF RtcInv
<1>2. setting.t \in NewTimes /\ setting.at <= passed
  BY ONLY <1>1, setting.t # NoTime DEF Set
<1>3. ATime(setting.t) /\ SecondsOf(setting.t) \in Nat
  BY <1>2, TimeTypes
<1>4. SecondsOf(setting.t) + MaxSeconds < 4294967296
  BY <1>2 DEF NoWrap
<1>5. setting.at \in Nat /\ passed \in Nat /\ passed <= MaxSeconds /\ Counters(hw)
  BY ONLY <1>1 DEF RtcTypes
<1>6. ASSUME ~setting.on
      PROVE  /\ SecondsOf(setting.t) <= Word(ShownBy(hw))
             /\ Word(ShownBy(hw)) <= SecondsOf(setting.t) + (passed - setting.at)
  <2>1. setter.pc # "write" /\ DOMAIN new = {}
    BY ONLY <1>1, <1>6, setting.t # NoTime DEF Set
  <2>2. /\ SecondsOf(setting.t) <= ShownBy(hw)
        /\ ShownBy(hw) <= SecondsOf(setting.t) + (passed - setting.at)
    BY ONLY <1>1, <2>1, setting.t # NoTime DEF Set
  <2>3. PICK s, t : s = ShownBy(hw) /\ t = SecondsOf(setting.t)
    OBVIOUS
  <2>4. s \in Nat
    BY ONLY <1>5, <2>3, CountIs
  <2>5. s < 4294967296
    BY ONLY <1>2, <1>3, <1>4, <1>5, <2>2, <2>3, <2>4, BoundsAre
  <2>6. Word(s) = s
    BY ONLY <2>4, <2>5, WordMore
  <2>7. QED
    BY ONLY <2>2, <2>3, <2>6
<1>7. QED
  BY ONLY <1>2, <1>3, <1>4, <1>5, <1>6

LEMMA GetBeginKeeps ==
  ASSUME RtcInv, NoWrap, GetBegin
  PROVE  RtcInv'
<1>1. /\ reader' = [IdleReader EXCEPT !.pc = IF setting.on THEN "done" ELSE "first",
                      !.at = IF setting.on THEN Wrap32(Plus(setting.t, passed - setting.at)) ELSE NoTime,
                      !.from = to_seconds(hw), !.set = setting.t # NoTime]
      /\ hw' = hw /\ new' = new /\ passed' = passed /\ acks' = acks /\ some' = some
      /\ setting' = setting /\ setter' = setter
  BY DEF GetBegin
<1>2. RtcTypes /\ Unset /\ Set
  BY DEF RtcInv
<1>3. PICK w, b, f : /\ w = (IF setting.on THEN Wrap32(Plus(setting.t, passed - setting.at)) ELSE NoTime)
                     /\ b = (setting.t # NoTime) /\ f = to_seconds(hw)
  OBVIOUS
<1>4. PICK p : p = (IF setting.on THEN "done" ELSE "first")
  OBVIOUS
<1>5. reader' = [IdleReader EXCEPT !.pc = p, !.at = w, !.from = f, !.set = b]
  BY ONLY <1>1, <1>3, <1>4
<1>6. reader' = [pc |-> p, first |-> 0, c |-> FieldsOf(NoTime), tries |-> 0, at |-> w,
                 from |-> f, secs |-> 0, set |-> b, cut |-> FALSE]
  <2>1. PICK k : k = FieldsOf(NoTime)
    OBVIOUS
  <2>2. IdleReader = [pc |-> "idle", first |-> 0, c |-> k, tries |-> 0, at |-> NoTime,
                      from |-> NoTime, secs |-> 0, set |-> FALSE, cut |-> FALSE]
    BY ONLY <2>1 DEF IdleReader
  <2>3. QED
    BY ONLY <1>5, <2>1, <2>2
<1>7. Counters(hw)
  BY ONLY <1>2 DEF RtcTypes
<1>8. ATime(f) /\ SecondsOf(f) = Word(ShownBy(hw))
  BY ONLY <1>3, <1>7, ShownIs
<1>9. ASSUME setting.on
      PROVE  /\ ATime(w) /\ setting.t # NoTime
             /\ SecondsOf(w) = SecondsOf(setting.t) + (passed - setting.at)
  <2>1. setting.t # NoTime
    BY ONLY <1>2, <1>9 DEF Unset
  <2>2. /\ ATime(setting.t) /\ SecondsOf(setting.t) \in Nat
        /\ setting.at \in Nat /\ passed \in Nat /\ setting.at <= passed /\ passed <= MaxSeconds
        /\ SecondsOf(setting.t) + MaxSeconds < 4294967296
    BY <2>1, SetShows
  <2>3. PICK n \in Nat : n = passed - setting.at
    BY ONLY <2>2
  <2>4. PICK q : q = Plus(setting.t, n)
    OBVIOUS
  <2>5. ATime(q) /\ SecondsOf(q) = SecondsOf(setting.t) + n
    BY ONLY <2>2, <2>4, n \in Nat, PlusIs
  <2>6. SecondsOf(q) < 4294967296 /\ SecondsOf(q) \in Nat
    BY ONLY <2>2, <2>3, <2>5, n \in Nat, BoundsAre
  <2>7. q[1] < 65536
    <3>1. PICK d, s : d = q[1] /\ s = q[2]
      OBVIOUS
    <3>2. d \in Nat /\ s \in Nat /\ 86400 * d + s < 4294967296
      BY ONLY <2>5, <2>6, <3>1 DEF ATime, SecondsOf
    <3>3. d < 65536
      BY ONLY <3>2
    <3>4. QED
      BY ONLY <3>1, <3>3
  <2>8. w = Wrap32(q)
    BY ONLY <1>3, <1>9, <2>3, <2>4
  <2>9. ATime(w) /\ SecondsOf(w) = Word(SecondsOf(q))
    BY ONLY <2>5, <2>7, <2>8, WrapIs
  <2>10. Word(SecondsOf(q)) = SecondsOf(q)
    BY ONLY <2>6, WordMore
  <2>11. QED
    BY ONLY <2>1, <2>3, <2>5, <2>9, <2>10
<1>10. w \in Int \X Int /\ f \in Int \X Int /\ b \in BOOLEAN /\ p \in {"done", "first"}
  <2>1. NoTime \in Int \X Int
    BY DEF NoTime
  <2>2. ~setting.on => w = NoTime
    BY ONLY <1>3
  <2>3. setting.on \in BOOLEAN
    BY ONLY <1>2 DEF RtcTypes
  <2>4. w \in Int \X Int
    BY <1>9, <2>1, <2>2, <2>3 DEF ATime
  <2>5. QED
    BY ONLY <1>3, <1>4, <1>8, <2>4 DEF ATime
<1>11. reader' \in [pc : {"idle", "first", "min", "hour", "day", "again", "done"}, first : Nat,
                    c : [day : Int, hour : Int, min : Int, sec : Int], tries : Nat, at : Int \X Int,
                    from : Int \X Int, secs : Nat, set : BOOLEAN, cut : BOOLEAN]
  <2>1. FieldsOf(NoTime) \in [day : Int, hour : Int, min : Int, sec : Int]
    <3>1. IdleReader.c = FieldsOf(NoTime)
      BY DEF IdleReader
    <3>2. QED
      BY ONLY <3>1, IdleReaderType
  <2>2. QED
    BY ONLY <1>6, <1>10, <2>1
<1>12. Reading'
  <2>1. SUFFICES ASSUME Reads' PROVE Reading'
    BY DEF Reading
  <2>2. p = "first" /\ ~setting.on
    BY <1>4, <1>6, <2>1 DEF Reads
  <2>3. ATime(f) /\ Word(ShownBy(hw)) = SecondsOf(f) + 0
    <3>1. SecondsOf(f) \in Nat
      BY ONLY <1>8 DEF ATime, SecondsOf
    <3>2. QED
      BY ONLY <1>8, <3>1
  <2>4. 0 <= ReadSeconds
    BY ONLY BoundsAre
  <2>5. Tried(reader, hw)'
    BY ONLY <1>6, <2>2 DEF Tried
  <2>6. reader'.secs = 0 /\ reader'.from = f /\ reader'.set = b
    BY ONLY <1>6
  <2>7. QED
    BY ONLY <1>1, <1>3, <2>2, <2>3, <2>4, <2>5, <2>6 DEF Reading
<1>13. Done'
  <2>1. CASE setting.on
    <3>1. /\ ATime(w) /\ setting.t # NoTime
          /\ SecondsOf(w) = SecondsOf(setting.t) + (passed - setting.at)
      BY <1>9, <2>1
    <3>2. /\ SecondsOf(setting.t) \in Nat /\ setting.at \in Nat /\ passed \in Nat
          /\ setting.at <= passed
      BY <3>1, SetShows
    <3>3. /\ SecondsOf(setting.t) <= SecondsOf(w)
          /\ SecondsOf(w) <= SecondsOf(setting.t) + (passed - setting.at)
      BY ONLY <3>1, <3>2
    <3>4. reader'.at = w /\ reader'.set = b /\ b = TRUE
      BY ONLY <1>3, <1>6, <3>1
    <3>5. QED
      BY ONLY <1>1, <3>1, <3>3, <3>4 DEF Done
  <2>2. CASE ~setting.on
    <3>1. reader'.pc # "done"
      BY ONLY <1>4, <1>6, <2>2
    <3>2. QED
      BY ONLY <3>1 DEF Done
  <2>3. QED
    BY ONLY <2>1, <2>2
<1>14. QED
  BY <1>1, <1>11, <1>12, <1>13, ReaderGoesOn

LEMMA ReadFieldKeeps ==
  ASSUME RtcInv, ReadField
  PROVE  RtcInv'
<1>1. /\ \/ reader.pc = "first" /\ reader' = [reader EXCEPT !.pc = "min", !.first = hw.sec]
         \/ reader.pc = "min"   /\ reader' = [reader EXCEPT !.pc = "hour", !.c.min = hw.min]
         \/ reader.pc = "hour"  /\ reader' = [reader EXCEPT !.pc = "day", !.c.hour = hw.hour]
         \/ reader.pc = "day"   /\ reader' = [reader EXCEPT !.pc = "again", !.c.day = hw.day]
      /\ hw' = hw /\ new' = new /\ passed' = passed /\ acks' = acks /\ some' = some
      /\ setting' = setting /\ setter' = setter
  BY DEF ReadField
<1>2. RtcTypes /\ Reading
  BY DEF RtcInv
<1>3. Counters(hw)
  BY ONLY <1>2 DEF RtcTypes
<1>4. CASE reader.pc = "first"
  <2>1. PICK x : x = hw.sec
    OBVIOUS
  <2>2. x \in Nat /\ x < 60
    BY ONLY <1>3, <2>1 DEF Counters
  <2>3. reader' = [reader EXCEPT !.pc = "min", !.first = x]
    BY ONLY <1>1, <1>4, <2>1
  <2>4. reader' \in [pc : {"idle", "first", "min", "hour", "day", "again", "done"}, first : Nat,
                         c : [day : Int, hour : Int, min : Int, sec : Int], tries : Nat, at : Int \X Int,
                         from : Int \X Int, secs : Nat, set : BOOLEAN, cut : BOOLEAN]
    BY ONLY <1>2, <2>2, <2>3 DEF RtcTypes
  <2>5. /\ reader'.pc = "min" /\ reader'.first = x
        /\ reader'.tries = reader.tries /\ reader'.secs = reader.secs
        /\ reader'.set = reader.set /\ reader'.cut = reader.cut /\ reader'.from = reader.from
    BY ONLY <1>2, <2>3 DEF RtcTypes
  <2>6. Reads /\ Reads'
    BY ONLY <1>4, <2>5 DEF Reads
  <2>7. ASSUME Tried(reader, hw) PROVE Tried(reader', hw')
    <3>1. 0 + reader.tries <= reader.secs
      BY ONLY <1>4, <2>7 DEF Tried
    <3>2. x = (x + 0) % 60
      BY ONLY <2>2
    <3>3. Same(reader', hw)
      BY ONLY <2>5 DEF Same
    <3>4. QED
      BY ONLY <1>1, <2>1, <2>2, <2>5, <3>1, <3>2, <3>3 DEF Tried
  <2>8. Reading'
    BY <1>1, <1>2, <2>5, <2>6, <2>7 DEF Reading
  <2>9. Done'
    BY ONLY <2>5 DEF Done
  <2>10. QED
    BY <1>1, <2>4, <2>8, <2>9, ReaderGoesOn
<1>5. CASE reader.pc = "min"
  <2>1. PICK x : x = hw.min
    OBVIOUS
  <2>2. x \in Nat
    BY ONLY <1>3, <2>1 DEF Counters
  <2>3. reader' = [reader EXCEPT !.pc = "hour", !.c.min = x]
    BY ONLY <1>1, <1>5, <2>1
  <2>4. PICK d : d = [reader.c EXCEPT !.min = x]
    OBVIOUS
  <2>5. reader' = [reader EXCEPT !.pc = "hour", !.c = d]
    BY ONLY <2>3, <2>4
  <2>6. d \in [day : Int, hour : Int, min : Int, sec : Int] /\ d.min = x
        /\ \A f \in Fields \ {"min"} : d[f] = reader.c[f]
    BY ONLY <1>2, <2>2, <2>4 DEF RtcTypes, Fields
  <2>7. reader' \in [pc : {"idle", "first", "min", "hour", "day", "again", "done"}, first : Nat,
                         c : [day : Int, hour : Int, min : Int, sec : Int], tries : Nat, at : Int \X Int,
                         from : Int \X Int, secs : Nat, set : BOOLEAN, cut : BOOLEAN]
    BY ONLY <1>2, <2>5, <2>6 DEF RtcTypes
  <2>8. /\ reader'.pc = "hour" /\ reader'.c = d /\ reader'.first = reader.first
        /\ reader'.tries = reader.tries /\ reader'.secs = reader.secs
        /\ reader'.set = reader.set /\ reader'.cut = reader.cut /\ reader'.from = reader.from
    BY ONLY <1>2, <2>5 DEF RtcTypes
  <2>9. Reads /\ Reads'
    BY ONLY <1>5, <2>8 DEF Reads
  <2>10. ASSUME Tried(reader, hw) PROVE Tried(reader', hw')
    <3>1. PICK n \in {0, 1, 2} :
            /\ n + reader.tries <= reader.secs
            /\ reader.first < 60 /\ hw.sec = (reader.first + n) % 60 /\ (n = 0 => Same(reader, hw))
      BY ONLY <1>5, <2>10 DEF Tried
    <3>2. n = 0 => Same(reader', hw)
      BY ONLY <1>5, <2>1, <2>6, <2>8, <3>1 DEF Same, Fields
    <3>3. QED
      BY ONLY <1>1, <2>8, <3>1, <3>2, n \in {0, 1, 2} DEF Tried
  <2>11. Reading'
    BY <1>1, <1>2, <2>8, <2>9, <2>10 DEF Reading
  <2>12. Done'
    BY ONLY <2>8 DEF Done
  <2>13. QED
    BY <1>1, <2>7, <2>11, <2>12, ReaderGoesOn
<1>6. CASE reader.pc = "hour"
  <2>1. PICK x : x = hw.hour
    OBVIOUS
  <2>2. x \in Nat
    BY ONLY <1>3, <2>1 DEF Counters
  <2>3. reader' = [reader EXCEPT !.pc = "day", !.c.hour = x]
    BY ONLY <1>1, <1>6, <2>1
  <2>4. PICK d : d = [reader.c EXCEPT !.hour = x]
    OBVIOUS
  <2>5. reader' = [reader EXCEPT !.pc = "day", !.c = d]
    BY ONLY <2>3, <2>4
  <2>6. d \in [day : Int, hour : Int, min : Int, sec : Int] /\ d.hour = x
        /\ \A f \in Fields \ {"hour"} : d[f] = reader.c[f]
    BY ONLY <1>2, <2>2, <2>4 DEF RtcTypes, Fields
  <2>7. reader' \in [pc : {"idle", "first", "min", "hour", "day", "again", "done"}, first : Nat,
                         c : [day : Int, hour : Int, min : Int, sec : Int], tries : Nat, at : Int \X Int,
                         from : Int \X Int, secs : Nat, set : BOOLEAN, cut : BOOLEAN]
    BY ONLY <1>2, <2>5, <2>6 DEF RtcTypes
  <2>8. /\ reader'.pc = "day" /\ reader'.c = d /\ reader'.first = reader.first
        /\ reader'.tries = reader.tries /\ reader'.secs = reader.secs
        /\ reader'.set = reader.set /\ reader'.cut = reader.cut /\ reader'.from = reader.from
    BY ONLY <1>2, <2>5 DEF RtcTypes
  <2>9. Reads /\ Reads'
    BY ONLY <1>6, <2>8 DEF Reads
  <2>10. ASSUME Tried(reader, hw) PROVE Tried(reader', hw')
    <3>1. PICK n \in {0, 1, 2} :
            /\ n + reader.tries <= reader.secs
            /\ reader.first < 60 /\ hw.sec = (reader.first + n) % 60 /\ (n = 0 => Same(reader, hw))
      BY ONLY <1>6, <2>10 DEF Tried
    <3>2. n = 0 => Same(reader', hw)
      BY ONLY <1>6, <2>1, <2>6, <2>8, <3>1 DEF Same, Fields
    <3>3. QED
      BY ONLY <1>1, <2>8, <3>1, <3>2, n \in {0, 1, 2} DEF Tried
  <2>11. Reading'
    BY <1>1, <1>2, <2>8, <2>9, <2>10 DEF Reading
  <2>12. Done'
    BY ONLY <2>8 DEF Done
  <2>13. QED
    BY <1>1, <2>7, <2>11, <2>12, ReaderGoesOn
<1>7. CASE reader.pc = "day"
  <2>1. PICK x : x = hw.day
    OBVIOUS
  <2>2. x \in Nat
    BY ONLY <1>3, <2>1 DEF Counters
  <2>3. reader' = [reader EXCEPT !.pc = "again", !.c.day = x]
    BY ONLY <1>1, <1>7, <2>1
  <2>4. PICK d : d = [reader.c EXCEPT !.day = x]
    OBVIOUS
  <2>5. reader' = [reader EXCEPT !.pc = "again", !.c = d]
    BY ONLY <2>3, <2>4
  <2>6. d \in [day : Int, hour : Int, min : Int, sec : Int] /\ d.day = x
        /\ \A f \in Fields \ {"day"} : d[f] = reader.c[f]
    BY ONLY <1>2, <2>2, <2>4 DEF RtcTypes, Fields
  <2>7. reader' \in [pc : {"idle", "first", "min", "hour", "day", "again", "done"}, first : Nat,
                         c : [day : Int, hour : Int, min : Int, sec : Int], tries : Nat, at : Int \X Int,
                         from : Int \X Int, secs : Nat, set : BOOLEAN, cut : BOOLEAN]
    BY ONLY <1>2, <2>5, <2>6 DEF RtcTypes
  <2>8. /\ reader'.pc = "again" /\ reader'.c = d /\ reader'.first = reader.first
        /\ reader'.tries = reader.tries /\ reader'.secs = reader.secs
        /\ reader'.set = reader.set /\ reader'.cut = reader.cut /\ reader'.from = reader.from
    BY ONLY <1>2, <2>5 DEF RtcTypes
  <2>9. Reads /\ Reads'
    BY ONLY <1>7, <2>8 DEF Reads
  <2>10. ASSUME Tried(reader, hw) PROVE Tried(reader', hw')
    <3>1. PICK n \in {0, 1, 2} :
            /\ n + reader.tries <= reader.secs
            /\ reader.first < 60 /\ hw.sec = (reader.first + n) % 60 /\ (n = 0 => Same(reader, hw))
      BY ONLY <1>7, <2>10 DEF Tried
    <3>2. n = 0 => Same(reader', hw)
      BY ONLY <1>7, <2>1, <2>6, <2>8, <3>1 DEF Same, Fields
    <3>3. QED
      BY ONLY <1>1, <2>8, <3>1, <3>2, n \in {0, 1, 2} DEF Tried
  <2>11. Reading'
    BY <1>1, <1>2, <2>8, <2>9, <2>10 DEF Reading
  <2>12. Done'
    BY ONLY <2>8 DEF Done
  <2>13. QED
    BY <1>1, <2>7, <2>11, <2>12, ReaderGoesOn
<1>8. QED
  BY ONLY <1>1, <1>4, <1>5, <1>6, <1>7

LEMMA SecondsType ==
  ASSUME NEW c \in [day : Int, hour : Int, min : Int, sec : Int]
  PROVE  to_seconds(c) \in Int \X Int
<1>1. PICK d, s : d = c.day /\ s = 3600 * c.hour + 60 * c.min + c.sec
  OBVIOUS
<1>2. d \in Int /\ s \in Int
  BY ONLY <1>1, c \in [day : Int, hour : Int, min : Int, sec : Int]
<1>3. PICK t : t = <<d, s>>
  OBVIOUS
<1>4. to_seconds(c) = Wrap32(t)
  BY ONLY <1>1, <1>3 DEF to_seconds
<1>5. \/ Wrap32(t) = <<d, s>>
      \/ Wrap32(t) = <<d - 49710, s - 23296>>
      \/ Wrap32(t) = <<d - 49711, s - 23296 + 86400>>
  BY ONLY <1>3 DEF Wrap32
<1>6. QED
  BY ONLY <1>2, <1>4, <1>5

LEMMA ReadAgainKeeps ==
  ASSUME RtcInv, NoWrap, ReadSeconds <= 2, ReadAgain
  PROVE  RtcInv'
<1>1. PICK c : c = [reader.c EXCEPT !.sec = hw.sec]
  OBVIOUS
<1>2. PICK a : a = to_seconds(c)
  OBVIOUS
<1>3. /\ reader.pc = "again"
      /\ reader' = IF hw.sec = reader.first \/ reader.tries = 2
                   THEN [reader EXCEPT !.pc = "done", !.c = c, !.at = a]
                   ELSE [reader EXCEPT !.pc = "first", !.c = c, !.tries = @ + 1]
      /\ hw' = hw /\ new' = new /\ passed' = passed /\ acks' = acks /\ some' = some
      /\ setting' = setting /\ setter' = setter
  BY <1>1, <1>2 DEF ReadAgain, Agree
<1>4. RtcTypes /\ Reading /\ Unset
  BY DEF RtcInv
<1>5. Counters(hw)
  BY ONLY <1>4 DEF RtcTypes
<1>6. PICK s \in Nat : s = hw.sec
  BY ONLY <1>5 DEF Counters
<1>7. /\ c \in [day : Int, hour : Int, min : Int, sec : Int]
      /\ c.day = reader.c.day /\ c.hour = reader.c.hour /\ c.min = reader.c.min /\ c.sec = hw.sec
  <2>1. c = [reader.c EXCEPT !.sec = s]
    BY ONLY <1>1, <1>6
  <2>2. QED
    BY ONLY <1>4, <1>6, <2>1, s \in Nat DEF RtcTypes
<1>8. a \in Int \X Int
  BY ONLY <1>2, <1>7, SecondsType
<1>9. reader.first \in Nat /\ reader.tries \in Nat /\ reader.secs \in Nat
  BY ONLY <1>4 DEF RtcTypes
<1>10. Reads
  BY ONLY <1>3 DEF Reads
\* No second passes in a try that is taken, and one at least in one that is not.
<1>11. ASSUME ~reader.cut
       PROVE  /\ ~setting.on /\ (reader.set <=> setting.t # NoTime)
              /\ reader.secs <= ReadSeconds
              /\ ~reader.set => /\ ATime(reader.from)
                                /\ Word(ShownBy(hw)) = SecondsOf(reader.from) + reader.secs
              /\ hw.sec = reader.first \/ reader.tries = 2 => a = to_seconds(hw)
              /\ ~(hw.sec = reader.first \/ reader.tries = 2) => reader.tries + 1 <= reader.secs
  <2>1. /\ ~setting.on /\ (reader.set <=> setting.t # NoTime)
        /\ reader.secs <= ReadSeconds
        /\ ~reader.set => /\ ATime(reader.from)
                          /\ Word(ShownBy(hw)) = SecondsOf(reader.from) + reader.secs
        /\ Tried(reader, hw)
    BY ONLY <1>4, <1>10, <1>11 DEF Reading
  <2>2. PICK n \in {0, 1, 2} :
          /\ n + reader.tries <= reader.secs
          /\ reader.first < 60 /\ hw.sec = (reader.first + n) % 60 /\ (n = 0 => Same(reader, hw))
    BY ONLY <1>3, <2>1 DEF Tried
  <2>3. hw.sec = reader.first \/ reader.tries = 2 => n = 0
    <3>1. n # 0 => (reader.first + n) % 60 # reader.first
      BY ONLY <1>9, <2>2, n \in {0, 1, 2}
    <3>2. reader.tries = 2 => n = 0
      BY ONLY <1>9, <2>1, <2>2, n \in {0, 1, 2}, ReadSeconds <= 2, BoundsAre
    <3>3. QED
      BY ONLY <2>2, <3>1, <3>2
  <2>4. n = 0 => a = to_seconds(hw)
    <3>1. SUFFICES ASSUME n = 0 PROVE a = to_seconds(hw)
      OBVIOUS
    <3>2. c.day = hw.day /\ c.hour = hw.hour /\ c.min = hw.min /\ c.sec = hw.sec
      BY ONLY <1>3, <1>7, <2>2, <3>1 DEF Same
    <3>3. QED
      BY ONLY <1>2, <3>2 DEF to_seconds
  <2>5. ~(hw.sec = reader.first \/ reader.tries = 2) => reader.tries + 1 <= reader.secs
    <3>1. SUFFICES ASSUME hw.sec # reader.first PROVE reader.tries + 1 <= reader.secs
      OBVIOUS
    <3>2. n # 0
      <4>1. (reader.first + 0) % 60 = reader.first
        BY ONLY <1>9, <2>2
      <4>2. QED
        BY ONLY <2>2, <3>1, <4>1
    <3>3. QED
      BY ONLY <1>9, <2>2, <3>2, n \in {0, 1, 2}
  <2>6. QED
    BY ONLY <2>1, <2>3, <2>4, <2>5
<1>12. CASE hw.sec = reader.first \/ reader.tries = 2
  <2>1. reader' = [reader EXCEPT !.pc = "done", !.c = c, !.at = a]
    BY ONLY <1>3, <1>12
  <2>2. reader' \in [pc : {"idle", "first", "min", "hour", "day", "again", "done"}, first : Nat,
                         c : [day : Int, hour : Int, min : Int, sec : Int], tries : Nat, at : Int \X Int,
                         from : Int \X Int, secs : Nat, set : BOOLEAN, cut : BOOLEAN]
    BY ONLY <1>4, <1>7, <1>8, <2>1 DEF RtcTypes
  <2>3. /\ reader'.pc = "done" /\ reader'.at = a /\ reader'.set = reader.set
        /\ reader'.cut = reader.cut /\ reader'.from = reader.from
    BY ONLY <1>4, <2>1 DEF RtcTypes
  <2>4. Reading'
    BY ONLY <2>3 DEF Reading, Reads
  <2>5. Done'
    <3>1. SUFFICES ASSUME ~reader.cut PROVE Done'
      BY <2>3 DEF Done
    <3>2. /\ ~setting.on /\ (reader.set <=> setting.t # NoTime)
          /\ ~reader.set => /\ ATime(reader.from)
                            /\ Word(ShownBy(hw)) = SecondsOf(reader.from) + reader.secs
          /\ a = to_seconds(hw)
      BY <1>11, <1>12, <3>1
    <3>3. ATime(a) /\ SecondsOf(a) = Word(ShownBy(hw))
      BY ONLY <1>5, <3>2, ShownIs
    <3>4. ~reader.set =>
            /\ ATime(reader.from) /\ SecondsOf(reader.from) <= SecondsOf(a)
            /\ SecondsOf(a) <= Word(ShownBy(hw))
      <4>1. SUFFICES ASSUME ~reader.set
            PROVE  /\ ATime(reader.from) /\ SecondsOf(reader.from) <= SecondsOf(a)
                   /\ SecondsOf(a) <= Word(ShownBy(hw))
        OBVIOUS
      <4>2. SecondsOf(reader.from) \in Nat
        BY ONLY <3>2, <4>1 DEF ATime, SecondsOf
      <4>3. QED
        BY ONLY <1>9, <3>2, <3>3, <4>1, <4>2
    <3>5. reader.set =>
            /\ SecondsOf(setting.t) <= SecondsOf(a)
            /\ SecondsOf(a) <= SecondsOf(setting.t) + (passed - setting.at)
      <4>1. SUFFICES ASSUME reader.set
            PROVE  /\ SecondsOf(setting.t) <= SecondsOf(a)
                   /\ SecondsOf(a) <= SecondsOf(setting.t) + (passed - setting.at)
        OBVIOUS
      <4>2. setting.t # NoTime
        BY ONLY <3>2, <4>1
      <4>3. QED
        BY <3>2, <3>3, <4>2, SetShows
    <3>6. QED
      BY ONLY <1>3, <2>3, <3>2, <3>3, <3>4, <3>5 DEF Done
  <2>6. QED
    BY <1>3, <2>2, <2>4, <2>5, ReaderGoesOn
<1>13. CASE ~(hw.sec = reader.first \/ reader.tries = 2)
  <2>1. reader' = [reader EXCEPT !.pc = "first", !.c = c, !.tries = @ + 1]
    BY ONLY <1>3, <1>13
  <2>2. reader.tries + 1 \in Nat
    BY ONLY <1>9
  <2>3. reader' \in [pc : {"idle", "first", "min", "hour", "day", "again", "done"}, first : Nat,
                         c : [day : Int, hour : Int, min : Int, sec : Int], tries : Nat, at : Int \X Int,
                         from : Int \X Int, secs : Nat, set : BOOLEAN, cut : BOOLEAN]
    BY ONLY <1>4, <1>7, <2>1, <2>2 DEF RtcTypes
  <2>4. /\ reader'.pc = "first" /\ reader'.tries = reader.tries + 1 /\ reader'.secs = reader.secs
        /\ reader'.set = reader.set /\ reader'.cut = reader.cut /\ reader'.from = reader.from
    BY ONLY <1>4, <2>1 DEF RtcTypes
  <2>5. Reading'
    <3>1. SUFFICES ASSUME ~reader.cut PROVE Reading'
      BY <2>4 DEF Reading
    <3>2. /\ ~setting.on /\ (reader.set <=> setting.t # NoTime)
          /\ reader.secs <= ReadSeconds
          /\ ~reader.set => /\ ATime(reader.from)
                            /\ Word(ShownBy(hw)) = SecondsOf(reader.from) + reader.secs
          /\ reader.tries + 1 <= reader.secs
      BY <1>11, <1>13, <3>1
    <3>3. Tried(reader', hw')
      <4>1. 0 + reader'.tries <= reader'.secs
        BY ONLY <1>9, <2>4, <3>2
      <4>2. QED
        BY ONLY <2>4, <4>1 DEF Tried
    <3>4. QED
      BY ONLY <1>3, <2>4, <3>2, <3>3 DEF Reading
  <2>6. Done'
    BY ONLY <2>4 DEF Done
  <2>7. QED
    BY <1>3, <2>3, <2>5, <2>6, ReaderGoesOn
<1>14. QED
  BY ONLY <1>12, <1>13

\* The window in which the property wants the clock that was set, in seconds.
LEMMA WindowIs ==
  ASSUME NEW a, NEW t, NEW n \in Nat, ATime(a), ATime(t),
         SecondsOf(t) <= SecondsOf(a), SecondsOf(a) <= SecondsOf(t) + n
  PROVE  ~Less(a, t) /\ ~Less(Plus(t, n), a)
<1>1. PICK q : q = Plus(t, n)
  OBVIOUS
<1>2. ATime(q) /\ SecondsOf(q) = SecondsOf(t) + n
  BY ONLY <1>1, ATime(t), n \in Nat, PlusIs
<1>3. (Less(a, t) <=> SecondsOf(a) < SecondsOf(t)) /\ (Less(q, a) <=> SecondsOf(q) < SecondsOf(a))
  BY ONLY <1>2, ATime(a), ATime(t), LessIs
<1>4. PICK x, y : x = SecondsOf(a) /\ y = SecondsOf(t)
  OBVIOUS
<1>5. x \in Nat /\ y \in Nat
  BY ONLY <1>4, ATime(a), ATime(t) DEF ATime, SecondsOf
<1>6. ~(x < y) /\ ~(y + n < x)
  BY ONLY <1>4, <1>5, n \in Nat, SecondsOf(t) <= SecondsOf(a), SecondsOf(a) <= SecondsOf(t) + n
<1>7. QED
  BY ONLY <1>1, <1>2, <1>3, <1>4, <1>6

LEMMA ReadsATimeIs ==
  ASSUME RtcInv, NoWrap
  PROVE  ReadsATime
<1>1. RtcTypes /\ Unset /\ Set /\ Done
  BY DEF RtcInv
<1>2. Counters(hw)
  BY ONLY <1>1 DEF RtcTypes
<1>3. PICK g : g = to_seconds(hw)
  OBVIOUS
<1>4. ATime(g) /\ SecondsOf(g) = Word(ShownBy(hw))
  BY ONLY <1>2, <1>3, ShownIs
<1>5. ASSUME reader.pc = "done", ~reader.cut, ~reader.set
      PROVE  ~Less(reader.at, reader.from) /\ ~Less(g, reader.at)
  <2>1. /\ ATime(reader.at) /\ ATime(reader.from) /\ SecondsOf(reader.from) <= SecondsOf(reader.at)
        /\ SecondsOf(reader.at) <= Word(ShownBy(hw))
    BY ONLY <1>1, <1>5 DEF Done
  <2>2. /\ Less(reader.at, reader.from) <=> SecondsOf(reader.at) < SecondsOf(reader.from)
        /\ Less(g, reader.at) <=> SecondsOf(g) < SecondsOf(reader.at)
    BY ONLY <1>4, <2>1, LessIs
  <2>3. PICK x, y, z : x = SecondsOf(reader.at) /\ y = SecondsOf(reader.from) /\ z = SecondsOf(g)
    OBVIOUS
  <2>4. x \in Nat /\ y \in Nat /\ z \in Nat
    BY ONLY <1>4, <2>1, <2>3 DEF ATime, SecondsOf
  <2>5. ~(x < y) /\ ~(z < x)
    BY ONLY <1>4, <2>1, <2>3, <2>4
  <2>6. QED
    BY ONLY <2>2, <2>3, <2>5
<1>6. ASSUME reader.pc = "done", ~reader.cut, reader.set
      PROVE  /\ ~Less(reader.at, setting.t)
             /\ ~Less(Plus(setting.t, passed - setting.at), reader.at)
  <2>1. /\ ATime(reader.at) /\ setting.t # NoTime
        /\ SecondsOf(setting.t) <= SecondsOf(reader.at)
        /\ SecondsOf(reader.at) <= SecondsOf(setting.t) + (passed - setting.at)
    BY ONLY <1>1, <1>6 DEF Done
  <2>2. ATime(setting.t) /\ setting.at \in Nat /\ passed \in Nat /\ setting.at <= passed
    BY <2>1, SetShows
  <2>3. PICK n \in Nat : n = passed - setting.at
    BY ONLY <2>2
  <2>4. SecondsOf(reader.at) <= SecondsOf(setting.t) + n
    BY ONLY <2>1, <2>3
  <2>5. ~Less(reader.at, setting.t) /\ ~Less(Plus(setting.t, n), reader.at)
    BY ONLY <2>1, <2>2, <2>4, n \in Nat, WindowIs
  <2>6. QED
    BY ONLY <2>3, <2>5
<1>7. ASSUME setter.pc = "set"
      PROVE  ~Less(g, setter.t) /\ ~Less(Plus(setter.t, MaxSeconds + 3), g)
  <2>1. setting.t # NoTime
    <3>1. setter.pc # "idle"
      BY ONLY <1>7
    <3>2. QED
      BY ONLY <1>1, <3>1 DEF Unset
  <2>2. ~setting.on /\ setter.t = setting.t
    BY ONLY <1>1, <1>7, <2>1 DEF Set
  <2>3. /\ ATime(setting.t) /\ SecondsOf(setting.t) \in Nat
        /\ setting.at \in Nat /\ passed \in Nat /\ setting.at <= passed /\ passed <= MaxSeconds
        /\ SecondsOf(setting.t) <= Word(ShownBy(hw))
        /\ Word(ShownBy(hw)) <= SecondsOf(setting.t) + (passed - setting.at)
    BY <2>1, <2>2, SetShows
  <2>4. PICK n \in Nat : n = MaxSeconds + 3
    BY ONLY BoundsAre
  <2>5. SecondsOf(setting.t) <= SecondsOf(g) /\ SecondsOf(g) <= SecondsOf(setting.t) + n
    <3>1. SecondsOf(g) \in Nat
      BY ONLY <1>4 DEF ATime, SecondsOf
    <3>2. QED
      BY ONLY <1>4, <2>3, <2>4, <3>1, n \in Nat, BoundsAre
  <2>6. ~Less(g, setting.t) /\ ~Less(Plus(setting.t, n), g)
    BY ONLY <1>4, <2>3, <2>5, n \in Nat, WindowIs
  <2>7. QED
    BY ONLY <2>2, <2>4, <2>6
<1>8. QED
  BY <1>3, <1>5, <1>6, <1>7 DEF ReadsATime

LEMMA RtcInvKept ==
  ASSUME RtcInv, NoWrap, ReadSeconds <= 2, [RtcNext]_rtcvars
  PROVE  RtcInv'
<1>1. CASE UNCHANGED rtcvars
  <2>1. /\ hw' = hw /\ new' = new /\ passed' = passed /\ acks' = acks /\ setting' = setting
        /\ some' = some /\ setter' = setter /\ reader' = reader
    BY ONLY <1>1 DEF rtcvars
  <2>2. RtcTypes /\ some = Fields /\ Unset /\ Set /\ Reading /\ Done
    BY DEF RtcInv
  <2>3. RtcTypes'
    BY ONLY <2>1, <2>2 DEF RtcTypes
  <2>4. Unset'
    BY ONLY <2>1, <2>2 DEF Unset
  <2>5. Set'
    BY ONLY <2>1, <2>2 DEF Set
  <2>6. Reading'
    BY ONLY <2>1, <2>2 DEF Reading, Reads
  <2>7. Done'
    BY ONLY <2>1, <2>2 DEF Done
  <2>8. QED
    BY ONLY <2>1, <2>2, <2>3, <2>4, <2>5, <2>6, <2>7 DEF RtcInv
<1>2. CASE Second
  BY <1>2, SecondKeeps
<1>3. CASE \E f \in Fields : Take(f)
  BY <1>3, TakeKeeps
<1>4. CASE \E t \in NewTimes : SetBegin(t)
  BY <1>4, SetBeginKeeps
<1>5. CASE SetWrite
  BY <1>5, SetWriteKeeps
<1>6. CASE SetWaited
  BY <1>6, SetWaitedKeeps
<1>7. CASE SetEnd
  BY <1>7, SetEndKeeps
<1>8. CASE SetReturn
  BY <1>8, SetReturnKeeps
<1>9. CASE GetBegin
  BY <1>9, GetBeginKeeps
<1>10. CASE ReadField
  BY <1>10, ReadFieldKeeps
<1>11. CASE ReadAgain
  BY <1>11, ReadAgainKeeps
<1>12. CASE GetReturn
  BY <1>12, GetReturnKeeps
<1>13. QED
  BY <1>1, <1>2, <1>3, <1>4, <1>5, <1>6, <1>7, <1>8, <1>9, <1>10, <1>11, <1>12 DEF RtcNext

\* Whether the RTC takes times does not change.
LEMMA AcksStay ==
  ASSUME [RtcNext]_rtcvars
  PROVE  acks' = acks
BY DEF RtcNext, rtcvars, Second, Take, SetBegin, SetWrite, SetWaited, SetEnd, SetReturn, GetBegin,
       ReadField, ReadAgain, GetReturn

\* ReadsATime, for an RTC that takes the times written to it (acks): before the clock
\* is set, rtc_get returns a time the clock showed during the call; from rtc_set on,
\* the time being set plus the seconds since, never a mixture of the fields of both.
\* NoWrap: neither the 32 bits of a time nor the day counter run over meanwhile.
\* ReadSeconds <= 2: read_counters takes its third try as it is.
THEOREM TimeIsRead ==
  ASSUME NoWrap, ReadSeconds <= 2
  PROVE  RtcSpec => [](acks => ReadsATime)
<1>1. RtcInit => (acks => RtcInv)
  <2>0. RtcInit => acks = TRUE \/ acks = FALSE
    BY RtcAssumption DEF RtcInit
  <2>1. SUFFICES ASSUME RtcInit, acks PROVE RtcInv
    OBVIOUS
  <2>2. acks = TRUE
    BY <2>0, <2>1
  <2>3. QED
    BY <2>1, <2>2, RtcInitInv
<1>2. (acks => RtcInv) /\ [RtcNext]_rtcvars => (acks => RtcInv)'
  <2>1. SUFFICES ASSUME acks => RtcInv, [RtcNext]_rtcvars, acks' PROVE RtcInv'
    OBVIOUS
  <2>2. RtcInv
    BY <2>1, AcksStay
  <2>3. QED
    BY <2>1, <2>2, RtcInvKept
<1>3. (acks => RtcInv) => (acks => ReadsATime)
  BY ReadsATimeIs
<1>4. QED
  BY <1>1, <1>2, <1>3, PTL DEF RtcSpec
=============================================================================
