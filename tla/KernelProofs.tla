---------------------------- MODULE KernelProofs ----------------------------
(***************************************************************************)
(* Theorems about Kernel, for every number of threads, priorities and        *)
(* mutexes: its lists and types, who owns what, when a boost ends and what   *)
(* mutex_lock reports.  All follow from one inductive invariant, IInv.       *)
(*                                                                         *)
(* First what each helper of ThreadOps returns when it is given well-formed   *)
(* kernel data; then what the helpers of thread.c do to the kernel's data as  *)
(* a whole: each lemma says that a helper called on well-formed data leaves   *)
(* well-formed data, and which of the threads' fields it changed.             *)
(***************************************************************************)
EXTENDS Kernel, WellFoundedInduction, SequenceTheorems, TLAPS

\* A function on 1 .. n is a sequence of length n.
LEMMA IsSequence ==
  ASSUME NEW n \in Nat, NEW S, NEW f \in [1 .. n -> S]
  PROVE  /\ f \in Seq(S) /\ Len(f) = n
         /\ DOMAIN f = 1 .. n
OBVIOUS

\* A nonempty set of naturals has a least element.
LEMMA LeastNat ==
  ASSUME NEW S \in SUBSET Nat, S # {}
  PROVE  \E n \in S : \A m \in S : n <= m
<1>1. PICK n \in S : \A m \in S : ~(<<m, n>> \in OpToRel(<, Nat))
  BY NatLessThanWellFounded, WFMin
<1>2. ASSUME NEW m \in S PROVE n <= m
  <2>1. n \in Nat /\ m \in Nat
    BY <1>1
  <2>2. m < n => <<m, n>> \in OpToRel(<, Nat)
    <3> SUFFICES ASSUME m < n PROVE <<m, n>> \in {r \in Nat \X Nat : r[1] < r[2]}
      BY DEF OpToRel
    <3> QED BY <2>1
  <2>3. ~(m < n)
    BY <1>1, <2>2
  <2> QED BY <2>1, <2>3
<1> QED BY <1>2

\* A nonempty set of numbers up to a bound has a greatest element.
LEMMA GreatestNat ==
  ASSUME NEW b \in Nat, NEW S \in SUBSET (0 .. b), S # {}
  PROVE  \E n \in S : \A m \in S : m <= n
<1> DEFINE D == {d \in Nat : \E n \in S : d = b - n}
<1>1. D # {} /\ D \in SUBSET Nat
  <2>1. PICK n \in S : TRUE OBVIOUS
  <2>2. n \in 0 .. b BY <2>1
  <2>3. b - n \in Nat BY <2>2
  <2>4. b - n \in D BY <2>1, <2>3
  <2> QED BY <2>4
<1>2. PICK d \in D : \A e \in D : d <= e
  <2> HIDE DEF D
  <2> QED BY <1>1, LeastNat
<1>3. PICK n \in S : d = b - n
  BY <1>2
<1>4. ASSUME NEW m \in S PROVE m <= n
  <2>1. n \in 0 .. b /\ m \in 0 .. b BY <1>3
  <2>2. b - m \in Nat BY <2>1
  <2>3. b - m \in D BY <2>2
  <2>4. d <= b - m BY <2>3, <1>2
  <2> QED BY <2>1, <2>4, <1>3
<1> QED BY <1>4

\* The place the list walks stop at exists: the first element in over, or
\* the end of the list.
LEMMA FirstPlace ==
  ASSUME NEW A, NEW s \in Seq(A), NEW over
  PROVE  \E j \in 1 .. Len(s) + 1 :
            /\ \A l \in 1 .. j - 1 : s[l] \notin over
            /\ j <= Len(s) => s[j] \in over
<1> DEFINE P == {j \in 1 .. Len(s) + 1 : j <= Len(s) => s[j] \in over}
<1>1. Len(s) \in Nat
  OBVIOUS
<1>2. P \in SUBSET Nat /\ Len(s) + 1 \in P
  BY <1>1
<1>3. PICK j \in P : \A m \in P : j <= m
  <2> HIDE DEF P
  <2> QED BY <1>2, LeastNat
<1>4. ASSUME NEW l \in 1 .. j - 1 PROVE s[l] \notin over
  <2>1. l \in 1 .. Len(s) + 1 /\ l <= Len(s) /\ ~(j <= l)
    BY <1>1, <1>3
  <2>2. l \notin P
    BY <2>1, <1>3
  <2> QED BY <2>1, <2>2
<1> QED BY <1>3, <1>4

\* Inserting puts t, and only t, into the list.
LEMMA InsertElems ==
  ASSUME NEW A, NEW s \in Seq(A), NEW t \in A, NEW over
  PROVE  /\ InsertBefore(s, t, over) \in Seq(A)
         /\ Len(InsertBefore(s, t, over)) = Len(s) + 1
         /\ Elems(InsertBefore(s, t, over)) = Elems(s) \cup {t}
<1> DEFINE Stop(j) == /\ \A l \in 1 .. j - 1 : s[l] \notin over
                      /\ j <= Len(s) => s[j] \in over
           i == CHOOSE j \in 1 .. Len(s) + 1 : Stop(j)
           r == [j \in 1 .. Len(s) + 1 |->
                   IF j < i THEN s[j] ELSE IF j = i THEN t ELSE s[j - 1]]
<1>1. i \in 1 .. Len(s) + 1
  <2>1. \E j \in 1 .. Len(s) + 1 : Stop(j) BY FirstPlace
  <2> HIDE DEF Stop
  <2> QED BY <2>1
<1>2. InsertBefore(s, t, over) = r
  BY DEF InsertBefore
<1> HIDE DEF i
<1>3. Len(s) \in Nat /\ DOMAIN s = 1 .. Len(s) /\ \A j \in 1 .. Len(s) : s[j] \in A
  OBVIOUS
<1>4. \A j \in 1 .. Len(s) + 1 : r[j] \in A
  BY <1>1, <1>3
<1>5. r \in Seq(A) /\ Len(r) = Len(s) + 1 /\ DOMAIN r = 1 .. Len(s) + 1
  <2>1. Len(s) + 1 \in Nat /\ r \in [1 .. Len(s) + 1 -> A]
    BY <1>3, <1>4
  <2> HIDE DEF r
  <2> QED BY <2>1, IsSequence
<1>6. Elems(r) \subseteq Elems(s) \cup {t}
  BY <1>1, <1>3, <1>5 DEF Elems
<1>7. t \in Elems(r)
  BY <1>1, <1>5 DEF Elems
<1>8. ASSUME NEW j \in 1 .. Len(s) PROVE s[j] \in Elems(r)
  <2>1. CASE j < i
    <3>1. j \in 1 .. Len(s) + 1 /\ r[j] = s[j] BY <2>1, <1>1, <1>3
    <3> QED BY <3>1, <1>5 DEF Elems
  <2>2. CASE ~(j < i)
    <3>1. j + 1 \in 1 .. Len(s) + 1 /\ r[j + 1] = s[j] BY <2>2, <1>1, <1>3
    <3> QED BY <3>1, <1>5 DEF Elems
  <2> QED BY <2>1, <2>2
<1>9. Elems(s) \subseteq Elems(r)
  BY <1>3, <1>8 DEF Elems
<1> HIDE DEF r
<1> QED BY <1>2, <1>5, <1>6, <1>7, <1>9

\* Removing takes nothing else out of the list.
LEMMA WithoutElems ==
  ASSUME NEW A, NEW s \in Seq(A), NEW t
  PROVE  /\ Without(s, t) \in Seq(A)
         /\ Elems(Without(s, t)) \subseteq Elems(s)
         /\ Elems(s) \ {t} \subseteq Elems(Without(s, t))
<1>1. CASE t \notin Elems(s)
  BY <1>1 DEF Without
<1>2. CASE t \in Elems(s)
  <2> DEFINE i == CHOOSE j \in DOMAIN s : s[j] = t
             r == [j \in 1 .. Len(s) - 1 |-> IF j < i THEN s[j] ELSE s[j + 1]]
  <2>1. i \in DOMAIN s /\ s[i] = t
    BY <1>2 DEF Elems
  <2>2. Without(s, t) = r
    BY <1>2 DEF Without
  <2> HIDE DEF i
  <2>3. Len(s) \in Nat /\ DOMAIN s = 1 .. Len(s) /\ \A j \in 1 .. Len(s) : s[j] \in A
    OBVIOUS
  <2>4. Len(s) - 1 \in Nat /\ \A j \in 1 .. Len(s) - 1 : r[j] \in A
    BY <2>1, <2>3
  <2>5. r \in Seq(A) /\ DOMAIN r = 1 .. Len(s) - 1
    <3>1. r \in [1 .. Len(s) - 1 -> A]
      BY <2>4
    <3> HIDE DEF r
    <3> QED BY <2>4, <3>1, IsSequence
  <2>6. Elems(r) \subseteq Elems(s)
    BY <2>3, <2>5 DEF Elems
  <2>7. ASSUME NEW j \in 1 .. Len(s), s[j] # t PROVE s[j] \in Elems(r)
    <3>1. CASE j < i
      <4>1. j \in 1 .. Len(s) - 1 /\ r[j] = s[j] BY <3>1, <2>1, <2>3
      <4> QED BY <4>1, <2>5 DEF Elems
    <3>2. CASE ~(j < i)
      <4>1. j - 1 \in 1 .. Len(s) - 1 /\ r[j - 1] = s[j]
        BY <3>2, <2>1, <2>3, <2>7
      <4> QED BY <4>1, <2>5 DEF Elems
    <3> QED BY <3>1, <3>2
  <2>8. Elems(s) \ {t} \subseteq Elems(r)
    BY <2>3, <2>7 DEF Elems
  <2> HIDE DEF r
  <2> QED BY <2>2, <2>5, <2>6, <2>8
<1> QED BY <1>1, <1>2

\* Lists without repetition stay so, and lose exactly the removed thread.
LEMMA InsertInj ==
  ASSUME NEW A, NEW s \in Seq(A), NEW t \in A, NEW over,
         Inj(s), t \notin Elems(s)
  PROVE  Inj(InsertBefore(s, t, over))
<1> DEFINE Stop(j) == /\ \A l \in 1 .. j - 1 : s[l] \notin over
                      /\ j <= Len(s) => s[j] \in over
           i == CHOOSE j \in 1 .. Len(s) + 1 : Stop(j)
           r == [j \in 1 .. Len(s) + 1 |->
                   IF j < i THEN s[j] ELSE IF j = i THEN t ELSE s[j - 1]]
<1>1. i \in 1 .. Len(s) + 1
  <2>1. \E j \in 1 .. Len(s) + 1 : Stop(j) BY FirstPlace
  <2> HIDE DEF Stop
  <2> QED BY <2>1
<1>2. InsertBefore(s, t, over) = r
  BY DEF InsertBefore
<1> HIDE DEF i
<1>3. /\ Len(s) \in Nat /\ DOMAIN s = 1 .. Len(s)
      /\ \A j \in 1 .. Len(s) : s[j] # t
      /\ \A j, l \in 1 .. Len(s) : s[j] = s[l] => j = l
  BY DEF Elems, Inj
<1>4. ASSUME NEW j \in 1 .. Len(s) + 1, NEW l \in 1 .. Len(s) + 1, r[j] = r[l]
      PROVE  j = l
  <2> DEFINE At(n) == IF n < i THEN n ELSE n - 1
  <2>1. \A n \in 1 .. Len(s) + 1 : n # i => At(n) \in 1 .. Len(s) /\ r[n] = s[At(n)]
    BY <1>1, <1>3
  <2>2. r[i] = t
    BY <1>1
  <2>3. CASE j = i \/ l = i
    BY <2>1, <2>2, <2>3, <1>3, <1>4
  <2>4. CASE j # i /\ l # i
    <3>1. At(j) = At(l) BY <2>1, <2>4, <1>3, <1>4
    <3> QED BY <3>1, <2>4, <1>1
  <2> QED BY <2>3, <2>4
<1>5. DOMAIN r = 1 .. Len(s) + 1
  OBVIOUS
<1> HIDE DEF r
<1> QED BY <1>2, <1>4, <1>5 DEF Inj

LEMMA WithoutInj ==
  ASSUME NEW A, NEW s \in Seq(A), NEW t, Inj(s)
  PROVE  /\ Inj(Without(s, t))
         /\ Elems(Without(s, t)) = Elems(s) \ {t}
<1>1. CASE t \notin Elems(s)
  BY <1>1 DEF Without
<1>2. CASE t \in Elems(s)
  <2> DEFINE i == CHOOSE j \in DOMAIN s : s[j] = t
             r == [j \in 1 .. Len(s) - 1 |-> IF j < i THEN s[j] ELSE s[j + 1]]
             At(n) == IF n < i THEN n ELSE n + 1
  <2>1. i \in DOMAIN s /\ s[i] = t
    BY <1>2 DEF Elems
  <2>2. Without(s, t) = r
    BY <1>2 DEF Without
  <2> HIDE DEF i
  <2>3. /\ Len(s) \in Nat /\ DOMAIN s = 1 .. Len(s)
        /\ \A j, l \in 1 .. Len(s) : s[j] = s[l] => j = l
    BY DEF Inj
  <2>4. \A n \in 1 .. Len(s) - 1 : At(n) \in 1 .. Len(s) /\ At(n) # i /\ r[n] = s[At(n)]
    BY <2>1, <2>3
  <2>5. DOMAIN r = 1 .. Len(s) - 1
    OBVIOUS
  <2>6. ASSUME NEW j \in 1 .. Len(s) - 1, NEW l \in 1 .. Len(s) - 1, r[j] = r[l]
        PROVE  j = l
    <3>1. At(j) = At(l) BY <2>3, <2>4, <2>6
    <3> QED BY <3>1, <2>1, <2>3
  <2>7. \A n \in 1 .. Len(s) - 1 : r[n] # t
    BY <2>1, <2>3, <2>4
  <2> HIDE DEF r
  <2>8. Inj(r) /\ t \notin Elems(r)
    BY <2>5, <2>6, <2>7 DEF Inj, Elems
  <2> QED BY <2>2, <2>8, WithoutElems
<1> QED BY <1>1, <1>2
\* Adding at either end of a list.
LEMMA AppendEnd ==
  ASSUME NEW A, NEW s \in Seq(A), NEW t \in A, Inj(s), t \notin Elems(s)
  PROVE  /\ Append(s, t) \in Seq(A) /\ Inj(Append(s, t))
         /\ Elems(Append(s, t)) = Elems(s) \cup {t}
<1> SUFFICES ASSUME NEW a, a = Append(s, t)
             PROVE  a \in Seq(A) /\ Inj(a) /\ Elems(a) = Elems(s) \cup {t}
  OBVIOUS
<1>1. /\ Len(s) \in Nat /\ DOMAIN s = 1 .. Len(s)
      /\ \A j \in 1 .. Len(s) : s[j] # t
      /\ \A j, l \in 1 .. Len(s) : s[j] = s[l] => j = l
  BY DEF Elems, Inj
<1>2. /\ a \in Seq(A) /\ DOMAIN a = 1 .. Len(s) + 1
      /\ \A j \in 1 .. Len(s) + 1 : a[j] = IF j <= Len(s) THEN s[j] ELSE t
  BY <1>1
<1>4. Inj(a) BY <1>1, <1>2 DEF Inj
<1>6. Elems(a) = Elems(s) \cup {t}
  <2>1. ASSUME NEW j \in 1 .. Len(s) PROVE s[j] \in Elems(a)
    <3>1. j \in 1 .. Len(s) + 1 /\ a[j] = s[j] BY <1>1, <1>2
    <3> QED BY <3>1, <1>2 DEF Elems
  <2>2. Len(s) + 1 \in 1 .. Len(s) + 1 /\ a[Len(s) + 1] = t BY <1>1, <1>2
  <2>3. ASSUME NEW j \in 1 .. Len(s) + 1 PROVE a[j] \in Elems(s) \cup {t}
    <3>1. CASE j \in 1 .. Len(s)
      BY <3>1, <1>1, <1>2 DEF Elems
    <3>2. CASE j \notin 1 .. Len(s)
      BY <3>2, <1>1, <1>2
    <3> QED BY <3>1, <3>2
  <2>4. Elems(s) \subseteq Elems(a) BY <2>1, <1>1 DEF Elems
  <2>5. Elems(a) \subseteq Elems(s) \cup {t}
    BY <2>3, <1>2 DEF Elems
  <2>6. t \in Elems(a) BY <2>2, <1>2 DEF Elems
  <2> QED BY <2>4, <2>5, <2>6
<1> QED BY <1>2, <1>4, <1>6

LEMMA PrependHead ==
  ASSUME NEW A, NEW s \in Seq(A), NEW t \in A, Inj(s), t \notin Elems(s)
  PROVE  /\ <<t>> \o s \in Seq(A) /\ Inj(<<t>> \o s)
         /\ Elems(<<t>> \o s) = Elems(s) \cup {t}
<1> SUFFICES ASSUME NEW b, b = <<t>> \o s
             PROVE  b \in Seq(A) /\ Inj(b) /\ Elems(b) = Elems(s) \cup {t}
  OBVIOUS
<1>1. /\ Len(s) \in Nat /\ DOMAIN s = 1 .. Len(s)
      /\ \A j \in 1 .. Len(s) : s[j] # t
      /\ \A j, l \in 1 .. Len(s) : s[j] = s[l] => j = l
  BY DEF Elems, Inj
<1>3. /\ b \in Seq(A) /\ DOMAIN b = 1 .. Len(s) + 1
      /\ \A j \in 1 .. Len(s) + 1 : b[j] = IF j = 1 THEN t ELSE s[j - 1]
  <2>1. <<t>> \in Seq(A) /\ Len(<<t>>) = 1 /\ <<t>>[1] = t OBVIOUS
  <2>2. Len(b) = Len(s) + 1 BY <2>1, ConcatProperties, <1>1
  <2> QED BY <2>1, <2>2, ConcatProperties, <1>1
<1>5. Inj(b)
  <2>1. ASSUME NEW j \in 1 .. Len(s) + 1, NEW l \in 1 .. Len(s) + 1, b[j] = b[l]
        PROVE  j = l
    <3>1. CASE j = 1 \/ l = 1
      BY <3>1, <2>1, <1>1, <1>3
    <3>2. CASE j # 1 /\ l # 1
      <4>1. j - 1 \in 1 .. Len(s) /\ l - 1 \in 1 .. Len(s) BY <3>2, <1>1
      <4>2. s[j - 1] = s[l - 1] BY <3>2, <2>1, <1>3
      <4> QED BY <4>1, <4>2, <1>1
    <3> QED BY <3>1, <3>2
  <2> QED BY <2>1, <1>3 DEF Inj
<1>7. Elems(b) = Elems(s) \cup {t}
  <2>1. ASSUME NEW j \in 1 .. Len(s) PROVE s[j] \in Elems(b)
    <3>1. j + 1 \in 1 .. Len(s) + 1 /\ b[j + 1] = s[j] BY <1>1, <1>3
    <3> QED BY <3>1, <1>3 DEF Elems
  <2>2. 1 \in 1 .. Len(s) + 1 /\ b[1] = t BY <1>1, <1>3
  <2>3. ASSUME NEW j \in 1 .. Len(s) + 1 PROVE b[j] \in Elems(s) \cup {t}
    <3>1. CASE j = 1
      BY <3>1, <2>2
    <3>2. CASE j # 1
      <4>1. j - 1 \in 1 .. Len(s) /\ b[j] = s[j - 1] BY <3>2, <1>1, <1>3
      <4> QED BY <4>1, <1>1 DEF Elems
    <3> QED BY <3>1, <3>2
  <2>4. Elems(s) \subseteq Elems(b) BY <2>1, <1>1 DEF Elems
  <2>5. Elems(b) \subseteq Elems(s) \cup {t} BY <2>3, <1>3 DEF Elems
  <2>6. t \in Elems(b) BY <2>2, <1>3 DEF Elems
  <2> QED BY <2>4, <2>5, <2>6
<1> QED BY <1>3, <1>5, <1>7

\* Moving the head to the end.
LEMMA TailElems ==
  ASSUME NEW A, NEW s \in Seq(A), NEW t \in A, Inj(s), t \in Elems(s), Head(s) = t
  PROVE  /\ Tail(s) \in Seq(A) /\ Inj(Tail(s))
         /\ t \notin Elems(Tail(s)) /\ Elems(s) = Elems(Tail(s)) \cup {t}
<1> SUFFICES ASSUME NEW r, r = Tail(s)
             PROVE  /\ r \in Seq(A) /\ Inj(r)
                    /\ t \notin Elems(r) /\ Elems(s) = Elems(r) \cup {t}
  OBVIOUS
<1>1. /\ Len(s) \in Nat /\ DOMAIN s = 1 .. Len(s) /\ Len(s) >= 1 /\ s # <<>>
      /\ \A j, l \in 1 .. Len(s) : s[j] = s[l] => j = l
  BY DEF Elems, Inj
<1>2. s[1] = t
  BY <1>1
<1>3. /\ Tail(s) \in Seq(A) /\ Len(Tail(s)) = Len(s) - 1
      /\ \A j \in 1 .. Len(s) - 1 : Tail(s)[j] = s[j + 1]
  BY <1>1, HeadTailProperties
<1>4. DOMAIN r = 1 .. Len(s) - 1 BY <1>3
<1>5. t \notin Elems(r)
  <2>1. \A j \in 1 .. Len(s) - 1 : r[j] # t BY <1>1, <1>2, <1>3
  <2> QED BY <2>1, <1>4 DEF Elems
<1>6. Inj(r)
  <2>1. \A j, l \in 1 .. Len(s) - 1 : r[j] = r[l] => j = l BY <1>1, <1>3
  <2> QED BY <2>1, <1>4 DEF Inj
<1>7. Elems(s) = Elems(r) \cup {t}
  <2>1. ASSUME NEW j \in 1 .. Len(s) - 1 PROVE r[j] \in Elems(s)
    <3>1. j + 1 \in 1 .. Len(s) /\ r[j] = s[j + 1] BY <1>1, <1>3
    <3> QED BY <3>1, <1>1 DEF Elems
  <2>2. ASSUME NEW j \in 1 .. Len(s) PROVE s[j] \in Elems(r) \cup {t}
    <3>1. CASE j = 1
      BY <3>1, <1>2
    <3>2. CASE j # 1
      <4>1. j - 1 \in 1 .. Len(s) - 1 /\ s[j] = r[j - 1]
        <5>1. j - 1 \in 1 .. Len(s) - 1 BY <3>2, <1>1
        <5>2. Tail(s)[j - 1] = s[(j - 1) + 1] BY <5>1, <1>3
        <5>3. (j - 1) + 1 = j BY <1>1
        <5> QED BY <5>1, <5>2, <5>3
      <4> QED BY <4>1, <1>4 DEF Elems
    <3> QED BY <3>1, <3>2
  <2>3. Elems(r) \subseteq Elems(s) BY <2>1, <1>4 DEF Elems
  <2>4. Elems(s) \subseteq Elems(r) \cup {t} BY <2>2, <1>1 DEF Elems
  <2> QED BY <2>3, <2>4
<1>8. r \in Seq(A)
  BY <1>3
<1> QED BY <1>5, <1>6, <1>7, <1>8

LEMMA RotateHead ==
  ASSUME NEW A, NEW s \in Seq(A), NEW t \in A, Inj(s), t \in Elems(s), Head(s) = t
  PROVE  /\ Append(Tail(s), t) \in Seq(A) /\ Inj(Append(Tail(s), t))
         /\ Elems(Append(Tail(s), t)) = Elems(s)
<1>1. /\ Tail(s) \in Seq(A) /\ Inj(Tail(s))
      /\ t \notin Elems(Tail(s)) /\ Elems(s) = Elems(Tail(s)) \cup {t}
  BY TailElems
<1>2. \A r \in Seq(A) : Inj(r) /\ t \notin Elems(r) =>
         /\ Append(r, t) \in Seq(A) /\ Inj(Append(r, t))
         /\ Elems(Append(r, t)) = Elems(r) \cup {t}
  BY AppendEnd
<1> QED BY <1>1, <1>2, Zenon
-----------------------------------------------------------------------------
(* Lists in an order. *)

\* Any element of s is in relation B to any later one.
Ordered(s, B) == \A i, j \in DOMAIN s : i < j => <<s[i], s[j]>> \in B

\* The list walks keep an order: everything in over may follow t, t may follow the
\* rest, and over holds what follows any of its elements.
LEMMA InsertOrdered ==
  ASSUME NEW A, NEW s \in Seq(A), NEW t \in A, NEW over, NEW B, Ordered(s, B),
         \A u \in Elems(s) : u \notin over => <<u, t>> \in B,
         \A u \in Elems(s) : u \in over => <<t, u>> \in B,
         \A u, v \in Elems(s) : u \in over /\ <<u, v>> \in B => v \in over
  PROVE  Ordered(InsertBefore(s, t, over), B)
<1> DEFINE Stop(j) == /\ \A l \in 1 .. j - 1 : s[l] \notin over
                      /\ j <= Len(s) => s[j] \in over
           i == CHOOSE j \in 1 .. Len(s) + 1 : Stop(j)
           r == [j \in 1 .. Len(s) + 1 |->
                   IF j < i THEN s[j] ELSE IF j = i THEN t ELSE s[j - 1]]
<1>1. i \in 1 .. Len(s) + 1 /\ Stop(i)
  <2>1. \E j \in 1 .. Len(s) + 1 : Stop(j) BY FirstPlace
  <2> HIDE DEF Stop
  <2> QED BY <2>1
<1>2. InsertBefore(s, t, over) = r
  BY DEF InsertBefore
<1> HIDE DEF i
<1>3. /\ Len(s) \in Nat /\ DOMAIN s = 1 .. Len(s)
      /\ \A j, l \in 1 .. Len(s) : j < l => <<s[j], s[l]>> \in B
      /\ \A j \in 1 .. Len(s) : s[j] \in Elems(s)
  BY DEF Ordered, Elems
<1>4. \A l \in 1 .. Len(s) : l < i => <<s[l], t>> \in B
  BY <1>1, <1>3
<1>5. ASSUME NEW l \in 1 .. Len(s), i <= l PROVE <<t, s[l]>> \in B
  <2>1. i \in 1 .. Len(s) /\ s[i] \in over
    BY <1>1, <1>3, <1>5
  <2>2. s[l] \in over
    <3>1. CASE l = i
      BY <2>1, <3>1
    <3>2. CASE l # i
      <4>1. <<s[i], s[l]>> \in B
        BY <1>3, <1>5, <2>1, <3>2
      <4> QED BY <4>1, <1>3, <2>1
    <3> QED BY <3>1, <3>2
  <2> QED BY <2>2, <1>3
<1>6. ASSUME NEW j \in 1 .. Len(s) + 1, NEW l \in 1 .. Len(s) + 1, j < l
      PROVE  <<r[j], r[l]>> \in B
  <2>1. CASE l < i
    <3>1. j \in 1 .. Len(s) /\ l \in 1 .. Len(s) /\ r[j] = s[j] /\ r[l] = s[l]
      BY <2>1, <1>1, <1>3, <1>6
    <3> QED BY <3>1, <1>3, <1>6
  <2>2. CASE l = i
    <3>1. j \in 1 .. Len(s) /\ j < i /\ r[j] = s[j] /\ r[l] = t
      BY <2>2, <1>1, <1>3, <1>6
    <3> QED BY <3>1, <1>4
  <2>3. CASE l > i /\ j = i
    <3>1. l - 1 \in 1 .. Len(s) /\ i <= l - 1 /\ r[j] = t /\ r[l] = s[l - 1]
      BY <2>3, <1>1, <1>3, <1>6
    <3> QED BY <3>1, <1>5
  <2>4. CASE l > i /\ j < i
    <3>1. j \in 1 .. Len(s) /\ l - 1 \in 1 .. Len(s) /\ j < l - 1
          /\ r[j] = s[j] /\ r[l] = s[l - 1]
      BY <2>4, <1>1, <1>3, <1>6
    <3> QED BY <3>1, <1>3
  <2>5. CASE l > i /\ j > i
    <3>1. j - 1 \in 1 .. Len(s) /\ l - 1 \in 1 .. Len(s) /\ j - 1 < l - 1
          /\ r[j] = s[j - 1] /\ r[l] = s[l - 1]
      BY <2>5, <1>1, <1>3, <1>6
    <3> QED BY <3>1, <1>3
  <2> QED BY <2>1, <2>2, <2>3, <2>4, <2>5, <1>1
<1>7. DOMAIN r = 1 .. Len(s) + 1
  OBVIOUS
<1> HIDE DEF r
<1> QED BY <1>2, <1>6, <1>7 DEF Ordered

\* Removing keeps an order, and the head unless it is what is removed.
LEMMA WithoutOrdered ==
  ASSUME NEW A, NEW s \in Seq(A), NEW t, NEW B, Ordered(s, B)
  PROVE  Ordered(Without(s, t), B)
<1>1. CASE t \notin Elems(s)
  BY <1>1 DEF Without
<1>2. CASE t \in Elems(s)
  <2> DEFINE i == CHOOSE j \in DOMAIN s : s[j] = t
             r == [j \in 1 .. Len(s) - 1 |-> IF j < i THEN s[j] ELSE s[j + 1]]
             At(n) == IF n < i THEN n ELSE n + 1
  <2>1. i \in DOMAIN s
    BY <1>2 DEF Elems
  <2>2. Without(s, t) = r
    BY <1>2 DEF Without
  <2> HIDE DEF i
  <2>3. /\ Len(s) \in Nat /\ DOMAIN s = 1 .. Len(s)
        /\ \A j, l \in 1 .. Len(s) : j < l => <<s[j], s[l]>> \in B
    BY DEF Ordered
  <2>4. \A n \in 1 .. Len(s) - 1 : At(n) \in 1 .. Len(s) /\ r[n] = s[At(n)]
    BY <2>1, <2>3
  <2>5. \A j, l \in 1 .. Len(s) - 1 : j < l => At(j) < At(l)
    BY <2>1, <2>3
  <2>6. DOMAIN r = 1 .. Len(s) - 1
    OBVIOUS
  <2> HIDE DEF r, At
  <2>7. \A j, l \in 1 .. Len(s) - 1 : j < l => <<r[j], r[l]>> \in B
    BY <2>3, <2>4, <2>5
  <2> QED BY <2>2, <2>6, <2>7 DEF Ordered
<1> QED BY <1>1, <1>2

LEMMA WithoutHead ==
  ASSUME NEW A, NEW s \in Seq(A), s # <<>>, NEW t, Head(s) # t
  PROVE  Without(s, t) # <<>> /\ Head(Without(s, t)) = Head(s)
<1>1. CASE t \notin Elems(s)
  BY <1>1 DEF Without
<1>2. CASE t \in Elems(s)
  <2> DEFINE i == CHOOSE j \in DOMAIN s : s[j] = t
             r == [j \in 1 .. Len(s) - 1 |-> IF j < i THEN s[j] ELSE s[j + 1]]
  <2>1. i \in DOMAIN s /\ s[i] = t
    BY <1>2 DEF Elems
  <2>2. Without(s, t) = r
    BY <1>2 DEF Without
  <2> HIDE DEF i
  <2>3. Len(s) \in Nat /\ DOMAIN s = 1 .. Len(s) /\ Head(s) = s[1]
    OBVIOUS
  <2>4. 1 < i /\ 1 \in 1 .. Len(s) - 1
    BY <2>1, <2>3
  <2>5. r[1] = s[1]
    BY <2>4
  <2>6. r \in Seq(A) /\ DOMAIN r = 1 .. Len(s) - 1
    <3>1. Without(s, t) \in Seq(A)
      BY WithoutElems
    <3>2. r \in Seq(A)
      <4> HIDE DEF r
      <4> QED BY <3>1, <2>2
    <3> QED BY <3>2
  <2> HIDE DEF r
  <2>7. r # <<>>
    BY <2>4, <2>6
  <2>8. Head(r) = r[1]
    BY <2>6, <2>7
  <2> QED BY <2>2, <2>3, <2>5, <2>7, <2>8
<1> QED BY <1>1, <1>2

\* The head of a list that grew at an end.
LEMMA GrownHead ==
  ASSUME NEW A, NEW s \in Seq(A), NEW t \in A
  PROVE  /\ s # <<>> => Head(Append(s, t)) = Head(s)
         /\ Append(s, t) # <<>>
         /\ Head(<<t>> \o s) = t
<1>1. s # <<>> => Head(Append(s, t)) = Head(s)
  OBVIOUS
<1>2. Append(s, t) # <<>>
  <2>1. Len(Append(s, t)) = Len(s) + 1 /\ Len(s) \in Nat /\ Len(<<>>) = 0
    OBVIOUS
  <2> QED BY <2>1
<1>3. Head(<<t>> \o s) = t
  <2>1. <<t>> \in Seq(A) /\ Len(<<t>>) = 1 /\ <<t>>[1] = t
    OBVIOUS
  <2>2. <<t>> \o s \in Seq(A) /\ (<<t>> \o s)[1] = t /\ Len(<<t>> \o s) = 1 + Len(s)
    BY <2>1, ConcatProperties
  <2> QED BY <2>2
<1> QED BY <1>1, <1>2, <1>3
-----------------------------------------------------------------------------
(* What the helpers do to the data as a whole *)

\* d is well typed and its lists agree with its threads.
Lists(d) == d \in KernelType /\ ReadyLists(d) /\ WaitLists(d) /\ TimeoutList(d)

\* What the scheduler and the list helpers leave alone.
SameMutexes(d, e) ==
  /\ e.owner = d.owner /\ e.depth = d.depth /\ e.held = d.held
  /\ e.base = d.base /\ e.blockedOn = d.blockedOn

SameThreads(d, e) ==
  e.state = d.state /\ e.on = d.on /\ e.result = d.result

\* From d to e only the running thread may have changed, to a ready one.
Switched(d, e) ==
  /\ Lists(e) /\ SameThreads(d, e) /\ SameMutexes(d, e)
  /\ e.prio = d.prio /\ e.state[e.cur] = "ready"

\* From d to e thread t left the ready lists.
Left(d, e, t, st, result) ==
  /\ Lists(e) /\ SameMutexes(d, e) /\ e.prio = d.prio
  /\ e.state = [d.state EXCEPT ![t] = st] /\ e.on = d.on
  /\ e.result = [d.result EXCEPT ![t] = result]

\* From d to e thread t started to wait on list q.
Waiting(d, e, t, q) ==
  /\ Lists(e) /\ SameMutexes(d, e) /\ e.prio = d.prio
  /\ e.state = [d.state EXCEPT ![t] = "blocked"]
  /\ e.on = [d.on EXCEPT ![t] = q]
  /\ e.result = [d.result EXCEPT ![t] = "ok"]

\* From d to e thread t was woken with this result.
WokenUp(d, e, t, result) ==
  /\ Lists(e) /\ SameMutexes(d, e) /\ e.prio = d.prio /\ e.cur = d.cur
  /\ e.state = [d.state EXCEPT ![t] = "ready"]
  /\ e.on = [d.on EXCEPT ![t] = None]
  /\ e.result = [d.result EXCEPT ![t] = result]

\* What that did to the lists: t is the last of its priority, and need_resched is
\* set when it is more urgent than the running thread.
Requeued(d, e, t) ==
  /\ \A q \in Obj : e.waitq[q] = IF q = d.on[t] THEN Without(d.waitq[q], t)
                                               ELSE d.waitq[q]
  /\ e.timeouts = Without(d.timeouts, t)
  /\ \A u \in Thread \ {t} : e.wake[u] = d.wake[u]
  /\ e.ready = [d.ready EXCEPT ![d.prio[t]] = Append(@, t)]
  /\ e.need = (d.need \/ d.prio[t] > d.prio[d.cur])

\* Some list is not empty as long as some thread is ready.
LEMMA HighestList ==
  ASSUME NEW d, Lists(d), \E t \in Thread : d.state[t] = "ready"
  PROVE  /\ HighestReady(d) \in Prio
         /\ d.ready[HighestReady(d)] # <<>>
         /\ Head(d.ready[HighestReady(d)]) \in Thread
         /\ d.state[Head(d.ready[HighestReady(d)])] = "ready"
         /\ \A p \in Prio : d.ready[p] # <<>> => p <= HighestReady(d)
<1> DEFINE P == {p \in Prio : d.ready[p] # <<>>}
           h == HighestReady(d)
<1>0. MaxPrio \in Nat /\ P \in SUBSET (0 .. MaxPrio)
  BY ThreadAssumption DEF Prio
<1>1. PICK t \in Thread : d.state[t] = "ready"
  OBVIOUS
<1>2. d.prio[t] \in Prio /\ t \in Elems(d.ready[d.prio[t]])
  BY <1>1 DEF Lists, KernelType, ReadyLists
<1>3. d.ready[d.prio[t]] # <<>>
  BY <1>2 DEF Elems
<1>4. P # {}
  BY <1>2, <1>3
<1>5. \E p \in P : \A q \in P : q <= p
  <2> HIDE DEF P
  <2> QED BY <1>0, <1>4, GreatestNat
<1>6. h \in Prio /\ d.ready[h] # <<>> /\ \A p \in Prio : d.ready[p] # <<>> => p <= h
  BY <1>5 DEF HighestReady
<1> HIDE DEF h
<1>7. d.ready[h] \in Seq(Thread)
  BY <1>6 DEF Lists, KernelType
<1>8. Head(d.ready[h]) \in Thread /\ Head(d.ready[h]) \in Elems(d.ready[h])
  <2>1. Len(d.ready[h]) \in Nat /\ Len(d.ready[h]) >= 1 BY <1>6, <1>7
  <2> QED BY <2>1, <1>6, <1>7 DEF Elems
<1>9. d.state[Head(d.ready[h])] = "ready"
  BY <1>6, <1>8 DEF Lists, ReadyLists
<1> QED BY <1>6, <1>8, <1>9 DEF h

\* kernel_reschedule() picks a ready thread and changes no thread.
LEMMA RescheduleEffect ==
  ASSUME NEW d, Lists(d), \E t \in Thread : d.state[t] = "ready"
  PROVE  Switched(d, Reschedule(d))
<1> DEFINE p == d.prio[d.cur]
           rot == d.rotate /\ d.state[d.cur] = "ready" /\ Head(d.ready[p]) = d.cur
           r == [d EXCEPT !.ready[p] = IF rot THEN Append(Tail(@), d.cur) ELSE @,
                          !.rotate = FALSE, !.need = FALSE]
           next == Head(r.ready[HighestReady(r)])
<1>1. /\ d.cur \in Thread /\ p \in Prio /\ d.ready \in [Prio -> Seq(Thread)]
      /\ d.state \in [Thread -> States] /\ d.prio \in [Thread -> Prio]
  BY DEF Lists, KernelType
<1>2. \A q \in Prio : /\ r.ready[q] \in Seq(Thread) /\ Inj(r.ready[q])
                      /\ Elems(r.ready[q]) = Elems(d.ready[q])
  <2> SUFFICES ASSUME NEW q \in Prio
               PROVE  /\ r.ready[q] \in Seq(Thread) /\ Inj(r.ready[q])
                      /\ Elems(r.ready[q]) = Elems(d.ready[q])
    OBVIOUS
  <2>1. d.ready[q] \in Seq(Thread) /\ Inj(d.ready[q])
    BY <1>1 DEF Lists, ReadyLists
  <2>2. CASE q = p /\ rot
    <3>1. d.cur \in Elems(d.ready[q]) /\ Head(d.ready[q]) = d.cur
      BY <2>2, <1>1 DEF Lists, ReadyLists
    <3>2. r.ready[q] = Append(Tail(d.ready[q]), d.cur)
      BY <2>2, <1>1 DEF Lists, KernelType
    <3> DEFINE s == d.ready[q]
    <3> HIDE DEF s
    <3>3. s \in Seq(Thread) /\ Inj(s) /\ d.cur \in Elems(s) /\ Head(s) = d.cur
      BY <3>1, <2>1 DEF s
    <3>4. /\ Append(Tail(s), d.cur) \in Seq(Thread) /\ Inj(Append(Tail(s), d.cur))
          /\ Elems(Append(Tail(s), d.cur)) = Elems(s)
      BY <3>3, <1>1, RotateHead
    <3>5. r.ready[q] = Append(Tail(s), d.cur)
      BY <3>2 DEF s
    <3> HIDE DEF r
    <3> QED BY <3>4, <3>5 DEF s
  <2>3. CASE ~(q = p /\ rot)
    <3>1. r.ready[q] = d.ready[q]
      BY <2>3, <1>1 DEF Lists, KernelType
    <3> QED BY <3>1, <2>1
  <2> QED BY <2>2, <2>3
<1>3. /\ SameThreads(d, r) /\ SameMutexes(d, r) /\ r.prio = d.prio
      /\ r.waitq = d.waitq /\ r.timeouts = d.timeouts
  BY DEF SameThreads, SameMutexes, Lists, KernelType
<1>4. r.ready \in [Prio -> Seq(Thread)]
  BY <1>1, <1>2 DEF Lists, KernelType
<1>5. r \in KernelType
  BY <1>4 DEF Lists, KernelType
<1> HIDE DEF r
<1>6. Lists(r)
  BY <1>2, <1>3, <1>5 DEF Lists, ReadyLists, WaitLists, TimeoutList, SameThreads
<1>7. next \in Thread /\ r.state[next] = "ready"
  BY <1>3, <1>6, HighestList DEF SameThreads
<1> DEFINE e == IF next = d.cur THEN r ELSE [r EXCEPT !.cur = next, !.slice = SliceTicks]
<1>8. e = Reschedule(d)
  BY DEF Reschedule, r
<1>9. e.cur = next /\ e \in KernelType
  <2>1. SliceTicks \in 0 .. SliceTicks
    BY ThreadAssumption
  <2>2. CASE next = d.cur
    <3>1. r.cur = d.cur BY DEF r, Lists, KernelType
    <3> QED BY <2>2, <3>1, <1>5
  <2>3. CASE next # d.cur
    <3> HIDE DEF next
    <3> QED BY <2>1, <2>3, <1>5, <1>7 DEF KernelType
  <2> QED BY <2>2, <2>3
<1>10. /\ SameThreads(r, e) /\ SameMutexes(r, e) /\ e.prio = r.prio
       /\ e.waitq = r.waitq /\ e.timeouts = r.timeouts /\ e.ready = r.ready
  BY <1>5 DEF SameThreads, SameMutexes, KernelType
<1> HIDE DEF e, next
<1>11. Lists(e)
  BY <1>6, <1>9, <1>10 DEF Lists, ReadyLists, WaitLists, TimeoutList, SameThreads
<1> QED BY <1>3, <1>7, <1>8, <1>9, <1>10, <1>11 DEF SameThreads, SameMutexes, Switched

\* The flags are no part of any list.
LEMMA FlagEffect ==
  ASSUME NEW d, Lists(d), NEW need \in BOOLEAN, NEW rotate \in BOOLEAN
  PROVE  LET e == [d EXCEPT !.need = need, !.rotate = rotate]
         IN  /\ Lists(e) /\ SameThreads(d, e) /\ SameMutexes(d, e)
             /\ e.prio = d.prio /\ e.cur = d.cur
<1> DEFINE e == [d EXCEPT !.need = need, !.rotate = rotate]
<1>1. /\ e \in KernelType /\ SameThreads(d, e) /\ SameMutexes(d, e)
      /\ e.prio = d.prio /\ e.cur = d.cur /\ e.ready = d.ready
      /\ e.waitq = d.waitq /\ e.timeouts = d.timeouts
  BY DEF Lists, KernelType, SameThreads, SameMutexes
<1> HIDE DEF e
<1>2. Lists(e)
  BY <1>1 DEF Lists, ReadyLists, WaitLists, TimeoutList, SameThreads
<1> QED BY <1>1, <1>2 DEF e

\* So k_preempt() and the way out of an interrupt only change who runs.
LEMMA PreemptEffect ==
  ASSUME NEW d, Lists(d), d.state[d.cur] = "ready", NEW inIrq \in BOOLEAN
  PROVE  Switched(d, Preempt(d, inIrq))
<1> DEFINE b == d.need \/ HighestReady(d) > d.prio[d.cur]
           n == [d EXCEPT !.need = b, !.rotate = d.rotate]
<1>1. d.cur \in Thread /\ d.need \in BOOLEAN /\ d.rotate \in BOOLEAN
  BY DEF Lists, KernelType
<1>2. b \in BOOLEAN
  OBVIOUS
<1>3. n = [d EXCEPT !.need = @ \/ HighestReady(d) > d.prio[d.cur]]
  BY DEF Lists, KernelType
<1> HIDE DEF b
<1>4. /\ Lists(n) /\ SameThreads(d, n) /\ SameMutexes(d, n)
      /\ n.prio = d.prio /\ n.cur = d.cur
  BY <1>1, <1>2, FlagEffect, ZenonT(60)
<1>5. Preempt(d, inIrq) = IF n.need /\ ~inIrq THEN Reschedule(n) ELSE n
  BY <1>3 DEF Preempt
<1> HIDE DEF n
<1>6. n.state[n.cur] = "ready" /\ n.cur \in Thread
  BY <1>1, <1>4 DEF SameThreads
<1>7. CASE n.need /\ ~inIrq
  <2> DEFINE e == Reschedule(n)
  <2>1. Switched(n, e)
    BY <1>4, <1>6, RescheduleEffect
  <2>2. Preempt(d, inIrq) = e
    BY <1>5, <1>7
  <2> HIDE DEF e
  <2> QED BY <2>1, <2>2, <1>4 DEF SameThreads, SameMutexes, Switched
<1>8. CASE ~(n.need /\ ~inIrq)
  BY <1>4, <1>5, <1>6, <1>8 DEF Switched
<1> QED BY <1>7, <1>8

LEMMA IrqExitEffect ==
  ASSUME NEW d, Lists(d), d.state[d.cur] = "ready"
  PROVE  Switched(d, IrqExit(d))
<1>1. d.cur \in Thread
  BY DEF Lists, KernelType
<1>2. CASE d.need
  BY <1>1, <1>2, RescheduleEffect DEF IrqExit
<1>3. CASE ~d.need
  BY <1>3 DEF IrqExit, SameThreads, SameMutexes, Switched
<1> QED BY <1>2, <1>3

\* k_wake(): the thread leaves every list it waits on for the ready list.
LEMMA WakeEffect ==
  ASSUME NEW d, Lists(d), NEW t \in Thread, d.state[t] = "blocked",
         NEW result \in Results
  PROVE  WokenUp(d, Wake(d, t, result), t, result) /\ Requeued(d, Wake(d, t, result), t)
<1> DEFINE k1 == IF d.on[t] # None THEN WaitqRemove(d, t) ELSE d
           k2 == IF t \in Elems(d.timeouts) THEN TimeoutRemove(k1, t) ELSE k1
           k3 == ReadyAdd([k2 EXCEPT !.result[t] = result], t, FALSE)
           e == [k3 EXCEPT !.need = @ \/ d.prio[t] > d.prio[d.cur]]
<1>0. /\ d.on \in [Thread -> Obj \cup {None}] /\ d.waitq \in [Obj -> Seq(Thread)]
      /\ d.timeouts \in Seq(Thread) /\ d.ready \in [Prio -> Seq(Thread)]
      /\ d.prio \in [Thread -> Prio] /\ d.state \in [Thread -> States]
      /\ d.result \in [Thread -> Results] /\ d.wake \in [Thread -> Nat]
      /\ d.need \in BOOLEAN
  BY DEF Lists, KernelType
<1>1. /\ k1 \in KernelType /\ k1.on = [d.on EXCEPT ![t] = None]
      /\ k1.state = d.state /\ k1.prio = d.prio /\ k1.result = d.result
      /\ SameMutexes(d, k1) /\ k1.cur = d.cur /\ k1.need = d.need
      /\ k1.timeouts = d.timeouts /\ k1.ready = d.ready /\ k1.wake = d.wake
      /\ \A q \in Obj : k1.waitq[q] = IF q = d.on[t] THEN Without(d.waitq[q], t)
                                                     ELSE d.waitq[q]
  <2>1. CASE d.on[t] # None
    <3> DEFINE w == Without(d.waitq[d.on[t]], t)
    <3>1. d.on[t] \in Obj /\ d.waitq[d.on[t]] \in Seq(Thread)
      BY <2>1, <1>0
    <3>2. w \in Seq(Thread)
      BY <3>1, WithoutElems
    <3>3. k1 = [d EXCEPT !.waitq[d.on[t]] = w, !.on[t] = None]
      BY <2>1, <3>1, <1>0 DEF WaitqRemove, Lists, KernelType
    <3>4. \A q \in Obj : q = d.on[t] => Without(d.waitq[q], t) = w
      OBVIOUS
    <3> HIDE DEF w, k1
    <3> QED BY <3>1, <3>2, <3>3, <3>4, <1>0 DEF Lists, KernelType, SameMutexes
  <2>2. CASE d.on[t] = None
    <3>1. k1 = d BY <2>2
    <3>2. \A q \in Obj : q # d.on[t] BY <2>2, ThreadAssumption
    <3> HIDE DEF k1
    <3> QED BY <2>2, <3>1, <3>2, <1>0 DEF Lists, KernelType, SameMutexes
  <2> QED BY <2>1, <2>2
<1> HIDE DEF k1
<1>2. /\ k2 \in KernelType /\ k2.on = k1.on /\ k2.waitq = k1.waitq
      /\ k2.state = d.state /\ k2.prio = d.prio /\ k2.result = d.result
      /\ SameMutexes(d, k2) /\ k2.cur = d.cur /\ k2.need = d.need
      /\ k2.timeouts = Without(d.timeouts, t) /\ k2.ready = d.ready
      /\ \A u \in Thread \ {t} : k2.wake[u] = d.wake[u]
  <2> DEFINE w == Without(d.timeouts, t)
  <2>1. w \in Seq(Thread)
    BY <1>0, WithoutElems
  <2>2. CASE t \in Elems(d.timeouts)
    <3>1. k2 = [k1 EXCEPT !.timeouts = w, !.wake[t] = 0]
      BY <2>2, <1>1 DEF TimeoutRemove, KernelType
    <3> HIDE DEF w, k2
    <3>2. k2.timeouts = w /\ k2 \in KernelType
      BY <2>1, <3>1, <1>1 DEF KernelType
    <3>3. \A u \in Thread \ {t} : k2.wake[u] = d.wake[u]
      <4>1. k2.wake = [k1.wake EXCEPT ![t] = 0]
        BY <3>1, <1>1 DEF KernelType
      <4> QED BY <4>1, <1>0, <1>1
    <3> QED BY <3>1, <3>2, <3>3, <1>1 DEF KernelType, SameMutexes, w
  <2>3. CASE t \notin Elems(d.timeouts)
    <3>1. k2 = k1 /\ w = d.timeouts BY <2>3 DEF Without
    <3> HIDE DEF w, k2
    <3> QED BY <3>1, <1>1 DEF SameMutexes, w
  <2> QED BY <2>2, <2>3
<1> HIDE DEF k2
<1>3. /\ e \in KernelType /\ e.on = k1.on /\ e.waitq = k1.waitq
      /\ e.state = [d.state EXCEPT ![t] = "ready"]
      /\ e.result = [d.result EXCEPT ![t] = result]
      /\ e.prio = d.prio /\ SameMutexes(d, e) /\ e.cur = d.cur
      /\ e.timeouts = k2.timeouts
      /\ e.ready = [d.ready EXCEPT ![d.prio[t]] = Append(@, t)]
      /\ e.wake = k2.wake /\ e.need = (d.need \/ d.prio[t] > d.prio[d.cur])
  <2> DEFINE b == d.need \/ d.prio[t] > d.prio[d.cur]
             w == Append(d.ready[d.prio[t]], t)
  <2>1. w \in Seq(Thread) /\ d.prio[t] \in Prio /\ b \in BOOLEAN /\ "ready" \in States
    BY <1>0 DEF States
  <2>2. e = [k2 EXCEPT !.result[t] = result, !.state[t] = "ready",
                       !.ready[d.prio[t]] = w, !.need = b]
    BY <1>0, <1>2 DEF ReadyAdd, KernelType
  <2> HIDE DEF e, w, b
  <2>3. e.ready = [d.ready EXCEPT ![d.prio[t]] = w]
    <3>1. e.ready = [k2.ready EXCEPT ![d.prio[t]] = w]
      BY <2>2, <1>2 DEF KernelType
    <3> QED BY <3>1, <1>2
  <2>4. e \in KernelType
    BY <2>1, <2>2, <1>2 DEF KernelType
  <2>6. e.need = b /\ e.wake = k2.wake
    BY <2>2, <1>2 DEF KernelType
  <2>7. e.need = (d.need \/ d.prio[t] > d.prio[d.cur])
    BY <2>6 DEF b
  <2>8. e.ready = [d.ready EXCEPT ![d.prio[t]] = Append(@, t)]
    BY <2>3 DEF w
  <2>9. /\ e.on = k1.on /\ e.waitq = k1.waitq
        /\ e.state = [d.state EXCEPT ![t] = "ready"]
        /\ e.result = [d.result EXCEPT ![t] = result]
        /\ e.prio = d.prio /\ SameMutexes(d, e) /\ e.cur = d.cur
        /\ e.timeouts = k2.timeouts
    BY <2>1, <2>2, <1>2, <1>0 DEF KernelType, SameMutexes
  <2> QED BY <2>4, <2>6, <2>7, <2>8, <2>9
<1>4. Wake(d, t, result) = e
  BY DEF Wake, k1, k2
<1> HIDE DEF e
<1>5. ReadyLists(e)
  <2> SUFFICES ASSUME NEW p \in Prio
               PROVE  /\ Inj(e.ready[p])
                      /\ Elems(e.ready[p]) =
                           {u \in Thread : e.state[u] = "ready" /\ e.prio[u] = p}
    BY DEF ReadyLists
  <2> DEFINE s == d.ready[p]
  <2> HIDE DEF s
  <2>1. /\ s \in Seq(Thread) /\ Inj(s) /\ t \notin Elems(s)
        /\ Elems(s) = {u \in Thread : d.state[u] = "ready" /\ d.prio[u] = p}
    BY <1>0 DEF Lists, ReadyLists, s
  <2>2. CASE p = d.prio[t]
    <3>1. Inj(Append(s, t)) /\ Elems(Append(s, t)) = Elems(s) \cup {t}
      BY <2>1, AppendEnd
    <3>2. e.ready[p] = Append(s, t)
      BY <2>2, <1>0, <1>3 DEF s
    <3>3. \A u \in Thread : e.state[u] = "ready" /\ e.prio[u] = p <=>
                            u = t \/ (d.state[u] = "ready" /\ d.prio[u] = p)
      BY <2>2, <1>0, <1>3
    <3>4. Elems(s) \cup {t} =
            {u \in Thread : u = t \/ (d.state[u] = "ready" /\ d.prio[u] = p)}
      BY <2>1
    <3> QED BY <3>1, <3>2, <3>3, <3>4
  <2>3. CASE p # d.prio[t]
    <3>1. e.ready[p] = s
      BY <2>3, <1>0, <1>3 DEF s
    <3>2. \A u \in Thread : e.state[u] = "ready" /\ e.prio[u] = p <=>
                            d.state[u] = "ready" /\ d.prio[u] = p
      BY <2>3, <1>0, <1>3
    <3> QED BY <2>1, <3>1, <3>2
  <2> QED BY <2>2, <2>3
<1>6. WaitLists(e)
  <2>1. ASSUME NEW q \in Obj
        PROVE  /\ Inj(e.waitq[q])
               /\ Elems(e.waitq[q]) = {u \in Thread : e.on[u] = q}
    <3> DEFINE s == d.waitq[q]
    <3> HIDE DEF s
    <3>1. s \in Seq(Thread) /\ Inj(s) /\ Elems(s) = {u \in Thread : d.on[u] = q}
      BY <1>0 DEF Lists, WaitLists, s
    <3>2. q # None
      BY ThreadAssumption
    <3>3. CASE q = d.on[t]
      <4>1. Inj(Without(s, t)) /\ Elems(Without(s, t)) = Elems(s) \ {t}
        BY <3>1, WithoutInj
      <4>2. e.waitq[q] = Without(s, t)
        BY <3>3, <1>1, <1>3 DEF s
      <4>3. \A u \in Thread : e.on[u] = q <=> d.on[u] = q /\ u # t
        BY <3>2, <3>3, <1>0, <1>1, <1>3
      <4> QED BY <3>1, <4>1, <4>2, <4>3
    <3>4. CASE q # d.on[t]
      <4>1. e.waitq[q] = s
        BY <3>4, <1>1, <1>3 DEF s
      <4>2. \A u \in Thread : e.on[u] = q <=> d.on[u] = q
        BY <3>2, <3>4, <1>0, <1>1, <1>3
      <4> QED BY <3>1, <4>1, <4>2
    <3> QED BY <3>3, <3>4
  <2>2. \A u \in Thread : e.on[u] # None => e.state[u] = "blocked"
    BY <1>0, <1>1, <1>3 DEF Lists, WaitLists
  <2> QED BY <2>1, <2>2 DEF WaitLists
<1>7. TimeoutList(e)
  <2>1. Inj(d.timeouts) /\ \A u \in Elems(d.timeouts) : d.state[u] = "blocked"
    BY DEF Lists, TimeoutList
  <2>2. /\ Inj(Without(d.timeouts, t))
        /\ Elems(Without(d.timeouts, t)) = Elems(d.timeouts) \ {t}
    BY <2>1, <1>0, WithoutInj
  <2>3. Elems(d.timeouts) \subseteq Thread
    BY <1>0 DEF Elems
  <2> QED BY <2>1, <2>2, <2>3, <1>0, <1>2, <1>3 DEF TimeoutList
<1>8. Lists(e)
  BY <1>3, <1>5, <1>6, <1>7 DEF Lists
<1>9. Requeued(d, e, t)
  <2>1. \A q \in Obj : e.waitq[q] = IF q = d.on[t] THEN Without(d.waitq[q], t)
                                                  ELSE d.waitq[q]
    BY <1>1, <1>3
  <2>2. /\ e.timeouts = Without(d.timeouts, t)
        /\ \A u \in Thread \ {t} : e.wake[u] = d.wake[u]
    BY <1>2, <1>3
  <2> QED BY <2>1, <2>2, <1>3 DEF Requeued
<1> QED BY <1>1, <1>3, <1>4, <1>8, <1>9 DEF WokenUp

\* A ready thread waits on nothing.
LEMMA ReadyWaitsNot ==
  ASSUME NEW d, Lists(d), NEW t \in Thread, d.state[t] # "blocked"
  PROVE  /\ d.on[t] = None /\ t \notin Elems(d.timeouts)
         /\ \A q \in Obj : t \notin Elems(d.waitq[q])
<1>1. d.on[t] = None /\ t \notin Elems(d.timeouts)
  BY DEF Lists, WaitLists, TimeoutList
<1>2. \A q \in Obj : t \notin Elems(d.waitq[q])
  BY <1>1, ThreadAssumption DEF Lists, WaitLists
<1> QED BY <1>1, <1>2

\* The running thread leaves the ready lists, to wait or to end.
Leave(d, t, st, result) ==
  [ReadyRemove(d, t) EXCEPT !.state[t] = st, !.result[t] = result]

LEMMA LeaveEffect ==
  ASSUME NEW d, Lists(d), NEW t \in Thread, d.state[t] = "ready",
         NEW st \in {"blocked", "dead"}, NEW result \in Results
  PROVE  Left(d, Leave(d, t, st, result), t, st, result)
<1> DEFINE e == Leave(d, t, st, result)
           w == Without(d.ready[d.prio[t]], t)
<1>0. /\ d.ready \in [Prio -> Seq(Thread)] /\ d.prio \in [Thread -> Prio]
      /\ d.state \in [Thread -> States] /\ d.result \in [Thread -> Results]
      /\ d.on \in [Thread -> Obj \cup {None}] /\ d.timeouts \in Seq(Thread)
  BY DEF Lists, KernelType
<1>1. w \in Seq(Thread) /\ st \in States
  BY <1>0, WithoutElems DEF States
<1>2. e = [d EXCEPT !.ready[d.prio[t]] = w, !.state[t] = st, !.result[t] = result]
  BY <1>0 DEF Leave, ReadyRemove, Lists, KernelType
<1> HIDE DEF e, w
<1>3. /\ e \in KernelType /\ SameMutexes(d, e) /\ e.prio = d.prio /\ e.cur = d.cur
      /\ e.state = [d.state EXCEPT ![t] = st] /\ e.on = d.on
      /\ e.result = [d.result EXCEPT ![t] = result]
      /\ e.waitq = d.waitq /\ e.timeouts = d.timeouts
      /\ e.ready = [d.ready EXCEPT ![d.prio[t]] = w]
  BY <1>0, <1>1, <1>2 DEF Lists, KernelType, SameMutexes
<1>4. ReadyLists(e)
  <2> SUFFICES ASSUME NEW p \in Prio
               PROVE  /\ Inj(e.ready[p])
                      /\ Elems(e.ready[p]) =
                           {u \in Thread : e.state[u] = "ready" /\ e.prio[u] = p}
    BY DEF ReadyLists
  <2> DEFINE s == d.ready[p]
  <2>1. /\ s \in Seq(Thread) /\ Inj(s)
        /\ Elems(s) = {u \in Thread : d.state[u] = "ready" /\ d.prio[u] = p}
    BY <1>0 DEF Lists, ReadyLists
  <2>2. CASE p = d.prio[t]
    <3>1. e.ready[p] = Without(s, t)
      BY <2>2, <1>0, <1>3 DEF w
    <3> HIDE DEF s
    <3>2. Inj(Without(s, t)) /\ Elems(Without(s, t)) = Elems(s) \ {t}
      BY <2>1, WithoutInj
    <3>3. \A u \in Thread : e.state[u] = "ready" /\ e.prio[u] = p <=>
                            u # t /\ d.state[u] = "ready" /\ d.prio[u] = p
      BY <2>2, <1>0, <1>3
    <3> QED BY <2>1, <3>1, <3>2, <3>3
  <2>3. CASE p # d.prio[t]
    <3>1. e.ready[p] = s
      BY <2>3, <1>0, <1>3
    <3>2. \A u \in Thread : e.state[u] = "ready" /\ e.prio[u] = p <=>
                            d.state[u] = "ready" /\ d.prio[u] = p
      BY <2>3, <1>0, <1>3
    <3> QED BY <2>1, <3>1, <3>2
  <2> QED BY <2>2, <2>3
<1>5. d.on[t] = None /\ t \notin Elems(d.timeouts)
  BY ReadyWaitsNot
<1>6. WaitLists(e)
  BY <1>0, <1>3, <1>5 DEF Lists, WaitLists
<1>7. TimeoutList(e)
  BY <1>0, <1>3, <1>5 DEF Lists, TimeoutList
<1> QED BY <1>3, <1>4, <1>6, <1>7 DEF Lists, Left, e

\* A blocked thread that waits on no list joins one.
LEMMA WaitqAddEffect ==
  ASSUME NEW d, Lists(d), NEW t \in Thread, d.state[t] = "blocked", d.on[t] = None,
         NEW q \in Obj
  PROVE  LET e == WaitqAdd(d, q, t)
         IN  /\ Lists(e) /\ SameMutexes(d, e) /\ e.prio = d.prio /\ e.cur = d.cur
             /\ e.state = d.state /\ e.result = d.result
             /\ e.on = [d.on EXCEPT ![t] = q] /\ e.timeouts = d.timeouts
<1> DEFINE over == {u \in Thread : d.prio[u] < d.prio[t]}
           w == InsertBefore(d.waitq[q], t, over)
           e == [d EXCEPT !.waitq[q] = w, !.on[t] = q]
<1>0. /\ d.on \in [Thread -> Obj \cup {None}] /\ d.waitq \in [Obj -> Seq(Thread)]
      /\ q # None
  BY ThreadAssumption DEF Lists, KernelType
<1>1. /\ d.waitq[q] \in Seq(Thread) /\ Inj(d.waitq[q]) /\ t \notin Elems(d.waitq[q])
      /\ Elems(d.waitq[q]) = {u \in Thread : d.on[u] = q}
  BY <1>0 DEF Lists, WaitLists
<1>2. w \in Seq(Thread) /\ Inj(w) /\ Elems(w) = Elems(d.waitq[q]) \cup {t}
  <2> HIDE DEF over
  <2> QED BY <1>1, InsertElems, InsertInj
<1>3. WaitqAdd(d, q, t) = e
  BY <1>0 DEF WaitqAdd, Lists, KernelType
<1> HIDE DEF w, e
<1>4. /\ e \in KernelType /\ SameMutexes(d, e) /\ e.prio = d.prio /\ e.cur = d.cur
      /\ e.state = d.state /\ e.result = d.result /\ e.ready = d.ready
      /\ e.on = [d.on EXCEPT ![t] = q] /\ e.timeouts = d.timeouts
      /\ e.waitq = [d.waitq EXCEPT ![q] = w]
  BY <1>0, <1>2 DEF Lists, KernelType, SameMutexes, e
<1>5. WaitLists(e)
  <2>1. ASSUME NEW o \in Obj
        PROVE  Inj(e.waitq[o]) /\ Elems(e.waitq[o]) = {u \in Thread : e.on[u] = o}
    <3>1. CASE o = q
      <4>1. e.waitq[o] = w
        BY <3>1, <1>0, <1>4
      <4>2. \A u \in Thread : e.on[u] = o <=> (u = t \/ d.on[u] = o)
        BY <3>1, <1>0, <1>4
      <4>3. Elems(w) = {u \in Thread : u = t \/ d.on[u] = o}
        BY <3>1, <1>1, <1>2
      <4> QED BY <1>2, <4>1, <4>2, <4>3
    <3>2. CASE o # q
      <4>1. e.waitq[o] = d.waitq[o]
        BY <3>2, <1>0, <1>4
      <4>2. \A u \in Thread : e.on[u] = o <=> d.on[u] = o
        BY <3>2, <1>0, <1>4, ThreadAssumption
      <4> QED BY <4>1, <4>2 DEF Lists, WaitLists
    <3> QED BY <3>1, <3>2
  <2>2. \A u \in Thread : e.on[u] # None => e.state[u] = "blocked"
    BY <1>0, <1>4 DEF Lists, WaitLists
  <2> QED BY <2>1, <2>2 DEF WaitLists
<1>6. ReadyLists(e) /\ TimeoutList(e)
  BY <1>4 DEF Lists, ReadyLists, TimeoutList
<1> QED BY <1>3, <1>4, <1>5, <1>6 DEF Lists

\* A blocked thread gets a timeout.
LEMMA TimeoutAddEffect ==
  ASSUME NEW d, Lists(d), NEW t \in Thread, d.state[t] = "blocked",
         t \notin Elems(d.timeouts), NEW ms \in Nat
  PROVE  LET e == TimeoutAdd(d, t, ms)
         IN  /\ Lists(e) /\ SameMutexes(d, e) /\ e.prio = d.prio /\ e.cur = d.cur
             /\ SameThreads(d, e)
<1> DEFINE v == IF ms = 0 THEN 1 ELSE ms
           over == {u \in Thread : d.wake[u] > v}
           w == InsertBefore(d.timeouts, t, over)
           e == [d EXCEPT !.timeouts = w, !.wake[t] = v]
<1>1. d.timeouts \in Seq(Thread) /\ Inj(d.timeouts) /\ v \in Nat
  BY DEF Lists, TimeoutList, KernelType
<1>2. w \in Seq(Thread) /\ Inj(w) /\ Elems(w) = Elems(d.timeouts) \cup {t}
  <2> HIDE DEF over
  <2> QED BY <1>1, InsertElems, InsertInj
<1>3. TimeoutAdd(d, t, ms) = e
  BY DEF TimeoutAdd, Lists, KernelType
<1> HIDE DEF w, e, v
<1>4. /\ e \in KernelType /\ SameMutexes(d, e) /\ SameThreads(d, e)
      /\ e.prio = d.prio /\ e.cur = d.cur /\ e.ready = d.ready
      /\ e.timeouts = w /\ e.waitq = d.waitq
  BY <1>1, <1>2 DEF Lists, KernelType, SameMutexes, SameThreads, e
<1>5. TimeoutList(e)
  BY <1>2, <1>4 DEF Lists, TimeoutList, SameThreads
<1>6. ReadyLists(e) /\ WaitLists(e)
  BY <1>4 DEF Lists, ReadyLists, WaitLists, SameThreads
<1> QED BY <1>3, <1>4, <1>5, <1>6 DEF Lists

\* What k_block() does to thread t before it gives up the CPU.
Queue(d, t, q, ms) ==
  LET k1 == Leave(d, t, "blocked", "ok")
      k2 == IF q # None THEN WaitqAdd(k1, q, t) ELSE k1
  IN  IF ms # None THEN TimeoutAdd(k2, t, ms) ELSE k2

LEMMA QueueEffect ==
  ASSUME NEW d, Lists(d), NEW t \in Thread, d.state[t] = "ready",
         NEW q \in Obj \cup {None}, NEW ms \in Nat \cup {None}
  PROVE  Waiting(d, Queue(d, t, q, ms), t, q)
<1> DEFINE k1 == Leave(d, t, "blocked", "ok")
           k2 == IF q # None THEN WaitqAdd(k1, q, t) ELSE k1
           k3 == IF ms # None THEN TimeoutAdd(k2, t, ms) ELSE k2
<1>0. /\ d.on[t] = None /\ t \notin Elems(d.timeouts)
      /\ d.on \in [Thread -> Obj \cup {None}] /\ d.state \in [Thread -> States]
  BY ReadyWaitsNot DEF Lists, KernelType
<1>1. /\ Lists(k1) /\ SameMutexes(d, k1) /\ k1.prio = d.prio /\ k1.on = d.on
      /\ k1.state = [d.state EXCEPT ![t] = "blocked"]
      /\ k1.result = [d.result EXCEPT ![t] = "ok"] /\ k1.timeouts = d.timeouts
  <2>1. "blocked" \in {"blocked", "dead"} /\ "ok" \in Results
    BY DEF Results
  <2>2. k1.timeouts = d.timeouts
    BY DEF Leave, ReadyRemove, Lists, KernelType
  <2>3. Left(d, k1, t, "blocked", "ok")
    BY <2>1, LeaveEffect
  <2> QED BY <2>2, <2>3 DEF Left
<1> HIDE DEF k1
<1>2. /\ Lists(k2) /\ SameMutexes(k1, k2) /\ k2.prio = k1.prio
      /\ k2.on = [d.on EXCEPT ![t] = q] /\ k2.timeouts = k1.timeouts
      /\ k2.state = k1.state /\ k2.result = k1.result
  <2>1. k1.state[t] = "blocked" /\ k1.on[t] = None
    BY <1>0, <1>1
  <2>2. CASE q # None
    <3>1. q \in Obj /\ k2 = WaitqAdd(k1, q, t)
      BY <2>2
    <3> HIDE DEF k2
    <3> QED BY <2>1, <3>1, <1>1, WaitqAddEffect
  <2>3. CASE q = None
    <3>1. k2 = k1 BY <2>3
    <3> HIDE DEF k2
    <3> QED BY <2>1, <2>3, <3>1, <1>0, <1>1 DEF SameMutexes
  <2> QED BY <2>2, <2>3
<1> HIDE DEF k2
<1>3. /\ Lists(k3) /\ SameMutexes(k2, k3) /\ k3.prio = k2.prio /\ SameThreads(k2, k3)
  <2>1. k2.state[t] = "blocked" /\ t \notin Elems(k2.timeouts)
    BY <1>0, <1>1, <1>2
  <2>2. CASE ms # None
    <3>1. ms \in Nat /\ k3 = TimeoutAdd(k2, t, ms)
      BY <2>2
    <3> HIDE DEF k3
    <3> QED BY <2>1, <3>1, <1>2, TimeoutAddEffect
  <2>3. CASE ms = None
    BY <2>3, <1>2 DEF SameMutexes, SameThreads
  <2> QED BY <2>2, <2>3
<1>4. Queue(d, t, q, ms) = k3
  BY DEF Queue, k1, k2
<1> HIDE DEF k3
<1>5. SameMutexes(d, k3) /\ k3.prio = d.prio
  BY <1>1, <1>2, <1>3 DEF SameMutexes
<1>6. k3.state = k1.state /\ k3.on = k2.on /\ k3.result = k1.result
  BY <1>2, <1>3 DEF SameThreads
<1> QED BY <1>1, <1>2, <1>3, <1>4, <1>5, <1>6 DEF Waiting

\* k_block(): the running thread waits, and a ready thread runs.
LEMMA BlockEffect ==
  ASSUME NEW d, Lists(d), d.state[d.cur] = "ready",
         d.cur # Idle, d.state[Idle] = "ready",
         NEW q \in Obj \cup {None}, NEW ms \in Nat \cup {None}
  PROVE  LET e == Block(d, q, ms)
         IN  Waiting(d, e, d.cur, q) /\ e.state[e.cur] = "ready"
<1> DEFINE x == Queue(d, d.cur, q, ms)
           e == Reschedule(x)
<1>0. d.cur \in Thread /\ Idle \in Thread /\ d.state \in [Thread -> States]
  BY ThreadAssumption DEF Lists, KernelType
<1>1. Waiting(d, x, d.cur, q)
  BY <1>0, QueueEffect
<1>2. Block(d, q, ms) = e
  BY DEF Block, Queue, Leave
<1> HIDE DEF x
<1>3. x.state[Idle] = "ready" /\ Lists(x)
  BY <1>0, <1>1 DEF Waiting
<1>4. Switched(x, e)
  BY <1>0, <1>3, RescheduleEffect
<1> HIDE DEF e
<1>5. Waiting(d, e, d.cur, q) /\ e.state[e.cur] = "ready"
  BY <1>1, <1>4 DEF Waiting, Switched, SameMutexes, SameThreads
<1> QED BY <1>2, <1>5
-----------------------------------------------------------------------------
(* Changing priorities.                                                      *)

Closed(d, p, S) == \A a \in S, b \in Thread : Inherits(d, a, b, p) => b \in S

\* Reached is the least closed set.
LEMMA ReachedLeast ==
  ASSUME NEW d, NEW t \in Thread, NEW p,
         NEW S \in SUBSET Thread, t \in S, Closed(d, p, S)
  PROVE  Reached(d, t, p) \subseteq S
BY DEF Reached, Closed

LEMMA ReachedClosed ==
  ASSUME NEW d, NEW t \in Thread, NEW p
  PROVE  /\ Reached(d, t, p) \subseteq Thread
         /\ t \in Reached(d, t, p) /\ Closed(d, p, Reached(d, t, p))
BY DEF Reached, Closed

\* Priority is only lent to owners of mutexes.
LEMMA ReachedOwner ==
  ASSUME NEW d, d \in KernelType, NEW t \in Thread, NEW p,
         NEW u \in Reached(d, t, p), u # t
  PROVE  (\E m \in Mutex : d.owner[m] = u) /\ p > d.prio[u]
<1> DEFINE S == {v \in Thread : v = t \/ ((\E m \in Mutex : d.owner[m] = v) /\ p > d.prio[v])}
<1>1. ASSUME NEW a \in S, NEW b \in Thread, Inherits(d, a, b, p)
      PROVE  b \in S
  <2>1. a \in Thread /\ d.blockedOn[a] # None /\ b = d.owner[d.blockedOn[a]] /\ p > d.prio[b]
    BY <1>1 DEF Inherits
  <2>2. d.blockedOn[a] \in Mutex
    BY <2>1 DEF KernelType
  <2> QED BY <2>1, <2>2
<1>2. S \in SUBSET Thread /\ t \in S /\ Closed(d, p, S)
  BY <1>1 DEF Closed
<1> HIDE DEF S
<1>3. u \in S
  BY <1>2, ReachedLeast
<1> QED BY <1>3 DEF S

\* The chain of blocked owners ends at the first thread that is not blocked.
LEMMA ReachedEnd ==
  ASSUME NEW d, NEW t \in Thread, NEW p,
         NEW u \in Reached(d, t, p), d.state[u] # "blocked",
         NEW v \in Reached(d, t, p), d.state[v] # "blocked"
  PROVE  u = v
<1> DEFINE R(x) == Reached(d, x, p)
           S == {x \in R(t) : u \in R(x)}
<1> HIDE DEF R
<1>0. u \in Thread /\ v \in Thread
  BY ReachedClosed
<1>1. \A x \in Thread : R(x) \subseteq Thread /\ x \in R(x) /\ Closed(d, p, R(x))
  BY ReachedClosed DEF R
<1>2. \A x \in Thread, T \in SUBSET Thread : x \in T /\ Closed(d, p, T) => R(x) \subseteq T
  BY ReachedLeast DEF R
<1>3. ASSUME NEW a \in S, NEW b \in Thread, Inherits(d, a, b, p)
      PROVE  b \in S
  <2>1. a \in Thread /\ b \in R(t) /\ u \in R(a)
    BY <1>1, <1>3 DEF Closed
  <2> DEFINE T == {a} \cup R(b)
  <2>2. Closed(d, p, T)
    <3>1. ASSUME NEW x \in T, NEW y \in Thread, Inherits(d, x, y, p)
          PROVE  y \in T
      <4>1. CASE x = a
        <5>1. y = b BY <4>1, <3>1, <1>3 DEF Inherits
        <5> QED BY <5>1, <1>1
      <4>2. CASE x \in R(b)
        BY <4>2, <3>1, <1>1 DEF Closed
      <4> QED BY <4>1, <4>2
    <3> HIDE DEF T
    <3> QED BY <3>1 DEF Closed
  <2>3. T \in SUBSET Thread /\ a \in T
    BY <2>1, <1>1
  <2>4. u \in T
    <3> HIDE DEF T
    <3> QED BY <1>2, <2>1, <2>2, <2>3
  <2>5. a # u
    BY <1>3 DEF Inherits
  <2> QED BY <2>1, <2>4, <2>5
<1>4. S \in SUBSET Thread /\ t \in S
  BY <1>1 DEF R
<1>5. Closed(d, p, S)
  <2> HIDE DEF S
  <2> QED BY <1>3 DEF Closed
<1>6. v \in S
  <2>1. v \in R(t) BY DEF R
  <2> HIDE DEF S
  <2> QED BY <2>1, <1>2, <1>4, <1>5
<1>7. Closed(d, p, {v})
  BY DEF Closed, Inherits
<1>8. R(v) \subseteq {v}
  BY <1>0, <1>2, <1>7
<1> QED BY <1>6, <1>8

\* From d to e thread t, and perhaps owners of mutexes, have a new priority.
Raised(d, e, t, p) ==
  /\ Lists(e) /\ SameThreads(d, e) /\ SameMutexes(d, e)
  /\ e.cur = d.cur
  /\ e.prio[t] = p
  /\ \A u \in Thread : \/ u = t \/ e.prio[u] = d.prio[u]
                       \/ (\E m \in Mutex : d.owner[m] = u) /\ e.prio[u] > d.prio[u]

\* The wait lists s when the threads of R get priority p: a thread that waits goes
\* to the place p gives it.
Replaced(d, R, p, prio, s) ==
  \A q \in Obj :
    \/ /\ s[q] = d.waitq[q]
       /\ \A u \in R : ~(d.state[u] = "blocked" /\ d.on[u] = q)
    \/ \E u \in R : /\ d.state[u] = "blocked" /\ d.on[u] = q
                    /\ s[q] = InsertBefore(Without(d.waitq[q], u), u,
                                           {v \in Thread : prio[v] < p})

\* The ready lists s once thread u went to the list of p, to its head if it was the
\* running one at the head of its own.
Rejoined(d, u, p, s) ==
  LET r == [d.ready EXCEPT ![d.prio[u]] = Without(@, u)]
  IN  s = [r EXCEPT ![p] = IF Head(d.ready[d.prio[u]]) = u /\ u = d.cur
                           THEN <<u>> \o @ ELSE Append(@, u)]

\* The ready lists s when the threads of R get priority p: one of R at most is ready.
Relisted(d, R, p, s) ==
  \/ s = d.ready /\ \A u \in R : d.state[u] # "ready"
  \/ \E u \in R : d.state[u] = "ready" /\ Rejoined(d, u, p, s)

\* What that did to the lists when p is new to t.
Spread(d, e, t, p) ==
  LET R == Reached(d, t, p)
  IN  /\ \A u \in Thread : e.prio[u] = IF u \in R THEN p ELSE d.prio[u]
      /\ Replaced(d, R, p, e.prio, e.waitq) /\ Relisted(d, R, p, e.ready)
      /\ e.timeouts = d.timeouts /\ e.wake = d.wake
      /\ d.need => e.need

\* k_set_prio() moves the threads it reaches to the places their new
\* priority gives them.
LEMMA SetPrioEffect ==
  ASSUME NEW d, Lists(d), NEW t \in Thread, NEW p \in Prio
  PROVE  /\ Raised(d, SetPrio(d, t, p), t, p)
         /\ IF d.prio[t] = p THEN SetPrio(d, t, p) = d
                             ELSE Spread(d, SetPrio(d, t, p), t, p)
<1>a. CASE d.prio[t] = p
  <2>1. SetPrio(d, t, p) = d
    BY <1>a DEF SetPrio
  <2> QED BY <2>1, <1>a DEF Raised, SameThreads, SameMutexes
<1>b. CASE d.prio[t] # p
  <2> DEFINE R       == Reached(d, t, p)
             prio    == [u \in Thread |-> IF u \in R THEN p ELSE d.prio[u]]
             Moved(q) == {u \in R : d.state[u] = "blocked" /\ d.on[u] = q}
             waitq   == [q \in Obj |->
                          IF Moved(q) = {} THEN d.waitq[q]
                          ELSE LET u == CHOOSE v \in Moved(q) : TRUE
                               IN  InsertBefore(Without(d.waitq[q], u), u,
                                                {v \in Thread : prio[v] < p})]
             Queued  == {u \in R : d.state[u] = "ready"}
             k1      == [d EXCEPT !.prio = prio, !.waitq = waitq]
             u0      == CHOOSE v \in Queued : TRUE
             hd      == Head(d.ready[d.prio[u0]]) = u0 /\ u0 = d.cur
             k2      == IF Queued = {} THEN k1
                        ELSE ReadyAdd([k1 EXCEPT !.ready[d.prio[u0]] = Without(@, u0)],
                                      u0, hd)
             need    == \/ d.cur \in R /\ HighestReady(k2) > p
                        \/ \E u \in R \ {d.cur} : d.state[u] = "ready" /\ p > prio[d.cur]
             e       == [k2 EXCEPT !.need = @ \/ need]
  <2>1. SetPrio(d, t, p) = e
    BY <1>b, Zenon DEF SetPrio
  <2>2. /\ R \subseteq Thread /\ t \in R
        /\ \A u \in R : u = t \/ ((\E m \in Mutex : d.owner[m] = u) /\ p > d.prio[u])
        /\ \A u, v \in R : d.state[u] = "ready" /\ d.state[v] = "ready" => u = v
    <3>1. R \subseteq Thread /\ t \in R
      BY ReachedClosed
    <3>2. \A u \in R : u = t \/ ((\E m \in Mutex : d.owner[m] = u) /\ p > d.prio[u])
      BY ReachedOwner DEF Lists
    <3>3. \A u, v \in R : d.state[u] # "blocked" /\ d.state[v] # "blocked" => u = v
      BY ReachedEnd
    <3> QED BY <3>1, <3>2, <3>3
  <2> HIDE DEF R
  <2>3. prio \in [Thread -> Prio] /\ \A u \in Thread : prio[u] = IF u \in R THEN p ELSE d.prio[u]
    BY DEF Lists, KernelType
  <2> HIDE DEF prio
  <2>4. /\ waitq \in [Obj -> Seq(Thread)]
        /\ \A q \in Obj : Inj(waitq[q]) /\ Elems(waitq[q]) = Elems(d.waitq[q])
    <3> SUFFICES ASSUME NEW q \in Obj
                 PROVE  /\ waitq[q] \in Seq(Thread) /\ Inj(waitq[q])
                        /\ Elems(waitq[q]) = Elems(d.waitq[q])
      OBVIOUS
    <3>1. /\ d.waitq[q] \in Seq(Thread) /\ Inj(d.waitq[q])
          /\ Elems(d.waitq[q]) = {u \in Thread : d.on[u] = q}
      BY DEF Lists, WaitLists, KernelType
    <3>2. CASE Moved(q) = {}
      <4>1. waitq[q] = d.waitq[q] BY <3>2
      <4> HIDE DEF waitq
      <4> QED BY <3>1, <4>1
    <3>3. CASE Moved(q) # {}
      <4> DEFINE u == CHOOSE v \in Moved(q) : TRUE
                 s == Without(d.waitq[q], u)
                 over == {v \in Thread : prio[v] < p}
      <4>1. u \in Moved(q) BY <3>3
      <4>2. waitq[q] = InsertBefore(s, u, over) BY <3>3
      <4> HIDE DEF u, waitq
      <4>3. u \in Thread /\ u \in Elems(d.waitq[q])
        BY <4>1, <3>1, <2>2
      <4>4. s \in Seq(Thread) /\ Inj(s) /\ Elems(s) = Elems(d.waitq[q]) \ {u}
        BY <3>1, WithoutElems, WithoutInj
      <4> HIDE DEF s, over, Moved
      <4>5. /\ InsertBefore(s, u, over) \in Seq(Thread)
            /\ Inj(InsertBefore(s, u, over))
            /\ Elems(InsertBefore(s, u, over)) = Elems(s) \cup {u}
        BY <4>3, <4>4, InsertElems, InsertInj
      <4>6. Elems(s) \cup {u} = Elems(d.waitq[q])
        BY <4>3, <4>4
      <4> QED BY <4>2, <4>5, <4>6
    <3> QED BY <3>2, <3>3
  <2>14. Replaced(d, R, p, prio, waitq)
    <3> SUFFICES ASSUME NEW q \in Obj
                 PROVE  \/ /\ waitq[q] = d.waitq[q]
                           /\ \A u \in R : ~(d.state[u] = "blocked" /\ d.on[u] = q)
                        \/ \E u \in R :
                             /\ d.state[u] = "blocked" /\ d.on[u] = q
                             /\ waitq[q] = InsertBefore(Without(d.waitq[q], u), u,
                                                        {v \in Thread : prio[v] < p})
      BY DEF Replaced
    <3>1. CASE Moved(q) = {}
      BY <3>1
    <3>2. CASE Moved(q) # {}
      <4> DEFINE u == CHOOSE v \in Moved(q) : TRUE
      <4>1. u \in Moved(q) BY <3>2
      <4>2. waitq[q] = InsertBefore(Without(d.waitq[q], u), u, {v \in Thread : prio[v] < p})
        BY <3>2
      <4> HIDE DEF u, waitq
      <4> QED BY <4>1, <4>2
    <3> QED BY <3>1, <3>2
  <2> HIDE DEF waitq
  <2>5. /\ k1 \in KernelType /\ k1.prio = prio /\ k1.waitq = waitq
        /\ k1.ready = d.ready /\ k1.timeouts = d.timeouts /\ k1.cur = d.cur
        /\ k1.need = d.need /\ k1.wake = d.wake
        /\ SameThreads(d, k1) /\ SameMutexes(d, k1)
    <3>1. k1 \in KernelType
      BY <2>3, <2>4 DEF Lists, KernelType
    <3> QED BY <3>1 DEF Lists, KernelType, SameThreads, SameMutexes
  <2> HIDE DEF k1
  <2>6. /\ k2 \in KernelType /\ k2.prio = prio /\ k2.waitq = waitq
        /\ k2.timeouts = d.timeouts /\ k2.cur = d.cur
        /\ SameThreads(d, k2) /\ SameMutexes(d, k2)
        /\ ReadyLists(k2) /\ k2.wake = d.wake /\ k2.need = d.need
        /\ Relisted(d, R, p, k2.ready)
    <3>0. d.ready \in [Prio -> Seq(Thread)] /\ d.prio \in [Thread -> Prio]
      BY DEF Lists, KernelType
    <3>1. CASE Queued = {}
      <4>1. k2 = k1 BY <3>1
      <4>2. \A v \in Thread : d.state[v] = "ready" => prio[v] = d.prio[v]
        BY <3>1, <2>2, <2>3
      <4> HIDE DEF k2, Queued
      <4>3. ReadyLists(k2)
        BY <4>1, <4>2, <2>5 DEF Lists, ReadyLists, SameThreads
      <4>4. Relisted(d, R, p, k2.ready)
        BY <4>1, <3>1, <2>2, <2>5 DEF Queued, Relisted
      <4> QED BY <4>1, <4>3, <4>4, <2>5
    <3>2. CASE Queued # {}
      <4>1. u0 \in Queued
        BY <3>2
      <4> HIDE DEF u0
      <4>2. u0 \in Thread /\ d.state[u0] = "ready" /\ u0 \in R /\ prio[u0] = p
        BY <4>1, <2>2, <2>3
      <4>3. \A v \in R : d.state[v] = "ready" => v = u0
        BY <4>2, <2>2
      <4> DEFINE o  == d.prio[u0]
                 w  == Without(d.ready[o], u0)
                 s  == IF o = p THEN w ELSE d.ready[p]
                 a  == IF hd THEN <<u0>> \o s ELSE Append(s, u0)
      <4>4. o \in Prio /\ d.ready[o] \in Seq(Thread) /\ Inj(d.ready[o])
        BY <3>0, <4>2 DEF Lists, ReadyLists
      <4>5. w \in Seq(Thread) /\ Inj(w) /\ Elems(w) = Elems(d.ready[o]) \ {u0}
        BY <4>4, WithoutElems, WithoutInj
      <4> HIDE DEF w
      <4>6. /\ s \in Seq(Thread) /\ Inj(s) /\ u0 \notin Elems(s)
            /\ Elems(s) = {v \in Thread : d.state[v] = "ready" /\ d.prio[v] = p} \ {u0}
        BY <3>0, <4>2, <4>5 DEF Lists, ReadyLists
      <4>7. a \in Seq(Thread) /\ Inj(a) /\ Elems(a) = Elems(s) \cup {u0}
        <5> HIDE DEF s
        <5>1. CASE hd
          <6>1. /\ <<u0>> \o s \in Seq(Thread) /\ Inj(<<u0>> \o s)
                /\ Elems(<<u0>> \o s) = Elems(s) \cup {u0}
            BY <4>2, <4>6, PrependHead
          <6>2. a = <<u0>> \o s BY <5>1
          <6> HIDE DEF a
          <6> QED BY <6>1, <6>2
        <5>2. CASE ~hd
          <6>1. /\ Append(s, u0) \in Seq(Thread) /\ Inj(Append(s, u0))
                /\ Elems(Append(s, u0)) = Elems(s) \cup {u0}
            BY <4>2, <4>6, AppendEnd
          <6>2. a = Append(s, u0) BY <5>2
          <6> HIDE DEF a
          <6> QED BY <6>1, <6>2
        <5> QED BY <5>1, <5>2
      <4> DEFINE r1 == [d.ready EXCEPT ![o] = w]
                 r2 == [r1 EXCEPT ![p] = a]
      <4>8. r1[p] = s
        BY <3>0, <4>4
      <4>9. k2 = [k1 EXCEPT !.ready = r2, !.state[u0] = "ready"]
        <5> DEFINE k0 == [k1 EXCEPT !.ready = r1]
        <5>1. k0 = [k1 EXCEPT !.ready[o] = Without(@, u0)]
          BY <2>5 DEF KernelType, w
        <5>2. k2 = ReadyAdd(k0, u0, hd)
          BY <3>2, <5>1
        <5>3. k0.prio[u0] = p /\ k0.ready = r1
          BY <4>2, <2>5 DEF KernelType
        <5>4. k2 = [k0 EXCEPT !.state[u0] = "ready", !.ready[p] = a]
          <6> HIDE DEF k0, k2, r1, s
          <6> QED BY <5>2, <5>3, <4>8 DEF ReadyAdd
        <5> HIDE DEF k2, a, w, hd
        <5> QED BY <5>3, <5>4, <2>5 DEF KernelType
      <4> HIDE DEF k2, a, s, r1, hd
      <4>10. r2 \in [Prio -> Seq(Thread)] /\ k1.state = d.state
        BY <3>0, <4>4, <4>5, <4>7, <2>5 DEF r1, SameThreads
      <4> HIDE DEF r2
      <4>11. /\ k2 \in KernelType /\ k2.prio = prio /\ k2.waitq = waitq
             /\ k2.timeouts = d.timeouts /\ k2.cur = d.cur
             /\ SameThreads(d, k2) /\ SameMutexes(d, k2) /\ k2.ready = r2
             /\ k2.wake = d.wake /\ k2.need = d.need
        <5>1. [k1.state EXCEPT ![u0] = "ready"] = k1.state
          BY <4>2, <4>10, <2>5 DEF KernelType
        <5> QED BY <5>1, <4>9, <4>10, <2>5 DEF KernelType, SameThreads, SameMutexes
      <4>12. ReadyLists(k2)
        <5> SUFFICES ASSUME NEW q \in Prio
                     PROVE  /\ Inj(r2[q])
                            /\ Elems(r2[q]) =
                                 {v \in Thread : d.state[v] = "ready" /\ prio[v] = q}
          BY <4>11 DEF ReadyLists, SameThreads
        <5>0. \A v \in Thread : d.state[v] = "ready" =>
                 prio[v] = IF v = u0 THEN p ELSE d.prio[v]
          BY <2>3, <4>2, <4>3
        <5>1. CASE q = p
          <6>1. r2[q] = a
            BY <5>1, <3>0, <4>4 DEF r1, r2
          <6>2. Elems(s) \cup {u0} =
                  {v \in Thread : d.state[v] = "ready" /\ prio[v] = q}
            BY <5>0, <5>1, <4>2, <4>6
          <6> QED BY <6>1, <6>2, <4>7
        <5>2. CASE q # p /\ q = o
          <6>1. r2[q] = w
            BY <5>2, <3>0, <4>4 DEF r1, r2
          <6>2. Elems(w) = {v \in Thread : d.state[v] = "ready" /\ prio[v] = q}
            BY <5>0, <5>2, <4>2, <4>5 DEF Lists, ReadyLists
          <6> QED BY <6>1, <6>2, <4>5
        <5>3. CASE q # p /\ q # o
          <6>1. r2[q] = d.ready[q]
            BY <5>3, <3>0, <4>4 DEF r1, r2
          <6>2. Elems(d.ready[q]) = {v \in Thread : d.state[v] = "ready" /\ prio[v] = q}
            BY <5>0, <5>3, <4>2 DEF Lists, ReadyLists
          <6> QED BY <6>1, <6>2 DEF Lists, ReadyLists
        <5> QED BY <5>1, <5>2, <5>3
      <4>13. r2 = [r1 EXCEPT ![p] = IF Head(d.ready[d.prio[u0]]) = u0 /\ u0 = d.cur
                                    THEN <<u0>> \o @ ELSE Append(@, u0)]
        BY <4>8, SMTT(30) DEF r2, a, hd
      <4>14. r1 = [d.ready EXCEPT ![d.prio[u0]] = Without(@, u0)]
        BY DEF r1, w
      <4>15. Relisted(d, R, p, k2.ready)
        BY <4>2, <4>11, <4>13, <4>14 DEF Relisted, Rejoined
      <4> HIDE DEF r2
      <4> QED BY <4>2, <4>11, <4>12, <4>15
    <3> HIDE DEF k2, Queued
    <3> QED BY <3>1, <3>2
  <2> HIDE DEF k2
  <2>7. WaitLists(k2) /\ TimeoutList(k2)
    BY <2>4, <2>6 DEF Lists, WaitLists, TimeoutList, SameThreads
  <2>8. Lists(k2)
    BY <2>6, <2>7 DEF Lists
  <2>9. /\ Lists(e) /\ SameThreads(k2, e) /\ SameMutexes(k2, e)
        /\ e.prio = k2.prio /\ e.cur = k2.cur /\ e.ready = k2.ready
        /\ e.waitq = k2.waitq /\ e.timeouts = k2.timeouts /\ e.wake = k2.wake
        /\ k2.need => e.need
    <3>1. k2.need \in BOOLEAN /\ k2.rotate \in BOOLEAN
      BY <2>6 DEF KernelType
    <3> DEFINE b == k2.need \/ need
               x == [k2 EXCEPT !.need = b, !.rotate = k2.rotate]
    <3>2. b \in BOOLEAN
      <4> HIDE DEF need
      <4> QED OBVIOUS
    <3>3. e = x
      <4>1. k2 \in KernelType BY <2>6
      <4> HIDE DEF need
      <4> QED BY <4>1 DEF KernelType
    <3> HIDE DEF b, e
    <3>4. /\ Lists(x) /\ SameThreads(k2, x) /\ SameMutexes(k2, x)
          /\ x.prio = k2.prio /\ x.cur = k2.cur
      BY <3>1, <3>2, <2>8, FlagEffect, Zenon
    <3>5. /\ x.ready = k2.ready /\ x.waitq = k2.waitq /\ x.timeouts = k2.timeouts
          /\ x.wake = k2.wake /\ x.need = b
      BY <2>6 DEF KernelType
    <3>6. k2.need => b
      BY DEF b
    <3> QED BY <3>3, <3>4, <3>5, <3>6
  <2> HIDE DEF e
  <2>10. e.prio[t] = p
    BY <2>2, <2>3, <2>6, <2>9
  <2>11. \A u \in Thread : \/ u = t \/ e.prio[u] = d.prio[u]
                           \/ (\E m \in Mutex : d.owner[m] = u) /\ e.prio[u] > d.prio[u]
    BY <2>2, <2>3, <2>6, <2>9
  <2>12. Raised(d, e, t, p)
    BY <2>6, <2>9, <2>10, <2>11 DEF Raised, SameThreads, SameMutexes
  <2>13. Spread(d, e, t, p)
    <3>1. \A u \in Thread : e.prio[u] = IF u \in R THEN p ELSE d.prio[u]
      BY <2>3, <2>6, <2>9
    <3>2. Replaced(d, R, p, e.prio, e.waitq) /\ Relisted(d, R, p, e.ready)
      BY <2>14, <2>6, <2>9
    <3>3. e.timeouts = d.timeouts /\ e.wake = d.wake
      BY <2>6, <2>9
    <3>4. d.need => e.need
      BY <2>6, <2>9
    <3> QED BY <3>1, <3>2, <3>3, <3>4 DEF Spread, R
  <2> QED BY <2>1, <2>12, <2>13, <1>b
<1> QED BY <1>a, <1>b

\* k_mutex_ceiling() returns the highest of the thread's own priority, all there is
\* when it holds no mutex, and that of the first waiter of each mutex it holds.
LEMMA CeilingEffect ==
  ASSUME NEW d, Lists(d), NEW t \in Thread
  PROVE  /\ Ceiling(d, t) \in Prio
         /\ d.held[t] = {} => Ceiling(d, t) = d.base[t]
         /\ Ceiling(d, t) >= d.base[t]
         /\ \A m \in d.held[t] :
              d.waitq[m] # <<>> => d.prio[Head(d.waitq[m])] <= Ceiling(d, t)
         /\ \/ Ceiling(d, t) = d.base[t]
            \/ \E m \in d.held[t] : /\ d.waitq[m] # <<>>
                                    /\ Ceiling(d, t) = d.prio[Head(d.waitq[m])]
<1> DEFINE H == {h \in d.held[t] : d.waitq[h] # <<>>}
           P == {d.base[t]} \cup {d.prio[Head(d.waitq[m])] : m \in H}
<1>1. /\ d.held[t] \subseteq Mutex /\ d.base[t] \in Prio /\ d.prio \in [Thread -> Prio]
      /\ d.waitq \in [Obj -> Seq(Thread)] /\ Mutex \subseteq Obj
      /\ MaxPrio \in Nat
  BY ThreadAssumption DEF Lists, KernelType
<1>2. ASSUME NEW m \in H PROVE d.prio[Head(d.waitq[m])] \in Prio
  <2>1. d.waitq[m] \in Seq(Thread) /\ d.waitq[m] # <<>>
    BY <1>1
  <2>2. Head(d.waitq[m]) \in Thread
    BY <2>1
  <2> QED BY <2>2, <1>1
<1>3. P \in SUBSET (0 .. MaxPrio) /\ P # {}
  <2> HIDE DEF H
  <2> QED BY <1>1, <1>2 DEF Prio
<1>4. \E n \in P : \A m \in P : m <= n
  <2> HIDE DEF P
  <2> QED BY <1>1, <1>3, GreatestNat
<1>5. Ceiling(d, t) = CHOOSE p \in P : \A q \in P : q <= p
  BY DEF Ceiling
<1>6. Ceiling(d, t) \in P /\ \A q \in P : q <= Ceiling(d, t)
  <2> HIDE DEF P
  <2> QED BY <1>4, <1>5
<1>7. ASSUME d.held[t] = {} PROVE Ceiling(d, t) = d.base[t]
  BY <1>6, <1>7
<1>8. d.base[t] <= Ceiling(d, t)
  BY <1>6
<1>9. \A m \in H : d.prio[Head(d.waitq[m])] <= Ceiling(d, t)
  BY <1>6
<1>10. \/ Ceiling(d, t) = d.base[t]
       \/ \E m \in H : Ceiling(d, t) = d.prio[Head(d.waitq[m])]
  BY <1>6
<1>11. Ceiling(d, t) \in Prio
  BY <1>3, <1>6 DEF Prio
<1> HIDE DEF P
<1> QED BY <1>7, <1>8, <1>9, <1>10, <1>11

\* Moving on the head of a circular list of n threads by i keeps its elements.
Turned(r, s, i, n) ==
  /\ Len(r) = n /\ Len(s) = n
  /\ \A j \in 1 .. n : r[j] = IF j <= n - i THEN s[i + j] ELSE s[j - (n - i)]

LEMMA TurnElems ==
  ASSUME NEW A, NEW s \in Seq(A), Inj(s), NEW n \in Nat, NEW i \in 1 .. n,
         NEW r \in Seq(A), Turned(r, s, i, n)
  PROVE  Inj(r) /\ Elems(r) = Elems(s)
<1>0. /\ Len(r) = n /\ Len(s) = n
      /\ \A j \in 1 .. n : r[j] = IF j <= n - i THEN s[i + j] ELSE s[j - (n - i)]
  BY DEF Turned
<1>1. DOMAIN s = 1 .. n /\ \A j, l \in 1 .. n : s[j] = s[l] => j = l
  <2>1. DOMAIN s = 1 .. n
    BY <1>0
  <2> QED BY <2>1 DEF Inj
<1>5. DOMAIN r = 1 .. n
  BY <1>0
<1> DEFINE At(j) == IF j <= n - i THEN i + j ELSE j - (n - i)
           Back(j) == IF j <= i THEN j + (n - i) ELSE j - i
<1>6. \A j \in 1 .. n : At(j) \in 1 .. n /\ r[j] = s[At(j)]
  BY <1>0, <1>1
<1>7. \A j \in 1 .. n : Back(j) \in 1 .. n /\ At(Back(j)) = j
  BY <1>1
<1>8. \A j, l \in 1 .. n : At(j) = At(l) => j = l
  BY <1>1
<1> HIDE DEF At, Back
<1>9. Inj(r)
  <2>1. ASSUME NEW j \in 1 .. n, NEW l \in 1 .. n, r[j] = r[l] PROVE j = l
    <3>1. At(j) \in 1 .. n /\ At(l) \in 1 .. n /\ s[At(j)] = s[At(l)]
      BY <2>1, <1>6
    <3>2. At(j) = At(l) BY <3>1, <1>1
    <3> QED BY <3>2, <1>8
  <2> QED BY <2>1, <1>5 DEF Inj
<1>10. ASSUME NEW j \in 1 .. n PROVE r[j] \in Elems(s)
  BY <1>1, <1>6 DEF Elems
<1>11. ASSUME NEW j \in 1 .. n PROVE s[j] \in Elems(r)
  <2>1. Back(j) \in 1 .. n /\ r[Back(j)] = s[j]
    BY <1>6, <1>7
  <2> QED BY <2>1, <1>5 DEF Elems
<1>12. Elems(r) \subseteq Elems(s)
  BY <1>10, <1>5 DEF Elems
<1>13. Elems(s) \subseteq Elems(r)
  BY <1>11, <1>1 DEF Elems
<1> QED BY <1>9, <1>12, <1>13

LEMMA PastElems ==
  ASSUME NEW A, NEW s \in Seq(A), Inj(s), NEW i \in DOMAIN s
  PROVE  LET r == SubSeq(s, i + 1, Len(s)) \o SubSeq(s, 1, i)
         IN  r \in Seq(A) /\ Inj(r) /\ Elems(r) = Elems(s) /\ Turned(r, s, i, Len(s))
<1> DEFINE n == Len(s)
           a == SubSeq(s, i + 1, n)
           b == SubSeq(s, 1, i)
<1>1. n \in Nat /\ i \in 1 .. n /\ \A j \in 1 .. n : s[j] \in A
  OBVIOUS
<1>2. /\ a \in Seq(A) /\ Len(a) = n - i /\ \A j \in 1 .. n - i : a[j] = s[i + j]
  <2> DEFINE m == i + 1
  <2>1. m \in Int /\ n \in Int /\ \A j \in m .. n : s[j] \in A
    BY <1>1
  <2>2. a = SubSeq(s, m, n)
    OBVIOUS
  <2>3. /\ n - m + 1 = n - i /\ (IF m <= n THEN n - m + 1 ELSE 0) = n - i
        /\ \A j \in 1 .. n - i : m + j - 1 = i + j
    BY <1>1
  <2> HIDE DEF m, a, n
  <2>4. /\ SubSeq(s, m, n) \in Seq(A)
        /\ Len(SubSeq(s, m, n)) = IF m <= n THEN n - m + 1 ELSE 0
        /\ \A j \in 1 .. n - m + 1 : SubSeq(s, m, n)[j] = s[m + j - 1]
    BY <2>1, SubSeqProperties
  <2> QED BY <2>2, <2>3, <2>4
<1>3. /\ b \in Seq(A) /\ Len(b) = i /\ \A j \in 1 .. i : b[j] = s[j]
  <2>1. 1 \in Int /\ i \in Int /\ \A j \in 1 .. i : s[j] \in A
    BY <1>1
  <2>2. /\ i - 1 + 1 = i /\ (IF 1 <= i THEN i - 1 + 1 ELSE 0) = i
        /\ \A j \in 1 .. i : 1 + j - 1 = j
    BY <1>1
  <2>3. /\ SubSeq(s, 1, i) \in Seq(A)
        /\ Len(SubSeq(s, 1, i)) = IF 1 <= i THEN i - 1 + 1 ELSE 0
        /\ \A j \in 1 .. i - 1 + 1 : SubSeq(s, 1, i)[j] = s[1 + j - 1]
    BY <2>1, SubSeqProperties
  <2> HIDE DEF n
  <2> QED BY <2>2, <2>3
<1>4. SubSeq(s, i + 1, Len(s)) \o SubSeq(s, 1, i) = a \o b
  OBVIOUS
<1>5. n = Len(s)
  OBVIOUS
<1> HIDE DEF a, b, n
<1>6. /\ a \o b \in Seq(A) /\ Len(a \o b) = Len(a) + Len(b)
      /\ \A j \in 1 .. Len(a) + Len(b) :
            (a \o b)[j] = IF j <= Len(a) THEN a[j] ELSE b[j - Len(a)]
  BY <1>2, <1>3, ConcatProperties
<1> DEFINE r == a \o b
<1> HIDE DEF r
<1>7. Len(a) + Len(b) = n
  BY <1>1, <1>2, <1>3
<1>8. r \in Seq(A) /\ Len(r) = n
  BY <1>6, <1>7 DEF r
<1>9. ASSUME NEW j \in 1 .. n
      PROVE  r[j] = IF j <= n - i THEN s[i + j] ELSE s[j - (n - i)]
  <2>1. r[j] = IF j <= n - i THEN a[j] ELSE b[j - (n - i)]
    BY <1>2, <1>6, <1>7 DEF r
  <2>2. CASE j <= n - i
    <3>1. j \in 1 .. n - i BY <2>2, <1>1
    <3> QED BY <2>1, <2>2, <3>1, <1>2
  <2>3. CASE ~(j <= n - i)
    <3>1. j - (n - i) \in 1 .. i BY <2>3, <1>1
    <3> QED BY <2>1, <2>3, <3>1, <1>3
  <2> QED BY <2>2, <2>3
<1>10. Turned(r, s, i, n)
  BY <1>5, <1>8, <1>9 DEF Turned
<1>11. Inj(r) /\ Elems(r) = Elems(s)
  BY <1>1, <1>8, <1>10, TurnElems
<1> QED BY <1>4, <1>5, <1>8, <1>10, <1>11 DEF r

-----------------------------------------------------------------------------

\* A thread is on a mutex's held list exactly while it owns the mutex, and
\* waits only for mutexes of other threads.
Owners(d) ==
  /\ \A t \in Thread : d.held[t] = {m \in Mutex : d.owner[m] = t}
  /\ \A m \in Mutex : d.owner[m] = None <=> d.depth[m] = 0
  /\ \A m \in Mutex, w \in Thread :
       d.on[w] = m => d.owner[m] \notin {None, w} /\ d.blockedOn[w] = m

\* A thread outside X is no less urgent than its own priority, and not more
\* urgent when it holds no mutex.
Boosts(d, X) ==
  \A t \in Thread \ X : /\ d.prio[t] >= d.base[t]
                        /\ d.held[t] = {} => d.prio[t] = d.base[t]

\* A mutex_lock call c[t] waits for its mutex, or is about to return.
Calls(d, c) ==
  \A t \in Thread : c[t] # None =>
    \/ d.state[t] = "blocked" /\ d.on[t] = c[t]
    \/ d.state[t] = "ready" /\ (d.result[t] = "ok" <=> d.owner[c[t]] = t)

\* There is always a thread to run.
Alive(d) == d.state[d.cur] = "ready" /\ d.state[Idle] = "ready"

Good(d, c, X) ==
  /\ Lists(d) /\ Owners(d) /\ Boosts(d, X) /\ Calls(d, c) /\ Alive(d)
  /\ c \in [Thread -> Mutex \cup {None}]

\* The inductive invariant.
IInv == Good(k, call, {}) /\ irq \in Nat
-----------------------------------------------------------------------------
(* How the helpers keep its parts. *)

LEMMA SwitchedGood ==
  ASSUME NEW d, NEW e, NEW c, NEW X, Good(d, c, X), Switched(d, e)
  PROVE  Good(e, c, X)
<1>1. Lists(e) /\ Alive(e)
  BY DEF Good, Switched, Alive, SameThreads
<1>2. Owners(e)
  BY DEF Good, Owners, Switched, SameThreads, SameMutexes
<1>3. Boosts(e, X)
  BY DEF Good, Boosts, Switched, SameMutexes
<1>4. Calls(e, c)
  BY DEF Good, Calls, Switched, SameThreads, SameMutexes
<1> QED BY <1>1, <1>2, <1>3, <1>4 DEF Good

\* A thread whose priority is set from its ceiling needs no exception.
LEMMA RaisedGood ==
  ASSUME NEW d, NEW e, NEW c, NEW X, Good(d, c, X), NEW t \in Thread, NEW p,
         Raised(d, e, t, p), d.held[t] = {} => p = d.base[t], p >= d.base[t]
  PROVE  Good(e, c, X \ {t})
<1>1. Lists(e) /\ Alive(e)
  BY DEF Good, Raised, Alive, SameThreads
<1>2. Owners(e)
  BY DEF Good, Owners, Raised, SameThreads, SameMutexes
<1>3. Boosts(e, X \ {t})
  <2> SUFFICES ASSUME NEW u \in Thread \ (X \ {t})
               PROVE  /\ e.prio[u] >= e.base[u]
                      /\ e.held[u] = {} => e.prio[u] = e.base[u]
    BY DEF Boosts
  <2>0. /\ d.prio[u] \in Prio /\ e.prio[u] \in Prio /\ d.base[u] \in Prio
        /\ Prio \subseteq Nat
    <3>1. d \in KernelType /\ e \in KernelType
      BY DEF Good, Lists, Raised
    <3> QED BY <3>1, ThreadAssumption DEF KernelType, Prio
  <2>1. d.held[u] = e.held[u] /\ e.base = d.base
    BY DEF Raised, SameMutexes
  <2>2. CASE u = t
    BY <2>1, <2>2 DEF Raised
  <2>3. CASE u # t
    <3>1. d.held[u] = {} => \A m \in Mutex : d.owner[m] # u
      BY <2>1 DEF Good, Owners
    <3>2. e.prio[u] = d.prio[u] \/ (d.held[u] # {} /\ e.prio[u] > d.prio[u])
      BY <2>3, <3>1 DEF Raised
    <3>3. d.prio[u] >= d.base[u] /\ (d.held[u] = {} => d.prio[u] = d.base[u])
      BY <2>3 DEF Good, Boosts
    <3>4. d.prio[u] \in Nat /\ e.prio[u] \in Nat /\ d.base[u] \in Nat
      BY <2>0
    <3>5. e.prio[u] >= d.base[u]
      BY <3>2, <3>3, <3>4
    <3> QED BY <2>1, <3>2, <3>3, <3>5
  <2> QED BY <2>2, <2>3
<1>4. Calls(e, c)
  BY DEF Good, Calls, Raised, SameThreads, SameMutexes
<1> QED BY <1>1, <1>2, <1>3, <1>4 DEF Good

\* k_set_prio(t, k_mutex_ceiling(t)).
LEMMA RestoreGood ==
  ASSUME NEW d, NEW c, NEW X, Good(d, c, X), NEW t \in Thread
  PROVE  /\ Good(SetPrio(d, t, Ceiling(d, t)), c, X \ {t})
         /\ SameMutexes(d, SetPrio(d, t, Ceiling(d, t)))
         /\ SameThreads(d, SetPrio(d, t, Ceiling(d, t)))
         /\ SetPrio(d, t, Ceiling(d, t)).cur = d.cur
<1> DEFINE p == Ceiling(d, t)
           e == SetPrio(d, t, p)
<1>1. p \in Prio /\ (d.held[t] = {} => p = d.base[t]) /\ p >= d.base[t]
  BY CeilingEffect DEF Good
<1> HIDE DEF p
<1>2. Raised(d, e, t, p)
  BY <1>1, SetPrioEffect DEF Good
<1> HIDE DEF e
<1>3. Good(e, c, X \ {t})
  BY <1>1, <1>2, RaisedGood
<1>4. SameMutexes(d, e) /\ SameThreads(d, e) /\ e.cur = d.cur
  BY <1>2 DEF Raised
<1> QED BY <1>3, <1>4 DEF e, p

\* Lists do not depend on the mutexes' own fields, nor on the time that is left.
LEMMA SameLists ==
  ASSUME NEW d, NEW e, Lists(d), e \in KernelType,
         e.state = d.state, e.prio = d.prio, e.ready = d.ready, e.waitq = d.waitq,
         e.on = d.on, e.timeouts = d.timeouts
  PROVE  Lists(e)
BY DEF Lists, ReadyLists, WaitLists, TimeoutList

LEMMA GoodTypes ==
  ASSUME NEW d, NEW c, NEW X, Good(d, c, X)
  PROVE  /\ d \in KernelType /\ d.cur \in Thread /\ d.state[d.cur] = "ready"
         /\ d.on[d.cur] = None
         /\ d.state \in [Thread -> States] /\ d.on \in [Thread -> Obj \cup {None}]
         /\ d.owner \in [Mutex -> Thread \cup {None}] /\ d.depth \in [Mutex -> Nat]
         /\ d.held \in [Thread -> SUBSET Mutex]
         /\ d.blockedOn \in [Thread -> Mutex \cup {None}]
         /\ d.prio \in [Thread -> Prio] /\ d.base \in [Thread -> Prio]
         /\ d.result \in [Thread -> Results]
         /\ c \in [Thread -> Mutex \cup {None}]
         /\ None \notin Thread /\ None \notin Mutex /\ None \notin Obj
         /\ Mutex \subseteq Obj /\ Idle \in Thread
<1>1. d \in KernelType /\ Lists(d) /\ d.state[d.cur] = "ready"
  BY DEF Good, Lists, Alive
<1>2. d.cur \in Thread
  BY <1>1 DEF KernelType
<1>3. d.on[d.cur] = None
  BY <1>1, <1>2, ReadyWaitsNot
<1> QED BY <1>1, <1>2, <1>3, ThreadAssumption DEF KernelType, Good
-----------------------------------------------------------------------------
(* One lemma per action. *)

\* Init: nothing is locked, and two threads are ready, each alone on its list.
LEMMA InitGood == Init => IInv
<1> SUFFICES ASSUME Init PROVE IInv
  OBVIOUS
<1>1. /\ Boot \in Thread \ {Idle} /\ Idle \in Thread /\ BasePrio \in [Thread -> Prio]
      /\ BasePrio[Idle] = 0 /\ BasePrio[Boot] # 0 /\ 0 \in Prio /\ None \notin Obj
      /\ None \notin Thread /\ Mutex \subseteq Obj /\ SliceTicks \in 0 .. SliceTicks
  BY ThreadAssumption, KernelAssumption DEF Prio
<1>2. /\ k.state = [t \in Thread |-> IF t \in {Boot, Idle} THEN "ready" ELSE "none"]
      /\ k.prio = BasePrio /\ k.base = BasePrio
      /\ k.ready = [p \in Prio |-> IF p = BasePrio[Boot] THEN <<Boot>>
                                   ELSE IF p = 0 THEN <<Idle>> ELSE <<>>]
      /\ k.waitq = [q \in Obj |-> <<>>] /\ k.on = [t \in Thread |-> None]
      /\ k.timeouts = <<>> /\ k.wake = [t \in Thread |-> 0]
      /\ k.result = [t \in Thread |-> "ok"] /\ k.blockedOn = [t \in Thread |-> None]
      /\ k.owner = [m \in Mutex |-> None] /\ k.depth = [m \in Mutex |-> 0]
      /\ k.held = [t \in Thread |-> {}] /\ k.cur = Boot
      /\ call = [t \in Thread |-> None] /\ irq = 0
  BY DEF Init
<1>3. k \in KernelType
  BY <1>1 DEF Init, KernelType, States, Results
<1>4. /\ Inj(<<>>) /\ Elems(<<>>) = {}
      /\ \A t \in Thread : Inj(<<t>>) /\ Elems(<<t>>) = {t}
  BY DEF Inj, Elems
<1>5. ReadyLists(k)
  <2> SUFFICES ASSUME NEW p \in Prio
               PROVE  /\ Inj(k.ready[p])
                      /\ Elems(k.ready[p]) =
                           {t \in Thread : k.state[t] = "ready" /\ k.prio[t] = p}
    BY DEF ReadyLists
  <2>1. CASE p = BasePrio[Boot]
    BY <2>1, <1>1, <1>2, <1>4
  <2>2. CASE p # BasePrio[Boot] /\ p = 0
    BY <2>2, <1>1, <1>2, <1>4
  <2>3. CASE p # BasePrio[Boot] /\ p # 0
    BY <2>3, <1>1, <1>2, <1>4
  <2> QED BY <2>1, <2>2, <2>3
<1>6. WaitLists(k) /\ TimeoutList(k)
  BY <1>1, <1>2, <1>4 DEF WaitLists, TimeoutList
<1>7. Owners(k) /\ Calls(k, call) /\ Alive(k)
  BY <1>1, <1>2 DEF Owners, Calls, Alive
<1>8. Boosts(k, {})
  <2>1. \A t \in Thread : BasePrio[t] \in Int
    BY KernelAssumption, ThreadAssumption DEF Prio
  <2> QED BY <1>1, <1>2, <2>1 DEF Boosts
<1> QED BY <1>2, <1>3, <1>5, <1>6, <1>7, <1>8 DEF IInv, Good, Lists

\* A free mutex has no waiters, so nobody waits for the thread that takes it.
LEMMA LockFreeGood ==
  ASSUME IInv, NEW t \in Threads, NEW m \in Mutex, Free(t), LockFree(t, m),
         UNCHANGED irq
  PROVE  IInv'
<1> DEFINE e == Own(k, t, m)
<1>0. Good(k, call, {}) /\ t \in Thread /\ k.cur = t /\ call[t] = None
      /\ k.owner[m] = None /\ k' = e /\ call' = call /\ irq' = irq
  BY DEF IInv, Threads, Free, LockFree
<1>1. /\ e \in KernelType /\ e.state = k.state /\ e.prio = k.prio /\ e.ready = k.ready
      /\ e.waitq = k.waitq /\ e.on = k.on /\ e.timeouts = k.timeouts
      /\ e.cur = k.cur /\ e.result = k.result /\ e.base = k.base
      /\ e.blockedOn = k.blockedOn
      /\ e.owner = [k.owner EXCEPT ![m] = t] /\ e.depth = [k.depth EXCEPT ![m] = 1]
      /\ e.held = [k.held EXCEPT ![t] = @ \cup {m}]
  <2>1. /\ [k.owner EXCEPT ![m] = t] \in [Mutex -> Thread \cup {None}]
        /\ [k.depth EXCEPT ![m] = 1] \in [Mutex -> Nat]
        /\ [k.held EXCEPT ![t] = @ \cup {m}] \in [Thread -> SUBSET Mutex]
        /\ k \in KernelType
    BY <1>0, GoodTypes
  <2> QED BY <2>1 DEF Own, KernelType
<1> HIDE DEF e
<1>2. Lists(e)
  BY <1>0, <1>1, SameLists DEF Good
<1>3. Owners(e)
  <2>1. \A u \in Thread : e.held[u] = {n \in Mutex : e.owner[n] = u}
    BY <1>0, <1>1, GoodTypes DEF Good, Owners
  <2>2. \A n \in Mutex : e.owner[n] = None <=> e.depth[n] = 0
    BY <1>0, <1>1, GoodTypes DEF Good, Owners
  <2>3. \A n \in Mutex, w \in Thread :
          e.on[w] = n => e.owner[n] \notin {None, w} /\ e.blockedOn[w] = n
    BY <1>0, <1>1, GoodTypes DEF Good, Owners
  <2> QED BY <2>1, <2>2, <2>3 DEF Owners
<1>4. Boosts(e, {})
  BY <1>0, <1>1, GoodTypes DEF Good, Boosts
<1>5. Calls(e, call)
  BY <1>0, <1>1, GoodTypes DEF Good, Calls
<1>6. Alive(e)
  BY <1>0, <1>1 DEF Good, Alive
<1> QED BY <1>0, <1>2, <1>3, <1>4, <1>5, <1>6 DEF IInv, Good

LEMMA LockAgainGood ==
  ASSUME IInv, NEW t \in Threads, NEW m \in Mutex, LockAgain(t, m), UNCHANGED irq
  PROVE  IInv'
<1> DEFINE e == [k EXCEPT !.depth[m] = @ + 1]
<1>0. Good(k, call, {}) /\ t \in Thread /\ k.owner[m] = t
      /\ k' = e /\ call' = call /\ irq' = irq
  BY DEF IInv, Threads, LockAgain
<1>1. /\ e \in KernelType /\ e.state = k.state /\ e.prio = k.prio /\ e.ready = k.ready
      /\ e.waitq = k.waitq /\ e.on = k.on /\ e.timeouts = k.timeouts
      /\ e.cur = k.cur /\ e.result = k.result /\ e.base = k.base
      /\ e.blockedOn = k.blockedOn /\ e.owner = k.owner /\ e.held = k.held
      /\ e.depth = [k.depth EXCEPT ![m] = @ + 1]
  <2>1. [k.depth EXCEPT ![m] = @ + 1] \in [Mutex -> Nat] /\ k \in KernelType
    BY <1>0, GoodTypes
  <2> QED BY <2>1 DEF KernelType
<1> HIDE DEF e
<1>2. Lists(e)
  BY <1>0, <1>1, SameLists DEF Good
<1>3. Owners(e)
  <2>1. \A n \in Mutex : e.owner[n] = None <=> e.depth[n] = 0
    BY <1>0, <1>1, GoodTypes DEF Good, Owners
  <2> QED BY <2>1, <1>0, <1>1 DEF Good, Owners
<1>4. Boosts(e, {}) /\ Calls(e, call) /\ Alive(e)
  BY <1>0, <1>1 DEF Good, Boosts, Calls, Alive
<1> QED BY <1>0, <1>2, <1>3, <1>4 DEF IInv, Good

\* A thread that starts to wait is neither owner nor waiter of anything new
\* but the list it waits on.
LEMMA WaitingGood ==
  ASSUME NEW d, NEW e, NEW c, NEW x, Good(d, c, {}), d.cur # Idle, c[d.cur] = None,
         NEW q \in Obj \cup {None},
         Waiting(d, e, d.cur, q), e.state[e.cur] = "ready",
         \/ x = c /\ q \notin Mutex
         \/ /\ q \in Mutex /\ x = [c EXCEPT ![d.cur] = q]
            /\ d.owner[q] \notin {None, d.cur} /\ d.blockedOn[d.cur] = q
  PROVE  Good(e, x, {})
<1> DEFINE t == d.cur
<1>0. /\ t \in Thread /\ d.state[t] = "ready" /\ d.on[t] = None
      /\ e.owner = d.owner /\ e.depth = d.depth /\ e.held = d.held
      /\ e.base = d.base /\ e.blockedOn = d.blockedOn /\ e.prio = d.prio
      /\ e.state = [d.state EXCEPT ![t] = "blocked"]
      /\ e.on = [d.on EXCEPT ![t] = q]
      /\ e.result = [d.result EXCEPT ![t] = "ok"]
      /\ Lists(e) /\ c[t] = None /\ t # Idle
      /\ d.state \in [Thread -> States] /\ d.on \in [Thread -> Obj \cup {None}]
      /\ d.result \in [Thread -> Results] /\ c \in [Thread -> Mutex \cup {None}]
      /\ None \notin Mutex /\ Idle \in Thread
  BY GoodTypes DEF Waiting, SameMutexes
<1>1. \/ x = c /\ q \notin Mutex
      \/ /\ q \in Mutex /\ x = [c EXCEPT ![t] = q]
         /\ d.owner[q] \notin {None, t} /\ d.blockedOn[t] = q
  OBVIOUS
<1> HIDE DEF t
<1>2. Owners(e)
  <2>1. \A n \in Mutex, w \in Thread :
          e.on[w] = n => e.owner[n] \notin {None, w} /\ e.blockedOn[w] = n
    BY <1>0, <1>1 DEF Good, Owners
  <2> QED BY <2>1, <1>0 DEF Good, Owners
<1>3. Boosts(e, {})
  BY <1>0 DEF Good, Boosts
<1>4. x \in [Thread -> Mutex \cup {None}]
  BY <1>0, <1>1
<1>5. Calls(e, x)
  <2> SUFFICES ASSUME NEW u \in Thread, x[u] # None
               PROVE  \/ e.state[u] = "blocked" /\ e.on[u] = x[u]
                      \/ e.state[u] = "ready" /\ (e.result[u] = "ok" <=> e.owner[x[u]] = u)
    BY DEF Calls
  <2>1. CASE u = t
    BY <2>1, <1>0, <1>1
  <2>2. CASE u # t
    <3>1. /\ x[u] = c[u] /\ e.state[u] = d.state[u] /\ e.on[u] = d.on[u]
          /\ e.result[u] = d.result[u]
      BY <2>2, <1>0, <1>1
    <3> QED BY <3>1, <1>0 DEF Good, Calls
  <2> QED BY <2>1, <2>2
<1>6. Alive(e)
  BY <1>0 DEF Good, Alive
<1> QED BY <1>0, <1>2, <1>3, <1>4, <1>5, <1>6 DEF Good

\* Noting the mutex a running thread is about to wait for, or waits no more
\* for, changes nothing else.
LEMMA BlockedOnGood ==
  ASSUME NEW d, NEW c, NEW X, Good(d, c, X), NEW m \in Mutex \cup {None}
  PROVE  LET e == [d EXCEPT !.blockedOn[d.cur] = m]
         IN  /\ Good(e, c, X) /\ e.cur = d.cur /\ e.owner = d.owner
             /\ e.held = d.held /\ e.prio = d.prio
             /\ e.blockedOn[d.cur] = m
<1> DEFINE t == d.cur
           e == [d EXCEPT !.blockedOn[t] = m]
<1>0. /\ t \in Thread /\ d.state[t] = "ready" /\ d.on[t] = None /\ d \in KernelType
      /\ d.blockedOn \in [Thread -> Mutex \cup {None}] /\ None \notin Mutex
  BY GoodTypes
<1>1. /\ e \in KernelType /\ e.state = d.state /\ e.prio = d.prio /\ e.ready = d.ready
      /\ e.waitq = d.waitq /\ e.on = d.on /\ e.timeouts = d.timeouts
      /\ e.cur = d.cur /\ e.result = d.result /\ e.base = d.base
      /\ e.owner = d.owner /\ e.held = d.held /\ e.depth = d.depth
      /\ e.blockedOn = [d.blockedOn EXCEPT ![t] = m]
  <2> HIDE DEF t
  <2> QED BY <1>0 DEF KernelType
<1> HIDE DEF e, t
<1>2. Lists(e)
  BY <1>1, SameLists DEF Good
<1>3. Owners(e)
  BY <1>0, <1>1 DEF Good, Owners
<1>4. Boosts(e, X) /\ Calls(e, c) /\ Alive(e)
  BY <1>1 DEF Good, Boosts, Calls, Alive
<1>5. Good(e, c, X) /\ e.blockedOn[t] = m
  BY <1>0, <1>1, <1>2, <1>3, <1>4 DEF Good
<1> QED BY <1>1, <1>5 DEF e, t

LEMMA LockBlockGood ==
  ASSUME IInv, NEW t \in Threads, NEW m \in Mutex, NEW ms \in Waits,
         Free(t), LockBlock(t, m, ms), UNCHANGED irq
  PROVE  IInv'
<1> DEFINE k1 == [k EXCEPT !.blockedOn[k.cur] = m]
           o  == k.owner[m]
           k2 == IF k.prio[t] > k.prio[o] THEN SetPrio(k1, o, k.prio[t]) ELSE k1
           e  == Block(k2, m, ms)
<1>0. /\ Good(k, call, {}) /\ t \in Thread /\ t # Idle /\ k.cur = t /\ call[t] = None
      /\ k.owner[m] \notin {None, t} /\ m \in Obj \cup {None} /\ ms \in Nat \cup {None}
      /\ call' = [call EXCEPT ![t] = m] /\ irq' = irq
  BY KernelAssumption, ThreadAssumption DEF IInv, Threads, Free, LockBlock
<1>1. k' = e
  BY <1>0 DEF LockBlock
<1>2. o \in Thread /\ k.prio[t] \in Prio
  BY <1>0, GoodTypes
<1>3. /\ Good(k1, call, {}) /\ k1.cur = t /\ k1.owner = k.owner
      /\ k1.held = k.held /\ k1.prio = k.prio /\ k1.blockedOn[t] = m
  BY <1>0, BlockedOnGood
<1> HIDE DEF k1
<1>4. k.held[o] # {}
  BY <1>0, <1>2 DEF Good, Owners
<1> HIDE DEF o
<1>5. /\ Good(k2, call, {}) /\ k2.cur = t /\ k2.owner = k.owner /\ k2.blockedOn[t] = m
  <2>1. CASE k.prio[t] > k.prio[o]
    <3> DEFINE p == k.prio[t]
    <3> HIDE DEF p
    <3>1. k2 = SetPrio(k1, o, p) BY <2>1 DEF p
    <3>2. Raised(k1, SetPrio(k1, o, p), o, p)
      BY <1>2, <1>3, SetPrioEffect DEF Good, p
    <3>5. p >= k1.base[o]
      <4>1. k1.prio[o] >= k1.base[o] /\ k1.base[o] \in Prio /\ k1.prio[o] \in Prio
        BY <1>2, <1>3, GoodTypes DEF Good, Boosts
      <4> QED BY <4>1, <2>1, <1>2, <1>3, ThreadAssumption DEF Prio, p
    <3> HIDE DEF k2
    <3>3. Good(k2, call, {} \ {o})
      BY <3>1, <3>2, <3>5, <1>2, <1>3, <1>4, RaisedGood
    <3>4. {} \ {o} = {}
      OBVIOUS
    <3> QED BY <3>1, <3>2, <3>3, <3>4, <1>3 DEF Raised, SameMutexes
  <2>2. CASE ~(k.prio[t] > k.prio[o])
    BY <2>2, <1>3
  <2> QED BY <2>1, <2>2
<1> HIDE DEF k2
<1>6. Waiting(k2, e, k2.cur, m) /\ e.state[e.cur] = "ready"
  <2>1. Lists(k2) /\ k2.state[k2.cur] = "ready" /\ k2.cur # Idle /\ k2.state[Idle] = "ready"
    BY <1>0, <1>5 DEF Good, Alive
  <2> QED BY <2>1, <1>0, BlockEffect
<1> HIDE DEF e
<1>7. Good(e, call', {})
  <2>1. /\ k2.cur # Idle /\ call[k2.cur] = None /\ call' = [call EXCEPT ![k2.cur] = m]
        /\ k2.owner[m] \notin {None, k2.cur} /\ k2.blockedOn[k2.cur] = m
    BY <1>0, <1>5
  <2> QED BY <2>1, <1>0, <1>5, <1>6, WaitingGood
<1> QED BY <1>0, <1>1, <1>7 DEF IInv

\* A call that returns is no longer waiting for anything.
LEMMA LockReturnGood ==
  ASSUME IInv, NEW t \in Threads, LockReturn(t)
  PROVE  IInv'
<1> DEFINE m  == call[t]
           k1 == [k EXCEPT !.blockedOn[k.cur] = None]
           o  == k.owner[m]
           e  == IF k.result[t] # "ok" /\ o # None THEN SetPrio(k1, o, Ceiling(k1, o))
                                                  ELSE k1
           c  == [call EXCEPT ![t] = None]
<1>0. /\ Good(k, call, {}) /\ t \in Thread /\ k.cur = t /\ m \in Mutex
      /\ k' = e /\ call' = c /\ irq' = irq /\ irq \in Nat
  BY GoodTypes DEF IInv, Threads, LockReturn
<1>1. Good(k1, call, {}) /\ k1.owner = k.owner /\ k1.cur = t
  BY <1>0, BlockedOnGood
<1> HIDE DEF k1
<1>2. Good(e, call, {}) /\ e.cur = t
  <2>1. CASE k.result[t] # "ok" /\ o # None
    <3>1. o \in Thread
      BY <2>1, <1>0, GoodTypes
    <3>2. e = SetPrio(k1, o, Ceiling(k1, o))
      BY <2>1
    <3> HIDE DEF e, o
    <3>3. /\ Good(SetPrio(k1, o, Ceiling(k1, o)), call, {} \ {o})
          /\ SetPrio(k1, o, Ceiling(k1, o)).cur = k1.cur
      BY <3>1, <1>1, RestoreGood
    <3>4. {} \ {o} = {}
      OBVIOUS
    <3> QED BY <3>2, <3>3, <3>4, <1>1
  <2>2. CASE ~(k.result[t] # "ok" /\ o # None)
    BY <2>2, <1>1
  <2> QED BY <2>1, <2>2
<1> HIDE DEF e
<1>3. Calls(e, c) /\ c \in [Thread -> Mutex \cup {None}]
  BY <1>2, <1>0, GoodTypes DEF Good, Calls
<1> HIDE DEF c
<1>4. Good(e, c, {})
  BY <1>2, <1>3 DEF Good
<1> QED BY <1>0, <1>4 DEF IInv

\* A running thread gives up a mutex nobody waits for.
LEMMA ReleaseGood ==
  ASSUME NEW d, NEW c, Good(d, c, {}), NEW t \in Thread, t = d.cur, c[t] = None,
         NEW m \in Mutex, d.owner[m] = t, d.waitq[m] = <<>>,
         NEW e, e = [d EXCEPT !.depth[m] = 0, !.held[t] = @ \ {m}, !.owner[m] = None]
  PROVE  Good(e, c, {t})
<1>0. /\ d \in KernelType
      /\ d.held \in [Thread -> SUBSET Mutex] /\ d.depth \in [Mutex -> Nat]
      /\ d.owner \in [Mutex -> Thread \cup {None}] /\ None \notin Thread
      /\ d.on \in [Thread -> Obj \cup {None}] /\ c \in [Thread -> Mutex \cup {None}]
      /\ \A n \in Mutex : d.owner[n] = None <=> d.depth[n] = 0
  BY GoodTypes DEF Good, Owners
<1>1. /\ e \in KernelType /\ e.state = d.state /\ e.prio = d.prio /\ e.ready = d.ready
      /\ e.waitq = d.waitq /\ e.on = d.on /\ e.timeouts = d.timeouts
      /\ e.cur = d.cur /\ e.result = d.result /\ e.base = d.base
      /\ e.blockedOn = d.blockedOn
      /\ e.owner = [d.owner EXCEPT ![m] = None] /\ e.depth = [d.depth EXCEPT ![m] = 0]
      /\ e.held = [d.held EXCEPT ![t] = @ \ {m}]
  <2>1. /\ [d.owner EXCEPT ![m] = None] \in [Mutex -> Thread \cup {None}]
        /\ [d.depth EXCEPT ![m] = 0] \in [Mutex -> Nat]
        /\ [d.held EXCEPT ![t] = @ \ {m}] \in [Thread -> SUBSET Mutex]
    BY <1>0
  <2> QED BY <1>0, <2>1 DEF KernelType
<1>2. Lists(e)
  BY <1>1, SameLists, ZenonT(60) DEF Good
<1>3. \A w \in Thread : d.on[w] # m
  <2>1. Elems(d.waitq[m]) = {}
    BY DEF Elems
  <2> QED BY <2>1, ThreadAssumption DEF Good, Lists, WaitLists
<1>4. Owners(e)
  <2>1. \A u \in Thread : e.held[u] = {n \in Mutex : e.owner[n] = u}
    BY <1>0, <1>1 DEF Good, Owners
  <2>2. \A n \in Mutex : e.owner[n] = None <=> e.depth[n] = 0
    BY <1>0, <1>1
  <2>3. \A n \in Mutex, w \in Thread :
          e.on[w] = n => e.owner[n] \notin {None, w} /\ e.blockedOn[w] = n
    BY <1>0, <1>1, <1>3 DEF Good, Owners
  <2> QED BY <2>1, <2>2, <2>3 DEF Owners
<1>5. Boosts(e, {t})
  BY <1>0, <1>1 DEF Good, Boosts
<1>6. Calls(e, c)
  BY <1>0, <1>1, ThreadAssumption DEF Good, Calls
<1> QED BY <1>0, <1>1, <1>2, <1>4, <1>5, <1>6 DEF Good, Alive

\* mutex_unlock once the last level is gone, before the mutex has its new owner.
Dropped(d, d0, t, m) ==
  t = d.cur /\ d0 = [d EXCEPT !.depth[m] = 0, !.held[t] = @ \ {m}]

\* From d to e thread t gave mutex m, all levels of it, to the waiting thread w.
Handed(d, e, t, m, w) ==
  /\ w \in Thread \ {t} /\ d.on[w] = m /\ d.state[w] = "blocked"
  /\ e.prio = d.prio /\ e.cur = d.cur /\ e.base = d.base
  /\ e.state = [d.state EXCEPT ![w] = "ready"]
  /\ e.on = [d.on EXCEPT ![w] = None]
  /\ e.owner = [d.owner EXCEPT ![m] = w]
  /\ e.held = [[d.held EXCEPT ![t] = @ \ {m}] EXCEPT ![w] = @ \cup {m}]
  /\ e.blockedOn = [d.blockedOn EXCEPT ![w] = None]
  /\ Requeued(d, e, w)

\* HandOver ends with the new owner's priority, after such a step.
HandsOver(d, d0, c, t, m) ==
  \E e, w : /\ Good(e, c, {t}) /\ Handed(d, e, t, m, w)
            /\ HandOver(d0, m) = SetPrio(e, w, Ceiling(e, w))

LEMMA HandedGood ==
  ASSUME NEW d, NEW c, Good(d, c, {}), NEW t \in Thread, c[t] = None,
         NEW m \in Mutex, d.owner[m] = t, d.waitq[m] # <<>>,
         NEW d0, Dropped(d, d0, t, m)
  PROVE  HandsOver(d, d0, c, t, m)
<1> USE DEF Dropped
<1> DEFINE w  == Head(d0.waitq[m])
           d1 == [d0 EXCEPT !.owner[m] = w, !.depth[m] = 1, !.blockedOn[w] = None]
           d2 == Wake(d1, w, "ok")
           d3 == [d2 EXCEPT !.held[w] = @ \cup {m}]
           e  == SetPrio(d3, w, Ceiling(d3, w))
<1>0. /\ d \in KernelType /\ Lists(d) /\ Owners(d) /\ Calls(d, c) /\ Alive(d)
      /\ d.held \in [Thread -> SUBSET Mutex] /\ d.depth \in [Mutex -> Nat]
      /\ d.owner \in [Mutex -> Thread \cup {None}] /\ None \notin Thread
      /\ d.blockedOn \in [Thread -> Mutex \cup {None}] /\ None \notin Mutex
      /\ d.on \in [Thread -> Obj \cup {None}] /\ c \in [Thread -> Mutex \cup {None}]
      /\ d.state \in [Thread -> States] /\ d.result \in [Thread -> Results]
      /\ m \in Obj /\ d.state[t] = "ready" /\ Idle \in Thread
  BY GoodTypes DEF Good
<1>1. /\ w \in Thread /\ d.on[w] = m /\ d.state[w] = "blocked" /\ w # t
  <2>1. d.waitq[m] \in Seq(Thread) /\ w = Head(d.waitq[m])
    BY <1>0 DEF KernelType
  <2>2. w \in Thread /\ w \in Elems(d.waitq[m])
    BY <2>1 DEF Elems
  <2>3. d.on[w] = m
    BY <1>0, <2>2 DEF Lists, WaitLists
  <2>4. d.state[w] = "blocked"
    BY <1>0, <2>2, <2>3 DEF Lists, WaitLists
  <2> QED BY <1>0, <2>2, <2>3, <2>4
<1> HIDE DEF w
<1>2. /\ d1 \in KernelType /\ d1.state = d.state /\ d1.prio = d.prio
      /\ d1.ready = d.ready /\ d1.waitq = d.waitq /\ d1.on = d.on
      /\ d1.timeouts = d.timeouts /\ d1.cur = d.cur /\ d1.result = d.result
      /\ d1.base = d.base /\ d1.wake = d.wake /\ d1.need = d.need
      /\ d1.owner = [d.owner EXCEPT ![m] = w] /\ d1.depth = [d.depth EXCEPT ![m] = 1]
      /\ d1.held = [d.held EXCEPT ![t] = @ \ {m}]
      /\ d1.blockedOn = [d.blockedOn EXCEPT ![w] = None]
  <2>1. /\ [d.owner EXCEPT ![m] = w] \in [Mutex -> Thread \cup {None}]
        /\ [d.depth EXCEPT ![m] = 1] \in [Mutex -> Nat]
        /\ [d.held EXCEPT ![t] = @ \ {m}] \in [Thread -> SUBSET Mutex]
        /\ [d.blockedOn EXCEPT ![w] = None] \in [Thread -> Mutex \cup {None}]
    BY <1>0, <1>1
  <2>2. d1 = [d EXCEPT !.owner = [d.owner EXCEPT ![m] = w],
                       !.depth = [d.depth EXCEPT ![m] = 1],
                       !.held = [d.held EXCEPT ![t] = @ \ {m}],
                       !.blockedOn = [d.blockedOn EXCEPT ![w] = None]]
    <3> HIDE DEF d1
    <3>1. d0 = [d EXCEPT !.depth = [d.depth EXCEPT ![m] = 0],
                         !.held = [d.held EXCEPT ![t] = @ \ {m}]]
      BY <1>0 DEF KernelType
    <3>2. /\ d0.owner = d.owner /\ d0.blockedOn = d.blockedOn
          /\ d0.depth = [d.depth EXCEPT ![m] = 0]
      BY <1>0, <3>1 DEF KernelType
    <3>3. d1 = [d0 EXCEPT !.owner = [d.owner EXCEPT ![m] = w],
                          !.depth = [[d.depth EXCEPT ![m] = 0] EXCEPT ![m] = 1],
                          !.blockedOn = [d.blockedOn EXCEPT ![w] = None]]
      BY <1>0, <3>1, <3>2 DEF KernelType, d1
    <3>4. [[d.depth EXCEPT ![m] = 0] EXCEPT ![m] = 1] = [d.depth EXCEPT ![m] = 1]
      BY <1>0
    <3> QED BY <1>0, <3>1, <3>3, <3>4 DEF KernelType
  <2> HIDE DEF d1
  <2> QED BY <1>0, <2>1, <2>2 DEF KernelType
<1> HIDE DEF d1
<1>3. Lists(d1) /\ d1.state[w] = "blocked" /\ "ok" \in Results
  BY <1>0, <1>1, <1>2, SameLists DEF Results
<1>4. WokenUp(d1, d2, w, "ok") /\ Requeued(d1, d2, w)
  BY <1>1, <1>3, WakeEffect
<1> HIDE DEF d2
<1>5. /\ d3 \in KernelType /\ Lists(d3) /\ d3.prio = d.prio
      /\ d3.state = [d.state EXCEPT ![w] = "ready"]
      /\ d3.on = [d.on EXCEPT ![w] = None]
      /\ d3.result = [d.result EXCEPT ![w] = "ok"]
      /\ d3.cur = d.cur /\ d3.base = d.base
      /\ d3.owner = d1.owner /\ d3.depth = d1.depth /\ d3.blockedOn = d1.blockedOn
      /\ d3.held = [d1.held EXCEPT ![w] = @ \cup {m}]
      /\ d3.waitq = d2.waitq /\ d3.timeouts = d2.timeouts /\ d3.wake = d2.wake
      /\ d3.ready = d2.ready /\ d3.need = d2.need
  <2>1. /\ d2 \in KernelType /\ Lists(d2) /\ d2.prio = d.prio
        /\ d2.state = [d.state EXCEPT ![w] = "ready"]
        /\ d2.on = [d.on EXCEPT ![w] = None]
        /\ d2.result = [d.result EXCEPT ![w] = "ok"]
        /\ d2.cur = d.cur /\ d2.base = d.base
        /\ d2.owner = d1.owner /\ d2.depth = d1.depth /\ d2.blockedOn = d1.blockedOn
        /\ d2.held = d1.held
    BY <1>2, <1>4 DEF WokenUp, SameMutexes, Lists
  <2>2. [d2.held EXCEPT ![w] = @ \cup {m}] \in [Thread -> SUBSET Mutex]
    BY <1>1, <2>1 DEF KernelType
  <2>3. /\ d3 \in KernelType /\ d3.state = d2.state /\ d3.prio = d2.prio
        /\ d3.ready = d2.ready /\ d3.waitq = d2.waitq /\ d3.on = d2.on
        /\ d3.timeouts = d2.timeouts /\ d3.cur = d2.cur /\ d3.result = d2.result
        /\ d3.base = d2.base /\ d3.owner = d2.owner /\ d3.depth = d2.depth
        /\ d3.blockedOn = d2.blockedOn /\ d3.wake = d2.wake /\ d3.need = d2.need
        /\ d3.held = [d2.held EXCEPT ![w] = @ \cup {m}]
    BY <2>1, <2>2 DEF KernelType
  <2> HIDE DEF d3
  <2>4. Lists(d3)
    BY <2>1, <2>3, SameLists
  <2> QED BY <2>1, <2>3, <2>4
<1> HIDE DEF d3
<1>6. Owners(d3)
  <2>1. \A u \in Thread : d3.held[u] = {n \in Mutex : d3.owner[n] = u}
    <3> SUFFICES ASSUME NEW u \in Thread
                 PROVE  d3.held[u] = {n \in Mutex : d3.owner[n] = u}
      OBVIOUS
    <3>0. d.held[u] = {n \in Mutex : d.owner[n] = u}
      BY <1>0 DEF Owners
    <3>1. CASE u = t
      <4>1. d3.held[u] = d.held[u] \ {m}
        BY <3>1, <1>0, <1>1, <1>2, <1>5
      <4> QED BY <4>1, <3>0, <3>1, <1>0, <1>1, <1>2, <1>5
    <3>2. CASE u = w
      <4>1. d3.held[u] = d.held[u] \cup {m}
        BY <3>2, <1>0, <1>1, <1>2, <1>5
      <4> QED BY <4>1, <3>0, <3>2, <1>0, <1>1, <1>2, <1>5
    <3>3. CASE u # t /\ u # w
      <4>1. d3.held[u] = d.held[u]
        BY <3>3, <1>0, <1>1, <1>2, <1>5
      <4> QED BY <4>1, <3>0, <3>3, <1>0, <1>1, <1>2, <1>5
    <3> QED BY <3>1, <3>2, <3>3
  <2>2. \A n \in Mutex : d3.owner[n] = None <=> d3.depth[n] = 0
    BY <1>0, <1>1, <1>2, <1>5 DEF Owners
  <2>3. ASSUME NEW n \in Mutex, NEW x \in Thread, d3.on[x] = n
        PROVE  d3.owner[n] \notin {None, x} /\ d3.blockedOn[x] = n
    <3>1. x # w /\ d.on[x] = n
      BY <2>3, <1>0, <1>1, <1>5
    <3>2. d.owner[n] \notin {None, x} /\ d.blockedOn[x] = n
      BY <3>1, <1>0 DEF Owners
    <3>3. d3.blockedOn[x] = n
      BY <3>1, <3>2, <1>0, <1>1, <1>2, <1>5
    <3>4. d3.owner[n] \notin {None, x}
      BY <3>1, <3>2, <1>0, <1>1, <1>2, <1>5
    <3> QED BY <3>3, <3>4
  <2> QED BY <2>1, <2>2, <2>3 DEF Owners
<1>7. Boosts(d3, {t})
  <2> SUFFICES ASSUME NEW u \in Thread \ {t}
               PROVE  /\ d3.prio[u] >= d3.base[u]
                      /\ d3.held[u] = {} => d3.prio[u] = d3.base[u]
    BY DEF Boosts
  <2>0. m \in d3.held[w]
    <3>1. d1.held \in [Thread -> SUBSET Mutex]
      BY <1>2 DEF KernelType
    <3> QED BY <3>1, <1>1, <1>5
  <2>1. d3.held[u] = {} => u # w
    BY <2>0
  <2>2. d3.held[u] = {} => d.held[u] = {}
    BY <2>1, <1>1, <1>2, <1>5, <1>0
  <2> QED BY <2>2, <1>0, <1>5 DEF Good, Boosts
<1>8. Calls(d3, c)
  <2> SUFFICES ASSUME NEW u \in Thread, c[u] # None
               PROVE  \/ d3.state[u] = "blocked" /\ d3.on[u] = c[u]
                      \/ d3.state[u] = "ready" /\ (d3.result[u] = "ok" <=> d3.owner[c[u]] = u)
    BY DEF Calls
  <2>0. \/ d.state[u] = "blocked" /\ d.on[u] = c[u]
        \/ d.state[u] = "ready" /\ (d.result[u] = "ok" <=> d.owner[c[u]] = u)
    BY <1>0 DEF Calls
  <2>1. CASE u = w
    BY <2>0, <2>1, <1>0, <1>1, <1>2, <1>5
  <2>2. CASE u # w
    <3>1. c[u] \in Mutex /\ u # t
      BY <1>0
    <3>2. d3.owner[c[u]] = u <=> d.owner[c[u]] = u
      BY <2>2, <3>1, <1>0, <1>1, <1>2, <1>5
    <3>3. d3.state[u] = d.state[u] /\ d3.on[u] = d.on[u] /\ d3.result[u] = d.result[u]
      BY <2>2, <1>0, <1>1, <1>5
    <3> QED BY <2>0, <3>2, <3>3
  <2> QED BY <2>1, <2>2
<1>9. Good(d3, c, {t}) /\ d3.cur = t
  BY <1>0, <1>1, <1>5, <1>6, <1>7, <1>8 DEF Good, Alive
<1>10. Requeued(d, d3, w)
  <2>1. d1.on = d.on /\ d1.waitq = d.waitq /\ d1.timeouts = d.timeouts /\ d1.wake = d.wake
        /\ d1.ready = d.ready /\ d1.prio = d.prio /\ d1.need = d.need /\ d1.cur = d.cur
    BY <1>2
  <2> QED BY <2>1, <1>4, <1>5 DEF Requeued
<1>11. Handed(d, d3, t, m, w)
  <2>1. d3.held = [[d.held EXCEPT ![t] = @ \ {m}] EXCEPT ![w] = @ \cup {m}]
    BY <1>2, <1>5
  <2> QED BY <2>1, <1>1, <1>2, <1>5, <1>10 DEF Handed
<1>12. HandOver(d0, m) = e
  BY DEF HandOver, w, d1, d2, d3
<1> HIDE DEF e
<1> QED BY <1>9, <1>11, <1>12 DEF e, HandsOver

\* A running thread hands a mutex over to the first thread that waits for it.
LEMMA HandOverGood ==
  ASSUME NEW d, NEW c, Good(d, c, {}), NEW t \in Thread, c[t] = None,
         NEW m \in Mutex, d.owner[m] = t, d.waitq[m] # <<>>,
         NEW d0, Dropped(d, d0, t, m)
  PROVE  Good(HandOver(d0, m), c, {t}) /\ HandOver(d0, m).cur = t
<1>0. HandsOver(d, d0, c, t, m)
  BY HandedGood
<1>1. PICK e, w : /\ Good(e, c, {t}) /\ Handed(d, e, t, m, w)
                  /\ HandOver(d0, m) = SetPrio(e, w, Ceiling(e, w))
  BY <1>0 DEF HandsOver
<1>2. w \in Thread /\ w # t /\ e.cur = t
  BY <1>1 DEF Handed, Dropped
<1>3. /\ Good(SetPrio(e, w, Ceiling(e, w)), c, {t} \ {w})
      /\ SetPrio(e, w, Ceiling(e, w)).cur = e.cur
  BY <1>1, <1>2, RestoreGood
<1>4. {t} \ {w} = {t}
  BY <1>2
<1> QED BY <1>1, <1>2, <1>3, <1>4

\* mutex_unlock: one level less, a free mutex, or a new owner.
LEMMA UnlockGood ==
  ASSUME IInv, NEW t \in Threads, NEW m \in Mutex, Unlock(t, m)
  PROVE  IInv'
<1> DEFINE k0 == [k EXCEPT !.depth[m] = @ - 1]
           k1 == [k0 EXCEPT !.held[t] = @ \ {m}]
           k2 == IF k1.waitq[m] # <<>> THEN HandOver(k1, m)
                 ELSE [k1 EXCEPT !.owner[m] = None]
           k3 == SetPrio(k2, t, Ceiling(k2, t))
           e  == IF k0.depth[m] > 0 THEN k0 ELSE Preempt(k3, FALSE)
<1>0. /\ Good(k, call, {}) /\ t \in Thread /\ k.cur = t /\ call[t] = None
      /\ k.owner[m] = t /\ k' = e /\ call' = call /\ irq' = irq /\ irq \in Nat
  BY DEF IInv, Threads, Free, Unlock
<1>1. /\ k \in KernelType /\ Owners(k) /\ Lists(k)
      /\ k.depth \in [Mutex -> Nat] /\ k.depth[m] # 0 /\ None \notin Thread
  BY <1>0, GoodTypes DEF Good, Owners
<1>2. k0.depth[m] = k.depth[m] - 1
  BY <1>1 DEF KernelType
<1>3. CASE k0.depth[m] > 0
  <2>1. /\ [k.depth EXCEPT ![m] = @ - 1] \in [Mutex -> Nat]
        /\ \A n \in Mutex : [k.depth EXCEPT ![m] = @ - 1][n] = 0 <=> k.depth[n] = 0
    BY <1>1, <1>2, <1>3
  <2>2. /\ k0 \in KernelType /\ k0.state = k.state /\ k0.prio = k.prio
        /\ k0.ready = k.ready /\ k0.waitq = k.waitq /\ k0.on = k.on
        /\ k0.timeouts = k.timeouts /\ k0.cur = k.cur /\ k0.result = k.result
        /\ k0.base = k.base /\ k0.blockedOn = k.blockedOn /\ k0.owner = k.owner
        /\ k0.held = k.held /\ k0.depth = [k.depth EXCEPT ![m] = @ - 1]
    BY <2>1, <1>1 DEF KernelType
  <2>3. e = k0
    BY <1>3
  <2> HIDE DEF e, k0
  <2>4. Lists(k0)
    BY <1>1, <2>2, SameLists
  <2>5. Owners(k0)
    BY <1>1, <2>1, <2>2 DEF Owners
  <2>6. Good(k0, call, {})
    BY <1>0, <2>2, <2>4, <2>5 DEF Good, Boosts, Calls, Alive
  <2> QED BY <1>0, <2>3, <2>6 DEF IInv
<1>4. CASE ~(k0.depth[m] > 0)
  <2>1. k1 = [k EXCEPT !.depth[m] = 0, !.held[t] = @ \ {m}]
    <3>1. k.depth[m] - 1 = 0
      BY <1>1, <1>2, <1>4
    <3> QED BY <3>1, <1>1 DEF KernelType
  <2>2. k1.waitq = k.waitq
    BY <1>1, <2>1 DEF KernelType
  <2>3. e = Preempt(k3, FALSE)
    BY <1>4
  <2> HIDE DEF e, k0, k1
  <2>4. Good(k2, call, {t}) /\ k2.cur = t
    <3>1. CASE k.waitq[m] # <<>>
      <4>1. k2 = HandOver(k1, m)
        BY <3>1, <2>2
      <4> HIDE DEF k2
      <4>2. Dropped(k, k1, t, m)
        BY <2>1, <1>0 DEF Dropped
      <4>3. Good(HandOver(k1, m), call, {t}) /\ HandOver(k1, m).cur = t
        BY <4>2, <3>1, <1>0, HandOverGood
      <4> QED BY <4>1, <4>3
    <3>2. CASE k.waitq[m] = <<>>
      <4>1. k2 = [k EXCEPT !.depth[m] = 0, !.held[t] = @ \ {m}, !.owner[m] = None]
        BY <3>2, <2>1, <2>2, <1>1 DEF KernelType
      <4>2. k2.cur = t
        BY <4>1, <1>0, <1>1 DEF KernelType
      <4> HIDE DEF k2
      <4> QED BY <3>2, <4>1, <4>2, <1>0, ReleaseGood
    <3> QED BY <3>1, <3>2
  <2> HIDE DEF k2
  <2>5. Good(k3, call, {})
    <3>1. Good(k3, call, {t} \ {t})
      BY <2>4, <1>0, RestoreGood
    <3>2. {t} \ {t} = {}
      OBVIOUS
    <3> QED BY <3>1, <3>2
  <2> HIDE DEF k3
  <2>6. Switched(k3, e)
    BY <2>3, <2>5, PreemptEffect DEF Good, Alive
  <2>7. Good(e, call, {})
    BY <2>5, <2>6, SwitchedGood
  <2> QED BY <1>0, <2>7 DEF IInv
<1> QED BY <1>3, <1>4

\* A thread that did not exist joins the end of its list.
Created(k0, n) ==
  ReadyAdd([k0 EXCEPT !.prio[n] = BasePrio[n], !.base[n] = BasePrio[n]], n, FALSE)

\* What that changed.
Creation(k0, e, n) ==
  /\ e.prio = [k0.prio EXCEPT ![n] = BasePrio[n]]
  /\ e.ready = [k0.ready EXCEPT ![BasePrio[n]] = Append(@, n)]
  /\ e.state = [k0.state EXCEPT ![n] = "ready"]
  /\ e.on = k0.on /\ e.result = k0.result /\ e.cur = k0.cur /\ e.need = k0.need
  /\ e.waitq = k0.waitq /\ e.timeouts = k0.timeouts /\ e.wake = k0.wake
  /\ e.blockedOn = k0.blockedOn /\ e.owner = k0.owner /\ e.held = k0.held

LEMMA CreatedGood ==
  ASSUME NEW k0, NEW c, Good(k0, c, {}), NEW n \in Thread, k0.state[n] = "none"
  PROVE  Good(Created(k0, n), c, {}) /\ Creation(k0, Created(k0, n), n)
<1> DEFINE b  == BasePrio[n]
           d  == [k0 EXCEPT !.prio[n] = b, !.base[n] = b]
           w  == Append(d.ready[b], n)
           e  == ReadyAdd(d, n, FALSE)
<1>1. /\ k0 \in KernelType /\ Lists(k0) /\ Owners(k0) /\ Calls(k0, c) /\ Alive(k0)
      /\ k0.prio \in [Thread -> Prio] /\ k0.base \in [Thread -> Prio] /\ b \in Prio
      /\ k0.state \in [Thread -> States] /\ k0.cur \in Thread /\ Idle \in Thread
  BY GoodTypes, KernelAssumption DEF Good
<1> HIDE DEF b
<1>2. /\ d \in KernelType /\ d.state = k0.state /\ d.ready = k0.ready
      /\ d.waitq = k0.waitq /\ d.on = k0.on /\ d.timeouts = k0.timeouts
      /\ d.cur = k0.cur /\ d.result = k0.result /\ d.blockedOn = k0.blockedOn
      /\ d.owner = k0.owner /\ d.held = k0.held /\ d.depth = k0.depth
      /\ d.wake = k0.wake /\ d.need = k0.need
      /\ d.prio = [k0.prio EXCEPT ![n] = b] /\ d.base = [k0.base EXCEPT ![n] = b]
  BY <1>1 DEF KernelType
<1> HIDE DEF d
<1>3. Lists(d)
  BY <1>1, <1>2 DEF Lists, ReadyLists, WaitLists, TimeoutList
<1>4. d.on[n] = None /\ n \notin Elems(d.timeouts)
  BY <1>2, <1>3, ReadyWaitsNot
<1>5. /\ d.ready \in [Prio -> Seq(Thread)] /\ d.ready[b] \in Seq(Thread)
      /\ Inj(d.ready[b]) /\ n \notin Elems(d.ready[b]) /\ d.prio[n] = b
  BY <1>1, <1>2, <1>3 DEF Lists, ReadyLists, KernelType
<1>6. w \in Seq(Thread) /\ Inj(w) /\ Elems(w) = Elems(d.ready[b]) \cup {n}
  <2> DEFINE s == d.ready[b]
  <2>1. s \in Seq(Thread) /\ Inj(s) /\ n \notin Elems(s)
    BY <1>5
  <2>2. w = Append(s, n)
    OBVIOUS
  <2> HIDE DEF w, s
  <2>3. /\ Append(s, n) \in Seq(Thread) /\ Inj(Append(s, n))
        /\ Elems(Append(s, n)) = Elems(s) \cup {n}
    BY <2>1, AppendEnd
  <2> QED BY <2>2, <2>3 DEF s
<1>7. e = [d EXCEPT !.state[n] = "ready", !.ready[b] = w]
  BY <1>5 DEF ReadyAdd
<1> HIDE DEF w, e
<1>8. /\ e \in KernelType /\ e.state = [k0.state EXCEPT ![n] = "ready"]
      /\ e.ready = [d.ready EXCEPT ![b] = w]
      /\ e.waitq = k0.waitq /\ e.on = k0.on /\ e.timeouts = k0.timeouts
      /\ e.cur = k0.cur /\ e.result = k0.result /\ e.blockedOn = k0.blockedOn
      /\ e.owner = k0.owner /\ e.held = k0.held /\ e.depth = k0.depth
      /\ e.prio = d.prio /\ e.base = d.base /\ e.wake = k0.wake /\ e.need = k0.need
  BY <1>1, <1>2, <1>5, <1>6, <1>7 DEF KernelType, States
<1>9. ReadyLists(e)
  <2> SUFFICES ASSUME NEW p \in Prio
               PROVE  /\ Inj(e.ready[p])
                      /\ Elems(e.ready[p]) =
                           {u \in Thread : e.state[u] = "ready" /\ e.prio[u] = p}
    BY DEF ReadyLists
  <2>0. Elems(d.ready[p]) = {u \in Thread : k0.state[u] = "ready" /\ d.prio[u] = p}
    BY <1>2, <1>3 DEF Lists, ReadyLists
  <2>1. CASE p = b
    <3>1. e.ready[p] = w
      BY <2>1, <1>1, <1>5, <1>8
    <3>2. Elems(w) = {u \in Thread : u = n \/ (k0.state[u] = "ready" /\ d.prio[u] = p)}
      BY <2>0, <2>1, <1>6
    <3>3. \A u \in Thread : e.state[u] = "ready" /\ e.prio[u] = p <=>
                            u = n \/ (k0.state[u] = "ready" /\ d.prio[u] = p)
      BY <2>1, <1>1, <1>5, <1>8
    <3> QED BY <3>1, <3>2, <3>3, <1>6
  <2>2. CASE p # b
    <3>1. e.ready[p] = d.ready[p]
      BY <2>2, <1>1, <1>5, <1>8
    <3>2. \A u \in Thread : e.state[u] = "ready" /\ e.prio[u] = p <=>
                            k0.state[u] = "ready" /\ d.prio[u] = p
      BY <2>2, <1>1, <1>5, <1>8
    <3> QED BY <2>0, <3>1, <3>2, <1>3 DEF Lists, ReadyLists
  <2> QED BY <2>1, <2>2
<1>10. WaitLists(e) /\ TimeoutList(e)
  BY <1>1, <1>2, <1>3, <1>4, <1>8 DEF Lists, WaitLists, TimeoutList
<1>11. Owners(e) /\ Alive(e)
  BY <1>1, <1>8 DEF Owners, Alive
<1>12. Boosts(e, {})
  <2>1. b >= b
    BY <1>1, ThreadAssumption DEF Prio
  <2> QED BY <2>1, <1>1, <1>2, <1>8 DEF Good, Boosts
<1>13. Calls(e, c)
  BY <1>1, <1>8 DEF Calls
<1>14. Good(e, c, {})
  BY <1>8, <1>9, <1>10, <1>11, <1>12, <1>13 DEF Good, Lists
<1>15. Created(k0, n) = e
  BY DEF Created, e, d, b
<1>16. Creation(k0, e, n)
  BY <1>2, <1>8 DEF Creation, w, b
<1> QED BY <1>14, <1>15, <1>16

\* thread_create: a new thread joins the end of its list.
LEMMA CreateGood ==
  ASSUME IInv, NEW t \in Threads, NEW n \in Threads, Create(t, n)
  PROVE  /\ IInv'
         /\ k.state[n] = "none" /\ k'.state = [k.state EXCEPT ![n] = "ready"]
         /\ k'.on = k.on /\ k'.result = k.result
<1> DEFINE e == Created(k, n)
<1>0. /\ Good(k, call, {}) /\ n \in Thread /\ k.state[n] = "none"
      /\ k' = Preempt(e, FALSE) /\ call' = call /\ irq' = irq /\ irq \in Nat
  BY DEF IInv, Threads, Create, Created
<1>1. Good(e, call, {}) /\ Creation(k, e, n)
  BY <1>0, CreatedGood
<1> HIDE DEF e
<1>2. Switched(e, Preempt(e, FALSE))
  BY <1>1, PreemptEffect DEF Good, Alive
<1>3. Good(Preempt(e, FALSE), call, {})
  BY <1>1, <1>2, SwitchedGood
<1>4. SameThreads(e, k')
  BY <1>0, <1>2 DEF Switched
<1> QED BY <1>0, <1>1, <1>3, <1>4 DEF IInv, SameThreads, Creation

\* thread_exit: the thread is on no list any more, and owns nothing.
LEMMA ExitGood ==
  ASSUME IInv, NEW t \in Threads, Exit(t)
  PROVE  IInv'
<1> DEFINE d == Leave(k, t, "dead", k.result[t])
<1>0. /\ Good(k, call, {}) /\ t \in Thread /\ t # Idle /\ k.cur = t /\ call[t] = None
      /\ k.held[t] = {} /\ call' = call /\ irq' = irq /\ irq \in Nat
      /\ k.state[t] = "ready" /\ k.state[Idle] = "ready" /\ Idle \in Thread
  BY GoodTypes DEF IInv, Threads, Free, Exit, Good, Alive
<1>1. /\ Lists(k) /\ Owners(k) /\ Calls(k, call)
      /\ k.state \in [Thread -> States] /\ k.result \in [Thread -> Results]
      /\ k.on \in [Thread -> Obj \cup {None}] /\ k.on[t] = None
  BY <1>0, GoodTypes DEF Good
<1>2. k' = Reschedule(d)
  <2>1. [k.result EXCEPT ![t] = k.result[t]] = k.result
    BY <1>1
  <2>2. d = [ReadyRemove(k, t) EXCEPT !.state[t] = "dead"]
    BY <1>1, <2>1 DEF Leave, ReadyRemove, Lists, KernelType
  <2> QED BY <2>2 DEF Exit
<1>3. Left(k, d, t, "dead", k.result[t])
  <2>1. k.result[t] \in Results /\ "dead" \in {"blocked", "dead"}
    BY <1>0, <1>1
  <2> QED BY <2>1, <1>0, <1>1, LeaveEffect
<1> HIDE DEF d
<1>4. /\ Lists(d) /\ SameMutexes(k, d) /\ d.prio = k.prio /\ d.on = k.on
      /\ d.state = [k.state EXCEPT ![t] = "dead"] /\ d.result = k.result
  BY <1>1, <1>3 DEF Left
<1>5. d.state[Idle] = "ready"
  BY <1>0, <1>1, <1>4
<1>6. Switched(d, Reschedule(d))
  BY <1>0, <1>4, <1>5, RescheduleEffect
<1> DEFINE e == Reschedule(d)
<1> HIDE DEF e
<1>7. /\ Lists(e) /\ e.state = [k.state EXCEPT ![t] = "dead"] /\ e.on = k.on
      /\ e.result = k.result /\ e.prio = k.prio /\ SameMutexes(k, e)
      /\ e.state[e.cur] = "ready" /\ e.state[Idle] = "ready"
  BY <1>4, <1>5, <1>6 DEF Switched, SameThreads, SameMutexes, e
<1>8. Owners(e) /\ Boosts(e, {}) /\ Alive(e)
  BY <1>0, <1>1, <1>7 DEF Owners, Boosts, Alive, SameMutexes, Good
<1>9. Calls(e, call)
  BY <1>0, <1>1, <1>7 DEF Calls, SameMutexes
<1>10. Good(e, call, {})
  BY <1>0, <1>7, <1>8, <1>9 DEF Good
<1> QED BY <1>0, <1>2, <1>10 DEF IInv, e

\* idle_main: a dead thread is on no list, so freeing it disturbs none.
LEMMA ReapGood == ASSUME IInv, Reap PROVE IInv'
<1> DEFINE s == [t \in Thread |-> IF k.state[t] = "dead" THEN "none" ELSE k.state[t]]
           e == [k EXCEPT !.state = s]
<1>0. /\ Good(k, call, {}) /\ call' = call /\ irq' = irq /\ irq \in Nat
      /\ k \in KernelType /\ k.state \in [Thread -> States] /\ k.cur \in Thread
      /\ Idle \in Thread
  BY GoodTypes DEF IInv, Reap
<1>1. k' = e
  BY <1>0 DEF Reap, KernelType
<1>2. s \in [Thread -> States]
  BY <1>0 DEF States
<1>3. \A t \in Thread : /\ s[t] = "ready" <=> k.state[t] = "ready"
                        /\ s[t] = "blocked" <=> k.state[t] = "blocked"
  OBVIOUS
<1> HIDE DEF s
<1>4. /\ e \in KernelType /\ e.state = s /\ e.prio = k.prio /\ e.ready = k.ready
      /\ e.waitq = k.waitq /\ e.on = k.on /\ e.timeouts = k.timeouts
      /\ e.cur = k.cur /\ e.result = k.result /\ SameMutexes(k, e)
  BY <1>0, <1>2 DEF KernelType, SameMutexes
<1> HIDE DEF e
<1>5. Lists(e)
  <2>1. Lists(k) /\ \A t \in Elems(k.timeouts) : t \in Thread
    BY <1>0 DEF Good, KernelType, Elems
  <2>2. ReadyLists(e)
    BY <2>1, <1>3, <1>4 DEF Lists, ReadyLists
  <2>3. WaitLists(e) /\ TimeoutList(e)
    BY <2>1, <1>3, <1>4 DEF Lists, WaitLists, TimeoutList
  <2> QED BY <2>2, <2>3, <1>4 DEF Lists
<1>6. Owners(e) /\ Boosts(e, {})
  BY <1>0, <1>4 DEF Good, Owners, Boosts, SameMutexes
<1>7. Alive(e)
  BY <1>0, <1>3, <1>4 DEF Good, Alive
<1>8. Calls(e, call)
  BY <1>0, <1>3, <1>4 DEF Good, Calls, SameMutexes
<1> QED BY <1>0, <1>1, <1>5, <1>6, <1>7, <1>8 DEF IInv, Good

LEMMA SleepGood ==
  ASSUME IInv, NEW t \in Threads, NEW ms \in Waits \ {None}, Sleep(t, ms)
  PROVE  IInv'
<1>0. /\ Good(k, call, {}) /\ t # Idle /\ k.cur = t /\ call[k.cur] = None
      /\ ms \in Nat \cup {None} /\ None \in Obj \cup {None} /\ None \notin Mutex
      /\ k' = Block(k, None, ms) /\ call' = call /\ irq' = irq /\ irq \in Nat
  BY KernelAssumption, GoodTypes DEF IInv, Threads, Free, Sleep
<1> DEFINE e == Block(k, None, ms)
<1>1. Waiting(k, e, k.cur, None) /\ e.state[e.cur] = "ready"
  BY <1>0, BlockEffect DEF Good, Alive
<1> HIDE DEF e
<1>2. Good(e, call, {})
  BY <1>0, <1>1, WaitingGood
<1> QED BY <1>0, <1>2 DEF IInv, e

LEMMA YieldGood ==
  ASSUME IInv, NEW t \in Threads, Yield(t)
  PROVE  IInv'
<1> DEFINE d == [k EXCEPT !.rotate = TRUE]
<1>0. /\ Good(k, call, {}) /\ call' = call /\ irq' = irq /\ irq \in Nat
      /\ k \in KernelType /\ k.cur \in Thread /\ k' = Reschedule(d)
  BY GoodTypes DEF IInv, Yield
<1>1. /\ d \in KernelType /\ SameThreads(k, d) /\ SameMutexes(k, d)
      /\ d.prio = k.prio /\ d.cur = k.cur /\ d.ready = k.ready
      /\ d.waitq = k.waitq /\ d.timeouts = k.timeouts
  BY <1>0 DEF KernelType, SameThreads, SameMutexes
<1>2. /\ Lists(d) /\ SameThreads(k, d) /\ SameMutexes(k, d)
      /\ d.prio = k.prio /\ d.cur = k.cur
  <2> HIDE DEF d
  <2> QED BY <1>0, <1>1, SameLists DEF Good, SameThreads
<1> HIDE DEF d
<1>3. d.cur \in Thread /\ d.state[d.cur] = "ready"
  BY <1>0, <1>2 DEF Good, Alive, SameThreads
<1>4. Switched(d, Reschedule(d))
  BY <1>2, <1>3, RescheduleEffect
<1>5. Switched(k, Reschedule(d))
  BY <1>2, <1>4 DEF Switched, SameThreads, SameMutexes
<1>6. Good(Reschedule(d), call, {})
  BY <1>0, <1>5, SwitchedGood
<1> QED BY <1>0, <1>6 DEF IInv, d

\* thread_set_priority: the new base counts at once, unless a waiter lends more.
LEMMA SetPriorityGood ==
  ASSUME IInv, NEW t \in Threads, NEW u \in Threads, NEW p \in NewPrios,
         SetPriority(t, u, p)
  PROVE  IInv'
<1> DEFINE d == [k EXCEPT !.base[u] = p]
           e == SetPrio(d, u, Ceiling(d, u))
<1>0. /\ Good(k, call, {}) /\ call' = call /\ irq' = irq /\ irq \in Nat
      /\ u \in Thread /\ p \in Prio /\ k' = Preempt(e, FALSE)
  BY KernelAssumption DEF IInv, SetPriority, Threads
<1>1. /\ k \in KernelType /\ k.base \in [Thread -> Prio]
  BY <1>0, GoodTypes
<1>2. /\ d \in KernelType /\ d.state = k.state /\ d.prio = k.prio /\ d.ready = k.ready
      /\ d.waitq = k.waitq /\ d.on = k.on /\ d.timeouts = k.timeouts
      /\ d.cur = k.cur /\ d.result = k.result /\ d.blockedOn = k.blockedOn
      /\ d.owner = k.owner /\ d.held = k.held /\ d.depth = k.depth
      /\ d.base = [k.base EXCEPT ![u] = p]
  BY <1>0, <1>1 DEF KernelType
<1> HIDE DEF d
<1>3. Lists(d)
  BY <1>0, <1>2, SameLists DEF Good
<1>4. Owners(d) /\ Calls(d, call) /\ Alive(d)
  BY <1>0, <1>2 DEF Good, Owners, Calls, Alive
<1>5. Boosts(d, {u})
  BY <1>0, <1>1, <1>2 DEF Good, Boosts
<1>6. Good(d, call, {u})
  BY <1>0, <1>3, <1>4, <1>5 DEF Good
<1>7. Good(e, call, {})
  <2>1. Good(e, call, {u} \ {u})
    BY <1>0, <1>6, RestoreGood
  <2>2. {u} \ {u} = {}
    OBVIOUS
  <2> QED BY <2>1, <2>2
<1> HIDE DEF e
<1>8. Switched(e, Preempt(e, FALSE))
  BY <1>7, PreemptEffect DEF Good, Alive
<1>9. Good(Preempt(e, FALSE), call, {})
  BY <1>7, <1>8, SwitchedGood
<1> QED BY <1>0, <1>9 DEF IInv
-----------------------------------------------------------------------------
(* The timer interrupt. *)

\* advance(), first part: only the time that is left changes.
LEMMA TickBeginGood == ASSUME IInv, TickBegin PROVE IInv' /\ SameThreads(k, k')
<1> DEFINE w == [t \in Thread |-> IF k.wake[t] > irq' THEN k.wake[t] - irq' ELSE 0]
           e == [k EXCEPT !.wake = w]
<1>0. /\ Good(k, call, {}) /\ call' = call /\ irq' \in Nat
      /\ k \in KernelType /\ k.wake \in [Thread -> Nat]
  <2>1. Good(k, call, {}) /\ call' = call /\ irq' \in Nat
    BY KernelAssumption DEF IInv, TickBegin
  <2>2. k \in KernelType
    BY <2>1, GoodTypes
  <2> QED BY <2>1, <2>2 DEF KernelType
<1>1. k' = e
  BY <1>0 DEF TickBegin, KernelType
<1>2. w \in [Thread -> Nat]
  BY <1>0
<1> HIDE DEF w
<1>3. /\ e \in KernelType /\ e.state = k.state /\ e.prio = k.prio /\ e.ready = k.ready
      /\ e.waitq = k.waitq /\ e.on = k.on /\ e.timeouts = k.timeouts
      /\ e.cur = k.cur /\ e.result = k.result /\ e.base = k.base
      /\ e.blockedOn = k.blockedOn /\ e.owner = k.owner /\ e.held = k.held
      /\ e.depth = k.depth
  BY <1>0, <1>2 DEF KernelType
<1> HIDE DEF e
<1>4. Lists(e)
  BY <1>0, <1>3, SameLists DEF Good
<1>5. Owners(e) /\ Boosts(e, {}) /\ Calls(e, call) /\ Alive(e)
  BY <1>0, <1>3 DEF Good, Owners, Boosts, Calls, Alive
<1> QED BY <1>0, <1>1, <1>3, <1>4, <1>5 DEF IInv, Good, SameThreads

\* advance(), one wake-up: a call whose time is over returns without the mutex.
LEMMA TickWakeGood ==
  ASSUME IInv, TickWake
  PROVE  /\ IInv'
         /\ \E t \in Thread : k.state[t] = "blocked" /\ WokenUp(k, k', t, "timeout")
<1> DEFINE t == Head(k.timeouts)
           e == Wake(k, t, "timeout")
<1>0. /\ Good(k, call, {}) /\ call' = call /\ irq' = irq /\ irq \in Nat
      /\ k' = e /\ k.timeouts # <<>> /\ k.timeouts \in Seq(Thread) /\ Lists(k)
  BY GoodTypes DEF IInv, TickWake, Due, KernelType, Good
<1>1. t \in Thread /\ k.state[t] = "blocked"
  <2>1. t \in Thread /\ t \in Elems(k.timeouts)
    BY <1>0 DEF Elems
  <2> QED BY <2>1, <1>0 DEF Lists, TimeoutList
<1> HIDE DEF t
<1>2. WokenUp(k, e, t, "timeout")
  <2>1. "timeout" \in Results
    BY DEF Results
  <2> QED BY <2>1, <1>0, <1>1, WakeEffect
<1> HIDE DEF e
<1>3. /\ Lists(e) /\ SameMutexes(k, e) /\ e.prio = k.prio /\ e.cur = k.cur
      /\ e.state = [k.state EXCEPT ![t] = "ready"]
      /\ e.on = [k.on EXCEPT ![t] = None]
      /\ e.result = [k.result EXCEPT ![t] = "timeout"]
      /\ k.state \in [Thread -> States] /\ k.on \in [Thread -> Obj \cup {None}]
      /\ k.result \in [Thread -> Results] /\ None \notin Mutex
      /\ k.cur \in Thread /\ Idle \in Thread /\ call \in [Thread -> Mutex \cup {None}]
  BY <1>0, <1>2, GoodTypes DEF WokenUp
<1>4. Owners(e)
  <2>1. \A m \in Mutex, u \in Thread :
          e.on[u] = m => e.owner[m] \notin {None, u} /\ e.blockedOn[u] = m
    BY <1>0, <1>1, <1>3 DEF Good, Owners, SameMutexes
  <2> QED BY <2>1, <1>0, <1>3 DEF Good, Owners, SameMutexes
<1>5. Boosts(e, {}) /\ Alive(e)
  BY <1>0, <1>1, <1>3 DEF Good, Boosts, Alive, SameMutexes
<1>6. Calls(e, call)
  <2> SUFFICES ASSUME NEW u \in Thread, call[u] # None
               PROVE  \/ e.state[u] = "blocked" /\ e.on[u] = call[u]
                      \/ /\ e.state[u] = "ready"
                         /\ e.result[u] = "ok" <=> e.owner[call[u]] = u
    BY DEF Calls
  <2>0. \/ k.state[u] = "blocked" /\ k.on[u] = call[u]
        \/ k.state[u] = "ready" /\ (k.result[u] = "ok" <=> k.owner[call[u]] = u)
    BY <1>0 DEF Good, Calls
  <2>1. CASE u = t
    <3>1. k.on[u] = call[u] /\ call[u] \in Mutex
      BY <2>0, <2>1, <1>1, <1>3
    <3>2. k.owner[call[u]] # u
      BY <3>1, <1>0 DEF Good, Owners
    <3> QED BY <2>1, <3>2, <1>1, <1>3 DEF SameMutexes
  <2>2. CASE u # t
    BY <2>0, <2>2, <1>3 DEF SameMutexes
  <2> QED BY <2>1, <2>2
<1> QED BY <1>0, <1>1, <1>2, <1>3, <1>4, <1>5, <1>6 DEF IInv, Good

\* From d to e the ready lists may only have been put in another order.
Reordered(d, e) ==
  /\ e \in KernelType /\ SameThreads(d, e) /\ SameMutexes(d, e)
  /\ e.prio = d.prio /\ e.cur = d.cur /\ e.waitq = d.waitq /\ e.timeouts = d.timeouts
  /\ \A q \in Prio : Inj(e.ready[q]) /\ Elems(e.ready[q]) = Elems(d.ready[q])

LEMMA ReorderedSwitched ==
  ASSUME NEW d, Lists(d), d.state[d.cur] = "ready", NEW e, Reordered(d, e)
  PROVE  Switched(d, e)
<1>1. Lists(e)
  <2>1. ReadyLists(e)
    BY DEF Lists, ReadyLists, Reordered, SameThreads
  <2>2. WaitLists(e) /\ TimeoutList(e)
    BY DEF Lists, WaitLists, TimeoutList, Reordered, SameThreads
  <2> QED BY <2>1, <2>2 DEF Lists, Reordered
<1> QED BY <1>1 DEF Switched, Reordered, SameThreads

\* The end of a slice moves the running thread's list on.
LEMMA SliceEffect ==
  ASSUME NEW d, Lists(d), d.state[d.cur] = "ready", NEW n \in Nat
  PROVE  Switched(d, Slice(d, n))
<1> DEFINE t == d.cur
           p == d.prio[t]
           e == Slice(d, n)
<1>0. /\ t \in Thread /\ d \in KernelType
      /\ d.ready \in [Prio -> Seq(Thread)] /\ d.slice \in 0 .. SliceTicks
      /\ d.prio \in [Thread -> Prio]
  BY DEF Lists, KernelType
<1>1. /\ SliceTicks \in Nat /\ SliceTicks \in 0 .. SliceTicks
  BY ThreadAssumption
<1>2. /\ p \in Prio /\ d.ready[p] \in Seq(Thread)
      /\ \A q \in Prio : Inj(d.ready[q])
      /\ t \in Elems(d.ready[p])
  <2>1. p \in Prio
    BY <1>0
  <2> QED BY <1>0, <2>1 DEF Lists, ReadyLists
<1>3. CASE d.slice > n
  <2> DEFINE v == d.slice - n
  <2>1. v \in 0 .. SliceTicks
    BY <1>0, <1>1, <1>3
  <2>2. e = [d EXCEPT !.slice = v]
    BY <1>0, <1>3 DEF Slice, KernelType
  <2> HIDE DEF v, e
  <2>3. Reordered(d, e)
    BY <1>0, <1>2, <2>1, <2>2 DEF KernelType, SameThreads, SameMutexes, Reordered
  <2> QED BY <2>3, ReorderedSwitched DEF e
<1>4. CASE ~(d.slice > n) /\ Len(d.ready[p]) > 1
  <2> DEFINE r == [d.ready EXCEPT ![p] = PastOf(@, t)]
  <2>1. e = [d EXCEPT !.slice = SliceTicks, !.ready[p] = PastOf(@, t), !.need = TRUE]
    BY <1>4 DEF Slice
  <2>2. e = [d EXCEPT !.slice = SliceTicks, !.ready = r, !.need = TRUE]
    BY <1>0, <1>2, <2>1 DEF KernelType
  <2>3. /\ PastOf(d.ready[p], t) \in Seq(Thread)
        /\ Inj(PastOf(d.ready[p], t))
        /\ Elems(PastOf(d.ready[p], t)) = Elems(d.ready[p])
    <3> DEFINE s == d.ready[p]
               i == CHOOSE j \in DOMAIN s : s[j] = t
               x == SubSeq(s, i + 1, Len(s)) \o SubSeq(s, 1, i)
    <3>1. i \in DOMAIN s /\ s \in Seq(Thread) /\ Inj(s)
      BY <1>2 DEF Elems
    <3>2. PastOf(s, t) = x
      BY DEF PastOf
    <3> HIDE DEF s, i
    <3>3. x \in Seq(Thread) /\ Inj(x) /\ Elems(x) = Elems(s)
      BY <3>1, PastElems
    <3> HIDE DEF x
    <3>4. PastOf(s, t) \in Seq(Thread) /\ Inj(PastOf(s, t)) /\ Elems(PastOf(s, t)) = Elems(s)
      BY <3>2, <3>3
    <3> QED BY <3>4 DEF s
  <2>4. /\ r \in [Prio -> Seq(Thread)]
        /\ \A q \in Prio : Inj(r[q]) /\ Elems(r[q]) = Elems(d.ready[q])
    BY <1>0, <1>2, <2>3
  <2> HIDE DEF r, e
  <2>5. Reordered(d, e)
    BY <1>0, <1>1, <2>2, <2>4 DEF KernelType, SameThreads, SameMutexes, Reordered
  <2> QED BY <2>5, ReorderedSwitched DEF e
<1>5. CASE ~(d.slice > n) /\ ~(Len(d.ready[p]) > 1)
  <2>1. e = [d EXCEPT !.slice = SliceTicks]
    BY <1>5 DEF Slice
  <2> HIDE DEF e
  <2>2. Reordered(d, e)
    BY <1>0, <1>1, <1>2, <2>1 DEF KernelType, SameThreads, SameMutexes, Reordered
  <2> QED BY <2>2, ReorderedSwitched DEF e
<1> QED BY <1>3, <1>4, <1>5

LEMMA TickEndGood == ASSUME IInv, TickEnd PROVE IInv' /\ SameThreads(k, k')
<1> DEFINE d == Slice(k, irq)
<1>0. /\ Good(k, call, {}) /\ call' = call /\ irq' = 0 /\ irq \in Nat
      /\ k' = IrqExit(d)
  BY DEF IInv, TickEnd
<1>1. Switched(k, d)
  BY <1>0, SliceEffect DEF Good, Alive
<1> HIDE DEF d
<1>2. Good(d, call, {})
  BY <1>0, <1>1, SwitchedGood
<1>3. Switched(d, IrqExit(d))
  BY <1>2, IrqExitEffect DEF Good, Alive
<1>4. Good(IrqExit(d), call, {})
  BY <1>2, <1>3, SwitchedGood
<1>5. SameThreads(k, IrqExit(d))
  BY <1>1, <1>3 DEF Switched, SameThreads
<1> QED BY <1>0, <1>4, <1>5 DEF IInv
-----------------------------------------------------------------------------
(* Every step keeps IInv, and IInv gives the invariants. *)

LEMMA LockGood ==
  ASSUME IInv, NEW t \in Threads, NEW m \in Mutex, Lock(t, m)
  PROVE  IInv'
<1>1. Free(t) /\ UNCHANGED irq
  BY DEF Lock
<1>2. CASE LockFree(t, m)
  BY <1>1, <1>2, LockFreeGood
<1>3. CASE LockAgain(t, m)
  BY <1>1, <1>3, LockAgainGood
<1>4. CASE \E ms \in Waits : LockBlock(t, m, ms)
  BY <1>1, <1>4, LockBlockGood
<1> QED BY <1>2, <1>3, <1>4 DEF Lock

LEMMA NextGood == IInv /\ [Next]_vars => IInv'
<1> SUFFICES ASSUME IInv, [Next]_vars PROVE IInv'
  OBVIOUS
<1>1. CASE \E t \in Threads : Run(t)
  <2>1. PICK t \in Threads : Run(t)
    BY <1>1
  <2>2. CASE \E m \in Mutex : Lock(t, m) \/ Unlock(t, m)
    BY <2>2, LockGood, UnlockGood
  <2>3. CASE LockReturn(t)
    BY <2>3, LockReturnGood
  <2>4. CASE \E n \in Threads : Create(t, n)
    BY <2>4, CreateGood
  <2>5. CASE \E ms \in Waits \ {None} : Sleep(t, ms)
    BY <2>5, SleepGood
  <2>6. CASE Yield(t)
    BY <2>6, YieldGood
  <2>7. CASE Exit(t)
    BY <2>7, ExitGood
  <2>8. CASE \E u \in Threads, p \in NewPrios : SetPriority(t, u, p)
    BY <2>8, SetPriorityGood
  <2> QED BY <2>1, <2>2, <2>3, <2>4, <2>5, <2>6, <2>7, <2>8 DEF Run
<1>2. CASE Reap
  BY <1>2, ReapGood
<1>3. CASE Tick
  BY <1>3, TickBeginGood, TickWakeGood, TickEndGood DEF Tick
<1>4. CASE UNCHANGED vars
  BY <1>4 DEF vars, IInv
<1> QED BY <1>1, <1>2, <1>3, <1>4 DEF Next

LEMMA Inductive == Spec => []IInv
<1>1. Init => IInv
  BY InitGood
<1>2. IInv /\ [Next]_vars => IInv'
  BY NextGood
<1> QED BY <1>1, <1>2, PTL DEF Spec

\* Every list, table and flag of the kernel always holds what it may hold.
THEOREM TypeCorrect == Spec => []TypeOK
<1>1. IInv => TypeOK
  BY DEF IInv, Good, Lists, TypeOK
<1> QED BY <1>1, Inductive, PTL

\* A mutex and its owner agree on who owns it, a taken mutex has a depth, and
\* only a taken mutex has waiters, none of them its owner.
THEOREM OwnershipAgrees == Spec => []OwnersAgree
<1>1. IInv => OwnersAgree
  <2> SUFFICES ASSUME IInv PROVE OwnersAgree
    OBVIOUS
  <2>1. Owners(k) /\ Lists(k) /\ Mutex \subseteq Obj
    BY ThreadAssumption DEF IInv, Good
  <2>2. \A m \in Mutex : \A w \in Elems(k.waitq[m]) : w \in Thread /\ k.on[w] = m
    BY <2>1 DEF Lists, WaitLists
  <2> QED BY <2>1, <2>2 DEF Owners, OwnersAgree
<1> QED BY <1>1, Inductive, PTL

\* A thread is never below its own priority, and back at it when it gave back its
\* last mutex, in whatever order and after whatever timeouts of its waiters.
THEOREM BoostsEnd == Spec => []BoostEnds
<1>1. IInv => BoostEnds
  BY DEF IInv, Good, Boosts, BoostEnds
<1> QED BY <1>1, Inductive, PTL

\* mutex_lock reports WAIT_OK exactly when it got the mutex, however the
\* unlock, the timeout and the scheduling of its thread interleave.
THEOREM LockIsTruthful == Spec => []LockReportsOwnership
<1>1. IInv => LockReportsOwnership
  BY DEF IInv, Good, Calls, LockReportsOwnership
<1> QED BY <1>1, Inductive, PTL
=============================================================================
