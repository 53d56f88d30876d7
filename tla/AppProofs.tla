----------------------------- MODULE AppProofs -----------------------------
(***************************************************************************)
(* Theorems about the ui thread.  Screens: the screens on its stack belong   *)
(* to apps that are loaded, and the alarm rings in its minute, once.  Sound: *)
(* the codec follows its users, and a file is played whole.  Notes: one is    *)
(* changed only when it is saved or deleted.  For every number of apps,      *)
(* blocks, screens and notes, and every length of file and ring.             *)
(***************************************************************************)
EXTENDS Screens, Sound, Notes, SequenceTheorems, FiniteSetTheorems,
        WellFoundedInduction, TLAPS

(* The screens and who owns them *)

Kinds  == {"os", "app", "dialog", "ring"}
Screen == {s \in [kind : Kinds, app : App \cup {None}, block : Block \cup {None}] :
             s.block # None => s.app # None}
Depth  == Len(stack)

\* The screens on the stack: each belongs to the OS or to an app that is loaded,
\* a block to one screen and to the app of that screen.
StackOK ==
  /\ stack \in Seq(Screen) /\ Depth \in Nat \ {0} /\ stack[1] = OsScreen
  /\ \A i, j \in 1 .. Depth : stack[i].block # None /\ stack[i].block = stack[j].block => i = j
  /\ \A i \in 1 .. Depth : stack[i].app # None => stack[i].app \in loaded
  /\ \A i \in 1 .. Depth : stack[i].block # None => stack[i].block \in allocs[stack[i].app]

\* The callbacks: at most the app list's and the start() of one app.
CallsOK ==
  /\ calls \in Seq(App \cup {None}) /\ Len(calls) \in 0 .. 2
  /\ Len(calls) = 2 => calls[1] = None /\ calls[2] \in App
  /\ \A i \in 1 .. Len(calls) : calls[i] # None => calls[i] \in loaded

\* The blocks: each belongs to one app, and that one is loaded.
BlocksOK ==
  /\ loaded \subseteq App /\ allocs \in [App -> SUBSET Block]
  /\ \A a, b \in App : a # b => allocs[a] \cap allocs[b] = {}
  /\ \A a \in App : a \notin loaded => allocs[a] = {}
  /\ heap = UNION {allocs[a] : a \in App}

\* An app without a screen has its start() running or is about to be collected.
Starting == IF Len(calls) = 2 THEN {calls[2]} ELSE {}
CollectOK ==
  /\ collect \in BOOLEAN
  /\ ~collect => loaded \subseteq Owners \cup lost \cup Starting
  /\ phase = "input" => ~collect /\ calls = <<>>

LoaderInv == StackOK /\ CallsOK /\ BlocksOK /\ CollectOK

USE ScreensAssumption

LEMMA OwnersAre ==
  ASSUME StackOK
  PROVE  \A a : a \in Owners <=> a # None /\ \E i \in 1 .. Depth : stack[i].app = a
<1>1. DOMAIN stack = 1 .. Depth
  BY LenProperties DEF StackOK, Depth
<1> QED BY <1>1 DEF Owners, ToSet

LEMMA OnStack ==
  ASSUME StackOK
  PROVE  \A s : s \in ToSet(stack) <=> \E i \in 1 .. Depth : stack[i] = s
<1>1. DOMAIN stack = 1 .. Depth
  BY LenProperties DEF StackOK, Depth
<1> QED BY <1>1 DEF ToSet

\* What a push leaves, whatever the loader does in the same step.
LEMMA PushStack ==
  ASSUME StackOK, NEW s \in Screen, NEW what, Push(s, what),
         \A i \in 1 .. Depth : stack[i].app # None =>
           /\ stack[i].app \in loaded'
           /\ stack[i].block # None => stack[i].block \in allocs'[stack[i].app],
         s.app # None => s.app \in loaded',
         s.block # None => /\ s.block \in allocs'[s.app]
                           /\ \A i \in 1 .. Depth : stack[i].block # s.block
  PROVE  /\ StackOK'
         /\ \/ stack' = stack /\ lost' = lost \cup what
            \/ lost' = lost /\ Owners' = Owners \cup ({s.app} \ {None})
<1> USE DEF StackOK, Depth
<1>0. \A i \in 1 .. Depth : stack[i] \in Screen
  BY ElementOfSeq
<1>00. \A t \in Screen : t.block # None => t.app # None
  BY DEF Screen
<1>1. CASE Full
  <2>1. stack' = stack /\ lost' = lost \cup what
    BY <1>1 DEF Push
  <2>2. StackOK'
    BY <1>0, <1>00, <2>1
  <2> QED BY <2>1, <2>2
<1>2. CASE ~Full
  <2>1. stack' = Append(stack, s) /\ lost' = lost
    BY <1>2 DEF Push
  <2>2. /\ stack' \in Seq(Screen) /\ Len(stack') = Depth + 1
        /\ \A i \in 1 .. Depth : stack'[i] = stack[i]
        /\ stack'[Depth + 1] = s
    BY <2>1, AppendProperties
  <2>3. /\ Depth' = Depth + 1 /\ 1 \in 1 .. Depth
        /\ \A i \in 1 .. Depth' : i \in 1 .. Depth \/ i = Depth + 1
        /\ 1 .. Depth \subseteq 1 .. Depth' /\ Depth + 1 \in 1 .. Depth' /\ Depth' \in Nat \ {0}
    BY <2>2
  <2>4. \A i, j \in 1 .. Depth' : stack'[i].block # None /\ stack'[i].block = stack'[j].block => i = j
    BY <2>2, <2>3
  <2>5. \A i \in 1 .. Depth' : stack'[i].app # None => stack'[i].app \in loaded'
    BY <2>2, <2>3
  <2>6. \A i \in 1 .. Depth' : stack'[i].block # None => stack'[i].block \in allocs'[stack'[i].app]
    BY <2>2, <2>3, <1>0, <1>00
  <2>7. StackOK'
    BY <2>2, <2>3, <2>4, <2>5, <2>6
  <2>8. \A a : a \in Owners' <=> a # None /\ \E i \in 1 .. Depth' : stack'[i].app = a
    <3>1. DOMAIN stack' = 1 .. Depth'
      BY <2>2, LenProperties
    <3> QED BY <3>1 DEF Owners, ToSet
  <2>9. \A a : a \in Owners' <=> a \in Owners \/ (a = s.app /\ a # None)
    <3>1. \A a : a \in Owners <=> a # None /\ \E i \in 1 .. Depth : stack[i].app = a
      BY OwnersAre
    <3> HIDE DEF StackOK, Depth
    <3> QED BY <3>1, <2>8, <2>2, <2>3
  <2> HIDE DEF StackOK
  <2> QED BY <2>1, <2>7, <2>9
<1> QED BY <1>1, <1>2

LEMMA SameStack ==
  ASSUME StackOK, stack' = stack,
         \A i \in 1 .. Depth : stack[i].app # None =>
           /\ stack[i].app \in loaded'
           /\ stack[i].block # None => stack[i].block \in allocs'[stack[i].app]
  PROVE  StackOK' /\ Owners' = Owners
<1>0. \A i \in 1 .. Depth : stack[i] \in Screen
  BY ElementOfSeq DEF StackOK, Depth
<1>00. \A t \in Screen : t.block # None => t.app # None
  BY DEF Screen
<1> QED BY <1>0, <1>00 DEF StackOK, Depth, Owners

\* The top screens go, with the blocks they are in.
LEMMA PopStack ==
  ASSUME StackOK, BlocksOK, NEW n \in 0 .. Depth - 1, Pop(n), loaded' = loaded
  PROVE  /\ StackOK' /\ BlocksOK'
         /\ collect \in BOOLEAN => collect' \in BOOLEAN
         /\ ~collect' => ~collect /\ Owners' = Owners
<1> DEFINE k == Depth - n
           gone == Leaving(n)
<1>1. /\ k \in 1 .. Depth /\ 1 .. k \subseteq 1 .. Depth /\ Depth \in Nat
      /\ k + 1 .. Depth \subseteq 1 .. Depth
      /\ \A i \in 1 .. k, j \in k + 1 .. Depth : i # j
      /\ \A i \in 1 .. Depth : i \in 1 .. k \/ i \in k + 1 .. Depth
      /\ n \in Int /\ k - 1 + 1 = k /\ (1 <= k) /\ \A i \in 1 .. k : 1 + i - 1 = i
  BY DEF StackOK
<1>2. /\ stack' \in Seq(Screen) /\ Depth' = k
      /\ \A i \in 1 .. k : stack'[i] = stack[i]
  <2>1. stack' = SubSeq(stack, 1, k)
    BY DEF Pop, Depth
  <2>2. stack \in Seq(Screen) /\ \A i \in 1 .. k : stack[i] \in Screen
    BY <1>1, ElementOfSeq DEF StackOK, Depth
  <2>3. 1 \in Int /\ k \in Int
    BY <1>1
  <2>4. /\ SubSeq(stack, 1, k) \in Seq(Screen)
        /\ Len(SubSeq(stack, 1, k)) = IF 1 <= k THEN k - 1 + 1 ELSE 0
        /\ \A i \in 1 .. k - 1 + 1 : SubSeq(stack, 1, k)[i] = stack[1 + i - 1]
    <3> HIDE DEF k
    <3> QED BY <2>2, <2>3, SubSeqProperties
  <2> HIDE DEF k
  <2> QED BY <1>1, <2>1, <2>4 DEF Depth
<1>3. \A s : s \in gone <=> \E i \in k + 1 .. Depth : stack[i] = s
  BY DEF Leaving, Depth
<1>4. /\ collect' = CollectAfter(gone)
      /\ allocs' = [a \in App |-> Forget(a, gone)]
      /\ heap' = heap \ {s.block : s \in gone}
  BY DEF Pop
<1> HIDE DEF k, gone
<1>5. \A i \in 1 .. Depth : stack[i] \in Screen
  BY ElementOfSeq DEF StackOK, Depth
<1>6. \A s \in gone : s \in Screen
  BY <1>1, <1>3, <1>5
<1>7. \A t \in Screen : /\ t.block # None => t.app # None
                        /\ t.app \in App \cup {None} /\ t.block \in Block \cup {None}
  BY DEF Screen
<1>8. \A i \in 1 .. k : stack[i].block # None => \A s \in gone : s.block # stack[i].block
  BY <1>1, <1>3 DEF StackOK
<1>9. \A a \in App : \A b : b \in allocs'[a] <=> b \in allocs[a] /\ ~ \E s \in gone : s.app = a /\ s.block = b
  BY <1>4 DEF Forget
<1>10. \A i \in 1 .. k : stack[i].block # None => stack[i].block \in allocs'[stack[i].app]
  BY <1>1, <1>5, <1>7, <1>8, <1>9 DEF StackOK
<1>11. StackOK'
  <2>1. \A i \in 1 .. k : stack[i].app # None => stack[i].app \in loaded'
    BY <1>1 DEF StackOK
  <2>2. \A i, j \in 1 .. k : stack[i].block # None /\ stack[i].block = stack[j].block => i = j
    BY <1>1 DEF StackOK
  <2>3. stack'[1] = OsScreen /\ Depth' \in Nat \ {0}
    BY <1>1, <1>2 DEF StackOK
  <2>4. \A i, j \in 1 .. Depth' : stack'[i].block # None /\ stack'[i].block = stack'[j].block => i = j
    BY <1>2, <2>2
  <2>5. \A i \in 1 .. Depth' : stack'[i].app # None => stack'[i].app \in loaded'
    BY <1>2, <2>1
  <2>6. \A i \in 1 .. Depth' : stack'[i].block # None => stack'[i].block \in allocs'[stack'[i].app]
    BY <1>2, <1>10
  <2> QED BY <1>2, <2>3, <2>4, <2>5, <2>6 DEF StackOK
<1>12. BlocksOK'
  <2>1. \A a \in App : allocs'[a] \subseteq allocs[a]
    BY <1>9
  <2>2. allocs' \in [App -> SUBSET Block]
    <3>1. \A a \in App : Forget(a, gone) \in SUBSET Block
      BY DEF Forget, BlocksOK
    <3> QED BY <1>4, <3>1
  <2>3. \A s \in gone : s.block # None => s.app \in App /\ s.block \in allocs[s.app]
    BY <1>1, <1>3, <1>5, <1>7 DEF StackOK
  <2>4. ASSUME NEW b PROVE b \in heap' <=> \E a \in App : b \in allocs'[a]
    <3>1. b \in heap' <=> b \in heap /\ \A s \in gone : s.block # b
      BY <1>4
    <3>2. b \in heap <=> \E a \in App : b \in allocs[a]
      BY DEF BlocksOK
    <3>3. ASSUME b \in heap' PROVE \E a \in App : b \in allocs'[a]
      BY <3>1, <3>2, <3>3, <1>9
    <3>4. ASSUME NEW a \in App, b \in allocs'[a] PROVE b \in heap'
      <4>1. b \in heap /\ b \in allocs[a] /\ b \in Block
        BY <3>2, <3>4, <2>1 DEF BlocksOK
      <4>2. ASSUME NEW s \in gone, s.block = b PROVE FALSE
        <5>1. b # None
          BY <4>1
        <5>2. s.app \in App /\ b \in allocs[s.app]
          BY <4>2, <5>1, <2>3
        <5>3. s.app = a
          BY <4>1, <5>2 DEF BlocksOK
        <5> QED BY <5>3, <4>2, <3>4, <1>9
      <4> QED BY <3>1, <4>1, <4>2
    <3> QED BY <3>3, <3>4
  <2>5. heap' = UNION {allocs'[a] : a \in App}
    BY <2>4
  <2>6. \A a, b \in App : a # b => allocs'[a] \cap allocs'[b] = {}
    BY <2>1 DEF BlocksOK
  <2>7. \A a \in App : a \notin loaded' => allocs'[a] = {}
    BY <2>1 DEF BlocksOK
  <2>8. loaded' \subseteq App
    BY DEF BlocksOK
  <2> QED BY <2>2, <2>5, <2>6, <2>7, <2>8 DEF BlocksOK
<1>13. collect \in BOOLEAN => collect' \in BOOLEAN
  BY <1>4 DEF CollectAfter
<1>14. ASSUME ~collect' PROVE ~collect /\ Owners' = Owners
  <2>1. ~collect /\ \A s \in gone : s.app = None
    BY <1>4, <1>14 DEF CollectAfter
  <2>2. \A a : a \in Owners' <=> a # None /\ \E i \in 1 .. k : stack[i].app = a
    <3>1. DOMAIN stack' = 1 .. k
      BY <1>2, LenProperties DEF Depth
    <3> QED BY <1>2, <3>1 DEF Owners, ToSet
  <2>3. \A a : a \in Owners <=> a # None /\ \E i \in 1 .. Depth : stack[i].app = a
    BY OwnersAre
  <2>4. \A i \in k + 1 .. Depth : stack[i].app = None
    BY <2>1, <1>3
  <2>5. \A a : a \in Owners' <=> a \in Owners
    BY <2>2, <2>3, <2>4, <1>1
  <2> QED BY <2>1, <2>5
<1> QED BY <1>11, <1>12, <1>13, <1>14

\* unload() of apps that own no screen
LEMMA UnloadBlocks ==
  ASSUME BlocksOK, NEW gone \in SUBSET App, Unload(gone)
  PROVE  /\ BlocksOK' /\ loaded' = loaded \ gone
         /\ \A a \in App : a \notin gone => allocs'[a] = allocs[a]
<1>1. /\ loaded' = loaded \ gone
      /\ heap' = heap \ UNION {allocs[a] : a \in gone}
      /\ allocs' = [a \in App |-> IF a \in gone THEN {} ELSE allocs[a]]
  BY DEF Unload
<1>2. \A a \in App : allocs'[a] = IF a \in gone THEN {} ELSE allocs[a]
  BY <1>1
<1>3. allocs' \in [App -> SUBSET Block]
  <2>1. \A a \in App : (IF a \in gone THEN {} ELSE allocs[a]) \in SUBSET Block
    BY DEF BlocksOK
  <2> QED BY <1>1, <2>1
<1>4. ASSUME NEW b PROVE b \in heap' <=> \E a \in App : b \in allocs'[a]
  <2>1. b \in heap' <=> b \in heap /\ \A a \in gone : b \notin allocs[a]
    BY <1>1
  <2>2. b \in heap <=> \E a \in App : b \in allocs[a]
    BY DEF BlocksOK
  <2>3. ASSUME NEW a \in App, b \in allocs'[a] PROVE b \in heap'
    <3>1. a \notin gone /\ b \in allocs[a]
      BY <1>2, <2>3
    <3>2. \A c \in gone : b \notin allocs[c]
      BY <3>1 DEF BlocksOK
    <3> QED BY <2>1, <2>2, <3>1, <3>2
  <2>4. ASSUME b \in heap' PROVE \E a \in App : b \in allocs'[a]
    BY <2>1, <2>2, <2>4, <1>2
  <2> QED BY <2>3, <2>4
<1>5. heap' = UNION {allocs'[a] : a \in App}
  BY <1>4
<1>6. \A a, b \in App : a # b => allocs'[a] \cap allocs'[b] = {}
  BY <1>2 DEF BlocksOK
<1>7. \A a \in App : a \notin loaded' => allocs'[a] = {}
  BY <1>1, <1>2 DEF BlocksOK
<1>8. loaded' \subseteq App
  BY <1>1 DEF BlocksOK
<1> QED BY <1>1, <1>2, <1>3, <1>5, <1>6, <1>7, <1>8 DEF BlocksOK

LEMMA SameBlocks ==
  ASSUME BlocksOK, allocs' = allocs, heap' = heap, loaded \subseteq loaded', loaded' \subseteq App
  PROVE  BlocksOK'
BY DEF BlocksOK

LEMMA SameCalls ==
  ASSUME CallsOK, calls' = calls, \A i \in 1 .. Len(calls) : calls[i] \in loaded => calls[i] \in loaded'
  PROVE  CallsOK' /\ Starting' = Starting
BY DEF CallsOK, Starting

LEMMA NoCalls ==
  ASSUME calls' = <<>>
  PROVE  CallsOK' /\ Starting' = {}
BY DEF CallsOK, Starting

LEMMA CallMade ==
  ASSUME CallsOK, NEW a \in App \cup {None}, Call(a), Len(calls) \in 0 .. 1,
         loaded \subseteq loaded', a # None => a \in loaded',
         Len(calls) = 1 => calls[1] = None /\ a \in App
  PROVE  /\ CallsOK' /\ calls' # <<>>
         /\ Starting' = IF Len(calls) = 1 THEN {a} ELSE {}
<1>1. /\ calls' \in Seq(App \cup {None}) /\ Len(calls') = Len(calls) + 1
      /\ \A i \in 1 .. Len(calls) : calls'[i] = calls[i]
      /\ calls'[Len(calls) + 1] = a
  BY AppendProperties DEF CallsOK, Call
<1>2. \A i \in 1 .. Len(calls') : i \in 1 .. Len(calls) \/ i = Len(calls) + 1
  BY <1>1
<1>3. CASE Len(calls) = 0
  BY <1>1, <1>2, <1>3 DEF CallsOK, Starting
<1>4. CASE Len(calls) = 1
  <2>1. /\ Len(calls') = 2 /\ calls'[1] = None /\ calls'[2] = a /\ a \in App
        /\ \A i \in 1 .. 2 : i = 1 \/ i = 2
    BY <1>1, <1>4
  <2>2. Starting' = {a} /\ calls' # <<>>
    BY <2>1, EmptySeq DEF Starting
  <2>3. CallsOK'
    BY <1>1, <2>1 DEF CallsOK
  <2> QED BY <1>4, <2>2, <2>3
<1> QED BY <1>3, <1>4

\* Whose call it is
LEMMA CurrentIs ==
  ASSUME CallsOK
  PROVE  /\ Running => Len(calls) \in 1 .. 2 /\ Current = calls[Len(calls)]
         /\ AppRuns => Current \in App /\ Current \in loaded
         /\ OsRuns => Len(calls) = 1 /\ calls[1] = None
         /\ OsRuns /\ calls' = Front(calls) => calls' = <<>>
         /\ Len(calls) = 2 => Current = calls[2] /\ Current \in App /\ Current \in loaded
<1>1. Len(calls) = 0 <=> calls = <<>>
  BY EmptySeq DEF CallsOK
<1>2. Current = calls[Len(calls)]
  BY DEF Current, Last
<1>3. Running => Len(calls) \in 1 .. 2
  BY <1>1 DEF Running, CallsOK
<1>4. \A i \in 1 .. Len(calls) : calls[i] \in App \cup {None}
  BY ElementOfSeq DEF CallsOK
<1>5. AppRuns => Current \in App /\ Current \in loaded
  BY <1>2, <1>3, <1>4 DEF AppRuns, CallsOK
<1>6. OsRuns => Len(calls) = 1 /\ calls[1] = None
  <2>1. ASSUME Running, Current = None PROVE Len(calls) # 2
    BY <2>1, <1>2 DEF CallsOK
  <2>2. \A n \in 1 .. 2 : n = 1 \/ n = 2
    OBVIOUS
  <2> QED BY <1>2, <1>3, <2>1, <2>2 DEF OsRuns
<1>7. OsRuns /\ calls' = Front(calls) => calls' = <<>>
  <2>1. Len(calls) = 1 => Front(calls) = SubSeq(calls, 1, 0)
    BY DEF Front
  <2>2. SubSeq(calls, 1, 0) = <<>>
    BY SubSeqEmpty DEF CallsOK
  <2> QED BY <1>6, <2>1, <2>2
<1>8. Len(calls) = 2 => Current = calls[2] /\ Current \in App /\ Current \in loaded
  BY <1>2 DEF CallsOK
<1> QED BY <1>2, <1>3, <1>5, <1>6, <1>7, <1>8

(* One lemma for each step that touches the screens, the apps or the calls *)

LEMMA OpenAppInv ==
  ASSUME LoaderInv, NEW a \in App, OpenApp(a)
  PROVE  LoaderInv'
<1> USE DEF LoaderInv
<1>1. /\ OsRuns /\ Len(calls) = 1 /\ loaded' = loaded \cup {a} /\ Call(a) /\ lost' = lost \ {a}
      /\ stack' = stack /\ collect' = collect /\ allocs' = allocs /\ heap' = heap /\ phase' = phase
  BY DEF OpenApp
<1>2. StackOK' /\ Owners' = Owners
  <2>1. \A i \in 1 .. Depth : stack[i].app # None =>
           /\ stack[i].app \in loaded'
           /\ stack[i].block # None => stack[i].block \in allocs'[stack[i].app]
    BY <1>1 DEF StackOK
  <2> QED BY <1>1, <2>1, SameStack
<1>3. CallsOK' /\ calls' # <<>> /\ Starting' = {a}
  <2>1. Len(calls) \in 0 .. 1 /\ calls[1] = None
    BY <1>1, CurrentIs
  <2> QED BY <1>1, <2>1, CallMade
<1>4. BlocksOK'
  <2>1. loaded' \subseteq App
    BY <1>1 DEF BlocksOK
  <2> QED BY <1>1, <2>1, SameBlocks
<1>5. CollectOK'
  <2>1. Starting = {} /\ calls # <<>>
    BY <1>1 DEF Starting, OsRuns, Running
  <2> QED BY <1>1, <1>2, <1>3, <2>1 DEF CollectOK
<1> QED BY <1>2, <1>3, <1>4, <1>5

LEMMA StartedInv ==
  ASSUME LoaderInv, Started
  PROVE  LoaderInv'
<1> USE DEF LoaderInv
<1> DEFINE s == [kind |-> "app", app |-> Current, block |-> None]
<1>1. /\ Len(calls) = 2 /\ Push(s, {Current}) /\ calls' = <<>> /\ collect' = collect
      /\ loaded' = loaded /\ allocs' = allocs /\ heap' = heap /\ phase' = phase
  BY DEF Started
<1>2. Current \in App /\ Current \in loaded /\ Current # None /\ Starting = {Current} /\ calls # <<>>
  BY <1>1, CurrentIs DEF Starting
<1>3. s \in Screen /\ s.app = Current /\ s.block = None
  BY <1>2 DEF Screen, Kinds
<1> HIDE DEF s
<1>4. /\ StackOK'
      /\ \/ stack' = stack /\ lost' = lost \cup {Current}
         \/ lost' = lost /\ Owners' = Owners \cup ({s.app} \ {None})
  <2>1. \A i \in 1 .. Depth : stack[i].app # None =>
           /\ stack[i].app \in loaded'
           /\ stack[i].block # None => stack[i].block \in allocs'[stack[i].app]
    BY <1>1 DEF StackOK
  <2> QED BY <1>1, <1>2, <1>3, <2>1, PushStack
<1>5. CallsOK' /\ Starting' = {}
  BY <1>1, NoCalls
<1>6. BlocksOK'
  BY <1>1, SameBlocks DEF BlocksOK
<1>7. CollectOK'
  <2>1. stack' = stack => Owners' = Owners
    BY DEF Owners
  <2>2. phase # "input"
    BY <1>2 DEF CollectOK
  <2> QED BY <1>1, <1>2, <1>3, <1>4, <1>5, <2>1, <2>2 DEF CollectOK
<1> QED BY <1>4, <1>5, <1>6, <1>7

LEMMA NotStartedInv ==
  ASSUME LoaderInv, NotStarted, Fails = FALSE
  PROVE  LoaderInv'
<1> USE DEF LoaderInv
<1> DEFINE s == [kind |-> "dialog", app |-> None, block |-> None]
<1>1. /\ Len(calls) = 2 /\ Current \notin Owners /\ Unload({Current}) /\ Push(s, {})
      /\ calls' = <<>> /\ collect' = collect /\ phase' = phase
  BY DEF NotStarted
<1>2. Current \in App /\ Current \in loaded /\ Current # None /\ Starting = {Current} /\ calls # <<>>
  BY <1>1, CurrentIs DEF Starting
<1>3. s \in Screen /\ s.app = None /\ s.block = None
  BY DEF Screen, Kinds
<1>4. /\ BlocksOK' /\ loaded' = loaded \ {Current}
      /\ \A a \in App : a \notin {Current} => allocs'[a] = allocs[a]
  <2>1. {Current} \in SUBSET App
    BY <1>2
  <2> QED BY <1>1, <2>1, UnloadBlocks
<1> HIDE DEF s
<1>5. /\ StackOK'
      /\ \/ stack' = stack /\ lost' = lost \cup {}
         \/ lost' = lost /\ Owners' = Owners \cup ({s.app} \ {None})
  <2>1. ASSUME NEW i \in 1 .. Depth, stack[i].app # None
        PROVE  /\ stack[i].app \in loaded'
               /\ stack[i].block # None => stack[i].block \in allocs'[stack[i].app]
    <3>1. stack[i].app \in Owners
      BY <2>1, OwnersAre
    <3>2. stack[i].app # Current /\ stack[i].app \in loaded
      BY <1>1, <2>1, <3>1 DEF StackOK
    <3>3. stack[i].app \in App
      BY <3>2 DEF BlocksOK
    <3>4. allocs'[stack[i].app] = allocs[stack[i].app]
      BY <3>2, <3>3, <1>4
    <3> QED BY <1>4, <3>2, <3>4 DEF StackOK
  <2> QED BY <1>1, <1>3, <2>1, PushStack
<1>6. CallsOK' /\ Starting' = {}
  BY <1>1, NoCalls
<1>7. CollectOK'
  <2>1. stack' = stack => Owners' = Owners
    BY DEF Owners
  <2>2. phase # "input"
    BY <1>2 DEF CollectOK
  <2> QED BY <1>1, <1>2, <1>3, <1>4, <1>5, <1>6, <2>1, <2>2 DEF CollectOK
<1> QED BY <1>4, <1>5, <1>6, <1>7

\* A screen is pushed by a callback of an app that goes on.
LEMMA AppPushInv ==
  ASSUME LoaderInv, AppRuns, NEW b \in Block \cup {None}, NEW kind \in Kinds,
         Push([kind |-> kind, app |-> Current, block |-> b], {}), AppGoesOn,
         UNCHANGED <<collect, loaded, allocs, heap>>,
         b # None => b \in allocs[Current] /\ b \notin {s.block : s \in ToSet(stack)}
  PROVE  LoaderInv'
<1> USE DEF LoaderInv
<1> DEFINE s == [kind |-> kind, app |-> Current, block |-> b]
<1>1. /\ Push(s, {}) /\ calls' = calls /\ collect' = collect /\ phase' = phase
      /\ loaded' = loaded /\ allocs' = allocs /\ heap' = heap
  BY DEF AppGoesOn
<1>2. Current \in App /\ Current \in loaded /\ Current # None
  BY CurrentIs
<1>3. s \in Screen /\ s.app = Current /\ s.block = b
  BY <1>2 DEF Screen, Kinds
<1> HIDE DEF s
<1>4. /\ StackOK'
      /\ \/ stack' = stack /\ lost' = lost \cup {}
         \/ lost' = lost /\ Owners' = Owners \cup ({s.app} \ {None})
  <2>1. \A i \in 1 .. Depth : stack[i].app # None =>
           /\ stack[i].app \in loaded'
           /\ stack[i].block # None => stack[i].block \in allocs'[stack[i].app]
    BY <1>1 DEF StackOK
  <2>2. s.block # None => s.block \in allocs'[s.app] /\ \A i \in 1 .. Depth : stack[i].block # s.block
    BY <1>1, <1>3, OnStack
  <2> QED BY <1>1, <1>2, <1>3, <2>1, <2>2, PushStack
<1>5. CallsOK' /\ Starting' = Starting
  BY <1>1, SameCalls
<1>6. BlocksOK'
  BY <1>1, SameBlocks DEF BlocksOK
<1>7. CollectOK'
  <2>1. stack' = stack => Owners' = Owners
    BY DEF Owners
  <2> QED BY <1>1, <1>4, <1>5, <2>1 DEF CollectOK
<1> QED BY <1>4, <1>5, <1>6, <1>7

LEMMA AppMallocsInv ==
  ASSUME LoaderInv, NEW b \in Block, AppMallocs(b)
  PROVE  LoaderInv'
<1> USE DEF LoaderInv
<1> DEFINE c == Current
<1>1. /\ AppRuns /\ b \notin heap /\ heap' = heap \cup {b}
      /\ allocs' = [allocs EXCEPT ![c] = @ \cup {b}] /\ calls' = calls /\ collect' = collect
      /\ phase' = phase /\ stack' = stack /\ loaded' = loaded /\ lost' = lost
  BY DEF AppMallocs, AppGoesOn
<1>2. c \in App /\ c \in loaded
  BY <1>1, CurrentIs
<1> HIDE DEF c
<1>3. /\ allocs' \in [App -> SUBSET Block]
      /\ \A a \in App : allocs'[a] = IF a = c THEN allocs[a] \cup {b} ELSE allocs[a]
  BY <1>1, <1>2 DEF BlocksOK
<1>4. StackOK' /\ Owners' = Owners
  <2>1. \A i \in 1 .. Depth : stack[i].app # None =>
           /\ stack[i].app \in loaded'
           /\ stack[i].block # None => stack[i].block \in allocs'[stack[i].app]
    BY <1>1, <1>3 DEF StackOK, BlocksOK
  <2> QED BY <1>1, <2>1, SameStack
<1>5. BlocksOK'
  <2>1. \A a \in App : b \notin allocs[a]
    BY <1>1 DEF BlocksOK
  <2>2. heap' = UNION {allocs'[a] : a \in App}
    <3>1. \A d : d \in heap' <=> \E a \in App : d \in allocs'[a]
      BY <1>1, <1>2, <1>3 DEF BlocksOK
    <3> QED BY <3>1
  <2>3. \A a, d \in App : a # d => allocs'[a] \cap allocs'[d] = {}
    BY <2>1, <1>3 DEF BlocksOK
  <2>4. \A a \in App : a \notin loaded' => allocs'[a] = {}
    BY <1>1, <1>2, <1>3 DEF BlocksOK
  <2> QED BY <1>1, <1>3, <2>2, <2>3, <2>4 DEF BlocksOK
<1>6. CallsOK' /\ Starting' = Starting
  BY <1>1, SameCalls
<1>7. CollectOK'
  BY <1>1, <1>4, <1>6 DEF CollectOK
<1> QED BY <1>4, <1>5, <1>6, <1>7

LEMMA AppFreesInv ==
  ASSUME LoaderInv, NEW b \in Block, AppFrees(b)
  PROVE  LoaderInv'
<1> USE DEF LoaderInv
<1> DEFINE c == Current
<1>1. /\ AppRuns /\ b \in allocs[c] /\ b \notin {s.block : s \in ToSet(stack)} /\ heap' = heap \ {b}
      /\ allocs' = [allocs EXCEPT ![c] = @ \ {b}] /\ calls' = calls /\ collect' = collect
      /\ phase' = phase /\ stack' = stack /\ loaded' = loaded /\ lost' = lost
  BY DEF AppFrees, AppGoesOn
<1>2. c \in App /\ c \in loaded
  BY <1>1, CurrentIs
<1> HIDE DEF c
<1>3. /\ allocs' \in [App -> SUBSET Block]
      /\ \A a \in App : allocs'[a] = IF a = c THEN allocs[a] \ {b} ELSE allocs[a]
  BY <1>1, <1>2 DEF BlocksOK
<1>4. StackOK' /\ Owners' = Owners
  <2>0. \A i \in 1 .. Depth : stack[i].block # b
    BY <1>1, OnStack
  <2>1. \A i \in 1 .. Depth : stack[i].app # None =>
           /\ stack[i].app \in loaded'
           /\ stack[i].block # None => stack[i].block \in allocs'[stack[i].app]
    BY <1>1, <1>3, <2>0 DEF StackOK, BlocksOK
  <2> QED BY <1>1, <2>1, SameStack
<1>5. BlocksOK'
  <2>1. \A a \in App : a # c => b \notin allocs[a]
    BY <1>1, <1>2 DEF BlocksOK
  <2>2. heap' = UNION {allocs'[a] : a \in App}
    <3>1. \A d : d \in heap' <=> \E a \in App : d \in allocs'[a]
      BY <1>1, <1>2, <1>3, <2>1 DEF BlocksOK
    <3> QED BY <3>1
  <2>3. \A a, d \in App : a # d => allocs'[a] \cap allocs'[d] = {}
    BY <1>3 DEF BlocksOK
  <2>4. \A a \in App : a \notin loaded' => allocs'[a] = {}
    BY <1>1, <1>2, <1>3 DEF BlocksOK
  <2> QED BY <1>1, <1>3, <2>2, <2>3, <2>4 DEF BlocksOK
<1>6. CallsOK' /\ Starting' = Starting
  BY <1>1, SameCalls
<1>7. CollectOK'
  BY <1>1, <1>4, <1>6 DEF CollectOK
<1> QED BY <1>4, <1>5, <1>6, <1>7

LEMMA PopsKeep ==
  ASSUME StackOK, BlocksOK, ui_pop \/ ui_home, loaded' = loaded
  PROVE  /\ StackOK' /\ BlocksOK'
         /\ collect \in BOOLEAN => collect' \in BOOLEAN
         /\ ~collect' => ~collect /\ Owners' = Owners
<1>1. ASSUME NEW n \in 0 .. Depth - 1, Pop(n)
      PROVE  /\ StackOK' /\ BlocksOK'
             /\ collect \in BOOLEAN => collect' \in BOOLEAN
             /\ ~collect' => ~collect /\ Owners' = Owners
  BY <1>1, PopStack
<1>2. CASE ui_home
  <2>1. Depth - 1 \in 0 .. Depth - 1 /\ Pop(Depth - 1)
    BY <1>2 DEF ui_home, StackOK, Depth
  <2> QED BY <1>1, <2>1
<1>3. CASE ui_pop /\ Len(stack) > 1
  <2>1. 1 \in 0 .. Depth - 1 /\ Pop(1)
    BY <1>3 DEF ui_pop, StackOK, Depth
  <2> QED BY <1>1, <2>1
<1>4. CASE ui_pop /\ ~(Len(stack) > 1)
  <2>1. UNCHANGED <<stack, collect, allocs, heap>>
    BY <1>4 DEF ui_pop
  <2>2. StackOK' /\ Owners' = Owners
    BY <2>1, SameStack DEF StackOK
  <2>3. BlocksOK'
    BY <2>1, SameBlocks DEF BlocksOK
  <2> QED BY <2>1, <2>2, <2>3
<1> QED BY <1>2, <1>3, <1>4

\* A screen is popped by a callback that goes on or ends, or by the loop.
LEMMA PopInv ==
  ASSUME LoaderInv, ui_pop \/ ui_home, UNCHANGED <<loaded, lost>>,
         \/ calls' = calls /\ Len(calls) # 0
         \/ calls' = calls /\ phase' # "input"
         \/ calls' = <<>> /\ OsRuns,
         phase' = phase \/ phase' # "input"
  PROVE  LoaderInv'
<1> USE DEF LoaderInv
<1>1. /\ StackOK' /\ BlocksOK'
      /\ collect' \in BOOLEAN
      /\ ~collect' => ~collect /\ Owners' = Owners
  BY PopsKeep DEF CollectOK
<1>2. CallsOK' /\ Starting' = Starting
  <2>1. CASE calls' = calls
    BY <2>1, SameCalls
  <2>2. CASE calls' = <<>> /\ OsRuns
    <3>1. Len(calls) = 1
      BY <2>2, CurrentIs
    <3>2. Starting = {}
      BY <3>1 DEF Starting
    <3> QED BY <2>2, <3>2, NoCalls
  <2> QED BY <2>1, <2>2
<1>3. CollectOK'
  <2>1. phase' # "input"
    <3>1. Len(calls) # 0 => calls # <<>>
      BY EmptySeq
    <3>2. OsRuns => calls # <<>>
      BY DEF OsRuns, Running
    <3> QED BY <3>1, <3>2 DEF CollectOK
  <2> QED BY <1>1, <1>2, <2>1 DEF CollectOK
<1> QED BY <1>1, <1>2, <1>3

\* A step that pushes a screen of the OS or none
LEMMA OsStepInv ==
  ASSUME LoaderInv, NEW s, s \in {OsScreen, RingScreen}, NEW what,
         Push(s, what) \/ UNCHANGED <<stack, lost>>,
         UNCHANGED <<collect, loaded, allocs, heap>>,
         \/ calls' = calls /\ phase' # "input"
         \/ calls' = <<>> /\ Len(calls) # 2 /\ calls # <<>> /\ phase' = phase
  PROVE  LoaderInv'
<1> USE DEF LoaderInv
<1>1. s \in Screen /\ s.app = None /\ s.block = None
  BY DEF Screen, Kinds, OsScreen, RingScreen
<1>2. /\ StackOK' /\ Owners' = Owners
      /\ lost \subseteq lost'
  <2>1. \A i \in 1 .. Depth : stack[i].app # None =>
           /\ stack[i].app \in loaded'
           /\ stack[i].block # None => stack[i].block \in allocs'[stack[i].app]
    BY DEF StackOK
  <2>2. CASE UNCHANGED <<stack, lost>>
    BY <2>1, <2>2, SameStack
  <2>3. CASE Push(s, what)
    <3>1. /\ StackOK'
          /\ \/ stack' = stack /\ lost' = lost \cup what
             \/ lost' = lost /\ Owners' = Owners \cup ({s.app} \ {None})
      BY <1>1, <2>1, <2>3, PushStack
    <3>2. stack' = stack => Owners' = Owners
      BY DEF Owners
    <3> QED BY <1>1, <3>1, <3>2
  <2> QED BY <2>2, <2>3
<1>3. CallsOK' /\ Starting' = Starting
  <2>1. CASE calls' = calls
    BY <2>1, SameCalls
  <2>2. CASE calls' = <<>> /\ Len(calls) # 2
    <3>1. Starting = {}
      BY <2>2 DEF Starting
    <3> QED BY <2>2, <3>1, NoCalls
  <2> QED BY <2>1, <2>2
<1>4. BlocksOK'
  BY SameBlocks DEF BlocksOK
<1>5. CollectOK'
  BY <1>2, <1>3 DEF CollectOK
<1> QED BY <1>2, <1>3, <1>4, <1>5

LEMMA CallbackInv ==
  ASSUME LoaderInv, NEW ph, NEW next, next # "input", Callback(ph, next)
  PROVE  LoaderInv'
<1> USE DEF LoaderInv
<1>1. /\ calls = <<>> /\ Call(Top.app) /\ phase' = next /\ stack' = stack /\ collect' = collect
      /\ loaded' = loaded /\ allocs' = allocs /\ heap' = heap /\ lost' = lost
  BY DEF Callback, Between, NextPhase, appvars
<1>2. Top.app \in App \cup {None} /\ (Top.app # None => Top.app \in loaded)
  <2>1. Top = stack[Depth] /\ Depth \in 1 .. Depth
    BY DEF Top, Last, Depth, StackOK
  <2>2. stack[Depth] \in Screen
    BY <2>1, ElementOfSeq DEF StackOK, Depth
  <2>3. \A t \in Screen : t.app \in App \cup {None}
    BY DEF Screen
  <2> QED BY <2>1, <2>2, <2>3 DEF StackOK
<1>3. CallsOK' /\ Starting' = {}
  <2>1. Len(calls) = 0
    BY <1>1
  <2>2. Len(calls) \in 0 .. 1 /\ (Len(calls) # 1) /\ loaded \subseteq loaded'
    BY <1>1, <2>1
  <2> DEFINE c == Top.app
  <2>3. c \in App \cup {None} /\ Call(c) /\ (c # None => c \in loaded')
    BY <1>1, <1>2
  <2> HIDE DEF c
  <2> QED BY <2>2, <2>3, CallMade
<1>4. StackOK' /\ Owners' = Owners
  <2>1. \A i \in 1 .. Depth : stack[i].app # None =>
           /\ stack[i].app \in loaded'
           /\ stack[i].block # None => stack[i].block \in allocs'[stack[i].app]
    BY <1>1 DEF StackOK
  <2> QED BY <1>1, <2>1, SameStack
<1>5. BlocksOK'
  BY <1>1, SameBlocks DEF BlocksOK
<1>6. CollectOK'
  <2>1. Starting = {}
    BY <1>1 DEF Starting
  <2> QED BY <1>1, <1>3, <1>4, <2>1 DEF CollectOK
<1> QED BY <1>3, <1>4, <1>5, <1>6

LEMMA CollectInv ==
  ASSUME LoaderInv, Collect
  PROVE  LoaderInv'
<1> USE DEF LoaderInv
<1>1. /\ calls = <<>> /\ phase' = "input" /\ collect' = FALSE
      /\ stack' = stack /\ calls' = calls /\ lost' = lost
  BY DEF Collect, Between, NextPhase
<1>2. /\ BlocksOK' /\ loaded' \subseteq loaded
      /\ \A a \in loaded : a \in Owners => a \in loaded' /\ allocs'[a] = allocs[a]
      /\ loaded' \subseteq Owners \cup lost
  <2>1. CASE collect
    <3>1. Unload(loaded \ Owners) /\ loaded \ Owners \in SUBSET App
      BY <2>1 DEF Collect, BlocksOK
    <3>2. /\ BlocksOK' /\ loaded' = loaded \ (loaded \ Owners)
          /\ \A a \in App : a \notin loaded \ Owners => allocs'[a] = allocs[a]
      BY <3>1, UnloadBlocks
    <3> QED BY <3>2 DEF BlocksOK
  <2>2. CASE ~collect
    <3>1. UNCHANGED <<loaded, heap, allocs>>
      BY <2>2 DEF Collect
    <3>2. Starting = {}
      BY <1>1 DEF Starting
    <3>3. BlocksOK'
      BY <3>1, SameBlocks DEF BlocksOK
    <3> QED BY <2>2, <3>1, <3>2, <3>3 DEF CollectOK
  <2> QED BY <2>1, <2>2
<1>3. StackOK' /\ Owners' = Owners
  <2>1. \A i \in 1 .. Depth : stack[i].app # None => stack[i].app \in Owners
    BY OwnersAre
  <2>2. \A i \in 1 .. Depth : stack[i].app # None =>
           /\ stack[i].app \in loaded'
           /\ stack[i].block # None => stack[i].block \in allocs'[stack[i].app]
    BY <1>2, <2>1 DEF StackOK
  <2> QED BY <1>1, <2>2, SameStack
<1>4. CallsOK' /\ Starting' = {}
  BY <1>1, NoCalls
<1>5. CollectOK'
  BY <1>1, <1>2, <1>3, <1>4 DEF CollectOK
<1> QED BY <1>2, <1>3, <1>4, <1>5

LEMMA LoaderStutters ==
  ASSUME LoaderInv, UNCHANGED <<stack, collect, loaded, allocs, heap, calls, phase, lost>>
  PROVE  LoaderInv'
<1> USE DEF LoaderInv
<1>1. StackOK' /\ Owners' = Owners
  BY SameStack DEF StackOK
<1>2. CallsOK' /\ Starting' = Starting
  BY SameCalls
<1>3. BlocksOK'
  BY SameBlocks DEF BlocksOK
<1>4. CollectOK'
  BY <1>1, <1>2 DEF CollectOK
<1> QED BY <1>1, <1>2, <1>3, <1>4

LEMMA LoaderInit == ScreensInit => LoaderInv
<1> SUFFICES ASSUME ScreensInit PROVE LoaderInv
  OBVIOUS
<1>1. /\ stack = <<OsScreen>> /\ collect = FALSE /\ loaded = {}
      /\ allocs = [a \in App |-> {}] /\ heap = {} /\ calls = <<>>
  BY DEF ScreensInit
<1>2. OsScreen \in Screen /\ OsScreen.app = None /\ OsScreen.block = None
  BY DEF OsScreen, Screen, Kinds
<1>3. StackOK
  <2>1. stack \in Seq(Screen) /\ Depth = 1 /\ stack[1] = OsScreen
    BY <1>1, <1>2 DEF Depth
  <2>2. \A i \in 1 .. 1 : i = 1
    OBVIOUS
  <2>3. \A i, j \in 1 .. Depth : i = j /\ stack[i].app = None /\ stack[i].block = None
    BY <1>2, <2>1, <2>2
  <2> QED BY <2>1, <2>3 DEF StackOK
<1>4. CallsOK
  BY <1>1 DEF CallsOK
<1>5. BlocksOK
  BY <1>1 DEF BlocksOK
<1>6. CollectOK
  BY <1>1 DEF CollectOK
<1> QED BY <1>3, <1>4, <1>5, <1>6 DEF LoaderInv

LEMMA LoaderNext ==
  ASSUME Fails = FALSE, LoaderInv, [ScreensNext]_screenvars
  PROVE  LoaderInv'
<1>0. /\ CallsOK /\ CollectOK
      /\ OsRuns /\ OsReturns => calls' = <<>> /\ Len(calls) # 2 /\ calls # <<>> /\ phase' = phase
  BY CurrentIs DEF LoaderInv, OsReturns, OsRuns, Running
<1>1. ASSUME NEW a \in App, OpenApp(a) PROVE LoaderInv'
  BY <1>1, OpenAppInv
<1>2. CASE Started
  BY <1>2, StartedInv
<1>3. CASE NotStarted
  BY <1>3, NotStartedInv
<1>4. CASE AppPops
  <2>1. Len(calls) # 0
    BY <1>0, <1>4, CurrentIs DEF AppPops, AppRuns
  <2> QED BY <1>4, <2>1, PopInv DEF AppPops, AppGoesOn
<1>5. CASE AppGoesHome
  <2>1. Len(calls) # 0
    BY <1>0, <1>5, CurrentIs DEF AppGoesHome, AppRuns
  <2> QED BY <1>5, <2>1, PopInv DEF AppGoesHome, AppGoesOn
<1>6. CASE OsPushes
  BY <1>0, <1>6, OsStepInv DEF OsPushes
<1>7. CASE OsPops
  BY <1>0, <1>7, PopInv DEF OsPops
<1>8. CASE Return
  <2>1. calls # <<>> /\ Len(calls) # 2
    BY <1>8 DEF Return
  <2> QED BY <1>8, <2>1, OsStepInv DEF Return
<1>9. ASSUME NEW kind \in {"app", "dialog"}, AppPushes(kind) PROVE LoaderInv'
  BY <1>9, AppPushInv DEF AppPushes, Kinds
<1>10. ASSUME NEW b \in Block, AppPushesBlock(b) PROVE LoaderInv'
  <2>1. "app" \in Kinds /\ b \in Block \cup {None}
    BY DEF Kinds
  <2> QED BY <1>10, <2>1, AppPushInv DEF AppPushesBlock
<1>11. ASSUME NEW b \in Block, AppMallocs(b) \/ AppFrees(b) PROVE LoaderInv'
  BY <1>11, AppMallocsInv, AppFreesInv
<1>12. ASSUME NEW new, SetAlarm(new) PROVE LoaderInv'
  BY <1>0, <1>12, OsStepInv DEF SetAlarm
<1>13. CASE Callback("input", "second") \/ Callback("tick", "collect")
  BY <1>13, CallbackInv
<1>14. CASE RingKey \/ EndKey \/ RingEnds
  BY <1>14, PopInv DEF RingKey, EndKey, RingEnds, NextPhase
<1>15. CASE NoInput
  <2>1. calls' = calls /\ phase' # "input" /\ UNCHANGED <<stack, lost, collect, loaded, allocs, heap>>
    BY <1>15 DEF NoInput, NextPhase, appvars
  <2> QED BY <2>1, OsStepInv
<1>16. CASE AlarmCheck
  <2>1. /\ calls' = calls /\ phase' # "input" /\ UNCHANGED <<collect, loaded, allocs, heap>>
        /\ Push(RingScreen, {"ring"}) \/ UNCHANGED <<stack, lost>>
    BY <1>16 DEF AlarmCheck, NextPhase, appvars
  <2> QED BY <2>1, OsStepInv
<1>17. CASE Collect
  BY <1>17, CollectInv
<1>18. CASE Minute
  BY <1>18, LoaderStutters DEF Minute, appvars
<1>19. CASE UNCHANGED screenvars
  BY <1>19, LoaderStutters DEF screenvars, appvars
<1> QED
  BY <1>1, <1>2, <1>3, <1>4, <1>5, <1>6, <1>7, <1>8, <1>9, <1>10, <1>11, <1>12, <1>13, <1>14,
     <1>15, <1>16, <1>17, <1>18, <1>19 DEF ScreensNext, Calls, Loop

\* os/include/os/app.h, os/loader/loader.c: no callback runs and no screen is drawn
\* in the memory of an app that was unloaded, an app's blocks go with it and only
\* once, and an app without a screen is gone before the next key, for every number of
\* apps, blocks and screens.  No app's start() has pushed a screen and then returns
\* NULL: app.h has it return the app's first screen.
THEOREM OwnersAreLoaded ==
  ASSUME Fails = FALSE
  PROVE  ScreensSpec => []OwnersLoaded
<1>1. ScreensInit => LoaderInv
  BY LoaderInit
<1>2. LoaderInv /\ [ScreensNext]_screenvars => LoaderInv'
  BY LoaderNext
<1>3. LoaderInv => OwnersLoaded
  <2> SUFFICES ASSUME LoaderInv PROVE OwnersLoaded
    OBVIOUS
  <2> USE DEF LoaderInv
  <2>1. \A s \in ToSet(stack) : s.app # None => s.app \in loaded
    BY OnStack DEF StackOK
  <2>2. \A i \in DOMAIN calls : calls[i] # None => calls[i] \in loaded
    <3>1. DOMAIN calls = 1 .. Len(calls)
      BY LenProperties DEF CallsOK
    <3> QED BY <3>1 DEF CallsOK
  <2>3. heap = UNION {allocs[a] : a \in loaded}
    <3>1. \A b : b \in heap <=> \E a \in loaded : b \in allocs[a]
      BY DEF BlocksOK
    <3> QED BY <3>1
  <2>4. \A s \in ToSet(stack) : s.block # None => s.block \in heap
    <3>1. \A i \in 1 .. Depth : stack[i] \in Screen
      BY ElementOfSeq DEF StackOK, Depth
    <3>2. \A t \in Screen : t.block # None => t.app # None
      BY DEF Screen
    <3>3. \A i \in 1 .. Depth : stack[i].block # None =>
             stack[i].app \in App /\ stack[i].block \in allocs[stack[i].app]
      BY <3>1, <3>2 DEF StackOK, BlocksOK
    <3> QED BY <3>3, OnStack DEF BlocksOK
  <2>5. Between("input") => loaded \subseteq Owners \cup lost
    BY DEF Between, CollectOK, Starting
  <2> QED BY <2>1, <2>2, <2>3, <2>4, <2>5 DEF OwnersLoaded
<1> QED BY <1>1, <1>2, <1>3, PTL DEF ScreensSpec

(* The alarm *)

AlarmDue == (alarm.on /\ alarm.min = now) \/ snooze = now

\* What the alarm remembers of this minute is true of this minute.
AlarmInv ==
  /\ now \in 0 .. Day - 1 /\ ringing \in BOOLEAN /\ seen \in BOOLEAN
  /\ rang = "began" <=> fired = now
  /\ ringing => rang # "not"
  /\ seen => fired \in {None, now}
  /\ seen /\ AlarmDue => rang # "not"

\* The alarm's screen is on top, and the only one, and no callback runs then.
Shaped ==
  /\ stack \in Seq([kind : Kinds, app : App \cup {None}, block : Block \cup {None}])
  /\ Depth \in Nat \ {0} /\ stack[1] = OsScreen
  /\ calls \in Seq(App \cup {None})
RingOnTop ==
  "ring" \notin lost =>
    /\ \A i \in 1 .. Depth - 1 : stack[i].kind # "ring"
    /\ ringing <=> stack[Depth].kind = "ring"
    /\ stack[Depth].kind = "ring" => stack[Depth] = RingScreen /\ calls = <<>>
RingInv == AlarmInv /\ Shaped /\ RingOnTop

LEMMA TopIs == Top = stack[Depth] /\ Top' = stack'[Depth']
BY DEF Top, Last, Depth

LEMMA CurrentTyped ==
  ASSUME Shaped
  PROVE  /\ Running => Current \in App \cup {None}
         /\ Top.app \in App \cup {None}
         /\ Front(calls) \in Seq(App \cup {None})
<1>1. Current = calls[Len(calls)] /\ (Running => Len(calls) \in 1 .. Len(calls))
  BY EmptySeq, LenProperties DEF Current, Last, Running, Shaped
<1>2. Running => Current \in App \cup {None}
  BY <1>1, ElementOfSeq DEF Shaped
<1>3. Top.app \in App \cup {None}
  <2>1. Depth \in 1 .. Len(stack)
    BY DEF Shaped, Depth
  <2>2. stack[Depth] \in [kind : Kinds, app : App \cup {None}, block : Block \cup {None}]
    BY <2>1, ElementOfSeq DEF Shaped
  <2> QED BY <2>2, TopIs
<1>4. Front(calls) \in Seq(App \cup {None})
  <2>1. /\ 1 \in Int /\ Len(calls) - 1 \in Int
        /\ \A i \in 1 .. Len(calls) - 1 : calls[i] \in App \cup {None}
    <3>1. Len(calls) \in Nat
      BY LenProperties DEF Shaped
    <3>2. \A i \in 1 .. Len(calls) - 1 : i \in 1 .. Len(calls)
      BY <3>1
    <3> QED BY <3>1, <3>2, ElementOfSeq DEF Shaped
  <2>2. SubSeq(calls, 1, Len(calls) - 1) \in Seq(App \cup {None})
    <3> DEFINE n == Len(calls) - 1
    <3>1. n \in Int
      BY <2>1
    <3> HIDE DEF n
    <3>2. SubSeq(calls, 1, n) \in Seq(App \cup {None})
      BY <2>1, <3>1, SubSeqProperties DEF Shaped, n
    <3> QED BY <3>2 DEF n
  <2> QED BY <2>2 DEF Front
<1> QED BY <1>2, <1>3, <1>4

\* A callback pushes a screen.
LEMMA RingPush ==
  ASSUME Shaped, RingOnTop, Running, NEW kind \in Kinds \ {"ring"}, NEW a \in App \cup {None},
         NEW b \in Block \cup {None}, NEW what,
         Push([kind |-> kind, app |-> a, block |-> b], what),
         ringing' = ringing, ringing \in BOOLEAN, calls' \in Seq(App \cup {None})
  PROVE  Shaped' /\ RingOnTop'
<1> DEFINE s == [kind |-> kind, app |-> a, block |-> b]
           S == [kind : Kinds, app : App \cup {None}, block : Block \cup {None}]
<1>1. s \in S /\ s.kind # "ring"
  OBVIOUS
<1>2. calls # <<>>
  BY DEF Running
<1>3. CASE Full
  <2>1. stack' = stack /\ Depth' = Depth /\ ("ring" \notin lost' => "ring" \notin lost)
    BY <1>3 DEF Push, Depth
  <2> QED BY <1>2, <2>1 DEF Shaped, RingOnTop
<1>4. CASE ~Full
  <2>1. stack' = Append(stack, s) /\ lost' = lost
    BY <1>4 DEF Push
  <2> HIDE DEF s
  <2>2. /\ stack' \in Seq(S) /\ Depth' = Depth + 1
        /\ \A i \in 1 .. Depth : stack'[i] = stack[i]
        /\ stack'[Depth + 1] = s
    BY <1>1, <2>1, AppendProperties DEF Shaped, Depth
  <2>3. /\ Depth' - 1 = Depth /\ Depth \in 1 .. Depth /\ 1 \in 1 .. Depth /\ Depth' \in Nat \ {0}
        /\ \A i \in 1 .. Depth : i \in 1 .. Depth - 1 \/ i = Depth
    BY <2>2 DEF Shaped
  <2>4. Shaped'
    BY <2>2, <2>3 DEF Shaped
  <2>5. RingOnTop'
    <3> SUFFICES ASSUME "ring" \notin lost' PROVE
          /\ \A i \in 1 .. Depth' - 1 : stack'[i].kind # "ring"
          /\ ringing' <=> stack'[Depth'].kind = "ring"
          /\ stack'[Depth'].kind = "ring" => stack'[Depth'] = RingScreen /\ calls' = <<>>
      BY DEF RingOnTop
    <3>1. /\ \A i \in 1 .. Depth - 1 : stack[i].kind # "ring"
          /\ stack[Depth].kind # "ring" /\ ~ringing
      BY <1>2, <2>1 DEF RingOnTop
    <3>2. stack'[Depth'] = s
      BY <2>2
    <3> QED BY <1>1, <2>2, <2>3, <3>1, <3>2
  <2> QED BY <2>4, <2>5
<1> QED BY <1>3, <1>4

\* ring_leave() runs when the alarm's screen is popped.
LEMMA RingPop ==
  ASSUME Shaped, RingOnTop, NEW n \in 0 .. Depth - 1, Pop(n), lost' = lost, ringing \in BOOLEAN,
         calls = <<>> => calls' = <<>>, calls' \in Seq(App \cup {None})
  PROVE  Shaped' /\ RingOnTop' /\ ringing' \in BOOLEAN /\ (ringing' => ringing)
<1> DEFINE k == Depth - n
           gone == Leaving(n)
           S == [kind : Kinds, app : App \cup {None}, block : Block \cup {None}]
<1>1. /\ k \in 1 .. Depth /\ 1 .. k \subseteq 1 .. Depth /\ Depth \in Nat
      /\ k \in Int /\ k - 1 + 1 = k /\ 1 <= k /\ \A i \in 1 .. k : 1 + i - 1 = i
      /\ (n = 0 => k = Depth) /\ (n # 0 => 1 .. k \subseteq 1 .. Depth - 1 /\ Depth \in k + 1 .. Depth)
      /\ k \in Nat \ {0} /\ 1 .. k - 1 \subseteq 1 .. k /\ k \in 1 .. k
  BY DEF Shaped
<1>2. stack' \in Seq(S) /\ Depth' = k /\ \A i \in 1 .. k : stack'[i] = stack[i]
  <2>1. stack' = SubSeq(stack, 1, k)
    BY DEF Pop, Depth
  <2> HIDE DEF k
  <2>2. stack \in Seq(S) /\ \A i \in 1 .. k : stack[i] \in S
    BY <1>1, ElementOfSeq DEF Shaped, Depth
  <2>3. /\ SubSeq(stack, 1, k) \in Seq(S)
        /\ Len(SubSeq(stack, 1, k)) = IF 1 <= k THEN k - 1 + 1 ELSE 0
        /\ \A i \in 1 .. k - 1 + 1 : SubSeq(stack, 1, k)[i] = stack[1 + i - 1]
    <3>1. 1 \in Int /\ k \in Int
      BY <1>1
    <3> HIDE DEF S
    <3> QED BY <2>2, <3>1, SubSeqProperties
  <2> HIDE DEF S
  <2> QED BY <1>1, <2>1, <2>3 DEF Depth
<1>3. \A s : s \in gone <=> \E i \in k + 1 .. Depth : stack[i] = s
  BY DEF Leaving, Depth
<1>4. ringing' = (ringing /\ RingScreen \notin gone)
  BY DEF Pop, RingAfter
<1> HIDE DEF k, gone
<1>5. Shaped'
  BY <1>1, <1>2 DEF Shaped, S
<1>6. RingOnTop'
  <2> SUFFICES ASSUME "ring" \notin lost PROVE
        /\ \A i \in 1 .. k - 1 : stack[i].kind # "ring"
        /\ ringing' <=> stack[k].kind = "ring"
        /\ stack[k].kind = "ring" => stack[k] = RingScreen /\ calls' = <<>>
    BY <1>1, <1>2 DEF RingOnTop
  <2>1. /\ \A i \in 1 .. Depth - 1 : stack[i].kind # "ring"
        /\ ringing <=> stack[Depth].kind = "ring"
        /\ stack[Depth].kind = "ring" => stack[Depth] = RingScreen /\ calls = <<>>
    BY DEF RingOnTop
  <2>2. CASE n = 0
    <3>1. k = Depth /\ gone = {}
      <4>1. k = Depth /\ k + 1 .. Depth = {}
        BY <1>1, <2>2
      <4> QED BY <1>3, <4>1
    <3> QED BY <2>1, <3>1, <1>4
  <2>3. CASE n # 0
    <3>1. \A i \in 1 .. k : stack[i].kind # "ring"
      BY <1>1, <2>1, <2>3
    <3>2. ~ringing'
      <4>1. stack[Depth] \in gone
        BY <1>1, <1>3, <2>3
      <4> QED BY <1>4, <2>1, <4>1
    <3> QED BY <1>1, <3>1, <3>2
  <2> QED BY <2>2, <2>3
<1> QED BY <1>4, <1>5, <1>6

LEMMA RingPops ==
  ASSUME RingInv, ui_pop \/ ui_home, lost' = lost, UNCHANGED <<alarm, now, fired, rang, seen>>,
         calls = <<>> => calls' = <<>>, calls' \in Seq(App \cup {None}),
         snooze' = now => snooze = now
  PROVE  RingInv' /\ (ringing' => ringing)
<1> USE DEF RingInv
<1>1. /\ Shaped' /\ RingOnTop' /\ ringing' \in BOOLEAN /\ (ringing' => ringing)
  <2>1. ASSUME NEW n \in 0 .. Depth - 1, Pop(n)
        PROVE  Shaped' /\ RingOnTop' /\ ringing' \in BOOLEAN /\ (ringing' => ringing)
    BY <2>1, RingPop DEF AlarmInv
  <2>2. CASE ui_home
    <3>1. Depth - 1 \in 0 .. Depth - 1 /\ Pop(Depth - 1)
      BY <2>2 DEF ui_home, Shaped, Depth
    <3> QED BY <2>1, <3>1
  <2>3. CASE ui_pop /\ Len(stack) > 1
    <3>1. 1 \in 0 .. Depth - 1 /\ Pop(1)
      BY <2>3 DEF ui_pop, Shaped, Depth
    <3> QED BY <2>1, <3>1
  <2>4. CASE ui_pop /\ ~(Len(stack) > 1)
    <3>1. UNCHANGED <<stack, ringing>>
      BY <2>4 DEF ui_pop
    <3> QED BY <3>1 DEF Shaped, RingOnTop, Depth, AlarmInv
  <2> QED BY <2>2, <2>3, <2>4
<1>2. AlarmInv'
  BY <1>1 DEF AlarmInv, AlarmDue
<1> QED BY <1>1, <1>2

\* A step of a callback that leaves the screens and the alarm alone
LEMMA RingStays ==
  ASSUME RingInv, UNCHANGED <<stack, ringing, now, fired, rang>>,
         "ring" \notin lost' => "ring" \notin lost,
         calls' = <<>> \/ calls # <<>> \/ stack[Depth].kind # "ring" \/ calls' = calls,
         calls' \in Seq(App \cup {None}),
         UNCHANGED <<alarm, snooze, seen>> \/ seen' = FALSE
  PROVE  RingInv'
<1> USE DEF RingInv
<1>1. AlarmInv'
  <2>1. CASE seen' = FALSE
    BY <2>1 DEF AlarmInv
  <2>2. CASE UNCHANGED <<alarm, snooze, seen>>
    <3>1. AlarmDue' = AlarmDue
      BY <2>2 DEF AlarmDue
    <3> QED BY <2>2, <3>1 DEF AlarmInv
  <2> QED BY <2>1, <2>2
<1>2. Shaped' /\ RingOnTop'
  BY DEF Shaped, RingOnTop, Depth
<1> QED BY <1>1, <1>2

LEMMA RingPushes ==
  ASSUME RingInv, Running, NEW kind \in Kinds \ {"ring"}, NEW a \in App \cup {None},
         NEW b \in Block \cup {None}, NEW what,
         Push([kind |-> kind, app |-> a, block |-> b], what),
         UNCHANGED alarmvars, UNCHANGED clockvars, calls' \in Seq(App \cup {None})
  PROVE  RingInv'
<1> USE DEF RingInv
<1>1. AlarmInv'
  BY DEF AlarmInv, AlarmDue, alarmvars, clockvars
<1>2. Shaped' /\ RingOnTop'
  BY RingPush DEF AlarmInv, alarmvars
<1> QED BY <1>1, <1>2

LEMMA AlarmCheckInv ==
  ASSUME RingInv, AlarmCheck
  PROVE  RingInv' /\ (~ringing /\ ringing' => rang # "began")
<1> USE DEF RingInv
<1> DEFINE f     == FiredNow(fired)
           rings == ~ringing /\ f # now /\ ((alarm.on /\ alarm.min = now) \/ snooze = now)
           S     == [kind : Kinds, app : App \cup {None}, block : Block \cup {None}]
<1>1. /\ calls = <<>> /\ calls' = calls /\ alarm' = alarm /\ now' = now /\ seen' = TRUE
      /\ IF rings
         THEN /\ fired' = now /\ ringing' = TRUE /\ rang' = "began"
              /\ Push(RingScreen, {"ring"})
         ELSE fired' = f /\ UNCHANGED <<ringing, rang, snooze, stack, lost>>
  BY DEF AlarmCheck, Between, appvars
<1>2. now # None /\ f \in {None, now} /\ (f = now <=> fired = now)
  BY DEF FiredNow, AlarmInv
<1>3. CASE rings
  <2>1. fired' = now /\ ringing' = TRUE /\ rang' = "began" /\ Push(RingScreen, {"ring"})
    BY <1>1, <1>3
  <2>2. AlarmInv'
    BY <1>1, <2>1 DEF AlarmInv
  <2>3. RingScreen \in S /\ RingScreen.kind = "ring"
    BY DEF RingScreen, Kinds
  <2>4. Shaped' /\ RingOnTop'
    <3>1. CASE Full
      <4>1. stack' = stack /\ "ring" \in lost'
        BY <2>1, <3>1 DEF Push
      <4> QED BY <1>1, <4>1 DEF Shaped, RingOnTop, Depth
    <3>2. CASE ~Full
      <4>1. stack' = Append(stack, RingScreen) /\ lost' = lost
        BY <2>1, <3>2 DEF Push
      <4>2. /\ stack' \in Seq(S) /\ Depth' = Depth + 1
            /\ \A i \in 1 .. Depth : stack'[i] = stack[i]
            /\ stack'[Depth + 1] = RingScreen
        BY <2>3, <4>1, AppendProperties DEF Shaped, Depth
      <4>3. /\ Depth' - 1 = Depth /\ 1 \in 1 .. Depth /\ Depth' \in Nat \ {0}
            /\ \A i \in 1 .. Depth : i \in 1 .. Depth - 1 \/ i = Depth
        BY <4>2 DEF Shaped
      <4>4. Shaped'
        BY <1>1, <4>2, <4>3 DEF Shaped
      <4>5. RingOnTop'
        <5> SUFFICES ASSUME "ring" \notin lost' PROVE
              /\ \A i \in 1 .. Depth' - 1 : stack'[i].kind # "ring"
              /\ ringing' <=> stack'[Depth'].kind = "ring"
              /\ stack'[Depth'].kind = "ring" => stack'[Depth'] = RingScreen /\ calls' = <<>>
          BY DEF RingOnTop
        <5>1. /\ \A i \in 1 .. Depth - 1 : stack[i].kind # "ring"
              /\ stack[Depth].kind # "ring"
          BY <1>3, <4>1 DEF RingOnTop
        <5>2. stack'[Depth'] = RingScreen
          BY <4>2
        <5> HIDE DEF S
        <5> QED BY <1>1, <2>1, <2>3, <4>2, <4>3, <5>1, <5>2
      <4> QED BY <4>4, <4>5
    <3> QED BY <3>1, <3>2
  <2>5. rang # "began"
    BY <1>2, <1>3 DEF AlarmInv
  <2> QED BY <2>2, <2>4, <2>5
<1>4. CASE ~rings
  <2>1. fired' = f /\ UNCHANGED <<ringing, rang, snooze, stack, lost>>
    BY <1>1, <1>4
  <2>2. AlarmInv'
    <3>1. rang' = "began" <=> fired' = now'
      BY <1>1, <1>2, <2>1 DEF AlarmInv
    <3>2. AlarmDue' => rang' # "not"
      BY <1>1, <1>2, <1>4, <2>1, <3>1 DEF AlarmInv, AlarmDue
    <3> QED BY <1>1, <1>2, <2>1, <3>1, <3>2 DEF AlarmInv
  <2>3. Shaped' /\ RingOnTop'
    BY <1>1, <2>1 DEF Shaped, RingOnTop, Depth
  <2> QED BY <2>1, <2>2, <2>3 DEF AlarmInv
<1> QED BY <1>3, <1>4

\* The time of day, n minutes later
LEMMA DayWraps ==
  ASSUME NEW d \in Nat, NEW t \in 0 .. d - 1, NEW n \in 1 .. d - 1
  PROVE  (t + n) % d \in 0 .. d - 1 /\ (t + n) % d # t
<1>1. CASE t + n < d
  <2>1. t + n \in 0 .. d - 1
    BY <1>1
  <2>2. (t + n) % d = t + n
    BY <1>1, <2>1
  <2> QED BY <2>1, <2>2
<1>2. CASE ~(t + n < d)
  <2>1. t + n \in d .. 2 * d - 1
    BY <1>2
  <2>2. (t + n) % d = t + n - d
    BY <1>2, <2>1
  <2> QED BY <2>1, <2>2
<1> QED BY <1>1, <1>2

LEMMA MinuteInv ==
  ASSUME RingInv, Minute
  PROVE  RingInv' /\ ringing' = ringing /\ (AlarmDue => rang # "not")
<1> USE DEF RingInv
<1>1. /\ seen /\ now' = (now + 1) % Day /\ seen' = FALSE
      /\ rang' = (IF ringing THEN "on" ELSE "not")
      /\ UNCHANGED <<stack, calls, alarm, snooze, fired, ringing, lost>>
  BY DEF Minute, appvars, alarmvars
<1>2. now' \in 0 .. Day - 1 /\ now' # now
  <2>1. 1 \in 1 .. Day - 1 /\ now \in 0 .. Day - 1
    BY DEF AlarmInv
  <2> QED BY <1>1, <2>1, DayWraps
<1>3. AlarmInv'
  <2>1. fired' # now' /\ rang' # "began"
    BY <1>1, <1>2 DEF AlarmInv
  <2> QED BY <1>1, <1>2, <2>1 DEF AlarmInv
<1>4. Shaped' /\ RingOnTop'
  BY <1>1 DEF Shaped, RingOnTop, Depth
<1> QED BY <1>1, <1>3, <1>4 DEF AlarmInv

LEMMA RingNext ==
  ASSUME RingInv, [ScreensNext]_screenvars
  PROVE  /\ RingInv'
         /\ ~ringing /\ ringing' => rang # "began"
         /\ now' # now => (AlarmDue => rang # "not")
<1> DEFINE Goal == /\ RingInv'
                   /\ ~ringing /\ ringing' => rang # "began"
                   /\ now' # now => (AlarmDue => rang # "not")
<1> SUFFICES Goal
  OBVIOUS
<1>0. /\ Shaped /\ <<>> \in Seq(App \cup {None}) /\ calls \in Seq(App \cup {None})
      /\ OsReturns => calls' \in Seq(App \cup {None})
      /\ AppRuns \/ OsRuns => Running /\ calls # <<>>
      /\ Len(calls) # 0 => Running
      /\ "ring" \notin lost' \/ "ring" \in lost'
  BY CurrentTyped DEF RingInv, Shaped, OsReturns, AppRuns, OsRuns, Running
<1>1. ASSUME NEW a \in App, OpenApp(a) PROVE Goal
  <2>1. /\ UNCHANGED <<stack, ringing, now, fired, rang>> /\ UNCHANGED <<alarm, snooze, seen>>
        /\ lost' = lost \ {a} /\ calls' = Append(calls, a) /\ calls # <<>>
    BY <1>0, <1>1 DEF OpenApp, Call, alarmvars, clockvars
  <2>2. calls' \in Seq(App \cup {None})
    BY <1>0, <2>1, AppendProperties
  <2>3. RingInv'
    BY <2>1, <2>2, RingStays
  <2> QED BY <2>1, <2>3
<1>2. CASE Started \/ NotStarted
  <2>1. Running /\ calls' = <<>> /\ UNCHANGED alarmvars /\ UNCHANGED clockvars
    BY <1>0, <1>2 DEF Started, NotStarted
  <2>2. Current \in App \cup {None}
    BY <1>0, <2>1, CurrentTyped
  <2>3. CASE Started
    <3>1. "app" \in Kinds \ {"ring"} /\ None \in Block \cup {None}
      BY DEF Kinds
    <3>2. Push([kind |-> "app", app |-> Current, block |-> None], {Current})
      BY <2>3 DEF Started
    <3> QED BY <1>0, <2>1, <2>2, <3>1, <3>2, RingPushes DEF alarmvars, clockvars
  <2>4. CASE NotStarted
    <3>1. "dialog" \in Kinds \ {"ring"} /\ None \in Block \cup {None} /\ None \in App \cup {None}
      BY DEF Kinds
    <3>2. Push([kind |-> "dialog", app |-> None, block |-> None], {})
      BY <2>4 DEF NotStarted
    <3> QED BY <1>0, <2>1, <3>1, <3>2, RingPushes DEF alarmvars, clockvars
  <2> QED BY <1>2, <2>3, <2>4
<1>3. ASSUME NEW kind \in {"app", "dialog"}, NEW b \in Block \cup {None},
             Push([kind |-> kind, app |-> Current, block |-> b], {}), AppRuns, AppGoesOn,
             UNCHANGED alarmvars, UNCHANGED clockvars
      PROVE  Goal
  <2>1. Running /\ calls' = calls /\ kind \in Kinds \ {"ring"}
    BY <1>0, <1>3 DEF AppGoesOn, Kinds
  <2>2. Current \in App \cup {None}
    BY <1>0, <2>1, CurrentTyped
  <2> QED BY <1>0, <1>3, <2>1, <2>2, RingPushes DEF alarmvars, clockvars
<1>4. CASE OsPushes
  <2>1. Running /\ calls' \in Seq(App \cup {None}) /\ UNCHANGED alarmvars /\ UNCHANGED clockvars
    BY <1>0, <1>4 DEF OsPushes
  <2>2. /\ "os" \in Kinds \ {"ring"} /\ None \in Block \cup {None} /\ None \in App \cup {None}
        /\ Push([kind |-> "os", app |-> None, block |-> None], {})
    BY <1>4 DEF OsPushes, OsScreen, Kinds
  <2> QED BY <2>1, <2>2, RingPushes DEF alarmvars, clockvars
<1>5. CASE AppPops \/ AppGoesHome
  <2>1. /\ ui_pop \/ ui_home
        /\ calls' = calls /\ UNCHANGED <<alarm, snooze, now, fired, rang, seen, lost>>
    BY <1>5 DEF AppPops, AppGoesHome, AppGoesOn, clockvars
  <2>2. RingInv' /\ (ringing' => ringing)
    BY <1>0, <2>1, RingPops
  <2> QED BY <2>1, <2>2
<1>6. CASE OsPops
  <2>1. /\ ui_pop \/ ui_home
        /\ calls' \in Seq(App \cup {None}) /\ calls # <<>>
        /\ UNCHANGED <<alarm, snooze, now, fired, rang, seen, lost>>
    BY <1>0, <1>6 DEF OsPops, clockvars
  <2>2. RingInv' /\ (ringing' => ringing)
    BY <2>1, RingPops
  <2> QED BY <2>1, <2>2
<1>7. CASE Return
  <2>1. /\ UNCHANGED <<stack, ringing, now, fired, rang>> /\ UNCHANGED <<alarm, snooze, seen>>
        /\ lost' = lost /\ calls' = <<>>
    BY <1>7 DEF Return, alarmvars, clockvars
  <2>2. RingInv'
    BY <1>0, <2>1, RingStays
  <2> QED BY <2>1, <2>2
<1>8. ASSUME NEW b \in Block, AppMallocs(b) \/ AppFrees(b) PROVE Goal
  <2>1. /\ UNCHANGED <<stack, ringing, now, fired, rang>> /\ UNCHANGED <<alarm, snooze, seen>>
        /\ lost' = lost /\ calls' = calls
    BY <1>8 DEF AppMallocs, AppFrees, AppGoesOn, alarmvars, clockvars
  <2>2. RingInv'
    BY <1>0, <2>1, RingStays
  <2> QED BY <2>1, <2>2
<1>9. ASSUME NEW new, SetAlarm(new) PROVE Goal
  <2>1. /\ UNCHANGED <<stack, ringing, now, fired, rang>> /\ seen' = FALSE
        /\ lost' = lost /\ calls # <<>> /\ calls' \in Seq(App \cup {None})
    BY <1>0, <1>9 DEF SetAlarm
  <2>2. RingInv'
    BY <2>1, RingStays
  <2> QED BY <2>1, <2>2
<1>10. ASSUME NEW ph, NEW next, Callback(ph, next) PROVE Goal
  <2>1. /\ UNCHANGED <<stack, ringing, now, fired, rang>> /\ UNCHANGED <<alarm, snooze, seen>>
        /\ lost' = lost /\ calls' = Append(calls, Top.app) /\ Top.kind # "ring"
    BY <1>10 DEF Callback, Call, alarmvars, clockvars
  <2>2. Top.app \in App \cup {None}
    BY <1>0, CurrentTyped
  <2>3. calls' \in Seq(App \cup {None})
    <3> DEFINE c == Top.app
    <3>1. c \in App \cup {None} /\ calls' = Append(calls, c)
      BY <2>1, <2>2
    <3> HIDE DEF c
    <3> QED BY <1>0, <3>1, AppendProperties
  <2>4. stack[Depth].kind # "ring"
    BY <2>1, TopIs
  <2>5. RingInv'
    BY <2>1, <2>3, <2>4, RingStays
  <2> QED BY <2>1, <2>5
<1>11. CASE RingKey
  <2>1. /\ ui_pop \/ ui_home
        /\ calls' = calls /\ UNCHANGED <<alarm, now, fired, rang, seen, lost>>
        /\ snooze' \in {None, (now + SnoozeMin) % Day}
    BY <1>11 DEF RingKey, clockvars
  <2>2. snooze' # now
    <3>1. now \in 0 .. Day - 1
      BY DEF RingInv, AlarmInv
    <3>2. (now + SnoozeMin) % Day # now
      BY <3>1, DayWraps
    <3> QED BY <2>1, <3>1, <3>2
  <2>3. RingInv' /\ (ringing' => ringing)
    BY <1>0, <2>1, <2>2, RingPops
  <2> QED BY <2>1, <2>3
<1>12. CASE EndKey \/ RingEnds
  <2>1. /\ ui_pop \/ ui_home
        /\ calls' = calls /\ UNCHANGED <<alarm, snooze, now, fired, rang, seen, lost>>
    BY <1>12 DEF EndKey, RingEnds, clockvars
  <2>2. RingInv' /\ (ringing' => ringing)
    BY <1>0, <2>1, RingPops
  <2> QED BY <2>1, <2>2
<1>13. CASE NoInput \/ Collect \/ UNCHANGED screenvars
  <2>1. /\ UNCHANGED <<stack, ringing, now, fired, rang>> /\ UNCHANGED <<alarm, snooze, seen>>
        /\ lost' = lost /\ calls' = calls
    BY <1>13 DEF NoInput, Collect, screenvars, appvars, alarmvars, clockvars
  <2>2. RingInv'
    BY <1>0, <2>1, RingStays
  <2> QED BY <2>1, <2>2
<1>14. CASE AlarmCheck
  <2>1. now' = now
    BY <1>14 DEF AlarmCheck
  <2> QED BY <1>14, <2>1, AlarmCheckInv
<1>15. CASE Minute
  BY <1>15, MinuteInv DEF RingInv, AlarmInv
<1>16. ASSUME NEW kind \in {"app", "dialog"}, AppPushes(kind) PROVE Goal
  BY <1>3, <1>16 DEF AppPushes
<1>17. ASSUME NEW b \in Block, AppPushesBlock(b) PROVE Goal
  BY <1>3, <1>17 DEF AppPushesBlock
<1> HIDE DEF Goal
<1> QED
  BY <1>1, <1>2, <1>4, <1>5, <1>6, <1>7, <1>8, <1>9, <1>10, <1>11, <1>12, <1>13, <1>14, <1>15,
     <1>16, <1>17 DEF ScreensNext, Calls, Loop

LEMMA RingInit == ScreensInit => RingInv
<1> SUFFICES ASSUME ScreensInit PROVE RingInv
  OBVIOUS
<1>1. /\ stack = <<OsScreen>> /\ calls = <<>> /\ now = 0 /\ seen = FALSE /\ rang = "not"
      /\ fired = None /\ ringing = FALSE
  BY DEF ScreensInit
<1>2. AlarmInv
  <2>1. 0 \in 0 .. Day - 1 /\ None # 0
    OBVIOUS
  <2> QED BY <1>1, <2>1 DEF AlarmInv
<1>3. OsScreen \in [kind : Kinds, app : App \cup {None}, block : Block \cup {None}] /\ OsScreen.kind = "os"
  BY DEF OsScreen, Kinds
<1>4. Depth = 1 /\ stack[1] = OsScreen
  BY <1>1 DEF Depth
<1>5. Shaped
  BY <1>1, <1>3, <1>4 DEF Shaped
<1>6. RingOnTop
  <2>1. \A i \in 1 .. Depth - 1 : FALSE
    BY <1>4
  <2> QED BY <1>1, <1>3, <1>4, <2>1 DEF RingOnTop
<1> QED BY <1>2, <1>5, <1>6 DEF RingInv

\* os/apps/alarm.c: "when the minute comes the screen wakes and the alarm_ringing
\* screen beeps", for every length of the day, of the ringing and of the snooze, however
\* many apps run and whatever they push and pop.
THEOREM AlarmRings == ScreensSpec => RingsInTime
<1> DEFINE A == /\ now' # now /\ ((alarm.on /\ alarm.min = now) \/ snooze = now)
                     => rang # "not" \/ "ring" \in lost
                /\ ~ringing /\ ringing' => rang # "began"
                /\ "ring" \notin lost' => (ringing' <=> Top'.kind = "ring")
<1>1. ScreensInit => RingInv
  BY RingInit
<1>2. RingInv /\ [ScreensNext]_screenvars => RingInv'
  BY RingNext
<1>3. RingInv /\ [ScreensNext]_screenvars => [A]_screenvars
  <2> SUFFICES ASSUME RingInv, [ScreensNext]_screenvars PROVE A
    OBVIOUS
  <2>1. /\ RingInv'
        /\ ~ringing /\ ringing' => rang # "began"
        /\ now' # now => (AlarmDue => rang # "not")
    BY RingNext
  <2>2. "ring" \notin lost' => (ringing' <=> Top'.kind = "ring")
    BY <2>1, TopIs DEF RingInv, RingOnTop
  <2> QED BY <2>1, <2>2 DEF AlarmDue
<1> QED BY <1>1, <1>2, <1>3, PTL DEF ScreensSpec, RingsInTime
-----------------------------------------------------------------------------
(* Sound *)

Uses == {"idle", "play", "tone", "mic", "fm", "fm_on", "fm_off"}
Records == {"mic", "fm"}
UiPlaces == {"idle", "stop", "stop_rec", "route_off", "drain", "header", "close", "stopped",
             "refill", "power", "route", "start", "start_rec", "pumped"}

HsStates == {"out", "settle", "bias", "buttons", "plain"}

(* The types of the parts. *)

UiType == ui \in [at : UiPlaces, then : Uses]
WavType == wav \in [playing : BOOLEAN, recording : BOOLEAN, tone : BOOLEAN, eof : BOOLEAN,
                     left : Nat, total : Nat, failed : BOOLEAN]
RingType == ring \in [head : Nat, tail : Nat] /\ ring.tail <= ring.head
PlayType == play \in [running : BOOLEAN, completed : SUBSET Stereo, eof : BOOLEAN,
                      draining : BOOLEAN, units : Nat]
RecType == rec \in [running : BOOLEAN, source : Uses]
DmaType == dma \in [Stereo \cup {"rec"} -> {"off", "busy", "done", "failed"}]
CodecType == codec \in [on : BOOLEAN, rec : BOOLEAN, fm : BOOLEAN, hs : BOOLEAN, source : Uses,
                        cut : BOOLEAN]
JackType == jack \in [in : BOOLEAN, moves : Int, state : HsStates, letting : BOOLEAN]
HeardType == heard \in [Stereo -> Nat] /\ spoilt \in BOOLEAN /\ line \in BOOLEAN

SoundTypes == UiType /\ WavType /\ RingType /\ PlayType /\ RecType /\ DmaType /\ CodecType /\ JackType /\ HeardType

\* wav_stop() is over, and what was asked for has not begun.
Beginning ==
  ui.at \in {"stopped", "power", "route", "start", "start_rec"} \/ (At("refill") /\ ui.then = "play")

\* What the place of the ui thread says of what it is doing.
Places ==
  /\ ~(wav.playing /\ wav.recording)
  /\ At("close") \/ At("header") \/ Beginning => ~wav.playing /\ ~wav.recording
  /\ ui.at \in {"stop_rec", "route_off"} => wav.recording
  /\ ui.at \in {"drain", "stop_rec", "route_off"} => ~wav.playing
  /\ At("pumped") => wav.playing \/ wav.recording
  /\ At("refill") /\ ui.then # "play" => wav.playing
  /\ At("idle") \/ At("pumped") \/ (At("drain") /\ wav.recording) => ui.then = "idle"
  /\ ui.at \in {"route", "start_rec"} => ui.then \in Records
  /\ At("start") => ui.then \in {"play", "tone"}
  /\ At("refill") => ui.then \in {"play", "idle"}
  /\ At("power") => ui.then \in Records \cup {"play", "tone"}

\* A stream that runs is one the player or the recorder started, the channels run with
\* their stream, and VBC_CTRL and the line of the interrupt follow both.  A playback
\* that was cut ends with the next stop.
Streams ==
  /\ play.running => wav.playing
  /\ rec.running => wav.recording /\ ~At("route_off")
  /\ \A ch \in Stereo : dma[ch] # "off" => play.running
  /\ dma["rec"] # "off" => rec.running
  /\ "on" \in vbc => play.running \/ rec.running
  /\ (play.running /\ ~codec.cut) \/ rec.running => "on" \in vbc
  /\ codec.cut => wav.playing \/ At("start")
  /\ line <=> play.running \/ rec.running

\* Nothing sounds, and nothing is about to.
NoSound == At("stopped") \/ (At("idle") /\ ~wav.playing /\ ~wav.recording)

\* Who needs the codec and the microphone's supply finds them on; and a recording that
\* no DMA error ended leaves the route before the codec could be left on.
Powered ==
  /\ codec.rec \/ codec.fm \/ codec.hs => codec.on
  /\ (play.running \/ At("start")) /\ ~codec.cut => codec.on
  /\ rec.running \/ At("start_rec") => codec.rec
  /\ codec.rec /\ ~spoilt => rec.running \/ ui.at \in {"start_rec", "route_off"}
  /\ NoSound /\ ~codec.fm /\ ~codec.hs /\ ~jack.letting /\ ~spoilt => ~codec.on
  /\ jack.state \in {"bias", "buttons"} => codec.hs /\ "hook" \in bias
  /\ rec.running /\ ~spoilt /\ rec.source = "mic" => "rec" \in bias
  /\ At("start_rec") /\ ~spoilt /\ ui.then = "mic" => "rec" \in bias

\* Where the units of a file are: read into the ring, taken from it, heard.
Accounts ==
  /\ Beginning => ring.tail = 0
  /\ Beginning /\ ~At("refill") /\ ui.then # "play" => ring.head = 0
  /\ /\ \/ wav.recording \/ At("drain") \/ At("header")
        \/ ui.at \in {"power", "route", "start_rec"} /\ ui.then \in Records
     /\ ~wav.failed
     => wav.total = ring.tail
  /\ At("header") /\ ~wav.failed => ring.head = ring.tail
  /\ play.running => \A ch \in Stereo : dma[ch] = "busy" => heard[ch] + play.units = ring.tail
  /\ play.running => \A ch \in Stereo : dma[ch] \in {"done", "off"} => heard[ch] = ring.tail
  /\ play.running => \A ch \in play.completed : dma[ch] = "off"
  /\ play.running /\ play.eof => wav.eof /\ ring.head = ring.tail
  /\ play.running /\ play.draining => play.eof /\ play.units = 0

\* The inductive invariant.
SoundInv == SoundTypes /\ Places /\ Streams /\ Powered /\ Accounts

LEMMA LeastOf ==
  ASSUME NEW a \in Nat, NEW b \in Nat
  PROVE  Least(a, b) \in Nat /\ Least(a, b) <= a /\ Least(a, b) <= b
BY DEF Least

LEMMA UsedNat ==
  ASSUME RingType
  PROVE  Used \in Nat /\ ring.head = ring.tail + Used /\ ring.tail \in Nat /\ ring.head \in Nat
BY DEF RingType, Used

\* fill_plane() and arm_stereo(): what is armed is taken from the ring, and the end of
\* the file is reached with an empty ring.
LEMMA Armed ==
  ASSUME SoundTypes, NEW p, p.eof \in BOOLEAN, p.running \in BOOLEAN, ArmStereo(p)
  PROVE  /\ PlayType' /\ RingType' /\ DmaType'
         /\ play'.running /\ play'.completed = {}
         /\ ring'.head = ring.head /\ ring'.tail = ring.tail + play'.units
         /\ play'.units \in Nat
         /\ play'.eof => p.eof \/ (wav.eof /\ ring'.tail = ring.head)
         /\ p.eof => play'.units = 0
         /\ play'.draining => play'.eof /\ play'.units = 0
         /\ \A ch \in Stereo : dma'[ch] = "busy"
         /\ dma'["rec"] = dma["rec"]
<1> DEFINE f == Fill(p.eof)
<1>1. Used \in Nat /\ ring.head = ring.tail + Used /\ ring.tail \in Nat /\ ring.head \in Nat
  BY UsedNat DEF SoundTypes
<1>2. /\ f.units \in Nat /\ f.units <= Used /\ f.eof \in BOOLEAN
      /\ f.eof => p.eof \/ (wav.eof /\ f.units = Used)
      /\ p.eof => f.units = 0
  <2>1. Least(Used, 2) \in Nat /\ Least(Used, 2) <= Used /\ (Used < 2 => Least(Used, 2) = Used)
    BY <1>1 DEF Least
  <2>2. wav.tone \in BOOLEAN /\ wav.eof \in BOOLEAN
    BY DEF SoundTypes, WavType
  <2>3. CASE wav.tone \/ p.eof
    BY <1>1, <2>3 DEF Fill
  <2>4. CASE ~(wav.tone \/ p.eof)
    <3>1. f = [units |-> Least(Used, 2), eof |-> Used < 2 /\ wav.eof]
      BY <2>4 DEF Fill
    <3>2. f.units = Least(Used, 2) /\ f.eof = (Used < 2 /\ wav.eof)
      BY <3>1
    <3> HIDE DEF f
    <3>3. (f.eof <=> Used < 2 /\ wav.eof) /\ f.eof \in BOOLEAN
      BY <3>2
    <3> QED BY <2>1, <2>4, <3>2, <3>3
  <2> QED BY <2>3, <2>4
<1>3. /\ play' = [running |-> TRUE, completed |-> {}, eof |-> f.eof, units |-> f.units,
                  draining |-> p.running /\ f.eof /\ f.units = 0]
      /\ ring' = [ring EXCEPT !.tail = @ + f.units]
      /\ dma' = [ch \in DOMAIN dma |-> IF ch \in Stereo THEN "busy" ELSE dma[ch]]
  BY DEF ArmStereo
<1> HIDE DEF f
<1>4. /\ play'.running /\ play'.completed = {} /\ play'.units = f.units
      /\ (play'.eof <=> f.eof) /\ (play'.draining <=> p.running /\ f.eof /\ f.units = 0)
  BY <1>3
<1>5. PlayType'
  BY <1>2, <1>3 DEF PlayType
<1>6. ring'.head = ring.head /\ ring'.tail = ring.tail + f.units /\ ring' \in [head : Nat, tail : Nat]
  BY <1>1, <1>2, <1>3 DEF SoundTypes, RingType
<1>7. ring.tail + f.units <= ring.head /\ (f.units = Used => ring.tail + f.units = ring.head)
  BY <1>1, <1>2
<1>8. DmaType' /\ (\A ch \in Stereo : dma'[ch] = "busy") /\ dma'["rec"] = dma["rec"]
  BY <1>3 DEF SoundTypes, DmaType, Stereo
<1> QED BY <1>2, <1>4, <1>5, <1>6, <1>7, <1>8 DEF RingType

LEMMA Begins == SoundInit => SoundInv
<1> SUFFICES ASSUME SoundInit PROVE SoundInv
  OBVIOUS
<1>1. SoundTypes
  <2>1. UiType /\ WavType /\ RingType
    BY DEF SoundInit, UiType, WavType, RingType, UiPlaces, Uses
  <2>2. PlayType /\ RecType /\ CodecType
    BY DEF SoundInit, PlayType, RecType, CodecType, Uses
  <2>3. DmaType /\ HeardType
    BY DEF SoundInit, DmaType, HeardType
  <2>4. MaxMoves \in Int
    BY SoundAssumption
  <2>5. JackType
    BY <2>4 DEF SoundInit, JackType, HsStates
  <2> QED BY <2>1, <2>2, <2>3, <2>5 DEF SoundTypes
<1>2. Places
  BY DEF SoundInit, Places, At, Beginning
<1>3. Streams
  BY DEF SoundInit, Streams, Stereo
<1>4. Powered
  BY DEF SoundInit, Powered, At
<1>5. Accounts
  BY DEF SoundInit, Accounts, At, Beginning, Records
<1> QED BY <1>1, <1>2, <1>3, <1>4, <1>5 DEF SoundInv

LEMMA StopPlayingInv ==
  ASSUME SoundInv, StopPlaying PROVE SoundInv'
<1>0. SoundTypes /\ Places /\ Streams /\ Powered /\ Accounts
  BY DEF SoundInv
<1>6. /\ ~codec'.cut /\ codec'.on = codec.on /\ codec'.rec = codec.rec /\ codec'.fm = codec.fm
      /\ codec'.hs = codec.hs
  BY <1>0 DEF SoundTypes, CodecType, StopPlaying
<1>1. SoundTypes'
  <2>1. UiType'
    BY <1>0 DEF SoundTypes, UiType, UiPlaces, Uses, At, Go, Quiet, pcmvars, StopPlaying,
       play_hw_stop, IrqUpdate
  <2>2. WavType'
    BY <1>0 DEF SoundTypes, WavType, At, Go, Quiet, pcmvars, StopPlaying, play_hw_stop, IrqUpdate
  <2>3. PlayType'
    BY <1>0, ZenonT(30) DEF SoundTypes, PlayType, WavType, DmaType, At, Go, Quiet, pcmvars, Stereo,
       StopPlaying, play_hw_stop, IrqUpdate
  <2>4. DmaType'
    BY <1>0 DEF SoundTypes, DmaType, At, Go, Quiet, pcmvars, Stereo, StopPlaying, play_hw_stop,
       IrqUpdate
  <2>5. RingType' /\ RecType' /\ CodecType' /\ JackType' /\ HeardType'
    BY <1>0 DEF SoundTypes, RingType, RecType, CodecType, JackType, HeardType, pcmvars, Quiet,
       StopPlaying, play_hw_stop, IrqUpdate
  <2> QED BY <2>1, <2>2, <2>3, <2>4, <2>5 DEF SoundTypes
<1>2. Places'
  BY <1>0 DEF SoundTypes, UiType, WavType, PlayType, DmaType, Places, Beginning, Uses, Records, At,
     Go, Quiet, pcmvars, StopPlaying, play_hw_stop, IrqUpdate
<1>3. Streams'
  <2>1. CASE play.running
    <3>1. /\ vbc' = vbc \ (IF rec.running THEN {"play"} ELSE {"play", "on"})
          /\ dma' = [ch \in DOMAIN dma |-> IF ch \in Stereo THEN "off" ELSE dma[ch]]
          /\ (line' <=> rec.running)
      BY <2>1 DEF StopPlaying, play_hw_stop, IrqUpdate
    <3>2. ~play'.running /\ wav'.recording = wav.recording /\ rec' = rec /\ ui'.at # "route_off"
      BY <1>0, <2>1 DEF StopPlaying, play_hw_stop, SoundTypes, PlayType, WavType, UiType, Go
    <3>3. (\A ch \in Stereo : dma'[ch] = "off") /\ dma'["rec"] = dma["rec"]
      BY <1>0, <3>1 DEF SoundTypes, DmaType, Stereo
    <3>4. "on" \in vbc' <=> rec.running
      BY <1>0, <2>1, <3>1 DEF Streams
    <3> QED BY <1>0, <1>6, <3>1, <3>2, <3>3, <3>4 DEF Streams, At
  <2>2. CASE ~play.running
    BY <1>0, <1>6, <2>2 DEF StopPlaying, SoundTypes, UiType, WavType, Streams, At, Go
  <2> QED BY <2>1, <2>2
<1>4. Powered'
  <2>1. /\ ui.at = "stop" /\ ui'.at \in {"stop_rec", "close"} /\ ui'.then = ui.then
        /\ rec' = rec /\ bias' = bias /\ jack' = jack /\ spoilt' = spoilt
    BY <1>0 DEF StopPlaying, SoundTypes, UiType, At, Go, Quiet
  <2>2. ~play'.running
    BY <1>0 DEF StopPlaying, play_hw_stop, SoundTypes, PlayType
  <2> QED BY <1>0, <1>6, <2>1, <2>2 DEF Powered, NoSound, At
<1>5. Accounts'
  <2>1. ~play'.running
    BY <1>0 DEF StopPlaying, play_hw_stop, SoundTypes, PlayType
  <2>2. ring' = ring /\ wav'.recording = wav.recording /\ wav'.failed = wav.failed /\ wav'.total = wav.total
    BY <1>0 DEF StopPlaying, SoundTypes, WavType
  <2>3. ui'.at \in {"stop_rec", "close"} /\ (ui'.at = "stop_rec" <=> wav.recording)
    BY <1>0 DEF StopPlaying, SoundTypes, UiType, Go
  <2> QED BY <1>0, <2>1, <2>2, <2>3 DEF Accounts, Beginning, At
<1> QED BY <1>1, <1>2, <1>3, <1>4, <1>5 DEF SoundInv

LEMMA StopRecordingInv ==
  ASSUME SoundInv, StopRecording PROVE SoundInv'
<1>0. SoundTypes /\ Places /\ Streams /\ Powered /\ Accounts
  BY DEF SoundInv
<1>1. SoundTypes'
  <2>1. UiType'
    BY <1>0 DEF SoundTypes, UiType, UiPlaces, Uses, At, Go, Quiet, pcmvars, StopRecording,
       rec_hw_stop, RecBits, IrqUpdate
  <2>2. WavType'
    BY <1>0 DEF SoundTypes, WavType, At, Go, Quiet, pcmvars, StopRecording, rec_hw_stop, RecBits,
       IrqUpdate
  <2>3. RecType'
    BY <1>0 DEF SoundTypes, RecType, UiType, Uses, At, Go, Quiet, pcmvars, StopRecording,
       rec_hw_stop, RecBits, IrqUpdate
  <2>4. DmaType'
    BY <1>0 DEF SoundTypes, DmaType, At, Go, Quiet, pcmvars, Stereo, StopRecording, rec_hw_stop,
       RecBits, IrqUpdate
  <2>5. RingType' /\ PlayType' /\ CodecType' /\ JackType' /\ HeardType'
    BY <1>0 DEF SoundTypes, RingType, PlayType, CodecType, JackType, HeardType, pcmvars, Quiet,
       RecBits, rec_hw_stop, StopRecording, IrqUpdate
  <2> QED BY <2>1, <2>2, <2>3, <2>4, <2>5 DEF SoundTypes
<1>2. Places'
  BY <1>0 DEF SoundTypes, UiType, WavType, RecType, DmaType, Places, Beginning, Uses, Records, At,
     Go, Quiet, pcmvars, StopRecording, rec_hw_stop, RecBits, IrqUpdate
<1>3. Streams'
  BY <1>0 DEF SoundTypes, UiType, WavType, RecType, DmaType, Places, Streams, Beginning, At, Go,
     Quiet, pcmvars, Stereo, StopRecording, rec_hw_stop, RecBits, IrqUpdate
<1>4. Powered'
  BY <1>0 DEF SoundTypes, UiType, WavType, RecType, DmaType, Places, Streams, Powered, NoSound,
     Beginning, Records, Uses, At, Go, Quiet, pcmvars, StopRecording, rec_hw_stop, RecBits,
     IrqUpdate
<1>5. Accounts'
  BY <1>0 DEF SoundTypes, UiType, WavType, RecType, DmaType, Places, Streams, Accounts, Beginning,
     Records, Uses, At, Go, Quiet, pcmvars, Stereo, StopRecording, rec_hw_stop, RecBits, IrqUpdate
<1> QED BY <1>1, <1>2, <1>3, <1>4, <1>5 DEF SoundInv

LEMMA LeaveRouteInv ==
  ASSUME SoundInv, LeaveRoute PROVE SoundInv'
<1>0. SoundTypes /\ Places /\ Streams /\ Powered /\ Accounts
  BY DEF SoundInv
<1>1. SoundTypes'
  <2>1. UiType'
    BY <1>0 DEF SoundTypes, UiType, UiPlaces, Uses, At, Go, Quiet, pcmvars, LeaveRoute, RouteOff,
       BiasAfter
  <2>2. WavType'
    BY <1>0 DEF SoundTypes, WavType, At, Go, Quiet, pcmvars, LeaveRoute, RouteOff, BiasAfter
  <2>3. CodecType'
    BY <1>0 DEF SoundTypes, CodecType, UiType, Uses, At, Go, Quiet, pcmvars, LeaveRoute, RouteOff,
       BiasAfter
  <2>4. HeardType'
    BY <1>0 DEF SoundTypes, HeardType, At, Go, Quiet, pcmvars, Stereo, LeaveRoute, RouteOff,
       BiasAfter
  <2>5. RingType' /\ PlayType' /\ RecType' /\ DmaType' /\ JackType'
    BY <1>0 DEF SoundTypes, RingType, PlayType, RecType, DmaType, JackType, pcmvars, Quiet,
       RouteOff, LeaveRoute, BiasAfter
  <2> QED BY <2>1, <2>2, <2>3, <2>4, <2>5 DEF SoundTypes
<1>2. Places'
  BY <1>0 DEF SoundTypes, UiType, WavType, CodecType, HeardType, Places, Beginning, Uses, Records,
     At, Go, Quiet, pcmvars, LeaveRoute, RouteOff, BiasAfter
<1>3. Streams'
  BY <1>0 DEF SoundTypes, UiType, WavType, CodecType, HeardType, Places, Streams, Beginning, At,
     Go, Quiet, pcmvars, Stereo, LeaveRoute, RouteOff, BiasAfter
<1>4. Powered'
  BY <1>0 DEF SoundTypes, UiType, WavType, CodecType, HeardType, Places, Streams, Powered, NoSound,
     Beginning, Records, Uses, At, Go, Quiet, pcmvars, LeaveRoute, RouteOff, BiasAfter
<1>5. Accounts'
  BY <1>0 DEF SoundTypes, UiType, WavType, CodecType, HeardType, Places, Streams, Accounts,
     Beginning, Records, Uses, At, Go, Quiet, pcmvars, Stereo, LeaveRoute, RouteOff, BiasAfter
<1> QED BY <1>1, <1>2, <1>3, <1>4, <1>5 DEF SoundInv

\* What audio_power(false) leaves of the codec, for the users c that are left.
LEMMA PowerOffIs ==
  ASSUME CodecType,
         NEW c \in [on : BOOLEAN, rec : BOOLEAN, fm : BOOLEAN, hs : BOOLEAN, source : Uses,
                    cut : BOOLEAN],
         PowerOff(c)
  PROVE  /\ CodecType'
         /\ codec'.rec = c.rec /\ codec'.fm = c.fm /\ codec'.hs = c.hs
         /\ \/ /\ codec.on /\ Nobody(c) /\ ~codec'.on
               /\ codec'.cut <=> At("start")
               /\ bias' = {}
            \/ codec' = c /\ bias' = bias /\ ~(codec.on /\ Nobody(c))
<1>1. CASE codec.on /\ Nobody(c)
  <2>1. codec' = [c EXCEPT !.on = FALSE, !.cut = At("start")] /\ bias' = {}
    BY <1>1 DEF PowerOff
  <2>2. At("start") \in BOOLEAN
    BY DEF At
  <2> QED BY <1>1, <2>1, <2>2 DEF CodecType
<1>2. CASE ~(codec.on /\ Nobody(c))
  BY <1>2 DEF PowerOff, CodecType
<1> QED BY <1>1, <1>2

LEMMA CloseInv ==
  ASSUME SoundInv, Close PROVE SoundInv'
<1>0. SoundTypes /\ Places /\ Streams /\ Powered /\ Accounts
  BY DEF SoundInv
<1>1. SoundTypes'
  <2>1. UiType'
    BY <1>0 DEF SoundTypes, UiType, UiPlaces, Uses, At, Go, Quiet, pcmvars, Close, PowerOff, Nobody
  <2>2. WavType'
    BY <1>0 DEF SoundTypes, WavType, RingType, At, Go, Quiet, pcmvars, Close, PowerOff, Nobody
  <2>3. RingType'
    BY <1>0 DEF SoundTypes, RingType, WavType, At, Go, Quiet, pcmvars, Close, PowerOff, Nobody
  <2>4. CodecType'
    BY <1>0 DEF SoundTypes, CodecType, UiType, Uses, At, Go, Quiet, pcmvars, Close, PowerOff, Nobody
  <2>5. PlayType' /\ RecType' /\ DmaType' /\ JackType' /\ HeardType'
    BY <1>0 DEF SoundTypes, PlayType, RecType, DmaType, JackType, HeardType, pcmvars, Quiet,
       Nobody, Close, PowerOff
  <2> QED BY <2>1, <2>2, <2>3, <2>4, <2>5 DEF SoundTypes
<1>2. Places'
  BY <1>0 DEF SoundTypes, UiType, WavType, RingType, CodecType, Places, Beginning, Uses, Records,
     At, Go, Quiet, pcmvars, Close, PowerOff, Nobody
<1>3. Streams'
  BY <1>0 DEF SoundTypes, UiType, WavType, RingType, CodecType, Places, Streams, Beginning, At, Go,
     Quiet, pcmvars, Stereo, Close, PowerOff, Nobody
<1>4. Powered'
  <2>1. /\ ui.at \in {"close", "header"} /\ ui'.at = "stopped"
        /\ play' = play /\ rec' = rec /\ spoilt' = spoilt /\ jack' = jack
    BY <1>0 DEF SoundTypes, UiType, Close, Go, Quiet
  <2>2. ~play.running /\ ~rec.running
    BY <1>0, <2>1 DEF Places, Streams, At
  <2>3. codec.rec => spoilt
    BY <1>0, <2>1, <2>2 DEF Powered
  <2>4. CASE codec.fm
    <3>1. codec' = codec /\ bias' = bias
      BY <2>4 DEF Close
    <3> QED BY <1>0, <2>1, <2>2, <2>4, <3>1 DEF Powered, NoSound, At
  <2>5. CASE ~codec.fm
    <3>1. codec \in [on : BOOLEAN, rec : BOOLEAN, fm : BOOLEAN, hs : BOOLEAN, source : Uses,
                     cut : BOOLEAN]
      BY <1>0 DEF SoundTypes, CodecType
    <3>2. CodecType /\ PowerOff(codec)
      BY <1>0, <2>5 DEF SoundTypes, Close
    <3>3. /\ codec'.rec = codec.rec /\ codec'.fm = codec.fm /\ codec'.hs = codec.hs
          /\ \/ codec.on /\ Nobody(codec) /\ ~codec'.on /\ bias' = {}
             \/ codec' = codec /\ bias' = bias /\ ~(codec.on /\ Nobody(codec))
      BY <3>1, <3>2, PowerOffIs
    <3>4. CASE codec.on /\ Nobody(codec) /\ ~codec'.on /\ bias' = {}
      <4>1. ~codec.rec /\ ~codec.hs /\ jack.state \notin {"bias", "buttons"}
        BY <1>0, <3>4 DEF Nobody, Powered
      <4> QED BY <1>0, <2>1, <2>2, <2>5, <3>3, <3>4, <4>1 DEF Powered, NoSound, At
    <3>5. CASE codec' = codec /\ bias' = bias /\ ~(codec.on /\ Nobody(codec))
      <4>1. ~codec.hs /\ ~spoilt => ~codec.on
        BY <2>2, <2>3, <2>5, <3>5 DEF Nobody
      <4> QED BY <1>0, <2>1, <2>2, <2>5, <3>5, <4>1 DEF Powered, NoSound, At
    <3> QED BY <3>3, <3>4, <3>5
  <2> QED BY <2>4, <2>5
<1>5. Accounts'
  BY <1>0 DEF SoundTypes, UiType, WavType, RingType, CodecType, Places, Streams, Accounts,
     Beginning, Records, Uses, At, Go, Quiet, pcmvars, Stereo, Close, PowerOff, Nobody
<1> QED BY <1>1, <1>2, <1>3, <1>4, <1>5 DEF SoundInv

LEMMA OpensInv ==
  ASSUME SoundInv, \E size \in FileSizes : OpenFile(size) PROVE SoundInv'
<1>0. SoundTypes /\ Places /\ Streams /\ Powered /\ Accounts
  BY DEF SoundInv
<1>1. SoundTypes'
  <2>1. UiType'
    BY <1>0, SoundAssumption, LeastOf DEF SoundTypes, UiType, UiPlaces, Uses, At, Go, Quiet,
       pcmvars, OpenFile, After
  <2>2. WavType'
    BY <1>0, SoundAssumption, LeastOf DEF SoundTypes, WavType, At, Go, Quiet, pcmvars, OpenFile,
       After
  <2>3. RingType' /\ PlayType' /\ RecType' /\ DmaType' /\ CodecType' /\ JackType' /\ HeardType'
    BY <1>0 DEF SoundTypes, RingType, PlayType, RecType, DmaType, CodecType, JackType,
       HeardType, pcmvars, Quiet, After, OpenFile
  <2> QED BY <2>1, <2>2, <2>3 DEF SoundTypes
<1>2. Places'
  BY <1>0, SoundAssumption, LeastOf DEF SoundTypes, UiType, WavType, Places, Beginning, Uses,
     Records, At, Go, Quiet, pcmvars, OpenFile, After
<1>3. Streams'
  BY <1>0, SoundAssumption, LeastOf DEF SoundTypes, UiType, WavType, Places, Streams, Beginning,
     At, Go, Quiet, pcmvars, Stereo, OpenFile, After
<1>4. Powered'
  BY <1>0, SoundAssumption, LeastOf DEF SoundTypes, UiType, WavType, Places, Streams, Powered,
     NoSound, Beginning, Records, Uses, At, Go, Quiet, pcmvars, OpenFile, After
<1>5. Accounts'
  BY <1>0, SoundAssumption, LeastOf DEF SoundTypes, UiType, WavType, Places, Streams, Accounts,
     Beginning, Records, Uses, At, Go, Quiet, pcmvars, Stereo, OpenFile, After
<1> QED BY <1>1, <1>2, <1>3, <1>4, <1>5 DEF SoundInv

LEMMA ToneInv ==
  ASSUME SoundInv, Tone PROVE SoundInv'
<1>0. SoundTypes /\ Places /\ Streams /\ Powered /\ Accounts
  BY DEF SoundInv
<1>1. SoundTypes'
  <2>1. UiType'
    BY <1>0 DEF SoundTypes, UiType, UiPlaces, Uses, At, Go, Quiet, pcmvars, Tone, After
  <2>2. WavType'
    BY <1>0 DEF SoundTypes, WavType, At, Go, Quiet, pcmvars, Tone, After
  <2>3. RingType' /\ PlayType' /\ RecType' /\ DmaType' /\ CodecType' /\ JackType' /\ HeardType'
    BY <1>0 DEF SoundTypes, RingType, PlayType, RecType, DmaType, CodecType, JackType,
       HeardType, pcmvars, Quiet, After, Tone
  <2> QED BY <2>1, <2>2, <2>3 DEF SoundTypes
<1>2. Places'
  BY <1>0 DEF SoundTypes, UiType, WavType, Places, Beginning, Uses, Records, At, Go, Quiet,
     pcmvars, Tone, After
<1>3. Streams'
  BY <1>0 DEF SoundTypes, UiType, WavType, Places, Streams, Beginning, At, Go, Quiet, pcmvars,
     Stereo, Tone, After
<1>4. Powered'
  BY <1>0 DEF SoundTypes, UiType, WavType, Places, Streams, Powered, NoSound, Beginning, Records,
     Uses, At, Go, Quiet, pcmvars, Tone, After
<1>5. Accounts'
  BY <1>0 DEF SoundTypes, UiType, WavType, Places, Streams, Accounts, Beginning, Records, Uses, At,
     Go, Quiet, pcmvars, Stereo, Tone, After
<1> QED BY <1>1, <1>2, <1>3, <1>4, <1>5 DEF SoundInv

LEMMA NewRecordingInv ==
  ASSUME SoundInv, NewRecording PROVE SoundInv'
<1>0. SoundTypes /\ Places /\ Streams /\ Powered /\ Accounts
  BY DEF SoundInv
<1>1. SoundTypes'
  <2>1. UiType'
    BY <1>0 DEF SoundTypes, UiType, UiPlaces, Uses, At, Go, Quiet, pcmvars, NewRecording, After
  <2>2. WavType'
    BY <1>0 DEF SoundTypes, WavType, At, Go, Quiet, pcmvars, NewRecording, After
  <2>3. RingType' /\ PlayType' /\ RecType' /\ DmaType' /\ CodecType' /\ JackType' /\ HeardType'
    BY <1>0 DEF SoundTypes, RingType, PlayType, RecType, DmaType, CodecType, JackType,
       HeardType, pcmvars, Quiet, After, NewRecording
  <2> QED BY <2>1, <2>2, <2>3 DEF SoundTypes
<1>2. Places'
  BY <1>0 DEF SoundTypes, UiType, WavType, Places, Beginning, Uses, Records, At, Go, Quiet,
     pcmvars, NewRecording, After
<1>3. Streams'
  BY <1>0 DEF SoundTypes, UiType, WavType, Places, Streams, Beginning, At, Go, Quiet, pcmvars,
     Stereo, NewRecording, After
<1>4. Powered'
  BY <1>0 DEF SoundTypes, UiType, WavType, Places, Streams, Powered, NoSound, Beginning, Records,
     Uses, At, Go, Quiet, pcmvars, NewRecording, After
<1>5. Accounts'
  BY <1>0 DEF SoundTypes, UiType, WavType, Places, Streams, Accounts, Beginning, Records, Uses, At,
     Go, Quiet, pcmvars, Stereo, NewRecording, After
<1> QED BY <1>1, <1>2, <1>3, <1>4, <1>5 DEF SoundInv

LEMMA PowerInv ==
  ASSUME SoundInv, Power PROVE SoundInv'
<1>0. SoundTypes /\ Places /\ Streams /\ Powered /\ Accounts
  BY DEF SoundInv
<1>1. SoundTypes'
  <2>1. UiType'
    BY <1>0 DEF SoundTypes, UiType, UiPlaces, Uses, At, Go, Quiet, pcmvars, Power, PowerOn
  <2>2. CodecType'
    BY <1>0 DEF SoundTypes, CodecType, UiType, Uses, At, Go, Quiet, pcmvars, Power, PowerOn
  <2>3. WavType' /\ RingType' /\ PlayType' /\ RecType' /\ DmaType' /\ JackType' /\ HeardType'
    BY <1>0 DEF SoundTypes, WavType, RingType, PlayType, RecType, DmaType, JackType, HeardType,
       pcmvars, Quiet, Power, PowerOn
  <2> QED BY <2>1, <2>2, <2>3 DEF SoundTypes
<1>2. Places'
  BY <1>0 DEF SoundTypes, UiType, CodecType, Places, Beginning, Uses, Records, At, Go, Quiet,
     pcmvars, Power, PowerOn
<1>3. Streams'
  BY <1>0 DEF SoundTypes, UiType, CodecType, Places, Streams, Beginning, At, Go, Quiet, pcmvars,
     Stereo, Power, PowerOn
<1>4. Powered'
  BY <1>0 DEF SoundTypes, UiType, CodecType, Places, Streams, Powered, NoSound, Beginning, Records,
     Uses, At, Go, Quiet, pcmvars, Power, PowerOn
<1>5. Accounts'
  BY <1>0 DEF SoundTypes, UiType, CodecType, Places, Streams, Accounts, Beginning, Records, Uses,
     At, Go, Quiet, pcmvars, Stereo, Power, PowerOn
<1> QED BY <1>1, <1>2, <1>3, <1>4, <1>5 DEF SoundInv

LEMMA RouteInv ==
  ASSUME SoundInv, Route PROVE SoundInv'
<1>0. SoundTypes /\ Places /\ Streams /\ Powered /\ Accounts
  BY DEF SoundInv
<1>1. SoundTypes'
  <2>1. UiType'
    BY <1>0 DEF SoundTypes, UiType, UiPlaces, Uses, At, Go, Quiet, pcmvars, Route, PowerOn
  <2>2. CodecType'
    <3>1. play.running \in BOOLEAN /\ ui.then \in Uses
      BY <1>0 DEF SoundTypes, PlayType, UiType
    <3>2. codec.cut \in BOOLEAN
      BY <1>0 DEF SoundTypes, CodecType
    <3>3. CASE codec.rec
      BY <1>0, <3>3 DEF SoundTypes, CodecType, Route
    <3>4. CASE ~codec.rec
      <4> DEFINE c == [codec EXCEPT !.rec = TRUE, !.source = ui.then]
      <4>1. codec' = [c EXCEPT !.on = TRUE, !.cut = @ /\ play.running]
        BY <3>4 DEF Route, PowerOn
      <4>2. /\ c.cut = codec.cut
            /\ c \in [on : BOOLEAN, rec : BOOLEAN, fm : BOOLEAN, hs : BOOLEAN, source : Uses,
                      cut : BOOLEAN]
        BY <1>0, <3>1 DEF SoundTypes, CodecType
      <4> HIDE DEF c
      <4>3. (c.cut /\ play.running) \in BOOLEAN
        BY <3>1, <3>2, <4>2
      <4>4. codec' = [c EXCEPT !.on = TRUE, !.cut = (c.cut /\ play.running)]
        BY <4>1, <4>2
      <4> QED BY <4>2, <4>3, <4>4 DEF CodecType
    <3> QED BY <3>3, <3>4
  <2>3. WavType' /\ RingType' /\ PlayType' /\ RecType' /\ DmaType' /\ JackType' /\ HeardType'
    BY <1>0 DEF SoundTypes, WavType, RingType, PlayType, RecType, DmaType, JackType, HeardType,
       pcmvars, Quiet, Route, PowerOn
  <2> QED BY <2>1, <2>2, <2>3 DEF SoundTypes
<1>2. Places'
  BY <1>0 DEF SoundTypes, UiType, CodecType, Places, Beginning, Uses, Records, At, Go, Quiet,
     pcmvars, Route, PowerOn
<1>3. Streams'
  BY <1>0 DEF SoundTypes, UiType, CodecType, Places, Streams, Beginning, At, Go, Quiet, pcmvars,
     Stereo, Route, PowerOn
<1>4. Powered'
  <2>0. /\ ui.at = "route" /\ ui'.at = "start_rec" /\ ui'.then = ui.then
        /\ play' = play /\ rec' = rec /\ jack' = jack /\ spoilt' = spoilt /\ wav' = wav
    BY <1>0 DEF Route, SoundTypes, UiType, At, Go, Quiet
  <2>1. ~play.running /\ ~rec.running
    BY <1>0, <2>0 DEF Places, Streams, Beginning, At
  <2>2. CASE codec.rec
    BY <1>0, <2>0, <2>1, <2>2 DEF Route, Powered, NoSound, At
  <2>3. CASE ~codec.rec
    <3>1. codec' = [[codec EXCEPT !.rec = TRUE, !.source = ui.then]
                      EXCEPT !.on = TRUE, !.cut = @ /\ play.running]
      BY <2>3 DEF Route, PowerOn
    <3>2. codec'.on /\ codec'.rec /\ codec'.hs = codec.hs
      BY <1>0, <3>1 DEF SoundTypes, CodecType
    <3>3. bias \subseteq bias' /\ (ui.then = "mic" => "rec" \in bias')
      BY <2>3 DEF Route
    <3> QED BY <1>0, <2>0, <2>1, <3>2, <3>3 DEF Powered, NoSound, At
  <2> QED BY <2>2, <2>3
<1>5. Accounts'
  BY <1>0 DEF SoundTypes, UiType, CodecType, Places, Streams, Accounts, Beginning, Records, Uses,
     At, Go, Quiet, pcmvars, Stereo, Route, PowerOn
<1> QED BY <1>1, <1>2, <1>3, <1>4, <1>5 DEF SoundInv

LEMMA StartRecordingInv ==
  ASSUME SoundInv, StartRecording PROVE SoundInv'
<1>0. SoundTypes /\ Places /\ Streams /\ Powered /\ Accounts
  BY DEF SoundInv
<1>1. SoundTypes'
  <2>1. UiType'
    BY <1>0 DEF SoundTypes, UiType, UiPlaces, Uses, At, Go, Quiet, pcmvars, StartRecording, Idle,
       IrqUpdate
  <2>2. WavType'
    BY <1>0 DEF SoundTypes, WavType, At, Go, Quiet, pcmvars, StartRecording, Idle, IrqUpdate
  <2>3. RecType'
    BY <1>0 DEF SoundTypes, RecType, UiType, Uses, At, Go, Quiet, pcmvars, StartRecording, Idle,
       IrqUpdate
  <2>4. DmaType'
    BY <1>0 DEF SoundTypes, DmaType, At, Go, Quiet, pcmvars, Stereo, StartRecording, Idle, IrqUpdate
  <2>5. RingType' /\ PlayType' /\ CodecType' /\ JackType' /\ HeardType'
    BY <1>0 DEF SoundTypes, RingType, PlayType, CodecType, JackType, HeardType, pcmvars, Quiet,
       StartRecording, Idle, IrqUpdate
  <2> QED BY <2>1, <2>2, <2>3, <2>4, <2>5 DEF SoundTypes
<1>2. Places'
  BY <1>0 DEF SoundTypes, UiType, WavType, RecType, DmaType, Places, Beginning, Uses, Records, At,
     Go, Quiet, pcmvars, StartRecording, Idle, IrqUpdate
<1>3. Streams'
  BY <1>0 DEF SoundTypes, UiType, WavType, RecType, DmaType, Places, Streams, Beginning, At, Go,
     Quiet, pcmvars, Stereo, StartRecording, Idle, IrqUpdate
<1>4. Powered'
  BY <1>0 DEF SoundTypes, UiType, WavType, RecType, DmaType, Places, Streams, Powered, NoSound,
     Beginning, Records, Uses, At, Go, Quiet, pcmvars, StartRecording, Idle, IrqUpdate
<1>5. Accounts'
  BY <1>0 DEF SoundTypes, UiType, WavType, RecType, DmaType, Places, Streams, Accounts, Beginning,
     Records, Uses, At, Go, Quiet, pcmvars, Stereo, StartRecording, Idle, IrqUpdate
<1> QED BY <1>1, <1>2, <1>3, <1>4, <1>5 DEF SoundInv

LEMMA FmOnInv ==
  ASSUME SoundInv, FmOn PROVE SoundInv'
<1>0. SoundTypes /\ Places /\ Streams /\ Powered /\ Accounts
  BY DEF SoundInv
<1>1. SoundTypes'
  <2>1. UiType'
    BY <1>0 DEF SoundTypes, UiType, UiPlaces, Uses, At, Go, Quiet, pcmvars, FmOn, After, Idle,
       PowerOn
  <2>2. CodecType'
    BY <1>0 DEF SoundTypes, CodecType, UiType, Uses, At, Go, Quiet, pcmvars, FmOn, After, Idle,
       PowerOn
  <2>3. WavType' /\ RingType' /\ PlayType' /\ RecType' /\ DmaType' /\ JackType' /\ HeardType'
    BY <1>0 DEF SoundTypes, WavType, RingType, PlayType, RecType, DmaType, JackType, HeardType,
       pcmvars, Quiet, FmOn, After, Idle, PowerOn
  <2> QED BY <2>1, <2>2, <2>3 DEF SoundTypes
<1>2. Places'
  BY <1>0 DEF SoundTypes, UiType, CodecType, Places, Beginning, Uses, Records, At, Go, Quiet,
     pcmvars, FmOn, After, Idle, PowerOn
<1>3. Streams'
  BY <1>0 DEF SoundTypes, UiType, CodecType, Places, Streams, Beginning, At, Go, Quiet, pcmvars,
     Stereo, FmOn, After, Idle, PowerOn
<1>4. Powered'
  BY <1>0 DEF SoundTypes, UiType, CodecType, Places, Streams, Powered, NoSound, Beginning, Records,
     Uses, At, Go, Quiet, pcmvars, FmOn, After, Idle, PowerOn
<1>5. Accounts'
  BY <1>0 DEF SoundTypes, UiType, CodecType, Places, Streams, Accounts, Beginning, Records, Uses,
     At, Go, Quiet, pcmvars, Stereo, FmOn, After, Idle, PowerOn
<1> QED BY <1>1, <1>2, <1>3, <1>4, <1>5 DEF SoundInv

LEMMA FmOffInv ==
  ASSUME SoundInv, FmOff PROVE SoundInv'
<1>0. SoundTypes /\ Places /\ Streams /\ Powered /\ Accounts
  BY DEF SoundInv
<1>1. SoundTypes'
  <2>1. UiType'
    BY <1>0 DEF SoundTypes, UiType, UiPlaces, Uses, At, Go, Quiet, pcmvars, FmOff, After, Idle,
       PowerOff, Nobody
  <2>2. CodecType'
    <3>1. [codec EXCEPT !.fm = FALSE] \in [on : BOOLEAN, rec : BOOLEAN, fm : BOOLEAN,
                                           hs : BOOLEAN, source : Uses, cut : BOOLEAN]
      BY <1>0 DEF SoundTypes, CodecType
    <3>2. PowerOff([codec EXCEPT !.fm = FALSE])
      BY DEF FmOff
    <3> QED BY <1>0, <3>1, <3>2, PowerOffIs DEF SoundTypes
  <2>3. WavType' /\ RingType' /\ PlayType' /\ RecType' /\ DmaType' /\ JackType' /\ HeardType'
    BY <1>0 DEF SoundTypes, WavType, RingType, PlayType, RecType, DmaType, JackType, HeardType,
       pcmvars, Quiet, Nobody, PowerOff, After, Idle, FmOff
  <2> QED BY <2>1, <2>2, <2>3 DEF SoundTypes
<1>2. Places'
  BY <1>0 DEF SoundTypes, UiType, CodecType, Places, Beginning, Uses, Records, At, Go, Quiet,
     pcmvars, FmOff, After, Idle, PowerOff, Nobody
<1>3. Streams'
  BY <1>0 DEF SoundTypes, UiType, CodecType, Places, Streams, Beginning, At, Go, Quiet, pcmvars,
     Stereo, FmOff, After, Idle, PowerOff, Nobody
<1>4. Powered'
  <2>0. /\ ui.at = "stopped" /\ ui'.at = "idle" /\ ui'.then = "idle"
        /\ play' = play /\ rec' = rec /\ jack' = jack /\ spoilt' = spoilt /\ wav' = wav
    BY <1>0 DEF FmOff, After, Idle, At, Quiet
  <2>1. ~play.running /\ ~rec.running
    BY <1>0, <2>0 DEF Places, Streams, Beginning, At
  <2> DEFINE c == [codec EXCEPT !.fm = FALSE]
  <2>2. c.on = codec.on /\ c.rec = codec.rec /\ ~c.fm /\ c.hs = codec.hs
    BY <1>0 DEF SoundTypes, CodecType
  <2>3. CASE codec.on /\ Nobody(c)
    <3>1. codec' = [c EXCEPT !.on = FALSE, !.cut = At("start")]
      BY <2>3 DEF FmOff, PowerOff
    <3>2. ~codec'.on /\ ~codec'.rec /\ ~codec'.fm /\ ~codec'.hs
      BY <1>0, <2>3, <3>1 DEF SoundTypes, CodecType, Nobody
    <3> QED BY <1>0, <2>0, <2>1, <2>2, <2>3, <3>2 DEF Powered, Nobody, At
  <2>4. CASE ~(codec.on /\ Nobody(c))
    <3>1. codec' = c /\ bias' = bias
      BY <2>4 DEF FmOff, PowerOff
    <3>2. ~codec.on \/ codec.rec \/ codec.hs
      BY <2>1, <2>2, <2>4 DEF Nobody
    <3> HIDE DEF c
    <3> QED BY <1>0, <2>0, <2>1, <2>2, <3>1, <3>2 DEF Powered, NoSound, At
  <2> QED BY <2>3, <2>4
<1>5. Accounts'
  BY <1>0 DEF SoundTypes, UiType, CodecType, Places, Streams, Accounts, Beginning, Records, Uses,
     At, Go, Quiet, pcmvars, Stereo, FmOff, After, Idle, PowerOff, Nobody
<1> QED BY <1>1, <1>2, <1>3, <1>4, <1>5 DEF SoundInv

LEMMA RestInv ==
  ASSUME SoundInv, Rest PROVE SoundInv'
<1>0. SoundTypes /\ Places /\ Streams /\ Powered /\ Accounts
  BY DEF SoundInv
<1>1. SoundTypes'
  <2>1. UiType'
    BY <1>0 DEF SoundTypes, UiType, UiPlaces, Uses, At, Go, Quiet, pcmvars, Rest, After, Idle
  <2>2. /\ WavType' /\ RingType' /\ PlayType' /\ RecType' /\ DmaType' /\ CodecType'
       /\ JackType' /\ HeardType'
    BY <1>0 DEF SoundTypes, WavType, RingType, PlayType, RecType, DmaType, CodecType, JackType,
       HeardType, pcmvars, Quiet, Rest, After, Idle
  <2> QED BY <2>1, <2>2 DEF SoundTypes
<1>2. Places'
  BY <1>0 DEF SoundTypes, UiType, Places, Beginning, Uses, Records, At, Go, Quiet, pcmvars, Rest,
     After, Idle
<1>3. Streams'
  BY <1>0 DEF SoundTypes, UiType, Places, Streams, Beginning, At, Go, Quiet, pcmvars, Stereo, Rest,
     After, Idle
<1>4. Powered'
  BY <1>0 DEF SoundTypes, UiType, Places, Streams, Powered, NoSound, Beginning, Records, Uses, At,
     Go, Quiet, pcmvars, Rest, After, Idle
<1>5. Accounts'
  BY <1>0 DEF SoundTypes, UiType, Places, Streams, Accounts, Beginning, Records, Uses, At, Go,
     Quiet, pcmvars, Stereo, Rest, After, Idle
<1> QED BY <1>1, <1>2, <1>3, <1>4, <1>5 DEF SoundInv

LEMMA PumpInv ==
  ASSUME SoundInv, Pump PROVE SoundInv'
<1>0. SoundTypes /\ Places /\ Streams /\ Powered /\ Accounts
  BY DEF SoundInv
<1>1. SoundTypes'
  <2>1. UiType'
    BY <1>0 DEF SoundTypes, UiType, UiPlaces, Uses, At, Go, Quiet, pcmvars, Pump
  <2>2. /\ WavType' /\ RingType' /\ PlayType' /\ RecType' /\ DmaType' /\ CodecType'
       /\ JackType' /\ HeardType'
    BY <1>0 DEF SoundTypes, WavType, RingType, PlayType, RecType, DmaType, CodecType, JackType,
       HeardType, pcmvars, Quiet, Pump
  <2> QED BY <2>1, <2>2 DEF SoundTypes
<1>2. Places'
  BY <1>0 DEF SoundTypes, UiType, Places, Beginning, Uses, Records, At, Go, Quiet, pcmvars, Pump
<1>3. Streams'
  BY <1>0 DEF SoundTypes, UiType, Places, Streams, Beginning, At, Go, Quiet, pcmvars, Stereo, Pump
<1>4. Powered'
  BY <1>0 DEF SoundTypes, UiType, Places, Streams, Powered, NoSound, Beginning, Records, Uses, At,
     Go, Quiet, pcmvars, Pump
<1>5. Accounts'
  BY <1>0 DEF SoundTypes, UiType, Places, Streams, Accounts, Beginning, Records, Uses, At, Go,
     Quiet, pcmvars, Stereo, Pump
<1> QED BY <1>1, <1>2, <1>3, <1>4, <1>5 DEF SoundInv

LEMMA PumpedInv ==
  ASSUME SoundInv, Pumped PROVE SoundInv'
<1>0. SoundTypes /\ Places /\ Streams /\ Powered /\ Accounts
  BY DEF SoundInv
<1>1. SoundTypes'
  <2>1. UiType'
    BY <1>0 DEF SoundTypes, UiType, UiPlaces, Uses, At, Go, Quiet, pcmvars, Pumped
  <2>2. /\ WavType' /\ RingType' /\ PlayType' /\ RecType' /\ DmaType' /\ CodecType'
       /\ JackType' /\ HeardType'
    BY <1>0 DEF SoundTypes, WavType, RingType, PlayType, RecType, DmaType, CodecType, JackType,
       HeardType, pcmvars, Quiet, Pumped
  <2> QED BY <2>1, <2>2 DEF SoundTypes
<1>2. Places'
  BY <1>0 DEF SoundTypes, UiType, Places, Beginning, Uses, Records, At, Go, Quiet, pcmvars, Pumped
<1>3. Streams'
  BY <1>0 DEF SoundTypes, UiType, Places, Streams, Beginning, At, Go, Quiet, pcmvars, Stereo, Pumped
<1>4. Powered'
  BY <1>0 DEF SoundTypes, UiType, Places, Streams, Powered, NoSound, Beginning, Records, Uses, At,
     Go, Quiet, pcmvars, Pumped
<1>5. Accounts'
  BY <1>0 DEF SoundTypes, UiType, Places, Streams, Accounts, Beginning, Records, Uses, At, Go,
     Quiet, pcmvars, Stereo, Pumped
<1> QED BY <1>1, <1>2, <1>3, <1>4, <1>5 DEF SoundInv

LEMMA HsSeesInv ==
  ASSUME SoundInv, HsSees PROVE SoundInv'
<1>0. SoundTypes /\ Places /\ Streams /\ Powered /\ Accounts
  BY DEF SoundInv
<1>1. SoundTypes'
  <2>1. JackType'
    BY <1>0 DEF SoundTypes, JackType, HsStates, At, pcmvars, HsSees, Headset
  <2>2. /\ UiType' /\ WavType' /\ RingType' /\ PlayType' /\ RecType' /\ DmaType'
       /\ CodecType' /\ HeardType'
    BY <1>0 DEF SoundTypes, UiType, WavType, RingType, PlayType, RecType, DmaType, CodecType,
       HeardType, pcmvars, HsSees, Headset
  <2> QED BY <2>1, <2>2 DEF SoundTypes
<1>2. Places'
  BY <1>0 DEF SoundTypes, JackType, Places, Beginning, Uses, Records, At, pcmvars, HsSees, Headset
<1>3. Streams'
  BY <1>0 DEF SoundTypes, JackType, Places, Streams, Beginning, At, pcmvars, Stereo, HsSees, Headset
<1>4. Powered'
  BY <1>0 DEF SoundTypes, JackType, Places, Streams, Powered, NoSound, Beginning, Records, Uses,
     At, pcmvars, HsSees, Headset
<1>5. Accounts'
  BY <1>0 DEF SoundTypes, JackType, Places, Streams, Accounts, Beginning, Records, Uses, At,
     pcmvars, Stereo, HsSees, Headset
<1> QED BY <1>1, <1>2, <1>3, <1>4, <1>5 DEF SoundInv

LEMMA HsPowerInv ==
  ASSUME SoundInv, HsPower PROVE SoundInv'
<1>0. SoundTypes /\ Places /\ Streams /\ Powered /\ Accounts
  BY DEF SoundInv
<1>1. SoundTypes'
  <2>1. CodecType'
    BY <1>0 DEF SoundTypes, CodecType, Uses, At, pcmvars, HsPower, Headset, PowerOn
  <2>2. JackType'
    BY <1>0 DEF SoundTypes, JackType, CodecType, HsStates, At, pcmvars, HsPower, Headset, PowerOn
  <2>3. UiType' /\ WavType' /\ RingType' /\ PlayType' /\ RecType' /\ DmaType' /\ HeardType'
    BY <1>0 DEF SoundTypes, UiType, WavType, RingType, PlayType, RecType, DmaType, HeardType,
       pcmvars, HsPower, PowerOn, Headset
  <2> QED BY <2>1, <2>2, <2>3 DEF SoundTypes
<1>2. Places'
  BY <1>0 DEF SoundTypes, CodecType, JackType, Places, Beginning, Uses, Records, At, pcmvars,
     HsPower, Headset, PowerOn
<1>3. Streams'
  <2>1. /\ ui' = ui /\ wav' = wav /\ play' = play /\ rec' = rec /\ dma' = dma /\ line' = line
        /\ vbc' = IF codec.on THEN vbc ELSE {}
    BY DEF HsPower, PowerOn
  <2>2. /\ ~codec.on => (play.running => codec.cut) /\ ~rec.running
        /\ (codec'.cut <=> codec.cut /\ play.running)
    BY <1>0 DEF Powered, SoundTypes, CodecType, PlayType, HsPower, PowerOn
  <2>3. /\ "on" \in vbc' => play.running \/ rec.running
        /\ (play.running /\ ~codec'.cut) \/ rec.running => "on" \in vbc'
    BY <1>0, <2>1, <2>2 DEF Streams
  <2> QED BY <1>0, <2>1, <2>2, <2>3 DEF Streams, At
<1>4. Powered'
  BY <1>0 DEF SoundTypes, CodecType, JackType, Places, Streams, Powered, NoSound, Beginning,
     Records, Uses, At, pcmvars, HsPower, Headset, PowerOn
<1>5. Accounts'
  BY <1>0 DEF SoundTypes, CodecType, JackType, Places, Streams, Accounts, Beginning, Records, Uses,
     At, pcmvars, Stereo, HsPower, Headset, PowerOn
<1> QED BY <1>1, <1>2, <1>3, <1>4, <1>5 DEF SoundInv

LEMMA HsReadyInv ==
  ASSUME SoundInv, HsReady PROVE SoundInv'
<1>0. SoundTypes /\ Places /\ Streams /\ Powered /\ Accounts
  BY DEF SoundInv
<1>1. SoundTypes'
  <2>1. JackType'
    BY <1>0 DEF SoundTypes, JackType, HsStates, At, pcmvars, HsReady, Headset
  <2>2. /\ UiType' /\ WavType' /\ RingType' /\ PlayType' /\ RecType' /\ DmaType'
       /\ CodecType' /\ HeardType'
    BY <1>0 DEF SoundTypes, UiType, WavType, RingType, PlayType, RecType, DmaType, CodecType,
       HeardType, pcmvars, HsReady, Headset
  <2> QED BY <2>1, <2>2 DEF SoundTypes
<1>2. Places'
  BY <1>0 DEF SoundTypes, JackType, Places, Beginning, Uses, Records, At, pcmvars, HsReady, Headset
<1>3. Streams'
  BY <1>0 DEF SoundTypes, JackType, Places, Streams, Beginning, At, pcmvars, Stereo, HsReady,
     Headset
<1>4. Powered'
  BY <1>0 DEF SoundTypes, JackType, Places, Streams, Powered, NoSound, Beginning, Records, Uses,
     At, pcmvars, HsReady, Headset
<1>5. Accounts'
  BY <1>0 DEF SoundTypes, JackType, Places, Streams, Accounts, Beginning, Records, Uses, At,
     pcmvars, Stereo, HsReady, Headset
<1> QED BY <1>1, <1>2, <1>3, <1>4, <1>5 DEF SoundInv

LEMMA HsLetsGoInv ==
  ASSUME SoundInv, HsLetsGo PROVE SoundInv'
<1>0. SoundTypes /\ Places /\ Streams /\ Powered /\ Accounts
  BY DEF SoundInv
<1>1. SoundTypes'
  <2>1. CodecType'
    BY <1>0 DEF SoundTypes, CodecType, Uses, At, pcmvars, HsLetsGo
  <2>2. JackType'
    BY <1>0 DEF SoundTypes, JackType, CodecType, HsStates, At, pcmvars, HsLetsGo
  <2>3. UiType' /\ WavType' /\ RingType' /\ PlayType' /\ RecType' /\ DmaType' /\ HeardType'
    BY <1>0 DEF SoundTypes, UiType, WavType, RingType, PlayType, RecType, DmaType, HeardType,
       pcmvars, HsLetsGo
  <2> QED BY <2>1, <2>2, <2>3 DEF SoundTypes
<1>2. Places'
  BY <1>0 DEF SoundTypes, CodecType, JackType, Places, Beginning, Uses, Records, At, pcmvars,
     HsLetsGo
<1>3. Streams'
  BY <1>0 DEF SoundTypes, CodecType, JackType, Places, Streams, Beginning, At, pcmvars, Stereo,
     HsLetsGo
<1>4. Powered'
  <2>1. /\ ui' = ui /\ wav' = wav /\ play' = play /\ rec' = rec /\ spoilt' = spoilt
        /\ bias' = bias \ {"hook"} /\ codec' = [codec EXCEPT !.hs = FALSE]
    BY DEF HsLetsGo, pcmvars
  <2>2. /\ codec'.on = codec.on /\ codec'.rec = codec.rec /\ codec'.fm = codec.fm /\ ~codec'.hs
    BY <1>0, <2>1 DEF SoundTypes, CodecType
  <2>3. jack'.letting = codec.hs /\ jack'.state \notin {"bias", "buttons"} /\ ~jack.letting
    <3>1. PICK state \in {"plain", "out"} : jack' = [jack EXCEPT !.state = state, !.letting = codec.hs]
      BY DEF HsLetsGo
    <3>2. jack \in [in : BOOLEAN, moves : Int, state : HsStates, letting : BOOLEAN] /\ ~jack.letting
      BY <1>0 DEF HsLetsGo, SoundTypes, JackType
    <3>3. jack'.letting = codec.hs /\ jack'.state = state
      BY <3>1, <3>2
    <3> QED BY <3>2, <3>3
  <2>4. "rec" \in bias' <=> "rec" \in bias
    BY <2>1
  <2> QED BY <1>0, <2>1, <2>2, <2>3, <2>4 DEF Powered, NoSound, At
<1>5. Accounts'
  BY <1>0 DEF SoundTypes, CodecType, JackType, Places, Streams, Accounts, Beginning, Records, Uses,
     At, pcmvars, Stereo, HsLetsGo
<1> QED BY <1>1, <1>2, <1>3, <1>4, <1>5 DEF SoundInv

LEMMA HsPowerOffInv ==
  ASSUME SoundInv, HsPowerOff PROVE SoundInv'
<1>0. SoundTypes /\ Places /\ Streams /\ Powered /\ Accounts
  BY DEF SoundInv
<1>a. /\ CodecType'
       /\ codec'.rec = codec.rec /\ codec'.fm = codec.fm /\ codec'.hs = codec.hs
       /\ \/ /\ codec.on /\ Nobody(codec) /\ ~codec'.on
             /\ codec'.cut <=> At("start")
             /\ bias' = {}
          \/ codec' = codec /\ bias' = bias /\ ~(codec.on /\ Nobody(codec))
  <2>1. codec \in [on : BOOLEAN, rec : BOOLEAN, fm : BOOLEAN, hs : BOOLEAN, source : Uses,
                   cut : BOOLEAN]
    BY <1>0 DEF SoundTypes, CodecType
  <2>2. CodecType /\ PowerOff(codec)
    BY <1>0 DEF SoundTypes, HsPowerOff
  <2> QED BY <2>1, <2>2, PowerOffIs
<1>1. SoundTypes'
  <2>1. CodecType'
    BY <1>a
  <2>2. JackType'
    BY <1>0 DEF SoundTypes, JackType, CodecType, HsStates, At, pcmvars, HsPowerOff, PowerOff, Nobody
  <2>3. UiType' /\ WavType' /\ RingType' /\ PlayType' /\ RecType' /\ DmaType' /\ HeardType'
    BY <1>0 DEF SoundTypes, UiType, WavType, RingType, PlayType, RecType, DmaType, HeardType,
       pcmvars, Nobody, PowerOff, HsPowerOff
  <2> QED BY <2>1, <2>2, <2>3 DEF SoundTypes
<1>2. Places'
  BY <1>0 DEF SoundTypes, CodecType, JackType, Places, Beginning, Uses, Records, At, pcmvars,
     HsPowerOff, PowerOff, Nobody
<1>3. Streams'
  BY <1>0 DEF SoundTypes, CodecType, JackType, Places, Streams, Beginning, At, pcmvars, Stereo,
     HsPowerOff, PowerOff, Nobody
<1>4. Powered'
  <2>1. /\ jack.letting /\ ~jack'.letting /\ jack'.state = jack.state
        /\ ui' = ui /\ play' = play /\ rec' = rec /\ wav' = wav /\ spoilt' = spoilt
    BY <1>0 DEF SoundTypes, JackType, HsPowerOff
  <2>2. CASE codec.on /\ Nobody(codec) /\ ~codec'.on /\ (codec'.cut <=> At("start")) /\ bias' = {}
    <3>1. /\ ~codec.fm /\ ~codec.rec /\ ~codec.hs /\ ~play.running /\ ~rec.running
          /\ ~At("start_rec") /\ jack.state \notin {"bias", "buttons"}
      BY <1>0, <2>2 DEF Nobody, Powered
    <3> QED BY <1>0, <1>a, <2>1, <2>2, <3>1 DEF Powered, NoSound, At
  <2>3. CASE codec' = codec /\ bias' = bias /\ ~(codec.on /\ Nobody(codec))
    <3>1. (At("stopped") \/ At("idle")) /\ NoSound => ~play.running /\ ~rec.running
      BY <1>0 DEF NoSound, Streams, Places, Beginning, At
    <3>2. NoSound => At("stopped") \/ At("idle")
      BY DEF NoSound
    <3>3. NoSound /\ ~codec.fm /\ ~codec.hs /\ ~spoilt => ~codec.on
      <4>1. At("stopped") \/ At("idle") => ui.at \notin {"start_rec", "route_off"}
        BY DEF At
      <4>2. NoSound /\ ~spoilt => ~codec.rec
        BY <1>0, <3>1, <3>2, <4>1 DEF Powered
      <4> QED BY <2>3, <3>1, <3>2, <4>2 DEF Nobody
    <3> QED BY <1>0, <2>1, <2>3, <3>3 DEF Powered, NoSound, At
  <2> QED BY <1>a, <2>2, <2>3
<1>5. Accounts'
  BY <1>0 DEF SoundTypes, CodecType, JackType, Places, Streams, Accounts, Beginning, Records, Uses,
     At, pcmvars, Stereo, HsPowerOff, PowerOff, Nobody
<1> QED BY <1>1, <1>2, <1>3, <1>4, <1>5 DEF SoundInv

LEMMA PlugInv ==
  ASSUME SoundInv, Plug PROVE SoundInv'
<1>0. SoundTypes /\ Places /\ Streams /\ Powered /\ Accounts
  BY DEF SoundInv
<1>1. SoundTypes'
  <2>1. JackType'
    <3>1. jack.moves - 1 \in Int /\ (~jack.in) \in BOOLEAN
      BY <1>0 DEF SoundTypes, JackType
    <3>2. jack' = [jack EXCEPT !.in = ~jack.in, !.moves = jack.moves - 1]
      BY DEF Plug
    <3> QED BY <1>0, <3>1, <3>2 DEF SoundTypes, JackType
  <2>2. /\ UiType' /\ WavType' /\ RingType' /\ PlayType' /\ RecType' /\ DmaType'
       /\ CodecType' /\ HeardType'
    BY <1>0 DEF SoundTypes, UiType, WavType, RingType, PlayType, RecType, DmaType, CodecType,
       HeardType, pcmvars, Plug
  <2> QED BY <2>1, <2>2 DEF SoundTypes
<1>2. Places'
  BY <1>0 DEF SoundTypes, JackType, Places, Beginning, Uses, Records, At, pcmvars, Plug
<1>3. Streams'
  BY <1>0 DEF SoundTypes, JackType, Places, Streams, Beginning, At, pcmvars, Stereo, Plug
<1>4. Powered'
  BY <1>0 DEF SoundTypes, JackType, Places, Streams, Powered, NoSound, Beginning, Records, Uses,
     At, pcmvars, Plug
<1>5. Accounts'
  BY <1>0 DEF SoundTypes, JackType, Places, Streams, Accounts, Beginning, Records, Uses, At,
     pcmvars, Stereo, Plug
<1> QED BY <1>1, <1>2, <1>3, <1>4, <1>5 DEF SoundInv

LEMMA AsksInv ==
  ASSUME SoundInv, \E then \in Uses : Ask(then) PROVE SoundInv'
<1>0. SoundTypes /\ Places /\ Streams /\ Powered /\ Accounts
  BY DEF SoundInv
<1>1. SoundTypes'
  <2>1. UiType'
    BY <1>0 DEF SoundTypes, UiType, UiPlaces, Uses, At, Go, Quiet, pcmvars, Ask
  <2>2. /\ WavType' /\ RingType' /\ PlayType' /\ RecType' /\ DmaType' /\ CodecType'
       /\ JackType' /\ HeardType'
    BY <1>0 DEF SoundTypes, WavType, RingType, PlayType, RecType, DmaType, CodecType, JackType,
       HeardType, pcmvars, Quiet, Ask
  <2> QED BY <2>1, <2>2 DEF SoundTypes
<1>2. Places'
  BY <1>0 DEF SoundTypes, UiType, Places, Beginning, Uses, Records, At, Go, Quiet, pcmvars, Ask
<1>3. Streams'
  BY <1>0 DEF SoundTypes, UiType, Places, Streams, Beginning, At, Go, Quiet, pcmvars, Stereo, Ask
<1>4. Powered'
  BY <1>0 DEF SoundTypes, UiType, Places, Streams, Powered, NoSound, Beginning, Records, Uses, At,
     Go, Quiet, pcmvars, Ask
<1>5. Accounts'
  BY <1>0 DEF SoundTypes, UiType, Places, Streams, Accounts, Beginning, Records, Uses, At, Go,
     Quiet, pcmvars, Stereo, Ask
<1> QED BY <1>1, <1>2, <1>3, <1>4, <1>5 DEF SoundInv

LEMMA FailsInv ==
  ASSUME SoundInv, \E ch \in Stereo \cup {"rec"} : BlockFails(ch) PROVE SoundInv'
<1>0. SoundTypes /\ Places /\ Streams /\ Powered /\ Accounts
  BY DEF SoundInv
<1>1. SoundTypes'
  <2>1. DmaType'
    BY <1>0 DEF SoundTypes, DmaType, At, pcmvars, Stereo, BlockFails
  <2>2. /\ UiType' /\ WavType' /\ RingType' /\ PlayType' /\ RecType' /\ CodecType'
       /\ JackType' /\ HeardType'
    BY <1>0 DEF SoundTypes, UiType, WavType, RingType, PlayType, RecType, CodecType, JackType,
       HeardType, pcmvars, BlockFails
  <2> QED BY <2>1, <2>2 DEF SoundTypes
<1>2. Places'
  BY <1>0 DEF SoundTypes, DmaType, Places, Beginning, Uses, Records, At, pcmvars, BlockFails
<1>3. Streams'
  BY <1>0 DEF SoundTypes, DmaType, Places, Streams, Beginning, At, pcmvars, Stereo, BlockFails
<1>4. Powered'
  BY <1>0 DEF SoundTypes, DmaType, Places, Streams, Powered, NoSound, Beginning, Records, Uses, At,
     pcmvars, BlockFails
<1>5. Accounts'
  BY <1>0 DEF SoundTypes, DmaType, Places, Streams, Accounts, Beginning, Records, Uses, At,
     pcmvars, Stereo, BlockFails
<1> QED BY <1>1, <1>2, <1>3, <1>4, <1>5 DEF SoundInv

LEMMA EndsInv ==
  ASSUME SoundInv, \E ch \in Stereo \cup {"rec"} : BlockEnds(ch) PROVE SoundInv'
<1>0. SoundTypes /\ Places /\ Streams /\ Powered /\ Accounts
  BY DEF SoundInv
<1>1. SoundTypes'
  <2>1. PlayType'
    BY <1>0 DEF SoundTypes, PlayType, DmaType, At, pcmvars, Stereo, BlockEnds
  <2>2. DmaType'
    BY <1>0 DEF SoundTypes, DmaType, At, pcmvars, Stereo, BlockEnds
  <2>3. HeardType'
    BY <1>0 DEF SoundTypes, HeardType, PlayType, At, pcmvars, Stereo, BlockEnds
  <2>4. UiType' /\ WavType' /\ RingType' /\ RecType' /\ CodecType' /\ JackType'
    BY <1>0 DEF SoundTypes, UiType, WavType, RingType, RecType, CodecType, JackType, pcmvars,
       BlockEnds
  <2> QED BY <2>1, <2>2, <2>3, <2>4 DEF SoundTypes
<1>2. Places'
  BY <1>0 DEF SoundTypes, PlayType, DmaType, HeardType, Places, Beginning, Uses, Records, At,
     pcmvars, BlockEnds
<1>3. Streams'
  BY <1>0 DEF SoundTypes, PlayType, DmaType, HeardType, Places, Streams, Beginning, At, pcmvars,
     Stereo, BlockEnds
<1>4. Powered'
  BY <1>0 DEF SoundTypes, PlayType, DmaType, HeardType, Places, Streams, Powered, NoSound,
     Beginning, Records, Uses, At, pcmvars, BlockEnds
<1>5. Accounts'
  BY <1>0 DEF SoundTypes, PlayType, DmaType, HeardType, Places, Streams, Accounts, Beginning,
     Records, Uses, At, pcmvars, Stereo, BlockEnds
<1> QED BY <1>1, <1>2, <1>3, <1>4, <1>5 DEF SoundInv

LEMMA StartPlayingInv ==
  ASSUME SoundInv, StartPlaying PROVE SoundInv'
<1>0. SoundTypes /\ Places /\ Streams /\ Powered /\ Accounts
  BY DEF SoundInv
<1> DEFINE p == [running |-> FALSE, eof |-> FALSE]
<1>1. /\ PlayType' /\ RingType' /\ DmaType'
      /\ play'.running /\ play'.completed = {}
      /\ ring'.head = ring.head /\ ring'.tail = ring.tail + play'.units
      /\ play'.units \in Nat
      /\ play'.eof => wav.eof /\ ring'.tail = ring.head
      /\ play'.draining => play'.eof /\ play'.units = 0
      /\ \A ch \in Stereo : dma'[ch] = "busy"
      /\ dma'["rec"] = dma["rec"]
  <2>1. p.eof \in BOOLEAN /\ p.running \in BOOLEAN /\ ~p.eof /\ ArmStereo(p)
    BY DEF StartPlaying
  <2> HIDE DEF p
  <2> QED BY <1>0, <2>1, Armed
<1>2. /\ ui' = [at |-> "idle", then |-> "idle"] /\ ui.at = "start" /\ ui.then \in {"play", "tone"}
      /\ vbc' = vbc \cup {"on", "play"} /\ line'
      /\ heard' = [ch \in Stereo |-> 0]
      /\ rec' = rec /\ codec' = codec /\ bias' = bias /\ jack' = jack /\ spoilt' = spoilt
  BY <1>0 DEF StartPlaying, Idle, IrqUpdate, Places, At
<1>3. /\ wav'.playing /\ wav'.recording = wav.recording /\ wav'.eof = wav.eof /\ WavType'
  BY <1>0 DEF StartPlaying, SoundTypes, WavType
<1>4. ~wav.playing /\ ~wav.recording /\ ~rec.running /\ ring.tail = 0 /\ dma["rec"] = "off"
  BY <1>0, <1>2 DEF Places, Streams, Accounts, Beginning, At
<1>5. SoundTypes'
  <2>1. HeardType' /\ UiType'
    BY <1>0, <1>2 DEF StartPlaying, IrqUpdate, SoundTypes, HeardType, RecType, UiType, UiPlaces, Uses
  <2> QED BY <1>0, <1>1, <1>2, <1>3, <2>1 DEF SoundTypes, RecType, CodecType, JackType
<1>6. Places'
  BY <1>2, <1>3, <1>4 DEF Places, At, Beginning
<1>7. Streams'
  BY <1>0, <1>1, <1>2, <1>3, <1>4 DEF Streams, At
<1>8. Powered'
  BY <1>0, <1>1, <1>2, <1>3, <1>4 DEF Powered, NoSound, At
<1>9. Accounts'
  <2>1. \A ch \in Stereo : heard'[ch] = 0
    BY <1>2
  <2>2. play'.eof => wav'.eof /\ ring'.head = ring'.tail
    BY <1>1, <1>3
  <2>3. \A ch \in Stereo : heard'[ch] + play'.units = ring'.tail
    BY <1>1, <1>4, <2>1
  <2> QED BY <1>1, <1>2, <1>3, <1>4, <2>2, <2>3 DEF Accounts, At, Beginning
<1> QED BY <1>5, <1>6, <1>7, <1>8, <1>9 DEF SoundInv

LEMMA DrainInv ==
  ASSUME SoundInv, Drain PROVE SoundInv'
<1>0. SoundTypes /\ Places /\ Streams /\ Powered /\ Accounts
  BY DEF SoundInv
<1> DEFINE n == Least(Used, Chunk)
<1>1. /\ Used \in Nat /\ ring.head = ring.tail + Used /\ ring.tail \in Nat /\ ring.head \in Nat
      /\ n \in Nat /\ n <= Used
  <2>1. Used \in Nat /\ ring.head = ring.tail + Used /\ ring.tail \in Nat /\ ring.head \in Nat
    BY <1>0, UsedNat DEF SoundTypes
  <2>2. Chunk \in Nat
    BY SoundAssumption
  <2> QED BY <2>1, <2>2, LeastOf
<1>2. /\ play' = play /\ rec' = rec /\ dma' = dma /\ vbc' = vbc /\ line' = line /\ codec' = codec
      /\ bias' = bias /\ spoilt' = spoilt /\ jack' = jack /\ heard' = heard
      /\ ui.at = "drain"
  BY DEF Drain, pcmvars, Quiet, At
<1>3. ~wav.playing /\ ~play.running /\ \A ch \in Stereo : dma[ch] = "off"
  BY <1>0, <1>2 DEF Places, Streams, At
<1>4. \/ ui' = ui
      \/ ui'.at = (IF wav.recording THEN "pumped" ELSE "header") /\ ui'.then = ui.then
  BY <1>0 DEF Drain, DrainEnds, Go, SoundTypes, UiType
<1>5. \/ Due /\ ring' = [ring EXCEPT !.tail = @ + n] /\ wav' = [wav EXCEPT !.total = @ + n] /\ ui' = ui
      \/ Due /\ ring' = [ring EXCEPT !.tail = @ + n] /\ wav' = [wav EXCEPT !.failed = TRUE] /\ DrainEnds
      \/ ~Due /\ ring' = ring /\ wav' = wav /\ DrainEnds
  BY DEF Drain
<1> HIDE DEF n
<1>6. /\ wav' \in [playing : BOOLEAN, recording : BOOLEAN, tone : BOOLEAN, eof : BOOLEAN,
                   left : Nat, total : Nat, failed : BOOLEAN]
      /\ wav'.playing = wav.playing /\ wav'.recording = wav.recording /\ wav'.eof = wav.eof
  <2>1. wav.total + n \in Nat
    BY <1>0, <1>1 DEF SoundTypes, WavType
  <2> QED BY <1>0, <1>5, <2>1 DEF SoundTypes, WavType
<1>7. RingType' /\ ring'.head = ring.head
  <2>1. ring.tail + n \in Nat /\ ring.tail + n <= ring.head
    BY <1>1
  <2> QED BY <1>0, <1>5, <2>1 DEF SoundTypes, RingType
<1>8. ~wav'.failed => wav'.total = ring'.tail
  <2>1. wav.total \in Nat /\ (~wav.failed => wav.total = ring.tail)
    BY <1>0, <1>2 DEF Accounts, At, SoundTypes, WavType
  <2> QED BY <1>0, <1>1, <1>5, <2>1 DEF SoundTypes, RingType, WavType
<1>9. ui'.at = "header" /\ ~wav'.failed => ring'.head = ring'.tail
  <2> SUFFICES ASSUME ui'.at = "header", ~wav'.failed PROVE ring'.head = ring'.tail
    OBVIOUS
  <2>1. ~Due /\ ring' = ring /\ ~wav.recording
    BY <1>0, <1>2, <1>4, <1>5 DEF SoundTypes, WavType
  <2>2. Used = 0
    BY <1>1, <2>1 DEF Due
  <2> QED BY <1>1, <2>1, <2>2
<1>10. SoundTypes'
  <2>1. UiType'
    BY <1>0 DEF Drain, DrainEnds, Go, SoundTypes, UiType, UiPlaces
  <2>2. PlayType' /\ RecType' /\ DmaType' /\ CodecType' /\ JackType' /\ HeardType'
    BY <1>0, <1>2 DEF SoundTypes, PlayType, RecType, DmaType, CodecType, JackType, HeardType
  <2> QED BY <1>6, <1>7, <2>1, <2>2 DEF SoundTypes, WavType
<1>11. Places'
  BY <1>0, <1>2, <1>3, <1>4, <1>6 DEF Places, At, Beginning
<1>12. Streams'
  BY <1>0, <1>2, <1>4, <1>6 DEF Streams, At
<1>13. Powered'
  BY <1>0, <1>2, <1>4, <1>6 DEF Powered, NoSound, At
<1>14. Accounts'
  BY <1>2, <1>3, <1>4, <1>8, <1>9 DEF Accounts, At, Beginning
<1> QED BY <1>10, <1>11, <1>12, <1>13, <1>14 DEF SoundInv

LEMMA RefillInv ==
  ASSUME SoundInv, Refill PROVE SoundInv'
<1>0. SoundTypes /\ Places /\ Streams /\ Powered /\ Accounts
  BY DEF SoundInv
<1>1. SoundTypes'
  <2>1. UiType'
    BY <1>0, SoundAssumption, LeastOf DEF SoundTypes, UiType, UiPlaces, Uses, At, Go, Quiet,
       pcmvars, Refill, Used
  <2>2. WavType'
    <3> DEFINE n == Least(wav.left, Chunk)
    <3>1. n \in Nat /\ wav.left - n \in Nat
      <4>1. wav.left \in Nat /\ Chunk \in Nat
        BY <1>0, SoundAssumption DEF SoundTypes, WavType
      <4> QED BY <4>1, LeastOf
    <3>2. wav' = [wav EXCEPT !.left = @ - n] \/ wav' = [wav EXCEPT !.eof = TRUE] \/ wav' = wav
      BY DEF Refill
    <3> HIDE DEF n
    <3> QED BY <1>0, <3>1, <3>2 DEF SoundTypes, WavType
  <2>3. RingType'
    BY <1>0, SoundAssumption, LeastOf DEF SoundTypes, RingType, WavType, At, Go, Quiet, pcmvars,
       Refill, Used
  <2>4. PlayType' /\ RecType' /\ DmaType' /\ CodecType' /\ JackType' /\ HeardType'
    BY <1>0 DEF SoundTypes, PlayType, RecType, DmaType, CodecType, JackType, HeardType,
       pcmvars, Quiet, Refill
  <2> QED BY <2>1, <2>2, <2>3, <2>4 DEF SoundTypes
<1>2. Places'
  BY <1>0, SoundAssumption, LeastOf DEF SoundTypes, UiType, WavType, RingType, Places, Beginning,
     Uses, Records, At, Go, Quiet, pcmvars, Refill, Used
<1>3. Streams'
  BY <1>0, SoundAssumption, LeastOf DEF SoundTypes, UiType, WavType, RingType, Places, Streams,
     Beginning, At, Go, Quiet, pcmvars, Stereo, Refill, Used
<1>4. Powered'
  BY <1>0, SoundAssumption, LeastOf DEF SoundTypes, UiType, WavType, RingType, Places, Streams,
     Powered, NoSound, Beginning, Records, Uses, At, Go, Quiet, pcmvars, Refill, Used
<1>5. Accounts'
  BY <1>0, SoundAssumption, LeastOf DEF SoundTypes, UiType, WavType, RingType, Places, Streams,
     Accounts, Beginning, Records, Uses, At, Go, Quiet, pcmvars, Stereo, Refill, Used
<1> QED BY <1>1, <1>2, <1>3, <1>4, <1>5 DEF SoundInv

LEMMA RecIsrInv ==
  ASSUME SoundInv, Isr, RecIsr PROVE SoundInv'
<1>0. SoundTypes /\ Places /\ Streams /\ Powered /\ Accounts
  BY DEF SoundInv
<1>1. /\ ui' = ui /\ wav' = wav /\ codec' = codec /\ bias' = bias /\ jack' = jack /\ heard' = heard
      /\ play' = play
  BY DEF Isr, RecIsr
<1>2. rec.running /\ wav.recording /\ ~wav.playing /\ ~play.running
  BY <1>0 DEF RecIsr, Streams, Places
<1>3. DmaType' /\ (\A ch \in Stereo : dma'[ch] = dma[ch])
  BY <1>0 DEF RecIsr, rec_hw_stop, SoundTypes, DmaType, Stereo
<1>4. RingType' /\ ring'.tail = ring.tail
  <2>1. ring' = ring \/ ring' = [ring EXCEPT !.head = @ + 1]
    BY DEF RecIsr
  <2> QED BY <1>0, <2>1 DEF SoundTypes, RingType
<1>5. /\ RecType' /\ rec'.source = rec.source /\ spoilt' \in BOOLEAN /\ line' \in BOOLEAN
      /\ \/ rec'.running /\ vbc' = vbc /\ line' = line /\ spoilt' = spoilt
         \/ ~rec'.running /\ vbc' = vbc \ {"rec", "on"} /\ ~line' /\ spoilt' /\ dma'["rec"] = "off"
  <2>1. CASE dma["rec"] = "failed"
    <3>1. /\ rec' = [rec EXCEPT !.running = FALSE] /\ dma' = [dma EXCEPT !["rec"] = "off"]
          /\ vbc' = RecBits /\ (line' <=> play.running) /\ spoilt' = TRUE /\ line' \in BOOLEAN
      BY <2>1 DEF RecIsr, rec_hw_stop, IrqUpdate
    <3> QED BY <1>0, <1>2, <3>1 DEF SoundTypes, RecType, DmaType, RecBits
  <2>2. CASE dma["rec"] = "done"
    <3>1. rec' = rec /\ vbc' = vbc /\ line' = line /\ spoilt' = spoilt
      BY <2>2 DEF RecIsr
    <3>2. RecType' /\ spoilt' \in BOOLEAN /\ line' \in BOOLEAN
      BY <1>0, <3>1 DEF SoundTypes, RecType, HeardType
    <3> QED BY <1>2, <3>1, <3>2
  <2> QED BY <2>1, <2>2 DEF RecIsr
<1>6. SoundTypes'
  BY <1>0, <1>1, <1>3, <1>4, <1>5 DEF SoundTypes, UiType, WavType, PlayType, CodecType, JackType, HeardType
<1>7. Places'
  BY <1>0, <1>1 DEF Places, At, Beginning
<1>8. Streams'
  <2>1. \/ rec'.running /\ "on" \in vbc' /\ line'
        \/ ~rec'.running /\ "on" \notin vbc' /\ ~line' /\ dma'["rec"] = "off"
    <3>1. line /\ "on" \in vbc
      BY <1>0, <1>2 DEF Streams
    <3>2. vbc' = vbc \ {"rec", "on"} => "on" \notin vbc'
      OBVIOUS
    <3> QED BY <1>5, <3>1, <3>2
  <2> QED BY <1>0, <1>1, <1>2, <1>3, <2>1 DEF Streams, At
<1>9. Powered'
  BY <1>0, <1>1, <1>2, <1>5 DEF Powered, NoSound, At
<1>10. Accounts'
  <2>1. ~Beginning /\ ui.at # "header"
    BY <1>0, <1>2 DEF Places, At
  <2> QED BY <1>0, <1>1, <1>2, <1>4, <2>1 DEF Accounts, At, Beginning
<1> QED BY <1>6, <1>7, <1>8, <1>9, <1>10 DEF SoundInv

\* The interrupt of a channel that plays, up to its three outcomes.
LEMMA PlayIsrInv ==
  ASSUME SoundInv, Isr, PlayIsr PROVE SoundInv'
<1>0. SoundTypes /\ Places /\ Streams /\ Powered /\ Accounts
  BY DEF SoundInv
<1> DEFINE ended == {ch \in Stereo : dma[ch] \in {"done", "failed"}}
           completed == play.completed \cup {ch \in Stereo : dma[ch] = "done"}
           error == \E ch \in Stereo : dma[ch] = "failed"
           acked == [ch \in DOMAIN dma |-> IF ch \in ended THEN "off" ELSE dma[ch]]
<1>1. /\ ui' = ui /\ wav' = wav /\ codec' = codec /\ bias' = bias /\ jack' = jack /\ heard' = heard
      /\ rec' = rec /\ spoilt' = spoilt
  BY DEF Isr, PlayIsr
<1>2. play.running /\ wav.playing /\ ~wav.recording /\ ~rec.running /\ dma["rec"] = "off"
  <2>1. \E ch \in Stereo : dma[ch] \in {"done", "failed"}
    BY DEF PlayIsr
  <2> QED BY <1>0, <2>1 DEF Streams, Places
<1>3. ~Beginning /\ ~At("close") /\ ~At("header") /\ ~At("drain") /\ ~At("start")
  BY <1>0, <1>2 DEF Places, Beginning, At
<1>4. Places'
  BY <1>0, <1>1 DEF Places, At, Beginning
<1>5. CASE ~error /\ ~BothDone(completed) /\ play' = [play EXCEPT !.completed = completed]
           /\ dma' = acked /\ ring' = ring /\ vbc' = vbc /\ line' = line
  <2>1. completed \in SUBSET Stereo
    BY <1>0 DEF SoundTypes, PlayType
  <2>2. /\ play' \in [running : BOOLEAN, completed : SUBSET Stereo, eof : BOOLEAN,
                      draining : BOOLEAN, units : Nat]
        /\ play'.running = play.running /\ play'.eof = play.eof /\ play'.units = play.units
        /\ play'.draining = play.draining /\ play'.completed = completed
    <3> HIDE DEF completed
    <3> QED BY <1>0, <1>5, <2>1 DEF SoundTypes, PlayType
  <2>3. /\ DmaType' /\ dma'["rec"] = dma["rec"]
        /\ \A ch \in Stereo : dma'[ch] = IF dma[ch] \in {"done", "failed"} THEN "off" ELSE dma[ch]
    BY <1>0, <1>5 DEF SoundTypes, DmaType, Stereo
  <2>4. SoundTypes'
    BY <1>0, <1>1, <1>5, <2>2, <2>3
       DEF SoundTypes, UiType, WavType, RingType, PlayType, RecType, CodecType, JackType, HeardType
  <2>5. Streams'
    BY <1>0, <1>1, <1>2, <1>5, <2>2, <2>3 DEF Streams, At
  <2>6. Powered'
    BY <1>0, <1>1, <2>2 DEF Powered, NoSound, At
  <2>7. \A ch \in Stereo : /\ dma'[ch] = "busy" => dma[ch] = "busy"
                           /\ dma'[ch] \in {"done", "off"} => dma[ch] \in {"done", "off"}
                           /\ ch \in completed => dma'[ch] = "off"
    BY <1>0, <1>2, <1>5, <2>3 DEF Accounts
  <2> HIDE DEF completed, error, acked
  <2>8. Accounts'
    BY <1>0, <1>1, <1>2, <1>3, <1>5, <2>2, <2>7 DEF Accounts, At, Beginning
  <2> QED BY <1>4, <2>4, <2>5, <2>6, <2>8 DEF SoundInv
<1>6. CASE play_hw_stop /\ ring' = ring
  <2>1. /\ vbc' = vbc \ {"play", "on"} /\ ~line' /\ line' \in BOOLEAN
        /\ dma' = [ch \in DOMAIN dma |-> IF ch \in Stereo THEN "off" ELSE dma[ch]]
        /\ play' = [play EXCEPT !.running = FALSE, !.completed = {}]
    BY <1>2, <1>6 DEF play_hw_stop, IrqUpdate
  <2>2. PlayType' /\ ~play'.running
    BY <1>0, <2>1 DEF SoundTypes, PlayType
  <2>3. DmaType' /\ (\A ch \in Stereo : dma'[ch] = "off") /\ dma'["rec"] = dma["rec"]
    BY <1>0, <2>1 DEF SoundTypes, DmaType, Stereo
  <2>4. SoundTypes'
    BY <1>0, <1>1, <1>6, <2>1, <2>2, <2>3
       DEF SoundTypes, UiType, WavType, RingType, RecType, CodecType, JackType, HeardType
  <2>5. Streams'
    BY <1>0, <1>1, <1>2, <2>1, <2>2, <2>3 DEF Streams, At
  <2>6. Powered'
    BY <1>0, <1>1, <1>2, <2>2 DEF Powered, NoSound, At
  <2>7. Accounts'
    BY <1>0, <1>1, <1>2, <1>3, <1>6, <2>2 DEF Accounts, At, Beginning
  <2> QED BY <1>4, <2>4, <2>5, <2>6, <2>7 DEF SoundInv
<1>7. CASE ~error /\ BothDone(completed) /\ ArmStereo(play) /\ vbc' = vbc /\ line' = line
  <2>1. play.eof \in BOOLEAN /\ play.running \in BOOLEAN
    BY <1>0 DEF SoundTypes, PlayType
  <2>2. /\ PlayType' /\ RingType' /\ DmaType'
        /\ play'.running /\ play'.completed = {}
        /\ ring'.head = ring.head /\ ring'.tail = ring.tail + play'.units
        /\ play'.units \in Nat
        /\ play'.eof => play.eof \/ (wav.eof /\ ring'.tail = ring.head)
        /\ play.eof => play'.units = 0
        /\ play'.draining => play'.eof /\ play'.units = 0
        /\ \A ch \in Stereo : dma'[ch] = "busy"
        /\ dma'["rec"] = dma["rec"]
    BY <1>0, <1>7, <2>1, Armed
  <2>3. \A ch \in Stereo : heard[ch] = ring.tail
    <3> SUFFICES ASSUME NEW ch \in Stereo PROVE heard[ch] = ring.tail
      OBVIOUS
    <3>1. ch \in play.completed \/ dma[ch] = "done"
      BY <1>7 DEF BothDone
    <3> QED BY <1>0, <1>2, <3>1 DEF Accounts
  <2>4. SoundTypes'
    BY <1>0, <1>1, <1>7, <2>2
       DEF SoundTypes, UiType, WavType, RecType, CodecType, JackType, HeardType
  <2>5. Streams'
    BY <1>0, <1>1, <1>2, <1>7, <2>2 DEF Streams, At
  <2>6. Powered'
    BY <1>0, <1>1, <1>2, <2>2 DEF Powered, NoSound, At
  <2>7. play'.eof => wav'.eof /\ ring'.head = ring'.tail
    <3>1. ring.tail \in Nat
      BY <1>0 DEF SoundTypes, RingType
    <3>2. CASE play.eof
      <4>1. wav.eof /\ ring.head = ring.tail /\ play'.units = 0
        BY <1>0, <1>2, <2>2, <3>2 DEF Accounts
      <4> QED BY <1>1, <2>2, <3>1, <4>1
    <3>3. CASE ~play.eof
      BY <1>1, <2>2, <3>3
    <3> QED BY <3>2, <3>3
  <2>8. \A ch \in Stereo : heard'[ch] + play'.units = ring'.tail
    BY <1>1, <2>2, <2>3
  <2>9. Accounts'
    BY <1>1, <1>2, <1>3, <2>2, <2>7, <2>8 DEF Accounts, At, Beginning
  <2> QED BY <1>4, <2>4, <2>5, <2>6, <2>9 DEF SoundInv
<1> QED BY <1>5, <1>6, <1>7 DEF PlayIsr

LEMMA QuietInv ==
  ASSUME SoundInv, UNCHANGED soundvars PROVE SoundInv'
<1>0. SoundTypes /\ Places /\ Streams /\ Powered /\ Accounts
  BY DEF SoundInv
<1>1. SoundTypes'
  <2>1. /\ UiType' /\ WavType' /\ RingType' /\ PlayType' /\ RecType' /\ DmaType'
       /\ CodecType' /\ JackType' /\ HeardType'
    BY <1>0 DEF SoundTypes, UiType, WavType, RingType, PlayType, RecType, DmaType, CodecType,
       JackType, HeardType, pcmvars, soundvars
  <2> QED BY <2>1 DEF SoundTypes
<1>2. Places'
  BY <1>0 DEF SoundTypes, Places, Beginning, Uses, Records, At, pcmvars, soundvars
<1>3. Streams'
  BY <1>0 DEF SoundTypes, Places, Streams, Beginning, At, pcmvars, Stereo, soundvars
<1>4. Powered'
  BY <1>0 DEF SoundTypes, Places, Streams, Powered, NoSound, Beginning, Records, Uses, At, pcmvars,
     soundvars
<1>5. Accounts'
  BY <1>0 DEF SoundTypes, Places, Streams, Accounts, Beginning, Records, Uses, At, pcmvars, Stereo,
     soundvars
<1> QED BY <1>1, <1>2, <1>3, <1>4, <1>5 DEF SoundInv


LEMMA SoundNextInv ==
  ASSUME SoundInv, [SoundNext]_soundvars
  PROVE  SoundInv'
<1>1. CASE Ui
  BY <1>1, StopPlayingInv, StopRecordingInv, LeaveRouteInv, DrainInv, CloseInv, OpensInv, RefillInv,
     ToneInv, NewRecordingInv, PowerInv, RouteInv, StartPlayingInv, StartRecordingInv, FmOnInv,
     FmOffInv, RestInv, PumpInv, PumpedInv DEF Ui
<1>2. CASE EndThread
  BY <1>2, HsSeesInv, HsPowerInv, HsReadyInv, HsLetsGoInv, HsPowerOffInv DEF EndThread
<1>3. CASE Isr
  BY <1>3, RecIsrInv, PlayIsrInv DEF Isr
<1>4. CASE Plug
  BY <1>4, PlugInv
<1>5. CASE DmaBlocks
  BY <1>5, EndsInv DEF DmaBlocks
<1>6. CASE \E then \in Uses : Ask(then)
  BY <1>6, AsksInv
<1>7. CASE \E ch \in Stereo \cup {"rec"} : BlockFails(ch)
  BY <1>7, FailsInv
<1>8. CASE UNCHANGED soundvars
  BY <1>8, QuietInv
<1> QED BY <1>1, <1>2, <1>3, <1>4, <1>5, <1>6, <1>7, <1>8 DEF SoundNext, Uses

\* Whatever the user, the plug and failing DMA blocks do, and in whatever order the
\* users of the codec come and go: it is on while any of them needs it and off when
\* none does, and the bits of VBC_CTRL and the interrupt's line follow the streams
\* (audio.c and pcm.c).  For every file and every size of the ring.  The headset may
\* let go of the codec between the two halves of audio_play(): then the codec is right
\* for everyone but that one playback, and again for all once it has been stopped.
THEOREM CodecIsRight == SoundSpec => []CodecFollows
<1>1. SoundInv => CodecFollows
  <2> SUFFICES ASSUME SoundInv PROVE CodecFollows
    OBVIOUS
  <2>1. SoundTypes /\ Streams /\ Powered
    BY DEF SoundInv
  <2>2. line \in BOOLEAN /\ line = (play.running \/ rec.running)
    BY <2>1 DEF SoundTypes, HeardType, Streams
  <2>3. ~codec.cut => ("on" \in vbc) = (play.running \/ rec.running)
    <3>1. play.running \in BOOLEAN /\ rec.running \in BOOLEAN
      BY <2>1 DEF SoundTypes, PlayType, RecType
    <3> QED BY <2>1, <3>1 DEF Streams
  <2>4. rec.running => codec.on
    BY <2>1 DEF Powered
  <2> QED BY <2>1, <2>2, <2>3, <2>4 DEF CodecFollows, Powered, NoSound
<1>2. SoundInv /\ [SoundNext]_soundvars => SoundInv'
  BY SoundNextInv
<1> QED BY <1>1, <1>2, Begins, PTL DEF SoundSpec

\* A file that ends by itself was played whole on both channels, and the header of a
\* recording counts what was taken (wavio.c): for every length of file, ring and chunk.
THEOREM PlaysItAll == SoundSpec => PlayedWhole
<1>1. SoundInv /\ [SoundNext]_soundvars
      => [/\ At("header") /\ ~wav.failed => wav.total = ring.head
          /\ Isr /\ play.running /\ play.draining /\ ~play'.running
               /\ ~(\E ch \in Stereo : dma[ch] = "failed")
             => \A ch \in Stereo : heard[ch] = ring.head]_soundvars
  <2> SUFFICES ASSUME SoundInv
               PROVE  /\ At("header") /\ ~wav.failed => wav.total = ring.head
                      /\ Isr /\ play.running /\ play.draining /\ ~play'.running
                           /\ ~(\E ch \in Stereo : dma[ch] = "failed")
                         => \A ch \in Stereo : heard[ch] = ring.head
    OBVIOUS
  <2>1. Streams /\ Accounts /\ Places /\ SoundTypes
    BY DEF SoundInv
  <2>2. At("header") /\ ~wav.failed => wav.total = ring.head
    BY <2>1 DEF Accounts
  <2>3. ASSUME Isr, play.running, play.draining, ~play'.running,
               ~(\E ch \in Stereo : dma[ch] = "failed"), NEW ch \in Stereo
        PROVE  heard[ch] = ring.head
    <3>1. ~RecIsr
      BY <2>1, <2>3 DEF RecIsr, Streams, Places
    <3>2. ch \in play.completed \/ dma[ch] = "done"
      <4>1. PlayIsr
        BY <2>3, <3>1 DEF Isr
      <4>2. play.completed \cup {x \in Stereo : dma[x] = "done"} = Stereo
        BY <2>1, <2>3, <4>1 DEF PlayIsr, BothDone, ArmStereo, SoundTypes, PlayType
      <4> QED BY <4>2
    <3> QED BY <2>1, <2>3, <3>2 DEF Accounts
  <2> QED BY <2>2, <2>3
<1>2. SoundInv /\ [SoundNext]_soundvars => SoundInv'
  BY SoundNextInv
<1> QED BY <1>1, <1>2, Begins, PTL DEF SoundSpec, PlayedWhole
-----------------------------------------------------------------------------
(* The notes *)

\* A set of natural numbers has a least one.
LEMMA LeastNumber ==
  ASSUME NEW T \in SUBSET Nat, T # {}
  PROVE  \E x \in T : \A y \in T : x <= y
<1>1. PICK R : R = StrictSubsetOrdering(Nat)
  OBVIOUS
<1>2. PICK F : F = FiniteSubsetsOf(Nat)
  OBVIOUS
<1>3. IsWellFoundedOn(R, F)
  BY <1>1, <1>2, FS_StrictSubsetOrderingWellFounded
<1>4. PICK U : U = {0 .. n : n \in T}
  OBVIOUS
<1>5. U \subseteq F /\ U # {}
  <2>1. \A n \in T : 0 .. n \in SUBSET Nat /\ IsFiniteSet(0 .. n)
    BY FS_Interval
  <2>2. \A n \in T : 0 .. n \in F
    BY ONLY <1>2, <2>1 DEF FiniteSubsetsOf
  <2>3. QED
    BY ONLY <1>4, <2>2, T # {}
<1>6. PICK X \in U : \A Y \in U : <<Y, X>> \notin R
  BY ONLY <1>3, <1>5, WFMin
<1>7. PICK x \in T : X = 0 .. x
  BY <1>4, <1>6
<1>8. ASSUME NEW y \in T PROVE x <= y
  <2>1. x \in Nat /\ y \in Nat
    OBVIOUS
  <2>2. SUFFICES ASSUME y < x PROVE FALSE
    BY <2>1
  <2>3. 0 .. y \in U
    BY <1>4
  <2>4. 0 .. y # 0 .. x /\ 0 .. y \subseteq 0 .. x
    <3>1. x \in 0 .. x /\ x \notin 0 .. y
      BY ONLY <2>1, <2>2
    <3>2. QED
      BY ONLY <2>1, <2>2, <3>1
  <2>5. 0 .. y \in SUBSET Nat /\ X \in SUBSET Nat
    BY ONLY <1>7, <2>1
  <2>6. <<0 .. y, X>> \in R
    BY ONLY <1>1, <1>7, <2>4, <2>5 DEF StrictSubsetOrdering
  <2>7. QED
    BY ONLY <1>6, <2>3, <2>6
<1>9. QED
  BY <1>8

OnCard(f) == {n \in Number : f[n] # NoFile}
Named(dir) == {dir[i] : i \in Number} \ {0}

\* The directory and the files are those of one card: a name is there once.
Directory(dir, f) ==
  /\ dir \in [Number -> 0 .. MaxNumber] /\ f \in [Number -> Text \cup {NoFile}]
  /\ \A i, j \in Number : i # j /\ dir[i] = dir[j] => dir[i] = 0
  /\ Named(dir) = OnCard(f)

\* And what is listed is on the card: all of it, unless the listing left notes out.
NotesInv ==
  /\ Directory(entries, file)
  /\ list \subseteq OnCard(file) /\ number \in Nat
  /\ screen # "away" /\ ~left => list = OnCard(file)

\* The highest of some numbers of notes.
LEMMA Highest ==
  ASSUME NEW S \in SUBSET Number, S # {}
  PROVE  Max(S) \in S /\ \A n \in S : n <= Max(S)
<1>1. PICK T : T = {MaxNumber - n : n \in S}
  OBVIOUS
<1>2. MaxNumber \in Nat
  BY NotesAssumption
<1>3. T \in SUBSET Nat /\ T # {}
  <2>1. \A n \in S : MaxNumber - n \in Nat
    BY <1>2 DEF Number
  <2>2. QED
    BY <1>1, <2>1
<1>4. PICK t \in T : \A x \in T : t <= x
  BY <1>3, LeastNumber
<1>5. PICK m \in S : t = MaxNumber - m
  BY <1>1, <1>4
<1>6. ASSUME NEW n \in S PROVE m >= n
  <2>1. MaxNumber - n \in T /\ MaxNumber - m <= MaxNumber - n
    BY <1>1, <1>4, <1>5
  <2>2. m \in Nat /\ n \in Nat
    BY DEF Number
  <2>3. QED
    BY <1>2, <2>1, <2>2
<1>7. Max(S) \in S /\ \A n \in S : Max(S) >= n
  BY <1>6 DEF Max
<1>8. QED
  BY <1>7 DEF Number

\* A listing that leaves nothing out is of the whole card.
LEMMA Loaded ==
  ASSUME NEW dir, NEW f, Directory(dir, f), Load(dir)
  PROVE  list' \subseteq OnCard(f) /\ (~left' => list' = OnCard(f))
<1>1. PICK k \in 0 .. MaxNumber :
        /\ list' = {dir[i] : i \in 1 .. k} \ {0}
        /\ left' = ({dir[i] : i \in 1 .. k} \ {0} # {dir[i] : i \in 1 .. MaxNumber} \ {0})
  BY DEF Load
<1>2. 1 .. k \subseteq Number
  BY NotesAssumption DEF Number
<1>3. QED
  BY <1>1, <1>2 DEF Directory, Named, Number

\* A new note finds a free entry, as there are as many entries as numbers.
LEMMA FreeEntry ==
  ASSUME NEW dir \in [Number -> 0 .. MaxNumber], NEW n \in Number, n \notin Named(dir),
         \A i, j \in Number : i # j /\ dir[i] = dir[j] => dir[i] = 0
  PROVE  \E i \in Number : dir[i] = 0 /\ \A j \in Number : dir[j] = 0 => i <= j
<1>1. PICK Z : Z = {i \in Number : dir[i] = 0}
  OBVIOUS
<1>2. Z # {}
  <2>1. SUFFICES ASSUME Z = {} PROVE FALSE
    OBVIOUS
  <2>2. dir \in [Number -> Number \ {n}]
    BY <1>1, <2>1 DEF Named, Number
  <2>3. IsFiniteSet(Number) /\ Cardinality(Number) \in Nat
    BY FS_Interval, FS_CardinalityType, NotesAssumption DEF Number
  <2>4. IsFiniteSet(Number \ {n}) /\ Cardinality(Number \ {n}) = Cardinality(Number) - 1
    BY <2>3, FS_RemoveElement
  <2>5. Cardinality(Number \ {n}) < Cardinality(Number)
    BY <2>3, <2>4
  <2>6. PICK i, j \in Number : i # j /\ dir[i] = dir[j]
    BY ONLY <2>2, <2>3, <2>4, <2>5, FS_PigeonHole
  <2>7. QED
    BY <1>1, <2>1, <2>6
<1>3. Z \in SUBSET Nat
  BY <1>1 DEF Number
<1>4. PICK i \in Z : \A j \in Z : i <= j
  BY ONLY <1>2, <1>3, LeastNumber
<1>5. QED
  BY <1>1, <1>4

\* A note that is saved has an entry, its own or the first free one.
LEMMA NoteEntered ==
  ASSUME Directory(entries, file), NEW n \in Number, NEW t \in Text
  PROVE  Directory(Entered(n), [file EXCEPT ![n] = t])
<1>1. [file EXCEPT ![n] = t] \in [Number -> Text \cup {NoFile}]
      /\ OnCard([file EXCEPT ![n] = t]) = OnCard(file) \cup {n}
  BY NotesAssumption DEF Directory, OnCard
<1>2. n \in Nat /\ n # 0
  BY DEF Number
<1>3. CASE n \in Named(entries)
  <2>1. Entered(n) = entries
    BY <1>3 DEF Entered, Named
  <2>2. QED
    BY <1>1, <1>3, <2>1 DEF Directory
<1>4. CASE n \notin Named(entries)
  <2>1. PICK free : free = (CHOOSE i \in Number :
            entries[i] = 0 /\ \A j \in Number : entries[j] = 0 => i <= j)
    OBVIOUS
  <2>2. free \in Number /\ entries[free] = 0
    BY <1>4, <2>1, FreeEntry DEF Directory
  <2>3. Entered(n) = [entries EXCEPT ![free] = n]
    BY <1>2, <1>4, <2>1 DEF Entered, Named
  <2>4. [entries EXCEPT ![free] = n] \in [Number -> 0 .. MaxNumber]
    <3>1. n \in 0 .. MaxNumber
      BY DEF Number
    <3>2. QED
      BY <3>1 DEF Directory
  <2>5. Named([entries EXCEPT ![free] = n]) = Named(entries) \cup {n}
    BY <1>2, <2>2 DEF Directory, Named
  <2>6. \A i, j \in Number : i # j /\ Entered(n)[i] = Entered(n)[j] => Entered(n)[i] = 0
    BY <1>4, <1>2, <2>2, <2>3 DEF Directory, Named
  <2>7. QED
    BY <1>1, <2>3, <2>4, <2>5, <2>6 DEF Directory
<1>5. QED
  BY <1>3, <1>4

LEMMA NoteDeleted ==
  ASSUME Directory(entries, file), Exists(number), number \in Number
  PROVE  Directory([i \in Number |-> IF entries[i] = number THEN 0 ELSE entries[i]],
                   [file EXCEPT ![number] = NoFile])
<1>1. PICK d : d = [i \in Number |-> IF entries[i] = number THEN 0 ELSE entries[i]]
  OBVIOUS
<1>2. PICK f : f = [file EXCEPT ![number] = NoFile]
  OBVIOUS
<1>3. d \in [Number -> 0 .. MaxNumber] /\ f \in [Number -> Text \cup {NoFile}]
  BY <1>1, <1>2, NotesAssumption DEF Directory
<1>4. \A i, j \in Number : i # j /\ d[i] = d[j] => d[i] = 0
  BY <1>1 DEF Directory
<1>5. OnCard(f) = OnCard(file) \ {number}
  BY <1>2 DEF Directory, OnCard
<1>6. Named(d) = Named(entries) \ {number}
  BY <1>1 DEF Directory, Named
<1>7. QED
  BY <1>1, <1>2, <1>3, <1>4, <1>5, <1>6 DEF Directory

LEMMA NotesInitInv == NotesInit => NotesInv
<1> SUFFICES ASSUME NotesInit PROVE NotesInv
  OBVIOUS
<1>1. Named(entries) = OnCard(file)
  <2>1. \A n \in Number : file[n] # NoFile <=> n \in {entries[i] : i \in Number}
    BY DEF NotesInit
  <2>2. {entries[i] : i \in Number} \subseteq 0 .. MaxNumber
    BY DEF NotesInit
  <2>3. Number = (0 .. MaxNumber) \ {0}
    BY NotesAssumption DEF Number
  <2>4. QED
    BY <2>1, <2>2, <2>3 DEF Named, OnCard
<1>2. QED
  BY <1>1, NotesAssumption DEF NotesInit, NotesInv, Directory

\* The number a new note takes is not one of the list.
LEMMA NumberIsNew ==
  ASSUME NotesInv
  PROVE  NextNumber \notin list
<1>1. list \in SUBSET Number
  BY DEF NotesInv, OnCard
<1>2. CASE list = {}
  BY <1>2
<1>3. CASE list # {}
  <2>1. Max(list) \in Number /\ \A n \in list : n <= Max(list)
    BY <1>1, <1>3, Highest
  <2>2. Max(list) \in Nat /\ NextNumber = Max(list) + 1
    BY <1>3, <2>1 DEF NextNumber, Number
  <2>3. QED
    BY <2>1, <2>2
<1>4. QED
  BY <1>2, <1>3

\* A step changes a file that it may change, and leaves the list right.
NoteStep ==
  /\ NotesInv'
  /\ \A n \in Number : Exists(n) /\ file'[n] # file[n] /\ ~left => Meant(n)

LEMMA NoteSaved ==
  ASSUME NotesInv, Save
  PROVE  NoteStep
<1>1. PICK t \in Text, opened \in Outcomes, written \in Outcomes :
        LET n == IF number = 0 THEN NextNumber ELSE number
        IN  /\ n \in Number
            /\ IF number = 0 /\ t = Empty
               THEN Shows("list") /\ UNCHANGED <<file, entries, list, left>>
               ELSE IF ~opened
               THEN UNCHANGED <<screen, file, entries, list, left>>
               ELSE /\ Shows("list")
                    /\ file' = [file EXCEPT ![n] = IF written THEN t ELSE Empty]
                    /\ entries' = Entered(n)
                    /\ Load(entries')
  BY DEF Save
<1>2. screen = "edit" /\ number' = number
  BY DEF Save
<1>3. CASE UNCHANGED <<file, entries, list, left>>
  BY <1>2, <1>3 DEF NoteStep, NotesInv, Directory, Named, OnCard, Exists
<1>4. ASSUME NEW n \in Number, n = (IF number = 0 THEN NextNumber ELSE number),
             file' = [file EXCEPT ![n] = IF written THEN t ELSE Empty],
             entries' = Entered(n), Load(entries')
      PROVE  NoteStep
  <2>1. Directory(entries', file')
    <3>1. (IF written THEN t ELSE Empty) \in Text
      BY NotesAssumption
    <3>2. QED
      BY <1>4, <3>1, NoteEntered DEF NotesInv
  <2>2. list' \subseteq OnCard(file') /\ (~left' => list' = OnCard(file'))
    BY <1>4, <2>1, Loaded
  <2>3. NotesInv'
    <3>1. Directory(entries, file)' /\ OnCard(file)' = OnCard(file')
      BY <2>1 DEF Directory, Named, OnCard, Number
    <3>2. QED
      BY <1>2, <2>2, <3>1 DEF NotesInv
  <2>4. ASSUME NEW m \in Number, Exists(m), file'[m] # file[m], ~left
        PROVE  Meant(m)
    <3>1. m = n
      BY <1>4, <2>4 DEF NotesInv, Directory
    <3>2. m \in list
      BY <1>2, <2>4 DEF NotesInv, OnCard, Exists
    <3>3. number # 0
      BY <1>4, <3>1, <3>2, NumberIsNew
    <3>4. QED
      BY <1>2, <1>4, <3>1, <3>3 DEF Meant
  <2>5. QED
    BY <2>3, <2>4 DEF NoteStep
<1>5. QED
  BY <1>1, <1>3, <1>4

LEMMA NoteDeletes ==
  ASSUME NotesInv, DeleteYes
  PROVE  NoteStep
<1>1. PICK done \in Outcomes :
        IF done /\ Exists(number)
        THEN /\ file' = [file EXCEPT ![number] = NoFile]
             /\ entries' = [i \in Number |-> IF entries[i] = number THEN 0 ELSE entries[i]]
        ELSE UNCHANGED <<file, entries>>
  BY DEF DeleteYes
<1>2. screen = "confirm" /\ number' = number /\ Load(entries')
  BY DEF DeleteYes
<1>3. Directory(entries', file')
  <2>1. CASE number \in Number
    BY <1>1, <2>1, NoteDeleted DEF NotesInv
  <2>2. CASE number \notin Number
    <3>1. [file EXCEPT ![number] = NoFile] = file
      BY <2>2 DEF NotesInv, Directory
    <3>2. \A i \in Number : entries[i] = number => entries[i] = 0
      BY <2>2, NotesAssumption DEF NotesInv, Directory, Number
    <3>3. [i \in Number |-> IF entries[i] = number THEN 0 ELSE entries[i]] = entries
      BY <3>2 DEF NotesInv, Directory
    <3>4. QED
      BY <1>1, <3>1, <3>3 DEF NotesInv
  <2>3. QED
    BY <2>1, <2>2
<1>4. list' \subseteq OnCard(file') /\ (~left' => list' = OnCard(file'))
  BY <1>2, <1>3, Loaded
<1>5. NotesInv'
  <2>1. Directory(entries, file)' /\ OnCard(file)' = OnCard(file')
    BY <1>3 DEF Directory, Named, OnCard, Number
  <2>2. QED
    BY <1>2, <1>4, <2>1 DEF NotesInv
<1>6. ASSUME NEW m \in Number, file'[m] # file[m] PROVE Meant(m)
  BY <1>1, <1>2, <1>6 DEF Meant, NotesInv, Directory
<1>7. QED
  BY <1>5, <1>6 DEF NoteStep

LEMMA NotesStep ==
  ASSUME NotesInv, [NotesNext]_notesvars
  PROVE  NoteStep
<1> USE DEF NoteStep, NotesInv
<1>0. ASSUME UNCHANGED <<file, entries>> 
      PROVE  Directory(entries, file)' /\ OnCard(file)' = OnCard(file)
  BY <1>0 DEF Directory, Named, OnCard
<1>1. CASE Enter
  <2>1. list' \subseteq OnCard(file) /\ (~left' => list' = OnCard(file))
    BY <1>1, Loaded DEF Enter
  <2>2. QED
    BY <1>0, <1>1, <2>1 DEF Enter
<1>2. CASE Leave
  BY <1>0, <1>2 DEF Leave, Shows
<1>3. CASE OpenNew
  BY <1>0, <1>3 DEF OpenNew, Shows
<1>4. CASE Open
  <2>1. \A n \in list : n \in Nat
    BY DEF OnCard, Number
  <2>2. QED
    BY <1>0, <1>4, <2>1 DEF Open, Shows
<1>5. CASE Discard
  BY <1>0, <1>5 DEF Discard, Shows
<1>6. CASE Save
  BY <1>6, NoteSaved
<1>7. CASE AskDelete
  <2>1. \A n \in list : n \in Nat
    BY DEF OnCard, Number
  <2>2. QED
    BY <1>0, <1>7, <2>1 DEF AskDelete, Shows
<1>8. CASE DeleteYes
  BY <1>8, NoteDeletes
<1>9. CASE DeleteNo
  BY <1>0, <1>9 DEF DeleteNo, Shows
<1>10. CASE UNCHANGED notesvars
  BY <1>0, <1>10 DEF notesvars
<1>11. QED
  BY <1>1, <1>2, <1>3, <1>4, <1>5, <1>6, <1>7, <1>8, <1>9, <1>10 DEF NotesNext

\* A note is changed only by saving that note, and deleted only after the question about
\* it: saved() and delete_yes() of notes.c, for every number of notes, every limit of
\* the list and a card whose calls may fail.
THEOREM NotesAreKept == NotesSpec => NotesKept
<1>1. NotesInv /\ [NotesNext]_notesvars => NotesInv'
  BY NotesStep DEF NoteStep
<1>2. NotesInv /\ [NotesNext]_notesvars
        => [\A n \in Number : Exists(n) /\ file'[n] # file[n] /\ ~left => Meant(n)]_notesvars
  BY NotesStep DEF NoteStep
<1>3. QED
  BY <1>1, <1>2, NotesInitInv, PTL DEF NotesSpec, NotesKept
=============================================================================
