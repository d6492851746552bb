----------------------------- MODULE EvdevProofs -----------------------------
(***************************************************************************)
(* Grabs leave no key stuck: Spec => []Unstuck; a keyboard comes to believe *)
(* what is held on its device and is told of its motion as it was:         *)
(* Spec => []Believed and Spec => []Grouped, for any nodes, codes, motion, *)
(* queues and bounds.                                                      *)
(***************************************************************************)
EXTENDS Evdev, SequenceTheorems, FiniteSetTheorems, TLAPS

-----------------------------------------------------------------------------
(* The inductive invariant.                                                *)

Fields == {"node", "open", "gone", "owner", "queue", "grabbed", "data", "pending",
           "heard", "since", "owed", "sound"}

Shaped(e) == DOMAIN e = Fields /\ e.node \in Node

TableInv == /\ table \in Seq(Range(table))
            /\ \A i \in DOMAIN table : Shaped(table[i])

\* Only manage_device is anywhere but at its beginning, and only while there are
\* devices to manage.
LoopInv == /\ DOMAIN loop = {"at", "grab", "todo", "ready", "client", "found", "removed"}
           /\ loop.todo \in Seq(DOMAIN table)
           /\ loop.todo = <<>> => loop.grab = "check"
           /\ loop.at \in {"start", "devices"} => loop.todo = <<>>

NodesInv == /\ present \subseteq Node /\ announced \in Seq(Node)
            /\ down \in [Node -> SUBSET RawKey] /\ seen \in [Node -> SUBSET RawKey]
            /\ raced \in [Node -> SUBSET RawKey]

\* What the system believes held and is not, it believes because of a race.
Residual == \A n \in Node : seen[n] \subseteq down[n] \cup raced[n]

\* Between the last look at the keys and the grab only a race adds to what is believed.
Racing == loop.todo # <<>> /\ loop.grab = "grab" =>
            Dev.gone \/ seen[Dev.node] \subseteq raced[Dev.node]

EvdevInv == TableInv /\ LoopInv /\ NodesInv /\ Residual /\ Racing /\ Unstuck

-----------------------------------------------------------------------------
(* Sequences and sets of indices.                                          *)

LEMMA IsSequence ==
  ASSUME NEW n \in Nat, NEW t, t = [i \in 1 .. n |-> t[i]]
  PROVE  t \in Seq(Range(t)) /\ DOMAIN t = 1 .. n /\ Len(t) = n
<1>1. t \in [1 .. n -> Range(t)]
  BY DEF Range
<1>2. t \in Seq(Range(t))
  BY <1>1, SeqDef
<1> QED
  BY <1>1, <1>2, LenProperties

LEMMA TableDomain ==
  ASSUME TableInv
  PROVE  Len(table) \in Nat /\ DOMAIN table = 1 .. Len(table)
BY LenProperties DEF TableInv

\* A table rewritten entry by entry is a table.
LEMMA SameShape ==
  ASSUME TableInv, NEW t, t = [i \in DOMAIN table |-> t[i]],
         \A i \in DOMAIN table : Shaped(t[i])
  PROVE  /\ t \in Seq(Range(t)) /\ DOMAIN t = DOMAIN table
         /\ \A i \in DOMAIN t : Shaped(t[i])
BY TableDomain, IsSequence

LEMMA HasLeast ==
  ASSUME NEW S \in SUBSET Nat, S # {}
  PROVE  \E u \in S : \A v \in S : u <= v
<1> DEFINE R == OpToRel(<, Nat)
<1>1. IsWellFoundedOn(R, Nat)
  BY NatLessThanWellFounded
<1> HIDE DEF R
<1>2. PICK u \in S : \A v \in S : <<v, u>> \notin R
  BY <1>1, WFMin
<1>3. ASSUME NEW v \in S PROVE ~(v < u)
  <2>1. v < u => <<v, u>> \in R
    BY DEF R, OpToRel
  <2> QED
    BY <2>1, <1>2
<1> QED
  BY <1>3

Ascending(f) == \A m, n \in DOMAIN f : m < n => f[m] < f[n]
Listed(S) == \E f \in [1 .. Cardinality(S) -> S] : Ascending(f)

\* Indices can be listed in ascending order: the least bound under which some set could
\* not is no least one.
LEMMA Lists ==
  ASSUME NEW m \in Nat, NEW S \in SUBSET (1 .. m)
  PROVE  Listed(S)
<1> DEFINE Bad == {b \in Nat : \E T \in SUBSET (1 .. b) : ~Listed(T)}
<1>1. ASSUME Bad # {} PROVE FALSE
  <2>1. PICK b \in Bad : \A c \in Bad : b <= c
    BY <1>1, HasLeast
  <2>2. PICK T \in SUBSET (1 .. b) : ~Listed(T)
    BY <2>1
  <2>31. b \in Nat
    BY <2>1
  <2>32. IsFiniteSet(1 .. b)
    BY <2>31, FS_Interval
  <2>3. b \in Nat /\ IsFiniteSet(1 .. b) /\ IsFiniteSet(T)
    BY <2>31, <2>32, FS_Subset
  <2>4. b # 0
    <3> SUFFICES ASSUME b = 0 PROVE FALSE
      OBVIOUS
    <3>1. T = {}
      OBVIOUS
    <3>11. Cardinality(T) = 0
      BY <3>1, FS_EmptySet
    <3>2. [n \in 1 .. 0 |-> n] \in [1 .. 0 -> T] /\ Ascending([n \in 1 .. 0 |-> n])
      BY DEF Ascending
    <3> QED
      BY <3>1, <3>11, <3>2, <2>2 DEF Listed
  <2> DEFINE U == T \ {b}
  <2>5. U \in SUBSET (1 .. (b - 1)) /\ b - 1 \in Nat /\ IsFiniteSet(U)
    BY <2>2, <2>3, <2>4, FS_Subset
  <2>6. b - 1 \notin Bad
    <3> HIDE DEF Bad
    <3> QED
      BY <2>1, <2>3, <2>4
  <2>7. Listed(U)
    BY <2>5, <2>6
  <2>8. b \in T
    BY <2>7, <2>2
  <2> DEFINE k == Cardinality(U)
  <2>9. k \in Nat /\ Cardinality(T) = k + 1
    BY <2>8, <2>3, <2>5, FS_RemoveElement, FS_CardinalityType
  <2>10. PICK f \in [1 .. k -> U] : Ascending(f)
    BY <2>7 DEF Listed
  <2> HIDE DEF U, k
  <2> DEFINE g == [n \in 1 .. (k + 1) |-> IF n = k + 1 THEN b ELSE f[n]]
  <2>11. \A n \in 1 .. k : f[n] \in T /\ f[n] \in Nat /\ f[n] < b
    <3> SUFFICES ASSUME NEW n \in 1 .. k PROVE f[n] \in T /\ f[n] \in Nat /\ f[n] < b
      OBVIOUS
    <3>1. f[n] \in U
      BY <2>10
    <3>2. f[n] \in T /\ f[n] \in 1 .. (b - 1)
      BY <3>1, <2>5 DEF U
    <3> QED
      BY <3>2, <2>3
  <2>12. g \in [1 .. (k + 1) -> T]
    BY <2>11, <2>8, <2>9
  <2>13. Ascending(g)
    <3> SUFFICES ASSUME NEW n \in 1 .. (k + 1), NEW o \in 1 .. (k + 1), n < o
                 PROVE  g[n] < g[o]
      BY DEF Ascending
    <3>1. n \in 1 .. k /\ g[n] = f[n]
      BY <2>9
    <3>2. CASE o = k + 1
      BY <3>1, <3>2, <2>11
    <3>3. CASE o # k + 1
      <4>1. o \in 1 .. k /\ g[o] = f[o]
        BY <3>3, <2>9
      <4>2. DOMAIN f = 1 .. k
        BY <2>10
      <4> QED
        BY <4>1, <4>2, <3>1, <2>10 DEF Ascending
    <3> QED
      BY <3>2, <3>3
  <2> QED
    BY <2>2, <2>9, <2>12, <2>13 DEF Listed
<1> QED
  BY <1>1

\* What is left of a compacted table are entries of the table, and no more.
LEMMA CompactedLeft ==
  ASSUME TableInv
  PROVE  /\ Compacted \in Seq(Range(Compacted))
         /\ Len(Compacted) \in Nat /\ Len(Compacted) <= Len(table)
         /\ \A n \in DOMAIN Compacted : \E i \in DOMAIN table : Compacted[n] = table[i]
<1> DEFINE left == {i \in DOMAIN table : table[i].open}
<1>1. Len(table) \in Nat /\ left \in SUBSET (1 .. Len(table))
  BY TableDomain
<1>2. Listed(left)
  BY <1>1, Lists
<1>3. Cardinality(left) \in Nat /\ Cardinality(left) <= Len(table)
  <2> DEFINE m == Len(table)
  <2>1. m \in Nat /\ left \in SUBSET (1 .. m)
    BY <1>1
  <2> HIDE DEF left, m
  <2>2. IsFiniteSet(1 .. m) /\ Cardinality(1 .. m) = m
    BY <2>1, FS_Interval
  <2>3. IsFiniteSet(left) /\ Cardinality(left) <= Cardinality(1 .. m)
    BY <2>1, <2>2, FS_Subset
  <2> QED
    BY <2>2, <2>3, FS_CardinalityType DEF m
<1> HIDE DEF left
<1> DEFINE order == CHOOSE f \in [1 .. Cardinality(left) -> left] : Ascending(f)
<1>4. order \in [1 .. Cardinality(left) -> left]
  BY <1>2 DEF Listed
<1>5. Compacted = [n \in DOMAIN order |-> table[order[n]]]
  BY DEF Compacted, left, order, Ascending
<1> HIDE DEF order
<1>6. Compacted = [n \in 1 .. Cardinality(left) |-> Compacted[n]]
  BY <1>4, <1>5
<1>7. \A n \in DOMAIN Compacted : order[n] \in DOMAIN table /\ Compacted[n] = table[order[n]]
  BY <1>4, <1>5, <1>1, TableDomain
<1> QED
  BY <1>3, <1>6, <1>7, IsSequence

-----------------------------------------------------------------------------
(* What steps have in common.                                              *)

LEMMA Initial ==
  ASSUME Init
  PROVE  EvdevInv
<1>1. table = <<>> /\ loop.todo = <<>> /\ DOMAIN table = {}
  BY DEF Init
<1>2. TableInv
  BY <1>1, EmptySeq DEF TableInv
<1>3. LoopInv
  BY <1>1 DEF Init, LoopInv
<1>4. NodesInv /\ Residual
  BY DEF Init, NodesInv, Residual
<1>5. Racing /\ Unstuck
  BY <1>1 DEF Racing, Unstuck, IsGrabbed, Live
<1> QED
  BY <1>2, <1>3, <1>4, <1>5 DEF EvdevInv

LEMMA DevListed ==
  ASSUME TableInv, LoopInv, loop.todo # <<>>
  PROVE  /\ Head(loop.todo) \in DOMAIN table /\ Tail(loop.todo) \in Seq(DOMAIN table)
         /\ Shaped(Dev)
BY HeadTailProperties DEF TableInv, LoopInv, Dev

\* The files of t that hold a grab did so before.
Under(t) ==
  \A i \in DOMAIN t : t[i].owner /\ ~t[i].gone =>
    \E j \in DOMAIN table : table[j].node = t[i].node /\ table[j].owner /\ ~table[j].gone

LEMMA StaysFree ==
  ASSUME Under(table'), NEW n, IsGrabbed(n)'
  PROVE  IsGrabbed(n)
BY DEF Under, IsGrabbed, Live

\* A step that changes nothing on any node and grabs none.
LEMMA Quiet ==
  ASSUME EvdevInv, UNCHANGED <<down, seen, raced>>, Under(table'),
         TableInv', LoopInv', NodesInv', Racing'
  PROVE  EvdevInv'
<1>1. Residual'
  BY DEF EvdevInv, Residual
<1>2. Unstuck'
  BY StaysFree DEF EvdevInv, Unstuck
<1> QED
  BY <1>1, <1>2 DEF EvdevInv

\* One that leaves the table alone.
LEMMA Untouched ==
  ASSUME EvdevInv, UNCHANGED <<down, seen, raced, table>>, LoopInv', NodesInv', Racing'
  PROVE  EvdevInv'
<1>1. Under(table')
  BY DEF Under
<1>2. TableInv'
  BY DEF EvdevInv, TableInv
<1> QED
  BY <1>1, <1>2, Quiet

\* One that changes entries in what no other part of the invariant is about.
Alike(e, f) == /\ Shaped(f) /\ f.node = e.node /\ f.gone = e.gone
               /\ (f.owner /\ ~f.gone => e.owner)

LEMMA Reworked ==
  ASSUME EvdevInv, table' = [i \in DOMAIN table |-> table'[i]],
         \A i \in DOMAIN table : Alike(table[i], table'[i])
  PROVE  /\ TableInv' /\ DOMAIN table' = DOMAIN table /\ Under(table')
         /\ LoopInv /\ UNCHANGED loop => LoopInv'
<1>1. /\ table' \in Seq(Range(table')) /\ DOMAIN table' = DOMAIN table
      /\ \A i \in DOMAIN table' : Shaped(table'[i])
  BY SameShape DEF EvdevInv, Alike
<1>2. TableInv'
  BY <1>1 DEF TableInv
<1>3. Under(table')
  BY <1>1 DEF Under, Alike
<1>4. LoopInv /\ UNCHANGED loop => LoopInv'
  BY <1>1 DEF LoopInv
<1> QED
  BY <1>1, <1>2, <1>3, <1>4

LEMMA ManagingInv ==
  ASSUME EvdevInv, loop.todo # <<>>, UNCHANGED World,
         NEW e, Alike(Dev, e), Becomes(e)
  PROVE  EvdevInv'
<1>1. /\ Head(loop.todo) \in DOMAIN table /\ Tail(loop.todo) \in Seq(DOMAIN table)
      /\ \A i \in DOMAIN table : Shaped(table[i])
  BY DevListed DEF EvdevInv, TableInv
<1>2. table' = [i \in DOMAIN table |-> IF i = Head(loop.todo) THEN e ELSE table[i]]
  BY DEF Becomes
<1>3. table' = [i \in DOMAIN table |-> table'[i]]
  BY <1>2
<1>4. \A i \in DOMAIN table : Alike(table[i], table'[i])
  BY <1>1, <1>2 DEF Alike, Dev
<1>5. TableInv' /\ DOMAIN table' = DOMAIN table /\ Under(table')
  BY <1>3, <1>4, Reworked
<1>6. loop' = [loop EXCEPT !.todo = Tail(loop.todo), !.grab = "check"]
  BY DEF Becomes
<1>7. loop'.todo = Tail(loop.todo) /\ loop'.grab = "check" /\ loop'.at = loop.at
  BY <1>6 DEF EvdevInv, LoopInv
<1>8. LoopInv'
  BY <1>1, <1>5, <1>6, <1>7 DEF EvdevInv, LoopInv
<1>9. Racing'
  BY <1>7 DEF Racing
<1>10. NodesInv'
  BY DEF EvdevInv, NodesInv, World
<1> QED
  BY <1>5, <1>8, <1>9, <1>10, Quiet DEF World

-----------------------------------------------------------------------------
(* The steps of the daemon.                                                *)

LEMMA OpenedShaped ==
  ASSUME NEW n \in Node
  PROVE  Shaped(Opened(n)) /\ Opened(n).node = n /\ ~Opened(n).owner /\ ~Opened(n).gone
BY DEF Shaped, Fields, Opened

LEMMA ScanInv ==
  ASSUME EvdevInv, DeviceScan
  PROVE  EvdevInv'
<1>1. NodesInv'
  BY DEF EvdevInv, NodesInv, DeviceScan, World
<1>2. /\ loop.at = "start" /\ UNCHANGED <<down, seen, raced>> /\ loop.todo = <<>>
      /\ loop.grab = "check"
  BY DEF DeviceScan, World, EvdevInv, LoopInv
<1>3. PICK order \in SetToSeqs(present) :
         IF Len(order) > MaxDevices
         THEN loop' = [loop EXCEPT !.at = "aborted"] /\ UNCHANGED table
         ELSE /\ table' = [i \in DOMAIN order |-> Opened(order[i])]
              /\ loop' = [loop EXCEPT !.at = "poll", !.todo = [i \in DOMAIN order |-> i]]
  BY DEF DeviceScan
<1>4. CASE Len(order) > MaxDevices
  <2>1. loop' = [loop EXCEPT !.at = "aborted"] /\ UNCHANGED table
    BY <1>3, <1>4
  <2>2. LoopInv' /\ Racing'
    BY <2>1, <1>2 DEF EvdevInv, LoopInv, Racing
  <2> QED
    BY <1>1, <1>2, <2>1, <2>2, Untouched
<1>5. CASE ~(Len(order) > MaxDevices)
  <2> DEFINE k == Cardinality(present)
  <2>1. k \in Nat /\ present \subseteq Node
    <3>1. IsFiniteSet(present)
      BY BoundAssumption, FS_Subset DEF EvdevInv, NodesInv
    <3> QED
      BY <3>1, FS_CardinalityType DEF EvdevInv, NodesInv
  <2> HIDE DEF k
  <2>2. order \in [1 .. k -> present]
    BY DEF SetToSeqs, k
  <2>3. /\ table' = [i \in 1 .. k |-> Opened(order[i])]
        /\ loop' = [loop EXCEPT !.at = "poll", !.todo = [i \in 1 .. k |-> i]]
    BY <1>3, <1>5, <2>2
  <2>4. \A i \in 1 .. k : /\ Shaped(table'[i]) /\ ~table'[i].owner
    BY <2>1, <2>2, <2>3, OpenedShaped
  <2>5. table' = [i \in 1 .. k |-> table'[i]]
    BY <2>3
  <2>6. table' \in Seq(Range(table')) /\ DOMAIN table' = 1 .. k
    BY <2>5, <2>1, IsSequence
  <2>7. TableInv'
    BY <2>4, <2>6 DEF TableInv
  <2>8. Under(table')
    BY <2>4, <2>6 DEF Under
  <2>9. [i \in 1 .. k |-> i] \in Seq(1 .. k)
    <3>1. [i \in 1 .. k |-> i] \in [1 .. k -> 1 .. k]
      OBVIOUS
    <3> QED
      BY <3>1, <2>1, SeqDef
  <2>10. /\ loop'.todo = [i \in 1 .. k |-> i] /\ loop'.at = "poll" /\ loop'.grab = "check"
         /\ DOMAIN loop' = DOMAIN loop
    BY <2>3, <1>2 DEF EvdevInv, LoopInv
  <2>11. LoopInv'
    BY <2>6, <2>9, <2>10 DEF EvdevInv, LoopInv
  <2>12. Racing'
    BY <2>10 DEF Racing
  <2> QED
    BY <1>1, <1>2, <2>7, <2>8, <2>11, <2>12, Quiet
<1> QED
  BY <1>4, <1>5

LEMMA AnnouncedInv ==
  ASSUME EvdevInv, Announced
  PROVE  EvdevInv'
<1> DEFINE n == Head(announced)
<1>1. /\ loop.todo = <<>> /\ loop.grab = "check" /\ loop.at = "monitor"
      /\ UNCHANGED <<present, down, seen, raced>> /\ announced # <<>>
      /\ announced' = Tail(announced)
  BY DEF Announced, EvdevInv, LoopInv
<1>2. n \in Node /\ announced' \in Seq(Node)
  BY <1>1, HeadTailProperties DEF EvdevInv, NodesInv
<1>3. NodesInv'
  BY <1>1, <1>2 DEF EvdevInv, NodesInv
<1>4. CASE UNCHANGED <<table, loop>>
  <2>1. LoopInv' /\ Racing'
    BY <1>1, <1>4 DEF EvdevInv, LoopInv, Racing
  <2> QED
    BY <1>1, <1>3, <1>4, <2>1, Untouched
<1>5. CASE loop' = [loop EXCEPT !.at = "aborted"] /\ UNCHANGED table
  <2>1. LoopInv' /\ Racing'
    BY <1>1, <1>5 DEF EvdevInv, LoopInv, Racing
  <2> QED
    BY <1>1, <1>3, <1>5, <2>1, Untouched
<1>6. CASE /\ table' = Append(table, Opened(n))
           /\ loop' = [loop EXCEPT !.todo = <<Len(table) + 1>>]
  <2> DEFINE S == Range(table) \cup {Opened(n)}
             k == Len(table) + 1
  <2>1. table \in Seq(S) /\ k \in Nat /\ k - 1 = Len(table) /\ DOMAIN table = 1 .. (k - 1)
    <3>1. table \in Seq(Range(table)) /\ Range(table) \subseteq S
      BY DEF EvdevInv, TableInv
    <3>2. table \in Seq(S)
      BY <3>1, SeqMonotonic
    <3> QED
      BY <3>2, TableDomain DEF EvdevInv
  <2>2. /\ DOMAIN table' = 1 .. k /\ table'[k] = Opened(n)
        /\ \A i \in 1 .. (k - 1) : table'[i] = table[i]
        /\ table' = [i \in 1 .. k |-> table'[i]]
    <3> HIDE DEF S
    <3>0. Opened(n) \in S
      BY DEF S
    <3>1. /\ Append(table, Opened(n)) \in Seq(S) /\ Len(table') = Len(table) + 1
          /\ \A i \in 1 .. Len(table) : table'[i] = table[i]
          /\ table'[Len(table) + 1] = Opened(n)
      BY <1>6, <2>1, <3>0, AppendProperties
    <3>2. table' \in [1 .. Len(table') -> S]
      BY <1>6, <3>1, LenProperties
    <3> QED
      BY <2>1, <3>1, <3>2
  <2> HIDE DEF S, k
  <2>3. \A i \in 1 .. k : Shaped(table'[i]) /\ (i = k \/ (i \in DOMAIN table /\ table'[i] = table[i]))
    BY <1>2, <2>1, <2>2, OpenedShaped DEF EvdevInv, TableInv
  <2>4. TableInv'
    BY <2>1, <2>2, <2>3, IsSequence DEF TableInv
  <2>5. Under(table')
    BY <1>2, <2>1, <2>2, <2>3, OpenedShaped DEF Under
  <2>6. loop'.todo = <<k>> /\ loop'.grab = "check" /\ loop'.at = "monitor" /\ DOMAIN loop' = DOMAIN loop
    BY <1>1, <1>6 DEF EvdevInv, LoopInv, k
  <2>7. <<k>> \in Seq(1 .. k) /\ k \in 1 .. k
    <3>1. k \in 1 .. k
      BY <2>1, <2>2
    <3> QED
      BY <3>1
  <2>8. LoopInv'
    BY <2>2, <2>6, <2>7 DEF EvdevInv, LoopInv
  <2>9. Racing'
    BY <2>6 DEF Racing
  <2> QED
    BY <1>1, <1>3, <2>4, <2>5, <2>8, <2>9, Quiet
<1> QED
  BY <1>4, <1>5, <1>6 DEF Announced

\* Whether a device has its keyboard or none, its file is what it was.
LEMMA GivenAlike ==
  ASSUME NEW e, Shaped(e)
  PROVE  /\ Alike(e, Given(e)) /\ Alike(e, [Given(e) EXCEPT !.sound = {}]) /\ Alike(e, Denied(e))
         /\ Alike(e, [Denied(e) EXCEPT !.grabbed = FALSE, !.owner = FALSE])
         /\ Alike(e, Given([e EXCEPT !.queue = Drained(@)]))
BY DEF Alike, Shaped, Fields, Given, Denied

LEMMA IgnoreInv ==
  ASSUME EvdevInv, Ignore
  PROVE  EvdevInv'
<1>1. loop.todo # <<>> /\ UNCHANGED World
  BY DEF Ignore, Managing
<1>2. Shaped(Dev)
  BY <1>1, DevListed DEF EvdevInv
<1>3. PICK e \in {Denied(Dev), [Denied(Dev) EXCEPT !.grabbed = FALSE, !.owner = FALSE]} : Becomes(e)
  BY DEF Ignore
<1>4. Alike(Dev, e)
  BY <1>2, GivenAlike
<1> QED
  BY <1>1, <1>3, <1>4, ManagingInv

LEMMA KeepInv ==
  ASSUME EvdevInv, Keep
  PROVE  EvdevInv'
<1>1. loop.todo # <<>> /\ UNCHANGED World
  BY DEF Keep, Managing
<1>2. Shaped(Dev)
  BY <1>1, DevListed DEF EvdevInv
<1>3. PICK e \in {Given(Dev), [Given(Dev) EXCEPT !.sound = {}]} : Becomes(e)
  BY DEF Keep
<1>4. Alike(Dev, e)
  BY <1>2, GivenAlike
<1> QED
  BY <1>1, <1>3, <1>4, ManagingInv

\* No key is held, so that all that is believed held is a race's doing.
LEMMA AwaitNeutralInv ==
  ASSUME EvdevInv, AwaitNeutral
  PROVE  EvdevInv'
<1>1. loop.todo # <<>> /\ UNCHANGED World
  BY DEF AwaitNeutral, Managing
<1>2. Shaped(Dev)
  BY <1>1, DevListed DEF EvdevInv
<1>3. CASE Dev.gone
  <2>1. Becomes(Denied(Dev))
    BY <1>3 DEF AwaitNeutral
  <2> QED
    BY <1>1, <1>2, <2>1, GivenAlike, ManagingInv
<1>4. CASE ~Dev.gone
  <2>1. Neutral(Dev) /\ loop' = [loop EXCEPT !.grab = "grab"] /\ UNCHANGED table
    BY <1>4 DEF AwaitNeutral
  <2>2. loop'.todo = loop.todo /\ loop'.at = loop.at /\ DOMAIN loop' = DOMAIN loop
    BY <2>1 DEF EvdevInv, LoopInv
  <2>3. Dev' = Dev
    BY <2>1, <2>2 DEF Dev
  <2>4. LoopInv'
    BY <1>1, <2>1, <2>2 DEF EvdevInv, LoopInv
  <2>5. seen[Dev.node] \subseteq raced[Dev.node]
    BY <1>2, <2>1 DEF EvdevInv, Residual, Neutral, Shaped
  <2>6. Racing'
    BY <1>1, <2>3, <2>5 DEF Racing, World
  <2>7. NodesInv'
    BY <1>1 DEF EvdevInv, NodesInv, World
  <2> QED
    BY <1>1, <2>1, <2>4, <2>6, <2>7, Untouched DEF World
<1> QED
  BY <1>3, <1>4

\* The grab: what Racing says of the device is now what Unstuck says.
LEMMA GrabInv ==
  ASSUME EvdevInv, Grab
  PROVE  EvdevInv'
<1>1. loop.todo # <<>> /\ UNCHANGED World /\ loop.grab = "grab"
  BY DEF Grab, Managing
<1>2. Shaped(Dev) /\ Head(loop.todo) \in DOMAIN table
  BY <1>1, DevListed DEF EvdevInv
<1>3. CASE Dev.gone \/ IsGrabbed(Dev.node)
  <2>1. Becomes(Denied(Dev))
    BY <1>3 DEF Grab
  <2> QED
    BY <1>1, <1>2, <2>1, GivenAlike, ManagingInv
<1>4. CASE ~(Dev.gone \/ IsGrabbed(Dev.node))
  <2>1. /\ table' = [table EXCEPT ![Head(loop.todo)].owner = TRUE]
        /\ loop' = [loop EXCEPT !.grab = "drain"]
    BY <1>4 DEF Grab
  <2>2. /\ loop'.todo = loop.todo /\ loop'.at = loop.at /\ DOMAIN loop' = DOMAIN loop
        /\ loop'.grab = "drain"
    BY <2>1 DEF EvdevInv, LoopInv
  <2>3. table' = [i \in DOMAIN table |-> table'[i]]
    BY <2>1
  <2>4. \A i \in DOMAIN table :
          /\ Shaped(table'[i]) /\ table'[i].node = table[i].node /\ table'[i].gone = table[i].gone
          /\ i # Head(loop.todo) => table'[i] = table[i]
    BY <1>2, <2>1 DEF EvdevInv, TableInv, Shaped, Fields
  <2>5. table' \in Seq(Range(table')) /\ DOMAIN table' = DOMAIN table
    BY <2>3, <2>4, SameShape DEF EvdevInv
  <2>6. TableInv'
    BY <2>4, <2>5 DEF TableInv
  <2>7. LoopInv'
    BY <1>1, <2>2, <2>5 DEF EvdevInv, LoopInv
  <2>8. NodesInv' /\ Residual'
    BY <1>1 DEF EvdevInv, NodesInv, Residual, World
  <2>9. Racing'
    BY <2>2 DEF Racing
  <2>10. seen[Dev.node] \subseteq raced[Dev.node]
    BY <1>1, <1>4 DEF EvdevInv, Racing
  <2>11. ASSUME NEW n \in Node, IsGrabbed(n)' PROVE seen'[n] \subseteq raced'[n]
    <3>1. PICK i \in DOMAIN table : table'[i].node = n /\ ~table'[i].gone /\ table'[i].owner
      BY <2>5, <2>11 DEF IsGrabbed, Live
    <3>2. CASE i = Head(loop.todo)
      BY <3>1, <3>2, <2>4, <2>10, <1>1 DEF Dev, World
    <3>3. CASE i # Head(loop.todo)
      <4>1. IsGrabbed(n)
        BY <3>1, <3>3, <2>4 DEF IsGrabbed, Live
      <4> QED
        BY <4>1, <1>1 DEF EvdevInv, Unstuck, World
    <3> QED
      BY <3>2, <3>3
  <2>12. Unstuck'
    BY <2>11 DEF Unstuck
  <2> QED
    BY <2>6, <2>7, <2>8, <2>9, <2>12 DEF EvdevInv
<1> QED
  BY <1>3, <1>4

LEMMA DrainInv ==
  ASSUME EvdevInv, Drain
  PROVE  EvdevInv'
<1>1. loop.todo # <<>> /\ UNCHANGED World
  BY DEF Drain, Managing
<1>2. Shaped(Dev)
  BY <1>1, DevListed DEF EvdevInv
<1>3. Becomes(Given([Dev EXCEPT !.queue = Drained(@)]))
  BY DEF Drain
<1> QED
  BY <1>1, <1>2, <1>3, GivenAlike, ManagingInv

LEMMA PollInv ==
  ASSUME EvdevInv, NEW client \in BOOLEAN, Poll(client)
  PROVE  EvdevInv'
<1>1. /\ loop.todo = <<>> /\ UNCHANGED <<present, down, seen, table, announced, raced>>
      /\ loop' = [loop EXCEPT !.at = "devices", !.ready = Readable, !.client = client,
                             !.found = announced # <<>>]
  BY DEF Poll
<1>2. loop'.todo = <<>> /\ loop'.grab = loop.grab /\ DOMAIN loop' = DOMAIN loop
  BY <1>1 DEF EvdevInv, LoopInv
<1>3. LoopInv' /\ Racing' /\ NodesInv'
  BY <1>1, <1>2 DEF EvdevInv, LoopInv, Racing, NodesInv
<1> QED
  BY <1>1, <1>3, Untouched

\* Reading an event changes what was read of it, not the file.
LEMMA AfterAlike ==
  ASSUME NEW e, Shaped(e), NEW ev
  PROVE  Alike(e, After([e EXCEPT !.queue = Tail(@)], ev))
<1> DEFINE r == [e EXCEPT !.queue = Tail(@)]
<1>1. Alike(e, r) /\ Shaped(r)
  BY DEF Alike, Shaped, Fields
<1>2. ASSUME NEW h PROVE Alike(e, [r EXCEPT !.heard = h])
  BY DEF Alike, Shaped, Fields
<1>3. ASSUME NEW x PROVE Alike(e, [r EXCEPT !.pending = x])
  BY DEF Alike, Shaped, Fields
<1>4. ASSUME NEW x PROVE Alike(e, [Taken(r) EXCEPT !.owed = x])
  BY DEF Alike, Shaped, Fields, Taken
<1>5. CASE ev.type = "key"
  BY <1>1, <1>2, <1>5 DEF After
<1>6. CASE ev.type = "rel"
  BY <1>1, <1>3, <1>6 DEF After
<1>7. CASE ev.type \notin {"key", "rel"}
  BY <1>1, <1>4, <1>7 DEF After
<1> QED
  BY <1>5, <1>6, <1>7

LEMMA ReadDeviceInv ==
  ASSUME EvdevInv, NEW i \in DOMAIN table, ReadDevice(i)
  PROVE  EvdevInv'
<1>1. loop.at = "devices" /\ loop.todo = <<>> /\ loop.grab = "check" /\ UNCHANGED World
  BY DEF ReadDevice, EvdevInv, LoopInv
<1>2. Shaped(table[i])
  BY DEF EvdevInv, TableInv
<1> DEFINE e == table[i]
<1>3. PICK f : Alike(e, f) /\ table' = [table EXCEPT ![i] = f]
  <2>1. CASE e.gone
    <3>1. Alike(e, [e EXCEPT !.open = FALSE])
      BY <1>2 DEF Alike, Shaped, Fields
    <3>2. table' = [table EXCEPT ![i] = [e EXCEPT !.open = FALSE]]
      BY <2>1 DEF ReadDevice
    <3> QED
      BY <3>1, <3>2
  <2>2. CASE ~e.gone /\ e.queue = <<>>
    <3>1. UNCHANGED table
      BY <2>2 DEF ReadDevice
    <3>2. Alike(e, e) /\ table' = [table EXCEPT ![i] = e]
      BY <1>2, <3>1 DEF Alike, EvdevInv, TableInv
    <3> QED
      BY <3>2
  <2>3. CASE ~e.gone /\ e.queue # <<>>
    <3> DEFINE f == After([e EXCEPT !.queue = Tail(@)], Head(e.queue))
    <3>1. Alike(e, f)
      BY <1>2, AfterAlike
    <3>2. table' = [table EXCEPT ![i] = f]
      BY <2>3 DEF ReadDevice
    <3> HIDE DEF f
    <3> QED
      BY <3>1, <3>2
  <2> QED
    BY <2>1, <2>2, <2>3
<1>4. table' = [j \in DOMAIN table |-> table'[j]]
  BY <1>3
<1>5. \A j \in DOMAIN table : Alike(table[j], table'[j])
  BY <1>3 DEF Alike, EvdevInv, TableInv
<1>6. TableInv' /\ DOMAIN table' = DOMAIN table /\ Under(table')
  BY <1>4, <1>5, Reworked
<1>7. /\ loop'.todo = <<>> /\ loop'.grab = "check" /\ DOMAIN loop' = DOMAIN loop
  <2>1. \/ loop' = loop
        \/ loop' = [loop EXCEPT !.ready = @ \ {i}]
        \/ loop' = [loop EXCEPT !.ready = @ \ {i}, !.removed = TRUE]
    BY DEF ReadDevice
  <2> QED
    BY <1>1, <2>1 DEF EvdevInv, LoopInv
<1>8. LoopInv' /\ Racing' /\ NodesInv'
  BY <1>1, <1>6, <1>7 DEF EvdevInv, LoopInv, Racing, NodesInv, World
<1> QED
  BY <1>1, <1>6, <1>8, Quiet DEF World

LEMMA ClientInv ==
  ASSUME EvdevInv, Client
  PROVE  EvdevInv'
<1>1. /\ loop.todo = <<>> /\ loop.grab = "check"
      /\ UNCHANGED <<present, down, seen, table, announced, raced>>
  BY DEF Client, EvdevInv, LoopInv
<1>2. [j \in DOMAIN table |-> j] \in Seq(DOMAIN table)
  <2>1. DOMAIN table = 1 .. Len(table) /\ Len(table) \in Nat
    BY TableDomain DEF EvdevInv
  <2>2. [j \in 1 .. Len(table) |-> j] \in [1 .. Len(table) -> 1 .. Len(table)]
    OBVIOUS
  <2> QED
    BY <2>1, <2>2, SeqDef
<1>3. /\ loop'.todo \in {<<>>, [j \in DOMAIN table |-> j]}
      /\ loop'.grab = "check" /\ loop'.at = "monitor" /\ DOMAIN loop' = DOMAIN loop
  <2>1. \/ loop' = [loop EXCEPT !.at = "monitor"]
        \/ loop' = [loop EXCEPT !.at = "monitor", !.client = FALSE,
                               !.todo = [j \in DOMAIN table |-> j]]
    BY DEF Client
  <2> QED
    BY <1>1, <2>1 DEF EvdevInv, LoopInv
<1>4. LoopInv'
  BY <1>1, <1>2, <1>3 DEF EvdevInv, LoopInv
<1>5. Racing' /\ NodesInv'
  BY <1>1, <1>3 DEF EvdevInv, NodesInv, Racing
<1> QED
  BY <1>1, <1>4, <1>5, Untouched

LEMMA CompactInv ==
  ASSUME EvdevInv, Compact
  PROVE  EvdevInv'
<1>1. /\ loop.todo = <<>> /\ loop.grab = "check" /\ UNCHANGED World
      /\ table' = IF loop.removed THEN Compacted ELSE table
      /\ loop' = [loop EXCEPT !.at = "poll", !.removed = FALSE, !.found = FALSE]
  BY DEF Compact, EvdevInv, LoopInv
<1>2. /\ table' \in Seq(Range(table'))
      /\ \A n \in DOMAIN table' : \E i \in DOMAIN table : table'[n] = table[i]
  BY <1>1, CompactedLeft DEF EvdevInv, TableInv
<1>3. TableInv' /\ Under(table')
  BY <1>2 DEF EvdevInv, TableInv, Under
<1>4. loop'.todo = <<>> /\ loop'.grab = "check" /\ loop'.at = "poll" /\ DOMAIN loop' = DOMAIN loop
  BY <1>1 DEF EvdevInv, LoopInv
<1>5. LoopInv' /\ Racing' /\ NodesInv'
  BY <1>1, <1>4, EmptySeq DEF EvdevInv, LoopInv, Racing, NodesInv, World
<1> QED
  BY <1>1, <1>3, <1>5, Quiet DEF World

-----------------------------------------------------------------------------
(* What happens on the nodes.                                              *)

LEMMA ReceivedAlike ==
  ASSUME NEW e, Shaped(e), NEW packet
  PROVE  /\ Alike(e, Received(e, packet))
         /\ \A x : Alike(e, [Received(e, packet) EXCEPT !.since = x])
         /\ \A x : Alike(e, [Received(e, packet) EXCEPT !.owed = x])
BY DEF Alike, Shaped, Fields, Received

\* A step of the nodes that leaves the daemon where it is.
LEMMA NodeStep ==
  ASSUME EvdevInv, UNCHANGED loop, table' = [i \in DOMAIN table |-> table'[i]],
         \A i \in DOMAIN table : Alike(table[i], table'[i])
  PROVE  /\ TableInv' /\ LoopInv' /\ Under(table') /\ DOMAIN table' = DOMAIN table
         /\ loop.todo # <<>> => Dev'.node = Dev.node /\ Dev'.gone = Dev.gone /\ Shaped(Dev)
<1>1. TableInv' /\ LoopInv' /\ Under(table') /\ DOMAIN table' = DOMAIN table
  BY Reworked DEF EvdevInv
<1>2. ASSUME loop.todo # <<>> PROVE Dev'.node = Dev.node /\ Dev'.gone = Dev.gone /\ Shaped(Dev)
  <2>1. Head(loop.todo) \in DOMAIN table /\ Shaped(Dev)
    BY <1>2, DevListed DEF EvdevInv
  <2> QED
    BY <2>1 DEF Dev, Alike
<1> QED
  BY <1>1, <1>2

LEMMA PressInv ==
  ASSUME EvdevInv, NEW n \in Node, NEW k \in RawKey, Press(n, k)
  PROVE  EvdevInv'
<1>1. /\ down' = [down EXCEPT ![n] = @ \cup {k}]
      /\ seen' = IF IsGrabbed(n) THEN seen ELSE [seen EXCEPT ![n] = @ \cup {k}]
      /\ raced' = IF loop.todo # <<>> /\ loop.grab = "grab" /\ Dev.node = n
                  THEN [raced EXCEPT ![n] = @ \cup {k}] ELSE raced
      /\ UNCHANGED <<present, announced, match, loop>>
  BY DEF Press, Dev
<1>2. table' = [i \in DOMAIN table |-> table'[i]]
  BY DEF Press
<1>3. \A i \in DOMAIN table : Alike(table[i], table'[i])
  <2>1. SUFFICES ASSUME NEW i \in DOMAIN table PROVE Alike(table[i], table'[i])
    OBVIOUS
  <2>2. Shaped(table[i]) /\ Alike(table[i], table[i])
    BY DEF EvdevInv, TableInv, Alike
  <2> DEFINE r == Received(table[i], <<KeyEvent(k, 1), Syn>>)
             since == IF table[i].data THEN r.since \cup {k} ELSE r.since
  <2>3. CASE i \in Readers(n)
    <3>1. table'[i] = [r EXCEPT !.since = since]
      BY <2>3 DEF Press
    <3>2. Alike(table[i], [r EXCEPT !.since = since])
      BY <2>2, ReceivedAlike
    <3> QED
      BY <3>1, <3>2
  <2>4. CASE i \notin Readers(n)
    BY <2>2, <2>4 DEF Press
  <2> QED
    BY <2>3, <2>4
<1>4. /\ TableInv' /\ LoopInv' /\ Under(table')
      /\ loop.todo # <<>> => Dev'.node = Dev.node /\ Dev'.gone = Dev.gone /\ Shaped(Dev)
  BY <1>1, <1>2, <1>3, NodeStep
<1>5. NodesInv'
  BY <1>1 DEF EvdevInv, NodesInv
<1>6. \A m \in Node : /\ raced[m] \subseteq raced'[m] /\ down[m] \subseteq down'[m]
                      /\ m # n \/ IsGrabbed(n) => seen'[m] = seen[m]
                      /\ seen'[m] \subseteq seen[m] \cup {k}
  BY <1>1 DEF EvdevInv, NodesInv
<1>7. k \in down'[n] /\ (loop.todo # <<>> /\ loop.grab = "grab" /\ Dev.node = n => k \in raced'[n])
  BY <1>1 DEF EvdevInv, NodesInv
<1>8. Residual'
  <2>1. SUFFICES ASSUME NEW m \in Node PROVE seen'[m] \subseteq down'[m] \cup raced'[m]
    BY DEF Residual
  <2>2. seen[m] \subseteq down'[m] \cup raced'[m]
    BY <1>6 DEF EvdevInv, Residual
  <2>3. CASE m = n
    BY <2>2, <2>3, <1>6, <1>7
  <2>4. CASE m # n
    BY <2>2, <2>4, <1>6
  <2> QED
    BY <2>3, <2>4
<1>9. Racing'
  <2>1. SUFFICES ASSUME loop.todo # <<>>, loop.grab = "grab", ~Dev.gone
                 PROVE  seen'[Dev.node] \subseteq raced'[Dev.node]
    BY <1>1, <1>4 DEF Racing
  <2>2. seen[Dev.node] \subseteq raced[Dev.node] /\ Dev.node \in Node
    BY <1>4, <2>1 DEF EvdevInv, Racing, Shaped
  <2>3. seen[Dev.node] \subseteq raced'[Dev.node]
    BY <2>2, <1>6
  <2>4. CASE Dev.node = n
    BY <2>1, <2>3, <2>4, <1>6, <1>7
  <2>5. CASE Dev.node # n
    BY <2>2, <2>3, <2>5, <1>6
  <2> QED
    BY <2>4, <2>5
<1>10. Unstuck'
  <2>1. SUFFICES ASSUME NEW m \in Node, IsGrabbed(m)' PROVE seen'[m] \subseteq raced'[m]
    BY DEF Unstuck
  <2>2. IsGrabbed(m) /\ seen[m] \subseteq raced[m]
    BY <1>4, <2>1, StaysFree DEF EvdevInv, Unstuck
  <2>3. seen'[m] = seen[m]
    BY <2>2, <1>6
  <2>4. raced[m] \subseteq raced'[m]
    BY <1>6
  <2> QED
    BY <2>2, <2>3, <2>4
<1> QED
  BY <1>4, <1>5, <1>8, <1>9, <1>10 DEF EvdevInv

\* A release that the system does not see is of a key that a race left believed held.
LEMMA ReleaseInv ==
  ASSUME EvdevInv, NEW n \in Node, NEW k \in RawKey, Release(n, k)
  PROVE  EvdevInv'
<1>1. /\ down' = [down EXCEPT ![n] = @ \ {k}]
      /\ seen' = IF IsGrabbed(n) THEN seen ELSE [seen EXCEPT ![n] = @ \ {k}]
      /\ UNCHANGED <<present, announced, match, loop, raced>>
  BY DEF Release
<1>2. table' = [i \in DOMAIN table |-> table'[i]]
  BY DEF Release
<1>3. \A i \in DOMAIN table : Alike(table[i], table'[i])
  <2>1. SUFFICES ASSUME NEW i \in DOMAIN table PROVE Alike(table[i], table'[i])
    OBVIOUS
  <2>2. Shaped(table[i]) /\ Alike(table[i], table[i])
    BY DEF EvdevInv, TableInv, Alike
  <2> DEFINE r == Received(table[i], <<KeyEvent(k, 0), Syn>>)
  <2>3. CASE i \in Readers(n)
    <3>1. table'[i] = [r EXCEPT !.since = r.since \ {k}]
      BY <2>3 DEF Release
    <3>2. Alike(table[i], [r EXCEPT !.since = r.since \ {k}])
      BY <2>2, ReceivedAlike
    <3> QED
      BY <3>1, <3>2
  <2>4. CASE i \notin Readers(n)
    BY <2>2, <2>4 DEF Release
  <2> QED
    BY <2>3, <2>4
<1>4. /\ TableInv' /\ LoopInv' /\ Under(table')
      /\ loop.todo # <<>> => Dev'.node = Dev.node /\ Dev'.gone = Dev.gone /\ Shaped(Dev)
  BY <1>1, <1>2, <1>3, NodeStep
<1>5. NodesInv'
  BY <1>1 DEF EvdevInv, NodesInv
<1>6. ASSUME NEW m \in Node
      PROVE  seen'[m] \subseteq seen[m] /\ seen'[m] \subseteq down'[m] \cup raced[m]
  <2>1. seen[m] \subseteq down[m] \cup raced[m]
    BY DEF EvdevInv, Residual
  <2>2. m # n => down'[m] = down[m] /\ seen'[m] = seen[m]
    BY <1>1 DEF EvdevInv, NodesInv
  <2>3. CASE IsGrabbed(n)
    <3>1. seen' = seen /\ seen[n] \subseteq raced[n]
      BY <1>1, <2>3 DEF EvdevInv, Unstuck
    <3> QED
      BY <3>1, <2>1, <2>2
  <2>4. CASE ~IsGrabbed(n)
    <3>1. seen'[n] = seen[n] \ {k} /\ down'[n] = down[n] \ {k}
      BY <1>1, <2>4 DEF EvdevInv, NodesInv
    <3> QED
      BY <3>1, <2>1, <2>2
  <2> QED
    BY <2>3, <2>4
<1>7. Residual'
  BY <1>1, <1>6 DEF Residual
<1>8. Racing'
  <2>1. SUFFICES ASSUME loop.todo # <<>>, loop.grab = "grab", ~Dev.gone
                 PROVE  seen'[Dev.node] \subseteq raced[Dev.node]
    BY <1>1, <1>4 DEF Racing
  <2>2. seen[Dev.node] \subseteq raced[Dev.node] /\ Dev.node \in Node
    BY <1>4, <2>1 DEF EvdevInv, Racing, Shaped
  <2> QED
    BY <2>2, <1>6
<1>9. Unstuck'
  <2>1. SUFFICES ASSUME NEW m \in Node, IsGrabbed(m)' PROVE seen'[m] \subseteq raced[m]
    BY <1>1 DEF Unstuck
  <2>2. seen[m] \subseteq raced[m]
    BY <1>4, <2>1, StaysFree DEF EvdevInv, Unstuck
  <2> QED
    BY <2>2, <1>6
<1> QED
  BY <1>4, <1>5, <1>7, <1>8, <1>9 DEF EvdevInv

LEMMA ReportedInv ==
  ASSUME EvdevInv, NEW n, NEW packet, NEW motion, Reported(n, packet, motion)
  PROVE  EvdevInv'
<1>1. UNCHANGED <<present, down, seen, announced, match, loop, raced>>
  BY DEF Reported
<1>2. table' = [i \in DOMAIN table |-> table'[i]]
  BY DEF Reported
<1>3. \A i \in DOMAIN table : Alike(table[i], table'[i])
  <2>1. SUFFICES ASSUME NEW i \in DOMAIN table PROVE Alike(table[i], table'[i])
    OBVIOUS
  <2>2. Shaped(table[i]) /\ Alike(table[i], table[i])
    BY DEF EvdevInv, TableInv, Alike
  <2> DEFINE r == Received(table[i], packet)
             owed == IF table[i].data THEN r.owed \o motion ELSE r.owed
  <2>3. CASE i \in Readers(n)
    <3>1. table'[i] = [r EXCEPT !.owed = owed]
      BY <2>3 DEF Reported
    <3>2. Alike(table[i], [r EXCEPT !.owed = owed])
      BY <2>2, ReceivedAlike
    <3> QED
      BY <3>1, <3>2
  <2>4. CASE i \notin Readers(n)
    BY <2>2, <2>4 DEF Reported
  <2> QED
    BY <2>3, <2>4
<1>4. /\ TableInv' /\ LoopInv' /\ Under(table')
      /\ loop.todo # <<>> => Dev'.node = Dev.node /\ Dev'.gone = Dev.gone /\ Shaped(Dev)
  BY <1>1, <1>2, <1>3, NodeStep
<1>5. NodesInv' /\ Racing'
  BY <1>1, <1>4 DEF EvdevInv, NodesInv, Racing
<1> QED
  BY <1>1, <1>4, <1>5, Quiet

LEMMA PlugInv ==
  ASSUME EvdevInv, NEW n \in Node, Plug(n)
  PROVE  EvdevInv'
<1>1. /\ UNCHANGED <<down, seen, table, match, loop, raced>>
      /\ present' = present \cup {n} /\ announced' = Append(announced, n)
  BY DEF Plug
<1>2. NodesInv'
  BY <1>1, AppendProperties DEF EvdevInv, NodesInv
<1>3. LoopInv' /\ Racing'
  BY <1>1 DEF EvdevInv, LoopInv, Racing, Dev
<1> QED
  BY <1>1, <1>2, <1>3, Untouched

LEMMA UnplugInv ==
  ASSUME EvdevInv, NEW n \in Node, Unplug(n)
  PROVE  EvdevInv'
<1>1. /\ present' = present \ {n} /\ down' = [down EXCEPT ![n] = {}]
      /\ seen' = [seen EXCEPT ![n] = {}] /\ raced' = [raced EXCEPT ![n] = {}]
      /\ UNCHANGED <<announced, match, loop>>
  BY DEF Unplug
<1>2. table' = [i \in DOMAIN table |-> table'[i]]
  BY DEF Unplug
<1>3. \A i \in DOMAIN table :
        /\ Shaped(table'[i]) /\ table'[i].node = table[i].node /\ table'[i].owner = table[i].owner
        /\ IF table[i].node = n THEN table'[i].gone ELSE table'[i] = table[i]
  BY DEF EvdevInv, TableInv, Shaped, Fields, Unplug
<1>4. /\ table' \in Seq(Range(table')) /\ DOMAIN table' = DOMAIN table
  BY <1>2, <1>3, SameShape DEF EvdevInv
<1>5. TableInv' /\ LoopInv'
  BY <1>1, <1>3, <1>4 DEF EvdevInv, TableInv, LoopInv
<1>6. NodesInv'
  BY <1>1 DEF EvdevInv, NodesInv
<1>7. \A m \in Node : IF m = n THEN seen'[m] = {} ELSE /\ seen'[m] = seen[m] /\ down'[m] = down[m]
                                                     /\ raced'[m] = raced[m]
  BY <1>1 DEF EvdevInv, NodesInv
<1>8. Residual'
  BY <1>7 DEF EvdevInv, Residual
<1>9. Racing'
  <2>1. SUFFICES ASSUME loop.todo # <<>>, loop.grab = "grab", ~Dev'.gone
                 PROVE  seen'[Dev'.node] \subseteq raced'[Dev'.node]
    BY <1>1 DEF Racing
  <2>2. Head(loop.todo) \in DOMAIN table /\ Shaped(Dev)
    BY <2>1, DevListed DEF EvdevInv
  <2>3. Dev'.node = Dev.node /\ Dev.node \in Node
    BY <1>1, <1>3, <2>2 DEF Dev, Shaped
  <2>4. CASE Dev.node = n
    BY <1>7, <2>3, <2>4
  <2>5. CASE Dev.node # n
    <3>1. ~Dev.gone
      BY <1>1, <1>3, <2>1, <2>2, <2>5 DEF Dev
    <3>2. seen[Dev.node] \subseteq raced[Dev.node]
      BY <2>1, <3>1 DEF EvdevInv, Racing
    <3> QED
      BY <3>2, <2>3, <2>5, <1>7
  <2> QED
    BY <2>4, <2>5
<1>10. Unstuck'
  <2>1. SUFFICES ASSUME NEW m \in Node, IsGrabbed(m)' PROVE seen'[m] \subseteq raced'[m]
    BY DEF Unstuck
  <2>2. CASE m = n
    BY <1>7, <2>2
  <2>3. CASE m # n
    <3>1. IsGrabbed(m)
      BY <1>3, <1>4, <2>1, <2>3 DEF IsGrabbed, Live
    <3> QED
      BY <3>1, <2>3, <1>7 DEF EvdevInv, Unstuck
  <2> QED
    BY <2>2, <2>3
<1> QED
  BY <1>5, <1>6, <1>8, <1>9, <1>10 DEF EvdevInv

-----------------------------------------------------------------------------

LEMMA Inductive ==
  ASSUME EvdevInv, [Next]_vars
  PROVE  EvdevInv'
<1>1. CASE Daemon
  <2>1. CASE DeviceScan
    BY <2>1, ScanInv
  <2>2. CASE Announced
    BY <2>2, AnnouncedInv
  <2>3. CASE Ignore
    BY <2>3, IgnoreInv
  <2>4. CASE Keep
    BY <2>4, KeepInv
  <2>5. CASE AwaitNeutral
    BY <2>5, AwaitNeutralInv
  <2>6. CASE Grab
    BY <2>6, GrabInv
  <2>7. CASE Drain
    BY <2>7, DrainInv
  <2>8. CASE \E client \in BOOLEAN : Poll(client)
    BY <2>8, PollInv
  <2>9. CASE \E i \in DOMAIN table : ReadDevice(i)
    BY <2>9, ReadDeviceInv
  <2>10. CASE Client
    BY <2>10, ClientInv
  <2>11. CASE Compact
    BY <2>11, CompactInv
  <2> QED
    BY <1>1, <2>1, <2>2, <2>3, <2>4, <2>5, <2>6, <2>7, <2>8, <2>9, <2>10, <2>11 DEF Daemon
<1>2. CASE \E n \in Node, k \in RawKey : Press(n, k)
  BY <1>2, PressInv
<1>3. CASE \E n \in Node, k \in RawKey : Release(n, k)
  BY <1>3, ReleaseInv
<1>4. CASE \E n \in Node, k \in RawKey : Repeat(n, k)
  BY <1>4, ReportedInv DEF Repeat
<1>5. CASE \E n \in Node : \E p \in Packets[n] : Move(n, p)
  BY <1>5, ReportedInv DEF Move
<1>6. CASE \E n \in Node : Plug(n)
  BY <1>6, PlugInv
<1>7. CASE \E n \in Node : Unplug(n)
  BY <1>7, UnplugInv
<1>8. CASE UNCHANGED vars
  <2>1. UNCHANGED <<down, seen, raced, table>>
    BY <1>8 DEF vars
  <2>2. LoopInv' /\ NodesInv' /\ Racing'
    BY <1>8 DEF vars, EvdevInv, LoopInv, NodesInv, Racing, Dev
  <2> QED
    BY <2>1, <2>2, Untouched
<1> QED
  BY <1>1, <1>2, <1>3, <1>4, <1>5, <1>6, <1>7, <1>8 DEF Next

\* Of a device that is grabbed the rest of the system believes no key held whose release
\* it will never see, but for one that goes down just before the grab: device_grab's wait
\* for a neutral state, whatever is plugged, unplugged, reloaded and typed meanwhile.
THEOREM UnstuckCorrect == Spec => []Unstuck
<1>1. Init => EvdevInv
  BY Initial
<1>2. EvdevInv /\ [Next]_vars => EvdevInv'
  BY Inductive
<1>3. EvdevInv => Unstuck
  BY DEF EvdevInv
<1> QED
  BY <1>1, <1>2, <1>3, PTL DEF Spec

-----------------------------------------------------------------------------
(* What a keyboard believes and is owed.  Queues are folded, by the kernel *)
(* as it fills them and by what the properties say of them.                *)

QueueFold == INSTANCE FoldTheorems WITH Op <- Passed
HearFold == INSTANCE FoldTheorems WITH Op <- Hearing
MoveFold == INSTANCE FoldTheorems WITH Op <- Moved

\* The folds of the model are those that the theorems are about.
LEMMA QueuedIsFold ==
  ASSUME NEW q, NEW s
  PROVE  Queued(q, s) = QueueFold!Fold(q, s)
BY DEF Queued, QueueFold!Fold, FoldLeft, MapThenFoldSet, QueueFold!Top, Max

LEMMA BelievesIsFold ==
  ASSUME NEW h, NEW q
  PROVE  Believes(h, q) = HearFold!Fold(h, q)
BY DEF Believes, HearFold!Fold, FoldLeft, MapThenFoldSet, HearFold!Top, Max

Moving(m, q) == MoveFold!Fold(m, q)

LEMMA MovesIsFold ==
  ASSUME NEW p, NEW q
  PROVE  Moves(p, q) = Moving([pending |-> p, told |-> <<>>], q).told
BY DEF Moves, Moving, MoveFold!Fold, FoldLeft, MapThenFoldSet, MoveFold!Top, Max

Moveds == [pending : Vector, told : Seq(Vector)]

LEMMA PassedType ==
  ASSUME NEW q \in Seq(Event), Len(q) <= QueueSize, NEW ev \in Event
  PROVE  Passed(q, ev) \in Seq(Event) /\ Len(Passed(q, ev)) <= QueueSize
<1>1. Syn \in Event
  BY DEF Syn, Event
<1>2. <<Syn, ev>> \in Seq(Event) /\ Len(<<Syn, ev>>) = 2
  BY <1>1
<1>3. QueueSize \in Nat /\ QueueSize >= 2
  BY BoundAssumption
<1>4. Append(q, ev) \in Seq(Event) /\ Len(Append(q, ev)) = Len(q) + 1 /\ Len(q) \in Nat
  BY AppendProperties
<1> QED BY <1>2, <1>3, <1>4 DEF Passed

LEMMA QueuedType ==
  ASSUME NEW q \in Seq(Event), Len(q) <= QueueSize, NEW s \in Seq(Event)
  PROVE  Queued(q, s) \in Seq(Event) /\ Len(Queued(q, s)) <= QueueSize
<1> DEFINE B == {r \in Seq(Event) : Len(r) <= QueueSize}
<1>1. q \in B /\ \A r \in B, e \in Event : Passed(r, e) \in B
  BY PassedType
<1> HIDE DEF B
<1>2. QueueFold!Fold(q, s) \in B
  BY <1>1, QueueFold!FoldType
<1>3. Queued(q, s) \in B
  BY <1>2, QueuedIsFold
<1> QED BY <1>3 DEF B

\* What is appended to two sequences is appended to the second.
LEMMA AppendLast ==
  ASSUME NEW q \in Seq(Event), NEW t \in Seq(Event), NEW e \in Event
  PROVE  Append(q \o t, e) = q \o Append(t, e)
<1> DEFINE E == Event
           u == <<e>>
           qt == q \o t
           r == Append(t, e)
<1>0. q \in Seq(E) /\ t \in Seq(E) /\ e \in E
  OBVIOUS
<1> HIDE DEF E
<1>1. u \in Seq(E)
  BY <1>0
<1>2. qt \in Seq(E)
  BY <1>0, ConcatProperties
<1>3. r = t \o u
  BY <1>0, AppendIsConcat
<1> HIDE DEF qt
<1>4. Append(qt, e) = qt \o u
  BY <1>0, <1>2, AppendIsConcat
<1> HIDE DEF u, r
<1>5. qt \o u = q \o (t \o u)
  BY <1>0, <1>1, ConcatAssociative DEF qt
<1> QED BY <1>3, <1>4, <1>5 DEF qt, r

LEMMA QueuedWhole ==
  ASSUME NEW q \in Seq(Event), NEW s \in Seq(Event), ~Overflows(q, s)
  PROVE  Queued(q, s) = q \o s
<1> DEFINE T == {n \in Nat : \A r \in Seq(Event) :
                   Len(r) = n /\ Len(q) + n <= QueueSize => QueueFold!Fold(q, r) = q \o r}
<1>0. Len(q) \in Nat /\ QueueSize \in Nat
  BY BoundAssumption
<1>1. 0 \in T
  <2> SUFFICES ASSUME NEW r \in Seq(Event), Len(r) = 0 PROVE QueueFold!Fold(q, r) = q \o r
    OBVIOUS
  <2>1. r = <<>>
    OBVIOUS
  <2> QED BY <2>1, QueueFold!FoldEmpty
<1>2. ASSUME NEW n \in Nat, n \in T
      PROVE  n + 1 \in T
  <2> SUFFICES ASSUME NEW r \in Seq(Event), Len(r) = n + 1, Len(q) + (n + 1) <= QueueSize
               PROVE  QueueFold!Fold(q, r) = q \o r
    OBVIOUS
  <2>0. r # <<>>
    OBVIOUS
  <2>1. PICK t \in Seq(Event), e \in Event : r = Append(t, e)
    BY <2>0, SequenceEmptyOrAppend
  <2>2. Len(t) = n
    BY <2>1
  <2>3. QueueFold!Fold(q, t) = q \o t
    BY <1>0, <1>2, <2>2
  <2>4. QueueFold!Fold(q, Append(t, e)) = Passed(QueueFold!Fold(q, t), e)
    BY QueueFold!FoldAppend
  <2>5. Len(q \o t) < QueueSize
    BY <1>0, <2>2
  <2>6. Append(q \o t, e) = q \o Append(t, e)
    BY AppendLast
  <2> QED BY <2>1, <2>3, <2>4, <2>5, <2>6 DEF Passed
<1>3. \A n \in Nat : n \in T
  <2> HIDE DEF T
  <2> QED BY <1>1, <1>2, QueueFold!NatSet
<1>4. Len(s) \in T /\ Len(q) + Len(s) <= QueueSize
  BY <1>0, <1>3 DEF Overflows
<1> QED BY <1>4, QueuedIsFold

-----------------------------------------------------------------------------

\* The events of a packet.
LEMMA EventTypes ==
  /\ Syn \in Event
  /\ \A k \in RawKey, v \in 0 .. 2 : /\ KeyEvent(k, v) \in Event
                                     /\ <<KeyEvent(k, v), Syn>> \in Seq(Event)
  /\ \A axis \in {1, 2}, v \in Int : RelEvent(axis, v) \in Event
<1>1. Syn \in Event
  BY DEF Syn, Event
<1>2. \A k \in RawKey, v \in 0 .. 2 : KeyEvent(k, v) \in Event
  BY DEF KeyEvent, Event
<1>3. \A axis \in {1, 2}, v \in Int : RelEvent(axis, v) \in Event
  BY DEF RelEvent, Event
<1> QED BY <1>1, <1>2, <1>3

LEMMA EventCases ==
  ASSUME NEW ev \in Event
  PROVE  \/ ev.type = "key" /\ ev.code \in RawKey /\ ev.value \in 0 .. 2
         \/ ev.type = "rel" /\ ev.axis \in {1, 2} /\ ev.value \in Int
         \/ ev.type = "syn"
BY DEF Event

\* What a pair is after one of its coordinates has changed.
LEMMA PairMoves ==
  ASSUME NEW p \in Vector, NEW v \in Int
  PROVE  /\ [p EXCEPT ![1] = @ + v] = <<p[1] + v, p[2]>>
         /\ [p EXCEPT ![2] = @ + v] = <<p[1], p[2] + v>>
         /\ <<p[1] + v, p[2]>> \in Vector /\ <<p[1], p[2] + v>> \in Vector
BY DEF Vector

LEMMA MovedType ==
  ASSUME NEW m \in Moveds, NEW ev \in Event
  PROVE  Moved(m, ev) \in Moveds
<1>1. CASE ev.type = "rel"
  <2>1. ev.axis \in {1, 2} /\ ev.value \in Int /\ m.pending \in Vector
    BY <1>1, EventCases DEF Moveds
  <2>2. [m.pending EXCEPT ![ev.axis] = @ + ev.value] \in Vector
    <3> DEFINE p == m.pending
               v == ev.value
    <3>1. [p EXCEPT ![1] = @ + v] \in Vector /\ [p EXCEPT ![2] = @ + v] \in Vector
      <4> HIDE DEF p, v
      <4>1. p \in Vector /\ v \in Int
        BY <2>1 DEF p, v
      <4> QED BY <4>1, PairMoves
    <3>2. ev.axis = 1 \/ ev.axis = 2
      BY <2>1
    <3> QED BY <3>1, <3>2
  <2>3. Moved(m, ev) = [m EXCEPT !.pending = [m.pending EXCEPT ![ev.axis] = @ + ev.value]]
    BY <1>1 DEF Moved
  <2> QED BY <2>2, <2>3 DEF Moveds
<1>2. CASE ev.type = "syn" /\ m.pending # Still
  <2>1. Moved(m, ev) = [pending |-> Still, told |-> Append(m.told, m.pending)]
    BY <1>2 DEF Moved
  <2>2. Still \in Vector /\ Append(m.told, m.pending) \in Seq(Vector)
    BY DEF Still, Vector, Moveds
  <2> QED BY <2>1, <2>2 DEF Moveds
<1>3. CASE ev.type # "rel" /\ ~(ev.type = "syn" /\ m.pending # Still)
  BY <1>3 DEF Moved
<1> QED BY <1>1, <1>2, <1>3

LEMMA MovingType ==
  ASSUME NEW m \in Moveds, NEW q \in Seq(Event)
  PROVE  Moving(m, q) \in Moveds
BY MovedType, MoveFold!FoldType DEF Moving

LEMMA AppendAfter ==
  ASSUME NEW t \in Seq(Vector), NEW r \in Seq(Vector), NEW x \in Vector
  PROVE  Append(t \o r, x) = t \o Append(r, x)
<1> DEFINE u == <<x>>
<1>1. u \in Seq(Vector)
  OBVIOUS
<1>2. t \o r \in Seq(Vector)
  OBVIOUS
<1>3. Append(t \o r, x) = (t \o r) \o u /\ Append(r, x) = r \o u
  BY <1>2, AppendIsConcat
<1>4. (t \o r) \o u = t \o (r \o u)
  <2> HIDE DEF u
  <2> QED BY <1>1, ConcatAssociative
<1> QED BY <1>3, <1>4

\* What had been told before stays told first.
Shifted(t, m) == [pending |-> m.pending, told |-> t \o m.told]

LEMMA MovedShift ==
  ASSUME NEW m \in Moveds, NEW ev \in Event, NEW t \in Seq(Vector)
  PROVE  Moved(Shifted(t, m), ev) = Shifted(t, Moved(m, ev))
<1> DEFINE n == Shifted(t, m)
<1>1. n.pending = m.pending /\ n.told = t \o m.told /\ m.told \in Seq(Vector)
      /\ m.pending \in Vector
  BY DEF Moveds, Shifted
<1>2. CASE ev.type = "rel"
  BY <1>2 DEF Moved, Moveds, Shifted
<1>3. CASE ev.type = "syn" /\ m.pending # Still
  <2>1. Append(t \o m.told, m.pending) = t \o Append(m.told, m.pending)
    BY <1>1, AppendAfter
  <2>2. Moved(n, ev) = [pending |-> Still, told |-> Append(n.told, n.pending)]
    BY <1>1, <1>3 DEF Moved
  <2>3. Moved(m, ev) = [pending |-> Still, told |-> Append(m.told, m.pending)]
    BY <1>3 DEF Moved
  <2> HIDE DEF n
  <2>4. Moved(n, ev) = [pending |-> Still, told |-> t \o Append(m.told, m.pending)]
    BY <1>1, <2>1, <2>2
  <2>5. Shifted(t, Moved(m, ev)) = [pending |-> Still, told |-> t \o Append(m.told, m.pending)]
    <3> DEFINE r == Append(m.told, m.pending)
    <3> HIDE DEF r
    <3>1. Moved(m, ev) = [pending |-> Still, told |-> r]
      BY <2>3 DEF r
    <3>2. Shifted(t, Moved(m, ev)) = [pending |-> Still, told |-> t \o r]
      BY <3>1 DEF Shifted
    <3> QED BY <3>2 DEF r
  <2> QED BY <2>4, <2>5 DEF n
<1>4. CASE ev.type # "rel" /\ ~(ev.type = "syn" /\ m.pending # Still)
  <2> HIDE DEF n
  <2>1. Moved(n, ev) = n /\ Moved(m, ev) = m
    BY <1>1, <1>4 DEF Moved
  <2> QED BY <2>1 DEF n
<1> QED BY <1>2, <1>3, <1>4

LEMMA MovingShift ==
  ASSUME NEW m \in Moveds, NEW t \in Seq(Vector), NEW q \in Seq(Event)
  PROVE  Moving(Shifted(t, m), q) = Shifted(t, Moving(m, q))
<1> DEFINE T == {n \in Nat : \A r \in Seq(Event) :
                   Len(r) = n => Moving(Shifted(t, m), r) = Shifted(t, Moving(m, r))}
<1>1. 0 \in T
  <2> SUFFICES ASSUME NEW r \in Seq(Event), Len(r) = 0
               PROVE  Moving(Shifted(t, m), r) = Shifted(t, Moving(m, r))
    OBVIOUS
  <2>1. r = <<>>
    OBVIOUS
  <2> QED BY <2>1, MoveFold!FoldEmpty DEF Moving
<1>2. ASSUME NEW n \in Nat, n \in T
      PROVE  n + 1 \in T
  <2> SUFFICES ASSUME NEW r \in Seq(Event), Len(r) = n + 1
               PROVE  Moving(Shifted(t, m), r) = Shifted(t, Moving(m, r))
    OBVIOUS
  <2>0. r # <<>>
    OBVIOUS
  <2>1. PICK s \in Seq(Event), e \in Event : r = Append(s, e)
    BY <2>0, SequenceEmptyOrAppend
  <2>2. Len(s) = n
    BY <2>1
  <2>3. Moving(Shifted(t, m), s) = Shifted(t, Moving(m, s))
    BY <1>2, <2>2
  <2>4. Moving(Shifted(t, m), Append(s, e)) = Moved(Moving(Shifted(t, m), s), e)
    BY MoveFold!FoldAppend DEF Moving
  <2>5. Moving(m, Append(s, e)) = Moved(Moving(m, s), e)
    BY MoveFold!FoldAppend DEF Moving
  <2>6. Moving(m, s) \in Moveds
    BY MovingType
  <2>7. Moved(Shifted(t, Moving(m, s)), e) = Shifted(t, Moved(Moving(m, s), e))
    BY <2>6, MovedShift
  <2> QED BY <2>1, <2>3, <2>4, <2>5, <2>7
<1>3. \A n \in Nat : n \in T
  <2> HIDE DEF T
  <2> QED BY <1>1, <1>2, MoveFold!NatSet
<1>4. Len(q) \in Nat
  OBVIOUS
<1> QED BY <1>3, <1>4

\* A packet of a key moves nothing, and one of motion moves by it.
LEMMA MovingKey ==
  ASSUME NEW m \in Moveds, m.pending = Still, NEW k \in RawKey, NEW v \in 0 .. 2
  PROVE  Moving(m, <<KeyEvent(k, v), Syn>>) = m
<1> DEFINE a == KeyEvent(k, v)
           q == <<a, Syn>>
<1>1. q \in Seq(Event) /\ q # <<>> /\ Head(q) = a /\ Tail(q) = <<Syn>>
  BY EventTypes
<1>2. Moved(m, a) = m
  BY DEF Moved, KeyEvent
<1>3. Moved(m, Syn) = m
  BY DEF Moved, Syn
<1> HIDE DEF a, q
<1>4. MoveFold!Fold(m, q) = MoveFold!Fold(Moved(m, a), <<Syn>>)
  BY <1>1, MoveFold!FoldTail
<1> QED BY <1>2, <1>3, <1>4, MoveFold!FoldOne DEF Moving, q, a

LEMMA MovingRel ==
  ASSUME NEW m \in Moveds, NEW axis \in {1, 2}, NEW v \in Int, NEW q \in Seq(Event)
  PROVE  Moving(m, <<RelEvent(axis, v)>> \o q)
           = Moving([m EXCEPT !.pending[axis] = @ + v], q)
<1> DEFINE r == <<RelEvent(axis, v)>>
<1>1. r \in Seq(Event)
  BY EventTypes
<1>2. MoveFold!Fold(m, r) = Moved(m, RelEvent(axis, v))
  BY MoveFold!FoldOne
<1>3. Moved(m, RelEvent(axis, v)) = [m EXCEPT !.pending[axis] = @ + v]
  BY DEF Moved, RelEvent
<1> HIDE DEF r
<1>4. MoveFold!Fold(m, r \o q) = MoveFold!Fold(MoveFold!Fold(m, r), q)
  BY <1>1, MoveFold!FoldConcat
<1> QED BY <1>2, <1>3, <1>4 DEF Moving, r

LEMMA MovingMotion ==
  ASSUME NEW m \in Moveds, m.pending = Still, NEW p \in Vector, p # Still
  PROVE  /\ Motion(p) \in Seq(Event)
         /\ Moving(m, Motion(p)) = [pending |-> Still, told |-> Append(m.told, p)]
<1> DEFINE x == IF p[1] = 0 THEN <<>> ELSE <<RelEvent(1, p[1])>>
           y == IF p[2] = 0 THEN <<>> ELSE <<RelEvent(2, p[2])>>
           z == <<Syn>>
           mx == [m EXCEPT !.pending = <<p[1], 0>>]
           my == [m EXCEPT !.pending = p]
<1>1. p[1] \in Int /\ p[2] \in Int /\ p = <<p[1], p[2]>> /\ ~(p[1] = 0 /\ p[2] = 0)
  BY DEF Still, Vector
<1>2. x \in Seq(Event) /\ y \in Seq(Event) /\ z \in Seq(Event)
  BY <1>1, EventTypes
<1>3. Motion(p) = (x \o y) \o z
  BY DEF Motion
<1>4. m.pending = <<0, 0>> /\ mx \in Moveds /\ my \in Moveds
  BY <1>1 DEF Moveds, Still, Vector
<1>5. Moving(m, x \o (y \o z)) = Moving(mx, y \o z)
  <2>1. CASE p[1] = 0
    <3>1. x \o (y \o z) = y \o z /\ mx = m
      BY <1>1, <1>2, <1>4, <2>1 DEF Moveds
    <3> QED BY <3>1
  <2>2. CASE p[1] # 0
    <3>1. x = <<RelEvent(1, p[1])>> /\ y \o z \in Seq(Event)
      BY <1>2, <2>2
    <3>2. [m EXCEPT !.pending[1] = @ + p[1]] = mx
      <4>1. [m.pending EXCEPT ![1] = @ + p[1]] = <<p[1], 0>>
        BY <1>1, <1>4
      <4> QED BY <4>1
    <3> HIDE DEF x, y, z, mx
    <3> QED BY <1>1, <3>1, <3>2, MovingRel
  <2> QED BY <2>1, <2>2
<1>6. Moving(mx, y \o z) = Moving(my, z)
  <2>1. CASE p[2] = 0
    <3>1. y \o z = z /\ mx = my
      BY <1>1, <1>2, <2>1
    <3> QED BY <3>1
  <2>2. CASE p[2] # 0
    <3>1. y = <<RelEvent(2, p[2])>>
      BY <2>2
    <3>2. [mx EXCEPT !.pending[2] = @ + p[2]] = my
      <4>1. mx.pending = <<p[1], 0>>
        BY <1>4 DEF Moveds
      <4>2. [mx.pending EXCEPT ![2] = @ + p[2]] = p
        BY <1>1, <4>1
      <4> QED BY <4>2
    <3> HIDE DEF x, y, z, mx
    <3>3. Moving(mx, <<RelEvent(2, p[2])>> \o z)
            = Moving([mx EXCEPT !.pending[2] = @ + p[2]], z)
      <4>1. 2 \in {1, 2} /\ p[2] \in Int /\ mx \in Moveds /\ z \in Seq(Event)
        BY <1>1, <1>2, <1>4
      <4> QED BY <4>1, MovingRel
    <3> QED BY <3>1, <3>2, <3>3
  <2> QED BY <2>1, <2>2
<1>7. Moving(my, z) = [pending |-> Still, told |-> Append(m.told, p)]
  <2>1. Moved(my, Syn) = [pending |-> Still, told |-> Append(m.told, p)]
    BY <1>4 DEF Moved, Syn, Moveds
  <2> QED BY <2>1, MoveFold!FoldOne DEF Moving
<1> HIDE DEF x, y, z
<1>8. (x \o y) \o z = x \o (y \o z) /\ x \o y \in Seq(Event) /\ (x \o y) \o z \in Seq(Event)
  BY <1>2, ConcatAssociative
<1> QED BY <1>3, <1>5, <1>6, <1>7, <1>8

-----------------------------------------------------------------------------

Held(e) == {KeyOf[k] : k \in e.since} \ {Unsupported}

\* What Believed says of an entry, ...
Keys(e) ==
  e.data /\ ~e.gone /\ "keys" \in e.sound =>
    /\ Believes(e.heard, e.queue) \subseteq Held(e)
    /\ \A c \in Held(e) \ Believes(e.heard, e.queue) : ~Alone(c)

\* ... and more than what Grouped does: besides, no packet is queued in part.
Fresh(e) == [pending |-> e.pending, told |-> <<>>]
Motions(e) ==
  e.data /\ ~e.gone /\ "motion" \in e.sound =>
    Moving(Fresh(e), e.queue) = [pending |-> Still, told |-> e.owed]

EntryOK(e) == e \in Entry /\ Len(e.queue) <= QueueSize /\ Keys(e) /\ Motions(e)

\* An entry nothing is said of.
LEMMA Unsound ==
  ASSUME NEW e, e \in Entry, Len(e.queue) <= QueueSize,
         ~e.data \/ e.gone \/ e.sound = {}
  PROVE  EntryOK(e)
BY DEF EntryOK, Keys, Motions

LEMMA OpenedOK ==
  ASSUME NEW n \in Node
  PROVE  EntryOK(Opened(n))
<1>1. <<>> \in Seq(Event) /\ <<>> \in Seq(Vector) /\ Len(<<>>) = 0 /\ Still \in Vector
  BY DEF Still, Vector
<1>2. Opened(n) \in Entry
  BY <1>1 DEF Opened, Entry
<1>3. Len(Opened(n).queue) <= QueueSize /\ Opened(n).sound = {}
  BY <1>1, BoundAssumption DEF Opened
<1> QED BY <1>2, <1>3, Unsound

LEMMA DeniedOK ==
  ASSUME NEW e, EntryOK(e)
  PROVE  /\ EntryOK(Denied(e))
         /\ EntryOK([Denied(e) EXCEPT !.grabbed = FALSE, !.owner = FALSE])
<1> DEFINE d == Denied(e)
           f == [d EXCEPT !.grabbed = FALSE, !.owner = FALSE]
<1>1. e \in Entry /\ Len(e.queue) <= QueueSize /\ <<>> \in Seq(Vector)
  BY DEF EntryOK
<1>2. d \in Entry /\ d.queue = e.queue /\ d.sound = {}
  BY <1>1 DEF Denied, Entry
<1> HIDE DEF d
<1>3. f \in Entry /\ f.queue = e.queue /\ f.sound = {}
  BY <1>2 DEF Entry
<1> HIDE DEF f
<1>4. EntryOK(d) /\ EntryOK(f)
  BY <1>1, <1>2, <1>3, Unsound
<1> QED BY <1>4 DEF d, f

\* A keyboard that is new to a device has heard of nothing.
LEMMA GivenOK ==
  ASSUME NEW e, EntryOK(e)
  PROVE  /\ e.queue = <<>> => EntryOK(Given(e))
         /\ EntryOK([Given(e) EXCEPT !.sound = {}])
         /\ EntryOK(Given([e EXCEPT !.queue = Drained(@)]))
<1>1. e \in Entry /\ Len(e.queue) <= QueueSize /\ <<>> \in Seq(Vector)
      /\ <<>> \in Seq(Event) /\ Len(<<>>) = 0 /\ 0 <= QueueSize
  BY BoundAssumption DEF EntryOK
<1>2. ASSUME NEW g \in Entry, g.queue = <<>>
      PROVE  EntryOK(Given(g))
  <2> DEFINE f == Given(g)
  <2>1. /\ f \in Entry /\ f.queue = <<>> /\ f.heard = {} /\ f.since = {} /\ f.owed = <<>>
        /\ f.pending = g.pending /\ ("motion" \in f.sound => g.pending = Still)
    BY <1>1, <1>2 DEF Given, Entry
  <2> HIDE DEF f
  <2>2. Keys(f)
    <3>1. Believes({}, <<>>) = {}
      BY BelievesIsFold, HearFold!FoldEmpty
    <3>2. Held(f) = {}
      BY <2>1 DEF Held
    <3> QED BY <2>1, <3>1, <3>2 DEF Keys
  <2>3. Motions(f)
    <3>1. Moving(Fresh(f), <<>>) = Fresh(f)
      BY MoveFold!FoldEmpty DEF Moving
    <3> QED BY <2>1, <3>1 DEF Motions, Fresh
  <2>4. EntryOK(f)
    BY <1>1, <2>1, <2>2, <2>3 DEF EntryOK
  <2> QED BY <2>4 DEF f
<1>3. EntryOK([Given(e) EXCEPT !.sound = {}])
  <2> DEFINE f == [Given(e) EXCEPT !.sound = {}]
  <2>1. f \in Entry /\ f.queue = e.queue /\ f.sound = {}
    BY <1>1 DEF Given, Entry
  <2> HIDE DEF f
  <2>2. EntryOK(f)
    BY <1>1, <2>1, Unsound
  <2> QED BY <2>2 DEF f
<1>4. EntryOK(Given([e EXCEPT !.queue = Drained(@)]))
  <2> DEFINE g == [e EXCEPT !.queue = Drained(@)]
  <2>1. g \in Entry /\ g.queue = <<>>
    BY <1>1 DEF Drained, Entry
  <2> HIDE DEF g
  <2>2. EntryOK(Given(g))
    BY <1>2, <2>1
  <2> QED BY <2>2 DEF g
<1> QED BY <1>1, <1>2, <1>3, <1>4

\* Who holds the grab, and whether the file is still open, nothing is said of.
LEMMA FlagsOK ==
  ASSUME NEW e, EntryOK(e)
  PROVE  /\ EntryOK([e EXCEPT !.owner = TRUE])
         /\ EntryOK([e EXCEPT !.open = FALSE])
<1> DEFINE f == [e EXCEPT !.owner = TRUE]
           g == [e EXCEPT !.open = FALSE]
<1>1. e \in Entry
  BY DEF EntryOK
<1>2. /\ f \in Entry /\ f.queue = e.queue /\ f.heard = e.heard /\ f.since = e.since
      /\ f.owed = e.owed /\ f.pending = e.pending /\ f.sound = e.sound /\ f.data = e.data
      /\ f.gone = e.gone
  BY <1>1 DEF Entry
<1>3. /\ g \in Entry /\ g.queue = e.queue /\ g.heard = e.heard /\ g.since = e.since
      /\ g.owed = e.owed /\ g.pending = e.pending /\ g.sound = e.sound /\ g.data = e.data
      /\ g.gone = e.gone
  BY <1>1 DEF Entry
<1> HIDE DEF f, g
<1>4. EntryOK(f)
  BY <1>2 DEF EntryOK, Keys, Held, Motions, Fresh
<1>5. EntryOK(g)
  BY <1>3 DEF EntryOK, Keys, Held, Motions, Fresh
<1> QED BY <1>4, <1>5 DEF f, g

LEMMA GoneOK ==
  ASSUME NEW e, EntryOK(e)
  PROVE  EntryOK([e EXCEPT !.gone = TRUE, !.queue = <<>>, !.since = {}, !.owed = <<>>,
                           !.sound = {}])
<1> DEFINE f == [e EXCEPT !.gone = TRUE, !.queue = <<>>, !.since = {}, !.owed = <<>>,
                          !.sound = {}]
<1>1. e \in Entry /\ <<>> \in Seq(Event) /\ <<>> \in Seq(Vector) /\ Len(<<>>) <= QueueSize
  BY BoundAssumption DEF EntryOK
<1>2. f \in Entry /\ f.queue = <<>> /\ f.sound = {}
  BY <1>1 DEF Entry
<1> HIDE DEF f
<1>3. EntryOK(f)
  BY <1>1, <1>2, Unsound
<1> QED BY <1>3 DEF f

-----------------------------------------------------------------------------
(* Reading an event.                                                       *)

LEMMA ToldType ==
  ASSUME NEW h \in SUBSET Key, NEW k \in RawKey, NEW v
  PROVE  Told(h, k, v) \in SUBSET Key
<1>1. KeyOf[k] \in Key \cup {Unsupported}
  BY CodeAssumption
<1> QED BY <1>1 DEF Told

LEMMA AfterType ==
  ASSUME NEW e \in Entry, NEW ev \in Event
  PROVE  /\ After(e, ev) \in Entry
         /\ LET f == After(e, ev)
            IN  /\ f.queue = e.queue /\ f.data = e.data /\ f.gone = e.gone
                /\ f.sound = e.sound /\ f.since = e.since
<1>0. e.heard \in SUBSET Key /\ e.pending \in Vector /\ e.owed \in Seq(Vector)
  BY DEF Entry
<1>1. CASE ev.type = "key"
  <2> DEFINE h == IF e.data /\ ~Silent(e, ev) THEN Told(e.heard, ev.code, ev.value) ELSE e.heard
             f == [e EXCEPT !.heard = h]
  <2>1. ev.code \in RawKey
    BY <1>1, EventCases
  <2>2. h \in SUBSET Key
    BY <1>0, <2>1, ToldType
  <2>3. After(e, ev) = f
    BY <1>1 DEF After
  <2> HIDE DEF h
  <2>4. f \in Entry
    BY <2>2 DEF Entry
  <2>5. /\ f.queue = e.queue /\ f.data = e.data /\ f.gone = e.gone
        /\ f.sound = e.sound /\ f.since = e.since
    BY DEF Entry
  <2> QED BY <2>3, <2>4, <2>5
<1>2. CASE ev.type = "rel"
  <2> DEFINE p == [e.pending EXCEPT ![ev.axis] = @ + ev.value]
             f == [e EXCEPT !.pending = p]
  <2>1. ev.axis \in {1, 2} /\ ev.value \in Int
    BY <1>2, EventCases
  <2>2. p \in Vector
    <3> DEFINE q == e.pending
               v == ev.value
    <3>1. [q EXCEPT ![1] = @ + v] \in Vector /\ [q EXCEPT ![2] = @ + v] \in Vector
      <4> HIDE DEF q, v
      <4>1. q \in Vector /\ v \in Int
        BY <1>0, <2>1 DEF q, v
      <4> QED BY <4>1, PairMoves
    <3> QED BY <2>1, <3>1
  <2>3. After(e, ev) = f
    BY <1>2 DEF After
  <2> HIDE DEF p
  <2>4. f \in Entry
    BY <2>2 DEF Entry
  <2>5. /\ f.queue = e.queue /\ f.data = e.data /\ f.gone = e.gone
        /\ f.sound = e.sound /\ f.since = e.since
    BY DEF Entry
  <2> QED BY <2>3, <2>4, <2>5
<1>3. CASE ev.type \notin {"key", "rel"} /\ e.pending = Still
  BY <1>3 DEF After
<1>4. CASE ev.type \notin {"key", "rel"} /\ e.pending # Still
  <2> DEFINE o == IF e.owed = <<>> THEN e.owed ELSE Tail(e.owed)
             f == [e EXCEPT !.pending = Still, !.owed = o]
  <2>1. o \in Seq(Vector) /\ Still \in Vector
    BY <1>0 DEF Still, Vector
  <2>2. After(e, ev) = f
    <3>1. Taken(e).owed = e.owed
      BY DEF Taken, Entry
    <3>2. After(e, ev) = [Taken(e) EXCEPT !.owed = o]
      BY <1>4, <3>1 DEF After
    <3> HIDE DEF o
    <3> QED BY <3>2 DEF Taken
  <2> HIDE DEF o
  <2>3. f \in Entry
    BY <2>1 DEF Entry
  <2>4. /\ f.queue = e.queue /\ f.data = e.data /\ f.gone = e.gone
        /\ f.sound = e.sound /\ f.since = e.since
    BY DEF Entry
  <2> QED BY <2>2, <2>3, <2>4
<1> QED BY <1>1, <1>2, <1>3, <1>4

\* A keyboard's belief moves as Hearing says.
LEMMA AfterHeard ==
  ASSUME NEW e \in Entry, NEW ev \in Event, e.data
  PROVE  After(e, ev).heard = Hearing(e.heard, ev)
<1>1. CASE ev.type = "key"
  <2>1. After(e, ev) = [e EXCEPT !.heard = IF ~Silent(e, ev) THEN Told(@, ev.code, ev.value)
                                           ELSE @]
    BY <1>1 DEF After
  <2>2. After(e, ev).heard = IF ~Silent(e, ev) THEN Told(e.heard, ev.code, ev.value) ELSE e.heard
    BY <2>1 DEF Entry
  <2> QED BY <1>1, <2>2 DEF Silent, Hearing, Told
<1>2. CASE ev.type = "rel"
  BY <1>2 DEF After, Hearing, Entry
<1>3. CASE ev.type \notin {"key", "rel"}
  <2>1. After(e, ev).heard = e.heard
    BY <1>3 DEF After, Taken, Entry
  <2> QED BY <1>3, <2>1 DEF Hearing
<1> QED BY <1>1, <1>2, <1>3

LEMMA AfterOK ==
  ASSUME NEW e, EntryOK(e), ~e.gone, e.queue # <<>>
  PROVE  EntryOK(After([e EXCEPT !.queue = Tail(@)], Head(e.queue)))
<1> DEFINE ev == Head(e.queue)
           q  == Tail(e.queue)
           r  == [e EXCEPT !.queue = Tail(@)]
           f  == After(r, ev)
<1>1. e \in Entry /\ e.queue \in Seq(Event) /\ Len(e.queue) <= QueueSize
  BY DEF EntryOK, Entry
<1>2. ev \in Event /\ q \in Seq(Event) /\ Len(q) <= QueueSize
  BY <1>1, BoundAssumption
<1>3. /\ r \in Entry /\ r.queue = q /\ r.heard = e.heard /\ r.since = e.since /\ r.owed = e.owed
      /\ r.pending = e.pending /\ r.sound = e.sound /\ r.data = e.data /\ r.gone = e.gone
  BY <1>1, <1>2 DEF Entry
<1> HIDE DEF ev, q, r
<1>4. /\ f \in Entry /\ f.queue = q /\ f.since = e.since /\ f.sound = e.sound
      /\ f.data = e.data /\ f.gone = e.gone
  BY <1>2, <1>3, AfterType
<1>5. Keys(f)
  <2> SUFFICES ASSUME e.data, "keys" \in e.sound
               PROVE  Believes(f.heard, f.queue) = Believes(e.heard, e.queue)
    <3>1. Held(f) = Held(e)
      BY <1>4 DEF Held
    <3> QED BY <1>4, <3>1 DEF EntryOK, Keys
  <2>1. f.heard = Hearing(e.heard, ev)
    BY <1>2, <1>3, AfterHeard
  <2>2. HearFold!Fold(e.heard, e.queue) = HearFold!Fold(Hearing(e.heard, ev), q)
    BY <1>1, HearFold!FoldTail DEF ev, q
  <2> QED BY <1>4, <2>1, <2>2, BelievesIsFold
<1>6. Motions(f)
  <2> SUFFICES ASSUME e.data, "motion" \in e.sound
               PROVE  Moving(Fresh(f), q) = [pending |-> Still, told |-> f.owed]
    BY <1>4 DEF Motions
  <2> DEFINE m == Fresh(e)
  <2>1. Moving(m, e.queue) = [pending |-> Still, told |-> e.owed]
    BY DEF EntryOK, Motions
  <2>2. Moving(m, e.queue) = Moving(Moved(m, ev), q)
    BY <1>1, MoveFold!FoldTail DEF ev, q, Moving
  <2>3. m.pending = e.pending /\ m.told = <<>> /\ m = [pending |-> e.pending, told |-> <<>>]
    BY DEF Fresh
  <2>4. CASE ev.type = "key"
    <3>1. Moved(m, ev) = m
      BY <2>4 DEF Moved
    <3>2. f.pending = e.pending /\ f.owed = e.owed
      BY <1>3, <2>4 DEF After, Entry
    <3> QED BY <2>1, <2>2, <3>1, <3>2 DEF Fresh
  <2>5. CASE ev.type = "rel"
    <3> DEFINE p == [e.pending EXCEPT ![ev.axis] = @ + ev.value]
    <3>1. Moved(m, ev) = [pending |-> p, told |-> <<>>]
      BY <2>3, <2>5 DEF Moved
    <3>2. f.pending = p /\ f.owed = e.owed
      BY <1>3, <2>5 DEF After, Entry
    <3> QED BY <2>1, <2>2, <3>1, <3>2 DEF Fresh
  <2>6. CASE ev.type = "syn" /\ e.pending = Still
    <3>1. Moved(m, ev) = m
      BY <2>3, <2>6 DEF Moved
    <3>2. f = r
      BY <1>3, <2>6 DEF After
    <3> QED BY <1>3, <2>1, <2>2, <3>1, <3>2 DEF Fresh
  <2>7. CASE ev.type = "syn" /\ e.pending # Still
    <3> DEFINE t == <<e.pending>>
               n == [pending |-> Still, told |-> <<>>]
               o == Moving(n, q).told
    <3>0. e.pending \in Vector
      BY <1>1 DEF Entry
    <3>1. t \in Seq(Vector) /\ t \o <<>> = t /\ Append(<<>>, e.pending) = t
      BY <3>0
    <3>2. Moved(m, ev) = [pending |-> Still, told |-> t]
      BY <2>3, <2>7, <3>1 DEF Moved
    <3>3. n \in Moveds
      BY DEF Moveds, Still, Vector
    <3>4. Moving(n, q) \in Moveds /\ o \in Seq(Vector)
      <4>1. Moving(n, q) \in Moveds
        BY <1>2, <3>3, MovingType
      <4> QED BY <4>1 DEF Moveds
    <3>5. f.pending = Still /\ f.owed = IF e.owed = <<>> THEN e.owed ELSE Tail(e.owed)
      BY <1>3, <2>7 DEF After, Taken, Entry
    <3> HIDE DEF t
    <3>6. Moved(m, ev) = Shifted(t, n)
      BY <3>1, <3>2 DEF Shifted
    <3>7. Moving(Shifted(t, n), q) = Shifted(t, Moving(n, q))
      BY <1>2, <3>1, <3>3, MovingShift
    <3>8. Shifted(t, Moving(n, q)) = [pending |-> Still, told |-> e.owed]
      BY <2>1, <2>2, <3>6, <3>7
    <3>9. Moving(n, q).pending = Still /\ t \o o = e.owed
      BY <3>8 DEF Shifted
    <3>10. Tail(t \o o) = o /\ t \o o # <<>>
      BY <3>0, <3>4 DEF t
    <3>11. Moving(n, q) = [pending |-> Still, told |-> o]
      <4> DEFINE w == Moving(n, q)
      <4> HIDE DEF w
      <4>1. w \in Moveds => w = [pending |-> w.pending, told |-> w.told]
        BY DEF Moveds
      <4> QED BY <4>1, <3>4, <3>9 DEF w
    <3> HIDE DEF o
    <3>12. f.owed = o
      BY <3>5, <3>9, <3>10
    <3> QED BY <3>5, <3>11, <3>12 DEF Fresh
  <2> QED BY <1>2, <2>4, <2>5, <2>6, <2>7, EventCases
<1>7. EntryOK(f)
  BY <1>2, <1>4, <1>5, <1>6 DEF EntryOK
<1> QED BY <1>7 DEF f, r, ev

-----------------------------------------------------------------------------
(* What the kernel adds to a queue.                                        *)

LEMMA ReceivedType ==
  ASSUME NEW e, EntryOK(e), NEW s \in Seq(Event)
  PROVE  LET f == Received(e, s)
         IN  /\ f \in Entry /\ Len(f.queue) <= QueueSize
             /\ f.heard = e.heard /\ f.since = e.since /\ f.owed = e.owed
             /\ f.pending = e.pending /\ f.data = e.data /\ f.gone = e.gone
             /\ f.sound = {} \/ (f.sound = e.sound /\ f.queue = e.queue \o s)
<1> DEFINE q == Queued(e.queue, s)
           z == IF Overflows(e.queue, s) THEN {} ELSE e.sound
           f == [e EXCEPT !.queue = q, !.sound = z]
<1>1. e \in Entry /\ e.queue \in Seq(Event) /\ Len(e.queue) <= QueueSize
      /\ e.sound \in SUBSET {"keys", "motion"}
  BY DEF EntryOK, Entry
<1>2. q \in Seq(Event) /\ Len(q) <= QueueSize
  BY <1>1, QueuedType
<1>3. z = {} \/ (z = e.sound /\ q = e.queue \o s)
  BY <1>1, QueuedWhole
<1>4. z \in SUBSET {"keys", "motion"}
  BY <1>1
<1>5. Received(e, s) = f
  BY DEF Received
<1> HIDE DEF q, z
<1>6. /\ f \in Entry /\ f.queue = q /\ f.sound = z
      /\ f.heard = e.heard /\ f.since = e.since /\ f.owed = e.owed
      /\ f.pending = e.pending /\ f.data = e.data /\ f.gone = e.gone
  BY <1>1, <1>2, <1>4 DEF Entry
<1> QED BY <1>2, <1>3, <1>5, <1>6

\* What of a packet a keyboard hears.
LEMMA BelievesKey ==
  ASSUME NEW h, NEW q \in Seq(Event), NEW k \in RawKey, NEW v \in 0 .. 2
  PROVE  Believes(h, q \o <<KeyEvent(k, v), Syn>>)
           = IF v = 2 THEN Believes(h, q) ELSE Told(Believes(h, q), k, v)
<1> DEFINE b == HearFold!Fold(h, q)
           a == KeyEvent(k, v)
           s == <<a, Syn>>
<1>1. s \in Seq(Event) /\ s # <<>> /\ Head(s) = a /\ Tail(s) = <<Syn>>
  BY EventTypes
<1>2. Hearing(b, a) = IF v = 2 THEN b ELSE Told(b, k, v)
  BY DEF Hearing, KeyEvent
<1>3. \A g : Hearing(g, Syn) = g
  BY DEF Hearing, Syn
<1> HIDE DEF a, s, b
<1>4. HearFold!Fold(b, s) = HearFold!Fold(Hearing(b, a), <<Syn>>)
  BY <1>1, HearFold!FoldTail
<1>5. HearFold!Fold(b, s) = Hearing(b, a)
  BY <1>3, <1>4, HearFold!FoldOne
<1>6. HearFold!Fold(h, q \o s) = HearFold!Fold(b, s)
  BY <1>1, HearFold!FoldConcat DEF b
<1> QED BY <1>2, <1>5, <1>6, BelievesIsFold DEF s, a, b

LEMMA MotionSilent ==
  ASSUME NEW p \in Vector
  PROVE  Motion(p) \in Seq({ev \in Event : ev.type # "key"})
<1> DEFINE E == {ev \in Event : ev.type # "key"}
           x == IF p[1] = 0 THEN <<>> ELSE <<RelEvent(1, p[1])>>
           y == IF p[2] = 0 THEN <<>> ELSE <<RelEvent(2, p[2])>>
           z == <<Syn>>
<1>1. p[1] \in Int /\ p[2] \in Int
  BY DEF Vector
<1>2. RelEvent(1, p[1]) \in E /\ RelEvent(2, p[2]) \in E /\ Syn \in E
  BY <1>1, EventTypes DEF RelEvent, Syn
<1>3. Motion(p) = x \o y \o z
  BY DEF Motion
<1> HIDE DEF E
<1>4. x \in Seq(E) /\ y \in Seq(E) /\ z \in Seq(E)
  BY <1>2
<1> HIDE DEF x, y, z
<1>5. x \o y \o z \in Seq(E)
  BY <1>4
<1> QED BY <1>3, <1>5 DEF E

LEMMA BelievesMotion ==
  ASSUME NEW h, NEW q \in Seq(Event), NEW p \in Vector
  PROVE  Believes(h, q \o Motion(p)) = Believes(h, q)
<1> DEFINE b == HearFold!Fold(h, q)
           s == Motion(p)
           E == {ev \in Event : ev.type # "key"}
           B == {b}
<1>1. s \in Seq(E)
  BY MotionSilent
<1>2. s \in Seq(Event)
  <2>1. E \subseteq Event
    OBVIOUS
  <2> HIDE DEF E, s
  <2> QED BY <1>1, <2>1, SeqMonotonic
<1>3. \A x \in B, ev \in E : Hearing(x, ev) \in B
  BY DEF Hearing
<1>4. b \in B
  OBVIOUS
<1> HIDE DEF E, s, B
<1>5. HearFold!Fold(b, s) \in B
  BY <1>1, <1>3, <1>4, HearFold!FoldType
<1>6. HearFold!Fold(h, q \o s) = HearFold!Fold(b, s)
  <2> HIDE DEF b
  <2> QED BY <1>2, HearFold!FoldConcat DEF b
<1>7. HearFold!Fold(h, q \o s) = b
  BY <1>5, <1>6 DEF B
<1> QED BY <1>7, BelievesIsFold DEF s, b

\* Motion of which a packet of a key is no part is told as it was.
LEMMA MotionsKey ==
  ASSUME NEW e \in Entry, Motions(e), NEW k \in RawKey, NEW v \in 0 .. 2,
         e.data, ~e.gone, "motion" \in e.sound
  PROVE  Moving(Fresh(e), e.queue \o <<KeyEvent(k, v), Syn>>)
           = [pending |-> Still, told |-> e.owed]
<1> DEFINE m == Fresh(e)
           s == <<KeyEvent(k, v), Syn>>
           n == [pending |-> Still, told |-> e.owed]
<1>1. s \in Seq(Event)
  BY EventTypes
<1>2. e.queue \in Seq(Event) /\ n \in Moveds
  BY DEF Entry, Moveds, Still, Vector
<1>3. Moving(m, e.queue) = n
  BY DEF Motions
<1>4. Moving(n, s) = n
  BY <1>2, MovingKey
<1> HIDE DEF m, s, n
<1>5. Moving(m, e.queue \o s) = Moving(Moving(m, e.queue), s)
  BY <1>1, <1>2, MoveFold!FoldConcat DEF Moving
<1> QED BY <1>3, <1>4, <1>5 DEF m, s, n

\* An entry whose file is sent a packet, and what it then believes and is owed.
LEMMA ReceivedOK ==
  ASSUME NEW e, EntryOK(e), NEW s \in Seq(Event), NEW f, f \in Entry,
         LET r == Received(e, s)
         IN  /\ f.queue = r.queue /\ f.sound = r.sound /\ f.heard = r.heard
             /\ f.pending = r.pending /\ f.data = r.data /\ f.gone = r.gone,
         e.data /\ ~e.gone /\ "keys" \in e.sound =>
           LET b == Believes(e.heard, e.queue \o s)
           IN  b \subseteq Held(f) /\ \A d \in Held(f) \ b : ~Alone(d),
         e.data /\ ~e.gone /\ "motion" \in e.sound =>
           Moving(Fresh(e), e.queue \o s) = [pending |-> Still, told |-> f.owed]
  PROVE  EntryOK(f)
<1>1. /\ Len(f.queue) <= QueueSize
      /\ f.heard = e.heard /\ f.pending = e.pending /\ f.data = e.data /\ f.gone = e.gone
      /\ f.sound = {} \/ (f.sound = e.sound /\ f.queue = e.queue \o s)
  BY ReceivedType
<1>2. CASE f.sound = {}
  BY <1>1, <1>2, Unsound
<1>3. CASE f.sound = e.sound /\ f.queue = e.queue \o s
  <2>1. Keys(f)
    BY <1>1, <1>3 DEF Keys
  <2>2. Fresh(f) = Fresh(e)
    BY <1>1 DEF Fresh
  <2>3. Motions(f)
    BY <1>1, <1>3, <2>2 DEF Motions
  <2> QED BY <1>1, <2>1, <2>3 DEF EntryOK
<1> QED BY <1>1, <1>2, <1>3

\* A key goes down.
LEMMA PressedOK ==
  ASSUME NEW e, EntryOK(e), NEW k \in RawKey
  PROVE  EntryOK([Received(e, <<KeyEvent(k, 1), Syn>>) EXCEPT
                    !.since = IF e.data THEN @ \cup {k} ELSE @])
<1> DEFINE s == <<KeyEvent(k, 1), Syn>>
           r == Received(e, s)
           c == IF e.data THEN e.since \cup {k} ELSE e.since
           f == [r EXCEPT !.since = c]
           b == Believes(e.heard, e.queue)
           x == KeyOf[k]
<1>1. s \in Seq(Event) /\ 1 \in 0 .. 2
  BY EventTypes
<1>2. e \in Entry /\ e.queue \in Seq(Event) /\ e.since \in SUBSET RawKey /\ Motions(e)
  BY DEF EntryOK, Entry
<1>3. Believes(e.heard, e.queue \o s) = IF x = Unsupported THEN b ELSE b \cup {x}
  <2>1. Believes(e.heard, e.queue \o s) = Told(b, k, 1)
    <3> DEFINE v == 1
    <3>1. v \in 0 .. 2 /\ v # 2
      OBVIOUS
    <3> HIDE DEF v
    <3>2. Believes(e.heard, e.queue \o <<KeyEvent(k, v), Syn>>) = Told(b, k, v)
      BY <1>2, <3>1, BelievesKey
    <3> QED BY <3>2 DEF v
  <2> QED BY <2>1 DEF Told
<1>4. e.data /\ ~e.gone /\ "motion" \in e.sound =>
        Moving(Fresh(e), e.queue \o s) = [pending |-> Still, told |-> e.owed]
  BY <1>1, <1>2, MotionsKey
<1>5. c \in SUBSET RawKey
  BY <1>2
<1> HIDE DEF s
<1>6. r \in Entry /\ r.since = e.since /\ r.owed = e.owed
  BY <1>1, ReceivedType
<1>7. f = [Received(e, s) EXCEPT !.since = IF e.data THEN @ \cup {k} ELSE @]
  BY <1>6
<1> HIDE DEF r, c
<1>8. /\ f \in Entry /\ f.queue = r.queue /\ f.sound = r.sound /\ f.heard = r.heard
      /\ f.pending = r.pending /\ f.data = r.data /\ f.gone = r.gone
      /\ f.since = c /\ f.owed = e.owed
  BY <1>5, <1>6 DEF Entry
<1> HIDE DEF f
<1>9. e.data => Held(f) = Held(e) \cup ({x} \ {Unsupported})
  BY <1>8 DEF Held, c
<1>10. e.data /\ ~e.gone /\ "keys" \in e.sound =>
         b \subseteq Held(e) /\ \A d \in Held(e) \ b : ~Alone(d)
  BY DEF EntryOK, Keys
<1> HIDE DEF b, x
<1>11. e.data /\ ~e.gone /\ "keys" \in e.sound =>
         LET g == Believes(e.heard, e.queue \o s)
         IN  g \subseteq Held(f) /\ \A d \in Held(f) \ g : ~Alone(d)
  BY <1>3, <1>9, <1>10
<1>12. EntryOK(f)
  BY <1>1, <1>4, <1>8, <1>11, ReceivedOK DEF r
<1> QED BY <1>7, <1>12 DEF s

\* A key goes up: another that is the same to keyd may still be down.
LEMMA ReleasedOK ==
  ASSUME NEW e, EntryOK(e), NEW k \in RawKey
  PROVE  EntryOK([Received(e, <<KeyEvent(k, 0), Syn>>) EXCEPT !.since = @ \ {k}])
<1> DEFINE s == <<KeyEvent(k, 0), Syn>>
           r == Received(e, s)
           c == e.since \ {k}
           f == [r EXCEPT !.since = c]
           b == Believes(e.heard, e.queue)
           x == KeyOf[k]
<1>1. s \in Seq(Event) /\ 0 \in 0 .. 2
  BY EventTypes
<1>2. e \in Entry /\ e.queue \in Seq(Event) /\ e.since \in SUBSET RawKey /\ Motions(e)
  BY DEF EntryOK, Entry
<1>3. Believes(e.heard, e.queue \o s) = IF x = Unsupported THEN b ELSE b \ {x}
  <2>1. Believes(e.heard, e.queue \o s) = Told(b, k, 0)
    <3> DEFINE v == 0
    <3>1. v \in 0 .. 2 /\ v # 2
      OBVIOUS
    <3> HIDE DEF v
    <3>2. Believes(e.heard, e.queue \o <<KeyEvent(k, v), Syn>>) = Told(b, k, v)
      BY <1>2, <3>1, BelievesKey
    <3> QED BY <3>2 DEF v
  <2> QED BY <2>1 DEF Told
<1>4. e.data /\ ~e.gone /\ "motion" \in e.sound =>
        Moving(Fresh(e), e.queue \o s) = [pending |-> Still, told |-> e.owed]
  BY <1>1, <1>2, MotionsKey
<1>5. c \in SUBSET RawKey
  BY <1>2
<1> HIDE DEF s
<1>6. r \in Entry /\ r.since = e.since /\ r.owed = e.owed
  BY <1>1, ReceivedType
<1>7. f = [Received(e, s) EXCEPT !.since = @ \ {k}]
  BY <1>6
<1> HIDE DEF r, c
<1>8. /\ f \in Entry /\ f.queue = r.queue /\ f.sound = r.sound /\ f.heard = r.heard
      /\ f.pending = r.pending /\ f.data = r.data /\ f.gone = r.gone
      /\ f.since = c /\ f.owed = e.owed
  BY <1>5, <1>6 DEF Entry
<1> HIDE DEF f
<1>9. /\ Held(f) \subseteq Held(e) /\ Held(e) \ {x} \subseteq Held(f)
      /\ x = Unsupported => Held(e) \subseteq Held(f)
  BY <1>8 DEF Held, c
<1>10. x \in Held(f) => ~Alone(x)
  <2> SUFFICES ASSUME x \in Held(f) PROVE ~Alone(x)
    OBVIOUS
  <2>1. PICK j \in c : KeyOf[j] = x
    BY <1>8 DEF Held
  <2>2. j \in RawKey /\ j # k /\ KeyOf[k] = x
    BY <1>2, <2>1 DEF c
  <2> HIDE DEF x
  <2> QED BY <2>1, <2>2 DEF Alone
<1>11. e.data /\ ~e.gone /\ "keys" \in e.sound =>
         b \subseteq Held(e) /\ \A d \in Held(e) \ b : ~Alone(d)
  BY DEF EntryOK, Keys
<1> HIDE DEF b, x
<1>12. e.data /\ ~e.gone /\ "keys" \in e.sound =>
         LET g == Believes(e.heard, e.queue \o s)
         IN  g \subseteq Held(f) /\ \A d \in Held(f) \ g : ~Alone(d)
  BY <1>3, <1>9, <1>10, <1>11
<1>13. EntryOK(f)
  BY <1>1, <1>4, <1>8, <1>12, ReceivedOK DEF r
<1> QED BY <1>7, <1>13 DEF s

\* A key repeats itself: the owed motion has nothing added to it.
LEMMA RepeatedOK ==
  ASSUME NEW e, EntryOK(e), NEW k \in RawKey
  PROVE  EntryOK([Received(e, <<KeyEvent(k, 2), Syn>>) EXCEPT
                    !.owed = IF e.data THEN @ \o <<>> ELSE @])
<1> DEFINE s == <<KeyEvent(k, 2), Syn>>
           r == Received(e, s)
           b == Believes(e.heard, e.queue)
<1>1. s \in Seq(Event) /\ 2 \in 0 .. 2
  BY EventTypes
<1>2. e \in Entry /\ e.queue \in Seq(Event) /\ e.owed \in Seq(Vector) /\ Motions(e)
  BY DEF EntryOK, Entry
<1>3. Believes(e.heard, e.queue \o s) = b
  BY <1>1, <1>2, BelievesKey
<1>4. e.data /\ ~e.gone /\ "motion" \in e.sound =>
        Moving(Fresh(e), e.queue \o s) = [pending |-> Still, told |-> e.owed]
  BY <1>1, <1>2, MotionsKey
<1> HIDE DEF s
<1>5. r \in Entry /\ r.since = e.since /\ r.owed = e.owed /\ e.owed \o <<>> = e.owed
  BY <1>1, <1>2, ReceivedType
<1> HIDE DEF r
<1>6. [r EXCEPT !.owed = IF e.data THEN @ \o <<>> ELSE @] = r
  BY <1>5 DEF Entry
<1>7. Held(r) = Held(e)
  BY <1>5 DEF Held
<1>8. e.data /\ ~e.gone /\ "keys" \in e.sound =>
        b \subseteq Held(e) /\ \A d \in Held(e) \ b : ~Alone(d)
  BY DEF EntryOK, Keys
<1> HIDE DEF b
<1>9. EntryOK(r)
  BY <1>1, <1>3, <1>4, <1>5, <1>7, <1>8, ReceivedOK DEF r
<1> QED BY <1>6, <1>9 DEF r, s

\* A packet of motion comes in.
LEMMA MotionOK ==
  ASSUME NEW e, EntryOK(e), NEW p \in Vector, p # Still
  PROVE  EntryOK([Received(e, Motion(p)) EXCEPT !.owed = IF e.data THEN @ \o <<p>> ELSE @])
<1> DEFINE s == Motion(p)
           r == Received(e, s)
           o == IF e.data THEN e.owed \o <<p>> ELSE e.owed
           f == [r EXCEPT !.owed = o]
           b == Believes(e.heard, e.queue)
           m == [pending |-> Still, told |-> e.owed]
<1>1. e \in Entry /\ e.queue \in Seq(Event) /\ e.owed \in Seq(Vector) /\ m \in Moveds
  BY DEF EntryOK, Entry, Moveds, Still, Vector
<1>2. /\ s \in Seq(Event)
      /\ Moving(m, s) = [pending |-> Still, told |-> Append(e.owed, p)]
  BY <1>1, MovingMotion
<1>3. Believes(e.heard, e.queue \o s) = b
  BY <1>1, BelievesMotion
<1>4. o \in Seq(Vector) /\ (e.data => o = Append(e.owed, p))
  BY <1>1
<1> HIDE DEF s, m, o
<1>5. e.data /\ ~e.gone /\ "motion" \in e.sound =>
        Moving(Fresh(e), e.queue \o s) = [pending |-> Still, told |-> o]
  <2> SUFFICES ASSUME e.data, ~e.gone, "motion" \in e.sound
               PROVE  Moving(Fresh(e), e.queue \o s) = [pending |-> Still, told |-> o]
    OBVIOUS
  <2>1. Moving(Fresh(e), e.queue) = m
    BY DEF EntryOK, Motions, m
  <2>2. Moving(Fresh(e), e.queue \o s) = Moving(Moving(Fresh(e), e.queue), s)
    BY <1>1, <1>2, MoveFold!FoldConcat DEF Moving
  <2> QED BY <1>2, <1>4, <2>1, <2>2
<1>6. r \in Entry /\ r.since = e.since /\ r.owed = e.owed
  BY <1>2, ReceivedType
<1>7. f = [Received(e, s) EXCEPT !.owed = IF e.data THEN @ \o <<p>> ELSE @]
  BY <1>6 DEF o
<1> HIDE DEF r
<1>8. /\ f \in Entry /\ f.queue = r.queue /\ f.sound = r.sound /\ f.heard = r.heard
      /\ f.pending = r.pending /\ f.data = r.data /\ f.gone = r.gone
      /\ f.since = e.since /\ f.owed = o
  BY <1>4, <1>6 DEF Entry
<1> HIDE DEF f
<1>9. Held(f) = Held(e)
  BY <1>8 DEF Held
<1>10. e.data /\ ~e.gone /\ "keys" \in e.sound =>
         b \subseteq Held(e) /\ \A d \in Held(e) \ b : ~Alone(d)
  BY DEF EntryOK, Keys
<1> HIDE DEF b
<1>11. EntryOK(f)
  BY <1>2, <1>3, <1>5, <1>8, <1>9, <1>10, ReceivedOK DEF r
<1> QED BY <1>7, <1>11 DEF s

-----------------------------------------------------------------------------
(* The second inductive invariant: every entry is as it should be, and the *)
(* loop refers to entries there are.                                       *)

KeptInv ==
  /\ match \in Matches /\ changes \in 0 .. MaxChanges
  /\ loop \in Loop /\ loop.ready \subseteq DOMAIN table
  /\ loop.ready # {} => loop.at = "devices"
  /\ Len(table) <= MaxDevices
  /\ \A i \in DOMAIN table : EntryOK(table[i])

LEMMA KeptInitial ==
  ASSUME Init
  PROVE  KeptInv
<1>1. table = <<>> /\ DOMAIN table = {} /\ Len(table) = 0
  BY DEF Init
<1>2. loop \in Loop /\ loop.ready = {}
  <2>1. <<>> \in Seq(Nat)
    OBVIOUS
  <2> QED BY <2>1 DEF Init, Loop
<1> QED BY <1>1, <1>2, BoundAssumption DEF Init, KeptInv

\* A table rewritten entry by entry.
LEMMA Rewritten ==
  ASSUME EvdevInv, KeptInv, table' = [i \in DOMAIN table |-> table'[i]],
         \A i \in DOMAIN table : EntryOK(table'[i])
  PROVE  /\ DOMAIN table' = DOMAIN table /\ Len(table') <= MaxDevices
         /\ \A i \in DOMAIN table' : EntryOK(table'[i])
<1>1. Len(table) \in Nat /\ DOMAIN table = 1 .. Len(table)
  BY TableDomain DEF EvdevInv
<1>2. Len(table') = Len(table) /\ DOMAIN table' = DOMAIN table
  BY <1>1, IsSequence
<1> QED BY <1>2 DEF KeptInv

\* A step outside the daemon.
LEMMA Outside ==
  ASSUME EvdevInv, KeptInv, UNCHANGED <<match, loop>>, changes' \in 0 .. MaxChanges,
         table' = [i \in DOMAIN table |-> table'[i]],
         \A i \in DOMAIN table : EntryOK(table'[i])
  PROVE  KeptInv'
BY Rewritten DEF KeptInv

\* One that leaves the table alone.
LEMMA Aside ==
  ASSUME KeptInv, UNCHANGED table, match' \in Matches, changes' \in 0 .. MaxChanges,
         loop' \in Loop, loop'.ready \subseteq DOMAIN table,
         loop'.ready # {} => loop'.at = "devices"
  PROVE  KeptInv'
BY DEF KeptInv

LEMMA ChangedCounts ==
  ASSUME KeptInv, Changed
  PROVE  changes' \in 0 .. MaxChanges
BY BoundAssumption DEF KeptInv, Changed

LEMMA ManagingKept ==
  ASSUME EvdevInv, KeptInv, loop.todo # <<>>, UNCHANGED World,
         NEW e, EntryOK(e), Becomes(e)
  PROVE  KeptInv'
<1>1. /\ table' = [table EXCEPT ![Head(loop.todo)] = e]
      /\ loop' = [loop EXCEPT !.todo = Tail(@), !.grab = "check"]
      /\ UNCHANGED <<match, changes>>
  BY DEF Becomes, World
<1>2. table' = [i \in DOMAIN table |-> table'[i]]
  BY <1>1
<1>3. \A i \in DOMAIN table : EntryOK(table'[i])
  BY <1>1 DEF KeptInv
<1>4. loop' \in Loop /\ loop'.ready = loop.ready /\ loop'.at = loop.at
  <2>1. loop \in Loop /\ loop.todo \in Seq(Nat) /\ Tail(loop.todo) \in Seq(Nat)
    BY HeadTailProperties DEF KeptInv, Loop
  <2> QED BY <1>1, <2>1 DEF Loop
<1> QED BY <1>1, <1>2, <1>3, <1>4, Rewritten DEF KeptInv

LEMMA DevKept ==
  ASSUME EvdevInv, KeptInv, loop.todo # <<>>
  PROVE  EntryOK(Dev)
BY DevListed DEF EvdevInv, KeptInv, Dev

LEMMA ManageKept ==
  ASSUME EvdevInv, KeptInv, Ignore \/ Keep \/ Drain
  PROVE  KeptInv'
<1>1. loop.todo # <<>> /\ UNCHANGED World
  BY DEF Ignore, Keep, Drain, Managing
<1>2. EntryOK(Dev)
  BY <1>1, DevKept
<1>3. CASE Ignore
  <2>1. PICK e \in {Denied(Dev), [Denied(Dev) EXCEPT !.grabbed = FALSE, !.owner = FALSE]} :
            Becomes(e)
    BY <1>3 DEF Ignore
  <2>2. EntryOK(e)
    BY <1>2, DeniedOK
  <2> QED BY <1>1, <2>1, <2>2, ManagingKept
<1>4. CASE Keep
  <2>1. Becomes(IF Dev.queue = <<>> THEN Given(Dev) ELSE [Given(Dev) EXCEPT !.sound = {}])
    BY <1>4 DEF Keep
  <2>2. EntryOK(IF Dev.queue = <<>> THEN Given(Dev) ELSE [Given(Dev) EXCEPT !.sound = {}])
    BY <1>2, GivenOK
  <2> QED BY <1>1, <2>1, <2>2, ManagingKept
<1>5. CASE Drain
  <2>1. Becomes(Given([Dev EXCEPT !.queue = Drained(@)]))
    BY <1>5 DEF Drain
  <2>2. EntryOK(Given([Dev EXCEPT !.queue = Drained(@)]))
    BY <1>2, GivenOK
  <2> QED BY <1>1, <2>1, <2>2, ManagingKept
<1> QED BY <1>3, <1>4, <1>5

LEMMA AwaitNeutralKept ==
  ASSUME EvdevInv, KeptInv, AwaitNeutral
  PROVE  KeptInv'
<1>1. loop.todo # <<>> /\ UNCHANGED World
  BY DEF AwaitNeutral, Managing
<1>2. CASE Dev.gone
  <2>1. Becomes(Denied(Dev))
    BY <1>2 DEF AwaitNeutral
  <2> QED BY <1>1, <2>1, DevKept, DeniedOK, ManagingKept
<1>3. CASE ~Dev.gone
  <2>1. loop' = [loop EXCEPT !.grab = "grab"] /\ UNCHANGED table
    BY <1>3 DEF AwaitNeutral
  <2>2. loop' \in Loop /\ loop'.ready = loop.ready /\ loop'.at = loop.at
    BY <2>1 DEF KeptInv, Loop
  <2> QED BY <1>1, <2>1, <2>2, Aside DEF KeptInv, World
<1> QED BY <1>2, <1>3

LEMMA GrabKept ==
  ASSUME EvdevInv, KeptInv, Grab
  PROVE  KeptInv'
<1>1. loop.todo # <<>> /\ UNCHANGED World
  BY DEF Grab, Managing
<1>2. CASE Dev.gone \/ IsGrabbed(Dev.node)
  <2>1. Becomes(Denied(Dev))
    BY <1>2 DEF Grab
  <2> QED BY <1>1, <2>1, DevKept, DeniedOK, ManagingKept
<1>3. CASE ~(Dev.gone \/ IsGrabbed(Dev.node))
  <2>1. /\ table' = [table EXCEPT ![Head(loop.todo)].owner = TRUE]
        /\ loop' = [loop EXCEPT !.grab = "drain"]
    BY <1>3 DEF Grab
  <2>2. loop' \in Loop /\ loop'.ready = loop.ready /\ loop'.at = loop.at
    BY <2>1 DEF KeptInv, Loop
  <2>3. table' = [i \in DOMAIN table |-> table'[i]]
    BY <2>1
  <2>4. table' = [table EXCEPT ![Head(loop.todo)] = [Dev EXCEPT !.owner = TRUE]]
    BY <2>1 DEF Dev
  <2>5. EntryOK([Dev EXCEPT !.owner = TRUE])
    BY <1>1, DevKept, FlagsOK
  <2>6. \A i \in DOMAIN table : EntryOK(table'[i])
    <3> DEFINE d == [Dev EXCEPT !.owner = TRUE]
    <3> HIDE DEF d
    <3>1. table' = [table EXCEPT ![Head(loop.todo)] = d] /\ EntryOK(d)
      BY <2>4, <2>5 DEF d
    <3> QED BY <3>1 DEF KeptInv
  <2> QED BY <1>1, <2>2, <2>3, <2>6, Rewritten DEF KeptInv, World
<1> QED BY <1>2, <1>3

LEMMA ScanKept ==
  ASSUME EvdevInv, KeptInv, DeviceScan
  PROVE  KeptInv'
<1>1. PICK order \in SetToSeqs(present) :
         IF Len(order) > MaxDevices
         THEN loop' = [loop EXCEPT !.at = "aborted"] /\ UNCHANGED table
         ELSE /\ table' = [i \in DOMAIN order |-> Opened(order[i])]
              /\ loop' = [loop EXCEPT !.at = "poll", !.todo = [i \in DOMAIN order |-> i]]
  BY DEF DeviceScan
<1>2. loop.at = "start" /\ loop.ready = {} /\ UNCHANGED <<match, changes>>
  BY DEF KeptInv, DeviceScan, World
<1>3. CASE Len(order) > MaxDevices
  <2>1. loop' \in Loop /\ loop'.ready = {}
    BY <1>1, <1>2, <1>3 DEF KeptInv, Loop
  <2> QED BY <1>1, <1>2, <1>3, <2>1, Aside DEF KeptInv
<1>4. CASE ~(Len(order) > MaxDevices)
  <2> DEFINE k == Cardinality(present)
  <2>1. k \in Nat /\ present \subseteq Node
    <3>1. IsFiniteSet(present)
      BY BoundAssumption, FS_Subset DEF EvdevInv, NodesInv
    <3> QED
      BY <3>1, FS_CardinalityType DEF EvdevInv, NodesInv
  <2> HIDE DEF k
  <2>2. order \in [1 .. k -> present]
    BY DEF SetToSeqs, k
  <2>3. Len(order) = k
    <3>1. order \in Seq(present)
      BY <2>1, <2>2, SeqDef
    <3> QED BY <2>1, <2>2, <3>1, LenProperties
  <2>4. k <= MaxDevices
    BY <1>4, <2>1, <2>3, BoundAssumption
  <2>5. /\ table' = [i \in 1 .. k |-> Opened(order[i])]
        /\ loop' = [loop EXCEPT !.at = "poll", !.todo = [i \in 1 .. k |-> i]]
    BY <1>1, <1>4, <2>2
  <2>6. \A i \in 1 .. k : EntryOK(table'[i])
    BY <2>1, <2>2, <2>5, OpenedOK
  <2>7. DOMAIN table' = 1 .. k /\ Len(table') = k
    <3>1. table' = [i \in 1 .. k |-> table'[i]]
      BY <2>5
    <3> QED BY <2>1, <3>1, IsSequence
  <2>8. [i \in 1 .. k |-> i] \in Seq(Nat)
    <3>1. [i \in 1 .. k |-> i] \in [1 .. k -> Nat]
      OBVIOUS
    <3> QED BY <2>1, <3>1, SeqDef
  <2>9. loop' \in Loop /\ loop'.ready = {}
    BY <1>2, <2>5, <2>8 DEF KeptInv, Loop
  <2> QED BY <1>2, <2>4, <2>6, <2>7, <2>9 DEF KeptInv
<1> QED BY <1>3, <1>4

LEMMA AnnouncedKept ==
  ASSUME EvdevInv, KeptInv, Announced
  PROVE  KeptInv'
<1> DEFINE n == Head(announced)
<1>1. loop.at = "monitor" /\ loop.ready = {} /\ UNCHANGED <<match, changes>>
      /\ announced # <<>>
  BY DEF KeptInv, Announced
<1>2. n \in Node
  BY <1>1, HeadTailProperties DEF EvdevInv, NodesInv
<1>3. CASE UNCHANGED <<table, loop>>
  BY <1>1, <1>3, Aside DEF KeptInv
<1>4. CASE loop' = [loop EXCEPT !.at = "aborted"] /\ UNCHANGED table
  <2>1. loop' \in Loop /\ loop'.ready = {}
    BY <1>1, <1>4 DEF KeptInv, Loop
  <2> QED BY <1>1, <1>4, <2>1, Aside DEF KeptInv
<1>5. CASE /\ ~Full /\ table' = Append(table, Opened(n))
           /\ loop' = [loop EXCEPT !.todo = <<Len(table) + 1>>]
  <2> DEFINE S == Range(table) \cup {Opened(n)}
  <2>1. table \in Seq(S) /\ Len(table) \in Nat /\ Opened(n) \in S /\ Len(table) + 1 <= MaxDevices
    <3>1. table \in Seq(Range(table)) /\ Range(table) \subseteq S
      BY DEF EvdevInv, TableInv
    <3>2. table \in Seq(S)
      BY <3>1, SeqMonotonic
    <3> QED BY <1>5, <3>2, TableDomain, BoundAssumption DEF EvdevInv, Full
  <2> HIDE DEF S
  <2>2. Len(table') = Len(table) + 1
    BY <1>5, <2>1, AppendProperties
  <2>3. /\ DOMAIN table' = 1 .. (Len(table) + 1)
        /\ table'[Len(table) + 1] = Opened(n)
        /\ \A i \in 1 .. Len(table) : table'[i] = table[i] /\ i \in DOMAIN table
    BY <1>5, <2>1, AppendProperties, LenProperties
  <2>4. ASSUME NEW i \in DOMAIN table' PROVE EntryOK(table'[i])
    <3>1. i \in 1 .. Len(table) \/ i = Len(table) + 1
      BY <2>1, <2>3
    <3> QED BY <1>2, <2>3, <3>1, OpenedOK DEF KeptInv
  <2>5. loop' \in Loop /\ loop'.ready = {}
    <3>1. <<Len(table) + 1>> \in Seq(Nat)
      BY <2>1
    <3> QED BY <1>1, <1>5, <3>1 DEF KeptInv, Loop
  <2> QED BY <1>1, <2>1, <2>2, <2>4, <2>5 DEF KeptInv
<1> QED BY <1>3, <1>4, <1>5 DEF Announced

LEMMA PollKept ==
  ASSUME EvdevInv, KeptInv, NEW client \in BOOLEAN, Poll(client)
  PROVE  KeptInv'
<1>1. /\ UNCHANGED <<table, match>>
      /\ loop' = [loop EXCEPT !.at = "devices", !.ready = Readable, !.client = client,
                             !.found = announced # <<>>]
  BY DEF Poll
<1>2. changes' \in 0 .. MaxChanges
  BY ChangedCounts DEF Poll, KeptInv
<1>3. Readable \subseteq DOMAIN table /\ Readable \in SUBSET Nat
  BY TableDomain DEF Readable, EvdevInv
<1>4. loop' \in Loop /\ loop'.at = "devices" /\ loop'.ready = Readable
  BY <1>1, <1>3 DEF KeptInv, Loop
<1> QED BY <1>1, <1>2, <1>3, <1>4, Aside DEF KeptInv

LEMMA ReadDeviceKept ==
  ASSUME EvdevInv, KeptInv, NEW i \in DOMAIN table, ReadDevice(i)
  PROVE  KeptInv'
<1> DEFINE e == table[i]
<1>1. loop.at = "devices" /\ UNCHANGED World /\ EntryOK(e)
  BY DEF ReadDevice, KeptInv
<1>2. PICK f : EntryOK(f) /\ table' = [table EXCEPT ![i] = f]
  <2>1. CASE e.gone
    <3>1. EntryOK([e EXCEPT !.open = FALSE])
      BY <1>1, FlagsOK
    <3>2. table' = [table EXCEPT ![i] = [e EXCEPT !.open = FALSE]]
      BY <2>1 DEF ReadDevice
    <3> QED BY <3>1, <3>2
  <2>2. CASE ~e.gone /\ e.queue = <<>>
    <3>1. UNCHANGED table
      BY <2>2 DEF ReadDevice
    <3>2. EntryOK(e) /\ table' = [table EXCEPT ![i] = e]
      BY <1>1, <3>1 DEF EvdevInv, TableInv
    <3> QED BY <3>2
  <2>3. CASE ~e.gone /\ e.queue # <<>>
    <3> DEFINE f == After([e EXCEPT !.queue = Tail(@)], Head(e.queue))
    <3>1. EntryOK(f)
      BY <1>1, <2>3, AfterOK
    <3>2. table' = [table EXCEPT ![i] = f]
      BY <2>3 DEF ReadDevice
    <3> HIDE DEF f
    <3> QED BY <3>1, <3>2
  <2> QED BY <2>1, <2>2, <2>3
<1>3. table' = [j \in DOMAIN table |-> table'[j]]
  BY <1>2
<1>4. \A j \in DOMAIN table : EntryOK(table'[j])
  BY <1>2 DEF KeptInv
<1>5. \/ loop' = loop
      \/ loop' = [loop EXCEPT !.ready = @ \ {i}]
      \/ loop' = [loop EXCEPT !.ready = @ \ {i}, !.removed = TRUE]
  BY DEF ReadDevice
<1>6. loop' \in Loop /\ loop'.at = "devices" /\ loop'.ready \subseteq DOMAIN table
  BY <1>1, <1>5 DEF KeptInv, Loop
<1> QED BY <1>1, <1>3, <1>4, <1>6, Rewritten DEF KeptInv, World

LEMMA ClientKept ==
  ASSUME EvdevInv, KeptInv, Client
  PROVE  KeptInv'
<1>1. UNCHANGED <<table, changes>> /\ match' \in Matches /\ loop.ready = {}
  BY DEF Client, KeptInv
<1>2. [j \in DOMAIN table |-> j] \in Seq(Nat)
  <2>1. DOMAIN table = 1 .. Len(table) /\ Len(table) \in Nat
    BY TableDomain DEF EvdevInv
  <2>2. [j \in 1 .. Len(table) |-> j] \in [1 .. Len(table) -> Nat]
    OBVIOUS
  <2> QED BY <2>1, <2>2, SeqDef
<1>3. \/ loop' = [loop EXCEPT !.at = "monitor"]
      \/ loop' = [loop EXCEPT !.at = "monitor", !.client = FALSE,
                             !.todo = [j \in DOMAIN table |-> j]]
  BY DEF Client
<1>4. loop' \in Loop /\ loop'.ready = {}
  BY <1>1, <1>2, <1>3 DEF KeptInv, Loop
<1> QED BY <1>1, <1>4, Aside DEF KeptInv

LEMMA CompactKept ==
  ASSUME EvdevInv, KeptInv, Compact
  PROVE  KeptInv'
<1>1. /\ loop.at = "monitor" /\ loop.ready = {} /\ UNCHANGED <<match, changes>>
      /\ table' = IF loop.removed THEN Compacted ELSE table
      /\ loop' = [loop EXCEPT !.at = "poll", !.removed = FALSE, !.found = FALSE]
  BY DEF Compact, KeptInv, World
<1>2. \A n \in DOMAIN table' : \E i \in DOMAIN table : table'[n] = table[i]
  BY <1>1, CompactedLeft DEF EvdevInv
<1>3. \A n \in DOMAIN table' : EntryOK(table'[n])
  BY <1>2 DEF KeptInv
<1>4. Len(table') <= MaxDevices
  <2>1. Len(table') <= Len(table) /\ Len(table') \in Nat /\ Len(table) \in Nat
    <3>1. CASE loop.removed
      BY <1>1, <3>1, CompactedLeft, TableDomain DEF EvdevInv
    <3>2. CASE ~loop.removed
      BY <1>1, <3>2, TableDomain DEF EvdevInv
    <3> QED BY <3>1, <3>2
  <2> QED BY <2>1, BoundAssumption DEF KeptInv
<1>5. loop' \in Loop /\ loop'.ready = {}
  BY <1>1 DEF KeptInv, Loop
<1> QED BY <1>1, <1>3, <1>4, <1>5 DEF KeptInv

-----------------------------------------------------------------------------

LEMMA PressKept ==
  ASSUME EvdevInv, KeptInv, NEW n \in Node, NEW k \in RawKey, Press(n, k)
  PROVE  KeptInv'
<1>1. UNCHANGED <<match, loop>> /\ changes' \in 0 .. MaxChanges
  BY ChangedCounts DEF Press
<1>2. table' = [i \in DOMAIN table |->
                  IF i \in Readers(n)
                  THEN [Received(table[i], <<KeyEvent(k, 1), Syn>>) EXCEPT
                           !.since = IF table[i].data THEN @ \cup {k} ELSE @]
                  ELSE table[i]]
  BY DEF Press
<1>3. table' = [i \in DOMAIN table |-> table'[i]]
  BY <1>2
<1>4. ASSUME NEW i \in DOMAIN table PROVE EntryOK(table'[i])
  <2> DEFINE f == [Received(table[i], <<KeyEvent(k, 1), Syn>>) EXCEPT
                      !.since = IF table[i].data THEN @ \cup {k} ELSE @]
  <2>1. EntryOK(table[i])
    BY DEF KeptInv
  <2>2. EntryOK(f)
    BY <2>1, PressedOK
  <2>3. table'[i] = IF i \in Readers(n) THEN f ELSE table[i]
    BY <1>2
  <2> HIDE DEF f
  <2> QED BY <2>1, <2>2, <2>3
<1> QED BY <1>1, <1>3, <1>4, Outside

LEMMA ReleaseKept ==
  ASSUME EvdevInv, KeptInv, NEW n \in Node, NEW k \in RawKey, Release(n, k)
  PROVE  KeptInv'
<1>1. UNCHANGED <<match, loop>> /\ changes' \in 0 .. MaxChanges
  BY DEF Release, KeptInv
<1>2. table' = [i \in DOMAIN table |->
                  IF i \in Readers(n)
                  THEN [Received(table[i], <<KeyEvent(k, 0), Syn>>) EXCEPT !.since = @ \ {k}]
                  ELSE table[i]]
  BY DEF Release
<1>3. table' = [i \in DOMAIN table |-> table'[i]]
  BY <1>2
<1>4. ASSUME NEW i \in DOMAIN table PROVE EntryOK(table'[i])
  <2> DEFINE f == [Received(table[i], <<KeyEvent(k, 0), Syn>>) EXCEPT !.since = @ \ {k}]
  <2>1. EntryOK(table[i])
    BY DEF KeptInv
  <2>2. EntryOK(f)
    BY <2>1, ReleasedOK
  <2>3. table'[i] = IF i \in Readers(n) THEN f ELSE table[i]
    BY <1>2
  <2> HIDE DEF f
  <2> QED BY <2>1, <2>2, <2>3
<1> QED BY <1>1, <1>3, <1>4, Outside

LEMMA RepeatKept ==
  ASSUME EvdevInv, KeptInv, NEW n \in Node, NEW k \in RawKey, Repeat(n, k)
  PROVE  KeptInv'
<1>1. UNCHANGED <<match, loop>> /\ changes' \in 0 .. MaxChanges
  BY ChangedCounts DEF Repeat, Reported
<1>2. table' = [i \in DOMAIN table |->
                  IF i \in Readers(n)
                  THEN [Received(table[i], <<KeyEvent(k, 2), Syn>>) EXCEPT
                           !.owed = IF table[i].data THEN @ \o <<>> ELSE @]
                  ELSE table[i]]
  BY DEF Repeat, Reported
<1>3. table' = [i \in DOMAIN table |-> table'[i]]
  BY <1>2
<1>4. ASSUME NEW i \in DOMAIN table PROVE EntryOK(table'[i])
  <2> DEFINE f == [Received(table[i], <<KeyEvent(k, 2), Syn>>) EXCEPT
                      !.owed = IF table[i].data THEN @ \o <<>> ELSE @]
  <2>1. EntryOK(table[i])
    BY DEF KeptInv
  <2>2. EntryOK(f)
    BY <2>1, RepeatedOK
  <2>3. table'[i] = IF i \in Readers(n) THEN f ELSE table[i]
    BY <1>2
  <2> HIDE DEF f
  <2> QED BY <2>1, <2>2, <2>3
<1> QED BY <1>1, <1>3, <1>4, Outside

LEMMA MoveKept ==
  ASSUME EvdevInv, KeptInv, NEW n \in Node, NEW p \in Packets[n], Move(n, p)
  PROVE  KeptInv'
<1>1. UNCHANGED <<match, loop>> /\ changes' \in 0 .. MaxChanges
  BY ChangedCounts DEF Move, Reported
<1>2. table' = [i \in DOMAIN table |->
                  IF i \in Readers(n)
                  THEN [Received(table[i], Motion(p)) EXCEPT
                           !.owed = IF table[i].data THEN @ \o <<p>> ELSE @]
                  ELSE table[i]]
  BY DEF Move, Reported
<1>3. table' = [i \in DOMAIN table |-> table'[i]]
  BY <1>2
<1>4. p \in Vector /\ p # Still
  BY CodeAssumption DEF Vector, Still
<1>5. ASSUME NEW i \in DOMAIN table PROVE EntryOK(table'[i])
  <2> DEFINE f == [Received(table[i], Motion(p)) EXCEPT
                      !.owed = IF table[i].data THEN @ \o <<p>> ELSE @]
  <2>1. EntryOK(table[i])
    BY DEF KeptInv
  <2>2. EntryOK(f)
    BY <1>4, <2>1, MotionOK
  <2>3. table'[i] = IF i \in Readers(n) THEN f ELSE table[i]
    BY <1>2
  <2> HIDE DEF f
  <2> QED BY <2>1, <2>2, <2>3
<1> QED BY <1>1, <1>3, <1>5, Outside

LEMMA PlugKept ==
  ASSUME KeptInv, NEW n \in Node, Plug(n)
  PROVE  KeptInv'
<1>1. UNCHANGED <<table, match, loop>> /\ changes' \in 0 .. MaxChanges
  BY ChangedCounts DEF Plug
<1> QED BY <1>1, Aside DEF KeptInv

LEMMA UnplugKept ==
  ASSUME EvdevInv, KeptInv, NEW n \in Node, Unplug(n)
  PROVE  KeptInv'
<1>1. UNCHANGED <<match, loop>> /\ changes' \in 0 .. MaxChanges
  BY ChangedCounts DEF Unplug
<1>2. table' = [i \in DOMAIN table |->
                  IF table[i].node = n
                  THEN [table[i] EXCEPT !.gone = TRUE, !.queue = <<>>,
                                        !.since = {}, !.owed = <<>>, !.sound = {}]
                  ELSE table[i]]
  BY DEF Unplug
<1>3. table' = [i \in DOMAIN table |-> table'[i]]
  BY <1>2
<1>4. ASSUME NEW i \in DOMAIN table PROVE EntryOK(table'[i])
  <2> DEFINE f == [table[i] EXCEPT !.gone = TRUE, !.queue = <<>>,
                                   !.since = {}, !.owed = <<>>, !.sound = {}]
  <2>1. EntryOK(table[i])
    BY DEF KeptInv
  <2>2. EntryOK(f)
    BY <2>1, GoneOK
  <2>3. table'[i] = IF table[i].node = n THEN f ELSE table[i]
    BY <1>2
  <2> HIDE DEF f
  <2> QED BY <2>1, <2>2, <2>3
<1> QED BY <1>1, <1>3, <1>4, Outside

-----------------------------------------------------------------------------

LEMMA KeptInductive ==
  ASSUME EvdevInv, KeptInv, [Next]_vars
  PROVE  KeptInv'
<1>1. CASE Daemon
  <2>1. CASE DeviceScan
    BY <2>1, ScanKept
  <2>2. CASE Announced
    BY <2>2, AnnouncedKept
  <2>3. CASE Ignore \/ Keep \/ Drain
    BY <2>3, ManageKept
  <2>4. CASE AwaitNeutral
    BY <2>4, AwaitNeutralKept
  <2>5. CASE Grab
    BY <2>5, GrabKept
  <2>6. CASE \E client \in BOOLEAN : Poll(client)
    BY <2>6, PollKept
  <2>7. CASE \E i \in DOMAIN table : ReadDevice(i)
    BY <2>7, ReadDeviceKept
  <2>8. CASE Client
    BY <2>8, ClientKept
  <2>9. CASE Compact
    BY <2>9, CompactKept
  <2> QED BY <1>1, <2>1, <2>2, <2>3, <2>4, <2>5, <2>6, <2>7, <2>8, <2>9 DEF Daemon
<1>2. CASE \E n \in Node, k \in RawKey : Press(n, k)
  BY <1>2, PressKept
<1>3. CASE \E n \in Node, k \in RawKey : Release(n, k)
  BY <1>3, ReleaseKept
<1>4. CASE \E n \in Node, k \in RawKey : Repeat(n, k)
  BY <1>4, RepeatKept
<1>5. CASE \E n \in Node : \E p \in Packets[n] : Move(n, p)
  BY <1>5, MoveKept
<1>6. CASE \E n \in Node : Plug(n)
  BY <1>6, PlugKept
<1>7. CASE \E n \in Node : Unplug(n)
  BY <1>7, UnplugKept
<1>8. CASE UNCHANGED vars
  BY <1>8, Aside DEF vars, KeptInv
<1> QED BY <1>1, <1>2, <1>3, <1>4, <1>5, <1>6, <1>7, <1>8 DEF Next

LEMMA KeptTyped ==
  ASSUME EvdevInv, KeptInv
  PROVE  TypeOK
<1>1. table \in Seq(Entry)
  <2>1. Len(table) \in Nat /\ DOMAIN table = 1 .. Len(table) /\ table \in Seq(Range(table))
    BY TableDomain DEF EvdevInv, TableInv
  <2>2. Range(table) \subseteq Entry
    BY DEF KeptInv, EntryOK, Range
  <2> QED BY <2>1, <2>2, SeqMonotonic
<1>2. \A i \in DOMAIN table : Len(table[i].queue) <= QueueSize
  BY DEF KeptInv, EntryOK
<1>3. \A i \in Range(loop.todo) \cup loop.ready : i \in DOMAIN table
  <2>1. loop.todo \in Seq(DOMAIN table) /\ loop.ready \subseteq DOMAIN table
    BY DEF EvdevInv, LoopInv, KeptInv
  <2>2. Range(loop.todo) \subseteq DOMAIN table
    BY <2>1 DEF Range
  <2> QED BY <2>1, <2>2
<1> QED BY <1>1, <1>2, <1>3 DEF TypeOK, EvdevInv, NodesInv, KeptInv

LEMMA Kept == Spec => [](EvdevInv /\ KeptInv)
<1>1. Init => EvdevInv /\ KeptInv
  BY Initial, KeptInitial
<1>2. EvdevInv /\ KeptInv /\ [Next]_vars => EvdevInv' /\ KeptInv'
  BY Inductive, KeptInductive
<1> QED BY <1>1, <1>2, PTL DEF Spec

\* Every entry of the device table is one, the table and the kernel's queues are no
\* longer than they can be, and evloop refers to entries there are, through every round of
\* adding, removing and moving them.
THEOREM EvdevTyped == Spec => []TypeOK
<1>1. EvdevInv /\ KeptInv => TypeOK
  BY KeptTyped
<1> QED BY <1>1, Kept, PTL

\* Whatever is plugged, grabbed, drained and reloaded meanwhile, device_read_event leads a
\* keyboard to believe that a key is down only if it went down on its device since and is
\* still down, and that it is unless another code is the same to keyd.
THEOREM BelievedCorrect == Spec => []Believed
<1>1. EvdevInv /\ KeptInv => Believed
  BY DEF KeptInv, EntryOK, Keys, Held, Believed
<1> QED BY <1>1, Kept, PTL

\* device_read_event tells of each packet of motion once, as it was and in order, though a
\* read returns NULL in the middle of one.
THEOREM GroupedCorrect == Spec => []Grouped
<1>1. ASSUME EvdevInv, KeptInv PROVE Grouped
  <2> SUFFICES ASSUME NEW i \in DOMAIN table, table[i].data, ~table[i].gone,
                      "motion" \in table[i].sound
               PROVE  Moves(table[i].pending, table[i].queue) = table[i].owed
    BY DEF Grouped
  <2>1. Moving(Fresh(table[i]), table[i].queue) = [pending |-> Still, told |-> table[i].owed]
    BY <1>1 DEF KeptInv, EntryOK, Motions
  <2> QED BY <2>1, MovesIsFold DEF Fresh
<1>2. EvdevInv /\ KeptInv => Grouped
  BY <1>1
<1> QED BY <1>2, Kept, PTL
=============================================================================
