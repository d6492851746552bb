-------------------------- MODULE PipelineProofs --------------------------
(***************************************************************************)
(* Theorems about Pipeline, for any keys, keymaps, chords, queue sizes and *)
(* timings: types, what held keys own, and that events withheld are        *)
(* neither lost nor reordered.                                             *)
(***************************************************************************)
EXTENDS Pipeline, SequenceTheorems, FiniteSetTheorems, WellFoundedInduction, TLAPS

-----------------------------------------------------------------------------
(* Least and greatest.                                                     *)

LEMMA HasLeast ==
  ASSUME NEW S \in SUBSET Nat, S # {}
  PROVE  \E u \in S : \A v \in S : u <= v
<1> DEFINE Less == OpToRel(<, Nat)
<1>1. PICK u \in S : \A v \in S : <<v, u>> \notin Less
  <2>1. IsWellFoundedOn(Less, Nat)
    BY NatLessThanWellFounded
  <2> HIDE DEF Less
  <2> QED BY <2>1, WFMin
<1>2. \A v \in S : v < u => <<v, u>> \in Less
  BY DEF OpToRel
<1> HIDE DEF Less
<1>3. \A v \in S : ~(v < u)
  BY <1>1, <1>2
<1> QED BY <1>3

LEMMA LeastIsMember ==
  ASSUME NEW S \in SUBSET Nat, S # {}
  PROVE  Least(S) \in S
BY HasLeast DEF Least

LEMMA HasGreatest ==
  ASSUME NEW n \in Nat, NEW S \in SUBSET (0 .. n), S # {}
  PROVE  \E u \in S : \A v \in S : v <= u
<1> DEFINE T == {n - v : v \in S}
<1>1. T \in SUBSET Nat /\ T # {}
  <2>1. \A v \in S : v \in 0 .. n
    OBVIOUS
  <2>2. \A v \in S : n - v \in Nat
    BY <2>1
  <2> QED BY <2>2
<1>2. PICK w \in T : \A v \in T : w <= v
  BY <1>1, HasLeast
<1>3. PICK u \in S : w = n - u
  BY <1>2
<1>4. ASSUME NEW v \in S PROVE v <= u
  <2>1. n - v \in T
    OBVIOUS
  <2>2. n - u <= n - v
    BY <1>2, <1>3, <2>1
  <2> QED BY <2>2
<1> QED BY <1>4

LEMMA DeadlineType ==
  ASSUME NEW k, k.timers \in SUBSET Nat, NEW t \in Nat
  PROVE  Later(k, t) \in SUBSET Nat /\ Deadline(k, t) \in Nat
<1>1. Later(k, t) \in SUBSET Nat
  BY DEF Later
<1>2. Later(k, t) # {} => Least(Later(k, t)) \in Nat
  BY <1>1, LeastIsMember
<1> QED BY <1>1, <1>2 DEF Deadline

-----------------------------------------------------------------------------
(* Layers: one that is active has been activated.                          *)

Codes == Code \cup Slot

ActiveRecent(k) ==
  \A l \in Layer : k.active[l] > 0 => \E i \in DOMAIN k.recent : k.recent[i] = l

KeyboardOK(k) == k \in Keyboard /\ ActiveRecent(k)

LEMMA RenewedType ==
  ASSUME NEW s \in Seq(Layer), NEW l \in Layer
  PROVE  /\ Renewed(s, l) \in Seq(Layer)
         /\ \E i \in DOMAIN Renewed(s, l) : Renewed(s, l)[i] = l
         /\ \A i \in DOMAIN s : \E j \in DOMAIN Renewed(s, l) : Renewed(s, l)[j] = s[i]
<1> DEFINE r == Rank(s, l)
           a == SubSeq(s, 1, r - 1)
           b == SubSeq(s, r + 1, Len(s))
           q == IF \E i \in DOMAIN s : s[i] = l THEN RemoveAt(s, r) ELSE s
<1>1. /\ q \in Seq(Layer)
      /\ \A i \in DOMAIN s : s[i] # l => \E j \in DOMAIN q : q[j] = s[i]
  <2>1. CASE \E i \in DOMAIN s : s[i] = l
    <3>1. r \in 1 .. Len(s) /\ s[r] = l
      BY <2>1 DEF Rank
    <3> HIDE DEF r
    <3>2. a \in Seq(Layer) /\ Len(a) = r - 1 /\ \A j \in 1 .. r - 1 : a[j] = s[j]
      BY <3>1
    <3>3. b \in Seq(Layer) /\ Len(b) = Len(s) - r /\ \A j \in 1 .. Len(s) - r : b[j] = s[r + j]
      <4>1. Len(b) = Len(s) - r
        BY <3>1
      <4> QED BY <3>1, <4>1
    <3>4. q = a \o b
      BY <2>1 DEF RemoveAt
    <3> HIDE DEF a, b, q
    <3>5. ASSUME NEW i \in DOMAIN s, s[i] # l
          PROVE  \E j \in DOMAIN q : q[j] = s[i]
      <4>1. CASE i < r
        <5>1. i \in 1 .. Len(a) /\ a[i] = s[i]
          BY <3>1, <3>2, <4>1
        <5>2. i \in 1 .. Len(q) /\ q[i] = a[i]
          BY <3>2, <3>3, <3>4, <5>1
        <5> QED BY <5>1, <5>2, <3>2, <3>3, <3>4
      <4>2. CASE i > r
        <5>a. i \in 1 .. Len(s) /\ r + (i - r) = i /\ i - r \in 1 .. Len(s) - r
          BY <3>1, <4>2
        <5>1. i - r \in 1 .. Len(b) /\ b[i - r] = s[i]
          BY <3>3, <5>a
        <5>2. Len(a) + (i - r) \in 1 .. Len(q) /\ q[Len(a) + (i - r)] = b[i - r]
          BY <3>2, <3>3, <3>4, <5>1
        <5> QED BY <5>1, <5>2, <3>2, <3>3, <3>4
      <4>3. i # r
        BY <3>1, <3>5
      <4> QED BY <3>1, <4>1, <4>2, <4>3
    <3> QED BY <3>2, <3>3, <3>4, <3>5
  <2>2. CASE ~\E i \in DOMAIN s : s[i] = l
    BY <2>2
  <2> QED BY <2>1, <2>2
<1> HIDE DEF q, r
<1>2. Renewed(s, l) = Append(q, l)
  BY DEF Renewed, q, r
<1>3. /\ Append(q, l) \in Seq(Layer) /\ DOMAIN Append(q, l) = 1 .. Len(q) + 1
      /\ Append(q, l)[Len(q) + 1] = l
      /\ \A j \in 1 .. Len(q) : Append(q, l)[j] = q[j]
  BY <1>1
<1>4. DOMAIN q = 1 .. Len(q) /\ Len(q) \in Nat
  BY <1>1
<1>5. \E i \in DOMAIN Append(q, l) : Append(q, l)[i] = l
  BY <1>3, <1>4
<1>6. ASSUME NEW i \in DOMAIN s
      PROVE  \E j \in DOMAIN Append(q, l) : Append(q, l)[j] = s[i]
  <2>1. CASE s[i] = l
    BY <1>5, <2>1
  <2>2. CASE s[i] # l
    <3>1. PICK j \in DOMAIN q : q[j] = s[i]
      BY <1>1, <2>2
    <3> QED BY <3>1, <1>3, <1>4
  <2> QED BY <2>1, <2>2
<1> QED BY <1>2, <1>3, <1>5, <1>6

LEMMA LatestIsMember ==
  ASSUME NEW k, KeyboardOK(k), NEW ls \in SUBSET {l \in Layer : k.active[l] > 0}, ls # {}
  PROVE  Latest(k, ls) \in ls
<1> DEFINE R(l) == Rank(k.recent, l)
           ranks == {R(l) : l \in ls}
<1>1. k.recent \in Seq(Layer) /\ DOMAIN k.recent = 1 .. Len(k.recent) /\ Len(k.recent) \in Nat
  BY DEF KeyboardOK, Keyboard
<1>2. ASSUME NEW l \in ls PROVE R(l) \in 0 .. Len(k.recent)
  <2>1. \E i \in DOMAIN k.recent : k.recent[i] = l
    BY DEF KeyboardOK, ActiveRecent
  <2>2. R(l) \in DOMAIN k.recent
    BY <2>1 DEF Rank
  <2> QED BY <1>1, <2>2
<1>3. \E l \in ls : \A m \in ls : R(m) <= R(l)
  <2>1. ranks \in SUBSET (0 .. Len(k.recent)) /\ ranks # {}
    BY <1>2
  <2> HIDE DEF R
  <2>2. PICK u \in ranks : \A v \in ranks : v <= u
    BY <1>1, <2>1, HasGreatest
  <2> QED BY <2>2
<1> QED BY <1>3 DEF Latest

-----------------------------------------------------------------------------
(* What the operators on a keyboard return, and what they leave alone.     *)

LEMMA FreeType == Free \in Descriptor /\ Free.op = "none"
<1>1. \E a \in Action : TRUE
  BY ConfigAssumption
<1>2. (CHOOSE a \in Action : TRUE) \in Action
  BY <1>1
<1>3. \E o \in Key : TRUE
  <2>1. PICK a \in Action : TRUE
    BY <1>1
  <2>2. Descriptors[a] \in Descriptor
    BY ConfigAssumption
  <2> QED BY <2>2 DEF Descriptor
<1>4. (CHOOSE o \in Key : TRUE) \in Key
  BY <1>3
<1>5. Main \in Layer
  BY ConfigAssumption
<1> QED BY <1>2, <1>4, <1>5 DEF Free, Descriptor

Kept(j, k) == /\ j.config = k.config /\ j.slots = k.slots /\ j.chord = k.chord
              /\ j.overload.queue = k.overload.queue

LEMMA ActivateOK ==
  ASSUME NEW k, KeyboardOK(k), NEW l \in Layer
  PROVE  KeyboardOK(ActivateLayer(k, l)) /\ Kept(ActivateLayer(k, l), k)
<1> DEFINE j == ActivateLayer(k, l)
<1>1. k \in Keyboard /\ k.recent \in Seq(Layer) /\ k.active \in [Layer -> Nat]
  BY DEF KeyboardOK, Keyboard
<1>2. /\ Renewed(k.recent, l) \in Seq(Layer)
      /\ \E i \in DOMAIN Renewed(k.recent, l) : Renewed(k.recent, l)[i] = l
      /\ \A i \in DOMAIN k.recent : \E n \in DOMAIN Renewed(k.recent, l) :
           Renewed(k.recent, l)[n] = k.recent[i]
  BY <1>1, RenewedType, Zenon
<1> DEFINE a == [k.active EXCEPT ![l] = @ + 1]
           r == Renewed(k.recent, l)
<1>a. a \in [Layer -> Nat] /\ r \in Seq(Layer)
  BY <1>1, <1>2
<1>b. j = [k EXCEPT !.active = a, !.recent = r]
  BY <1>1 DEF ActivateLayer, Keyboard
<1>3. j.recent = Renewed(k.recent, l) /\ j.active = [k.active EXCEPT ![l] = @ + 1]
  BY <1>1 DEF ActivateLayer, Keyboard
<1>4. j \in Keyboard
  <2> HIDE DEF a, r, j
  <2> QED BY <1>1, <1>a, <1>b DEF Keyboard
<1>5. ASSUME NEW m \in Layer, j.active[m] > 0
      PROVE  \E i \in DOMAIN j.recent : j.recent[i] = m
  <2>1. CASE m = l
    BY <1>2, <1>3, <2>1
  <2>2. CASE m # l
    <3>1. k.active[m] > 0
      BY <1>1, <1>3, <1>5, <2>2
    <3>2. PICK i \in DOMAIN k.recent : k.recent[i] = m
      BY <3>1 DEF KeyboardOK, ActiveRecent
    <3> QED BY <1>2, <1>3, <3>2, Zenon
  <2> QED BY <2>1, <2>2
<1>6. Kept(j, k)
  BY <1>1 DEF ActivateLayer, Keyboard, Kept
<1> QED BY <1>4, <1>5, <1>6 DEF KeyboardOK, ActiveRecent

LEMMA DeactivateOK ==
  ASSUME NEW k, KeyboardOK(k), NEW l \in Layer
  PROVE  KeyboardOK(DeactivateLayer(k, l)) /\ Kept(DeactivateLayer(k, l), k)
<1> DEFINE j == DeactivateLayer(k, l)
<1>1. k \in Keyboard /\ k.active \in [Layer -> Nat]
  BY DEF KeyboardOK, Keyboard
<1>2. j \in Keyboard /\ j.recent = k.recent /\ Kept(j, k)
  <2>1. CASE k.active[l] > 0
    <3> DEFINE a == [k.active EXCEPT ![l] = @ - 1]
    <3>1. a \in [Layer -> Nat]
      BY <1>1, <2>1
    <3>2. j = [k EXCEPT !.active = a]
      BY <1>1, <2>1 DEF DeactivateLayer, Keyboard
    <3> HIDE DEF a, j
    <3> QED BY <1>1, <3>1, <3>2 DEF Keyboard, Kept
  <2>2. CASE ~(k.active[l] > 0)
    BY <1>1, <2>2 DEF DeactivateLayer, Keyboard, Kept
  <2> QED BY <2>1, <2>2
<1>3. \A m \in Layer : j.active[m] > 0 => k.active[m] > 0
  BY <1>1 DEF DeactivateLayer, Keyboard
<1> QED BY <1>2, <1>3 DEF KeyboardOK, ActiveRecent

\* A change to anything but the layers.
LEMMA OtherFieldsOK ==
  ASSUME NEW k, KeyboardOK(k), NEW j \in Keyboard, j.active = k.active, j.recent = k.recent
  PROVE  KeyboardOK(j)
BY DEF KeyboardOK, ActiveRecent

LEMMA CacheSetOK ==
  ASSUME NEW k, KeyboardOK(k), NEW c \in Codes, NEW d \in Descriptor
  PROVE  KeyboardOK(CacheSet(k, c, d)) /\ Kept(CacheSet(k, c, d), k)
<1> DEFINE j == CacheSet(k, c, d)
<1>1. k \in Keyboard
  BY DEF KeyboardOK
<1>2. j \in Keyboard /\ j.active = k.active /\ j.recent = k.recent /\ Kept(j, k)
  BY <1>1 DEF CacheSet, Keyboard, Kept, Codes
<1> QED BY <1>2, OtherFieldsOK

LEMMA PressOK ==
  ASSUME NEW k, KeyboardOK(k), NEW c \in Codes, NEW d \in Descriptor, NEW t \in Nat
  PROVE  KeyboardOK(Press(k, c, d, t)) /\ Kept(Press(k, c, d, t), k)
<1> DEFINE j == Press(k, c, d, t)
<1>1. k \in Keyboard
  BY DEF KeyboardOK
<1>2. d.key \in Key /\ d.layer \in Layer /\ d.act \in Action /\ d.alt \in Action /\ d.span \in Nat
      /\ t + d.span \in Nat
  BY DEF Descriptor
<1>3. Descriptors[d.act] \in Descriptor /\ Descriptors[d.alt] \in Descriptor
  BY <1>2, ConfigAssumption
<1>4. CASE d.op = "key"
  <2>1. j = [k EXCEPT !.down = @ \cup {d.key}]
    BY <1>4 DEF Press
  <2>2. j \in Keyboard /\ j.active = k.active /\ j.recent = k.recent /\ Kept(j, k)
    BY <1>1, <1>2, <2>1 DEF Keyboard, Kept
  <2> QED BY <2>2, OtherFieldsOK
<1>5. CASE d.op = "layer"
  <2>1. j = ActivateLayer(k, d.layer)
    BY <1>5 DEF Press
  <2> QED BY <1>2, <2>1, ActivateOK
<1>6. CASE d.op = "timeout"
  <2> DEFINE p == [code |-> c, spontaneous |-> FALSE, expiration |-> t + d.span,
                   activation |-> t, action1 |-> Descriptors[d.act],
                   action2 |-> Descriptors[d.alt]]
  <2>1. j = Schedule([k EXCEPT !.timeout = p], t + d.span)
    BY <1>6 DEF Press
  <2>2. p \in PendingTimeout
    BY <1>2, <1>3 DEF Codes, PendingTimeout
  <2> DEFINE ts == k.timers \cup {t + d.span}
  <2>4. ts \in SUBSET Nat
    BY <1>1, <1>2 DEF Keyboard
  <2>5. j = [k EXCEPT !.timeout = p, !.timers = ts]
    BY <1>1, <2>1 DEF Schedule, Keyboard
  <2> HIDE DEF p, ts, j
  <2>3. j \in Keyboard /\ j.active = k.active /\ j.recent = k.recent /\ Kept(j, k)
    BY <1>1, <2>2, <2>4, <2>5 DEF Keyboard, Kept
  <2> QED BY <2>3, OtherFieldsOK DEF j
<1>7. CASE d.op \in {"overloadt", "overloadt2"}
  <2> DEFINE p == [code |-> c, expiration |-> t + d.span,
                      interrupt |-> d.op = "overloadt2", queue |-> k.overload.queue,
                      action |-> Descriptors[d.act], layer |-> d.layer]
  <2>1. j = Schedule([k EXCEPT !.overload = p], t + d.span)
    BY <1>7, <1>1 DEF Press, Keyboard
  <2>a. k.overload.queue \in Seq(Event)
    BY <1>1 DEF Keyboard, PendingOverload
  <2>2. p \in PendingOverload /\ p.queue = k.overload.queue
    BY <1>2, <1>3, <2>a DEF Codes, PendingOverload
  <2> DEFINE ts == k.timers \cup {t + d.span}
  <2>4. ts \in SUBSET Nat
    BY <1>1, <1>2 DEF Keyboard
  <2>5. j = [k EXCEPT !.overload = p, !.timers = ts]
    BY <1>1, <2>1 DEF Schedule, Keyboard
  <2> HIDE DEF p, ts, j
  <2>3. j \in Keyboard /\ j.active = k.active /\ j.recent = k.recent /\ Kept(j, k)
    BY <1>1, <2>2, <2>4, <2>5 DEF Keyboard, Kept
  <2> QED BY <2>3, OtherFieldsOK DEF j
<1>8. CASE d.op = "none"
  <2>1. j = k
    BY <1>8 DEF Press
  <2> QED BY <2>1 DEF Kept
<1> QED BY <1>4, <1>5, <1>6, <1>7, <1>8 DEF Descriptor

LEMMA ReleaseOK ==
  ASSUME NEW k, KeyboardOK(k), NEW d \in Descriptor, NEW t
  PROVE  KeyboardOK(Release(k, d, t)) /\ Kept(Release(k, d, t), k)
<1> DEFINE j == Release(k, d, t)
<1>1. k \in Keyboard
  BY DEF KeyboardOK
<1>2. d.key \in Key /\ d.layer \in Layer
  BY DEF Descriptor
<1>3. CASE d.op = "key"
  <2>1. j = [k EXCEPT !.down = @ \ {d.key}]
    BY <1>3 DEF Release
  <2>2. j \in Keyboard /\ j.active = k.active /\ j.recent = k.recent /\ Kept(j, k)
    BY <1>1, <1>2, <2>1 DEF Keyboard, Kept
  <2> QED BY <2>2, OtherFieldsOK
<1>4. CASE d.op = "layer"
  <2>1. j = DeactivateLayer(k, d.layer)
    BY <1>4 DEF Release
  <2> QED BY <1>2, <2>1, DeactivateOK
<1>5. CASE d.op \notin {"key", "layer"}
  <2> DEFINE p == [k.timeout EXCEPT !.spontaneous = TRUE]
  <2>1. j \in {k, [k EXCEPT !.timeout = p]}
    BY <1>1, <1>5 DEF Release, Keyboard
  <2>3. p \in PendingTimeout
    BY <1>1 DEF Keyboard, PendingTimeout
  <2> HIDE DEF p, j
  <2>2. j \in Keyboard /\ j.active = k.active /\ j.recent = k.recent /\ Kept(j, k)
    BY <1>1, <2>1, <2>3 DEF Keyboard, Kept
  <2> QED BY <2>2, OtherFieldsOK DEF j
<1> QED BY <1>3, <1>4, <1>5

LEMMA LookupType ==
  ASSUME NEW k, KeyboardOK(k), NEW c \in Codes, c \in Slot => k.slots[c].chord \in Chord
  PROVE  Lookup(k, c) \in Descriptor
<1> DEFINE binding == {l \in Layer : k.active[l] > 0 /\ k.config.keymap[l][c].op # "none"}
<1>1. k.config \in Config
  BY ConfigAssumption DEF KeyboardOK, Keyboard
<1>2. CASE c \in Slot
  BY <1>2, ChordAssumption DEF Lookup
<1>3. CASE c \notin Slot /\ binding # {}
  <2>1. Latest(k, binding) \in binding
    BY <1>3, LatestIsMember
  <2>2. Latest(k, binding) \in Layer /\ c \in Code
    BY <1>3, <2>1 DEF Codes
  <2>3. k.config.keymap[Latest(k, binding)][c] \in Descriptor
    BY <1>1, <2>2 DEF Config
  <2> QED BY <1>3, <2>3 DEF Lookup
<1>4. CASE c \notin Slot /\ binding = {}
  <2>1. c \in Code /\ SelfKey[c] \in Key
    BY <1>4, CodeAssumption DEF Codes
  <2>2. Lookup(k, c) = [Free EXCEPT !.op = "key", !.key = SelfKey[c]]
    BY <1>4 DEF Lookup
  <2> QED BY <2>1, <2>2, FreeType DEF Descriptor
<1> QED BY <1>2, <1>3, <1>4

LEMMA DecideTimeoutOK ==
  ASSUME NEW k, KeyboardOK(k), NEW e \in Event
  PROVE  KeyboardOK(DecideTimeout(k, e)) /\ Kept(DecideTimeout(k, e), k)
<1> DEFINE p == k.timeout
           action == IF e.at >= p.expiration THEN p.action2 ELSE p.action1
           decided == [k EXCEPT !.timeout = NoTimeout]
<1>1. k \in Keyboard
  BY DEF KeyboardOK
<1>2. CASE ~DecidesTimeout(k, e)
  BY <1>2 DEF DecideTimeout, Kept
<1>3. CASE DecidesTimeout(k, e)
  <2>1. p.code \in Codes /\ action \in Descriptor /\ e.at \in Nat
    BY <1>1, <1>3 DEF DecidesTimeout, Keyboard, PendingTimeout, Codes, Event
  <2>2. KeyboardOK(decided) /\ Kept(decided, k)
    <3>1. NoTimeout \in PendingTimeout
      BY FreeType DEF NoTimeout, PendingTimeout
    <3>2. decided \in Keyboard /\ decided.active = k.active /\ decided.recent = k.recent
          /\ Kept(decided, k)
      BY <1>1, <3>1 DEF Keyboard, Kept
    <3> QED BY <3>2, OtherFieldsOK
  <2> HIDE DEF action, decided
  <2>3. CASE p.spontaneous
    <3>1. KeyboardOK(Press(decided, p.code, action, e.at)) /\ Kept(Press(decided, p.code, action, e.at), decided)
      BY <2>1, <2>2, PressOK
    <3>2. DecideTimeout(k, e) = Release(Press(decided, p.code, action, e.at), action, e.at)
      BY <1>3, <2>3, Zenon DEF DecideTimeout, action, decided
    <3>3. /\ KeyboardOK(DecideTimeout(k, e))
          /\ Kept(DecideTimeout(k, e), Press(decided, p.code, action, e.at))
      BY <2>1, <3>1, <3>2, ReleaseOK
    <3> QED BY <2>2, <3>1, <3>3 DEF Kept
  <2>4. CASE ~p.spontaneous
    <3>1. KeyboardOK(CacheSet(decided, p.code, action)) /\ Kept(CacheSet(decided, p.code, action), decided)
      BY <2>1, <2>2, CacheSetOK
    <3>2. DecideTimeout(k, e) = Press(CacheSet(decided, p.code, action), p.code, action, e.at)
      BY <1>3, <2>4, Zenon DEF DecideTimeout, action, decided
    <3>3. /\ KeyboardOK(DecideTimeout(k, e))
          /\ Kept(DecideTimeout(k, e), CacheSet(decided, p.code, action))
      BY <2>1, <3>1, <3>2, PressOK
    <3> QED BY <2>2, <3>1, <3>3 DEF Kept
  <2> QED BY <2>3, <2>4
<1> QED BY <1>2, <1>3

LEMMA StrikeOK ==
  ASSUME NEW k, KeyboardOK(k), NEW e \in Event,
         e.code \in Slot => k.slots[e.code].chord \in Chord
  PROVE  KeyboardOK(Strike(k, e)) /\ Kept(Strike(k, e), k)
<1>1. CASE e.code # NoCode /\ e.pressed /\ ~Cached(k, e.code)
  <2> DEFINE d == Lookup(k, e.code)
             j == CacheSet(k, e.code, d)
  <2>1. e.code \in Codes /\ e.at \in Nat
    BY <1>1 DEF Event, Codes
  <2>2. d \in Descriptor
    BY <2>1, LookupType
  <2>3. Strike(k, e) = Press(j, e.code, d, e.at)
    BY <1>1 DEF Strike
  <2> HIDE DEF d
  <2>4. KeyboardOK(j) /\ Kept(j, k)
    BY <2>1, <2>2, CacheSetOK
  <2> HIDE DEF j
  <2>5. KeyboardOK(Strike(k, e)) /\ Kept(Strike(k, e), j)
    BY <2>1, <2>2, <2>3, <2>4, PressOK
  <2> QED BY <2>4, <2>5 DEF Kept
<1>2. CASE e.code # NoCode /\ ~e.pressed /\ Cached(k, e.code)
  <2> DEFINE d == k.cache[e.code]
             j == CacheSet(k, e.code, Free)
  <2>1. e.code \in Codes
    BY <1>2 DEF Event, Codes
  <2>2. d \in Descriptor
    BY <2>1 DEF KeyboardOK, Keyboard, Codes
  <2>3. Strike(k, e) = Release(j, d, e.at)
    BY <1>2 DEF Strike
  <2> HIDE DEF d
  <2>4. KeyboardOK(j) /\ Kept(j, k)
    BY <2>1, <2>2, CacheSetOK, FreeType
  <2> HIDE DEF j
  <2>5. KeyboardOK(Strike(k, e)) /\ Kept(Strike(k, e), j)
    BY <2>1, <2>2, <2>3, <2>4, ReleaseOK
  <2> QED BY <2>4, <2>5 DEF Kept
<1>3. CASE ~(e.code # NoCode /\ e.pressed /\ ~Cached(k, e.code))
           /\ ~(e.code # NoCode /\ ~e.pressed /\ Cached(k, e.code))
  BY <1>3 DEF Strike, Kept
<1> QED BY <1>1, <1>2, <1>3

-----------------------------------------------------------------------------
(* TypeOK: a chord's code never waits, nor is replayed, without a slot that *)
(* says which chord it means, and a layer that is active has its place in   *)
(* the order of activation.                                                *)

Known(k, q) == \A i \in DOMAIN q : q[i].code \in Slot => k.slots[q[i].code].chord \in Chord

KeyboardKnown(k) == /\ Known(k, k.overload.queue) /\ Known(k, k.chord.queue)
                    /\ \A s \in Slot : k.slots[s].on => k.slots[s].chord \in Chord

TypeInv == /\ TypeOK
           /\ ActiveRecent(kbd)
           /\ KeyboardKnown(kbd)
           /\ \A n \in DOMAIN stack : Known(kbd, stack[n].events)

\* The keyboard a step may leave: a slot that has had a chord keeps one.
Result(k) == /\ KeyboardOK(k) /\ KeyboardKnown(k)
             /\ \A s \in Slot : kbd.slots[s].chord \in Chord => k.slots[s].chord \in Chord

Processing == TypeInv /\ stack # <<>> /\ Top.events # <<>>

LEMMA ListFacts ==
  ASSUME NEW E, NEW q \in Seq(E), q # <<>>
  PROVE  /\ Head(q) \in E /\ Head(q) = q[1] /\ Tail(q) \in Seq(E) /\ Len(q) \in Nat \ {0}
         /\ DOMAIN q = 1 .. Len(q) /\ DOMAIN Tail(q) = 1 .. Len(q) - 1
         /\ \A i \in 1 .. Len(q) - 1 : Tail(q)[i] = q[i + 1]
         /\ 1 \in DOMAIN q /\ \A i \in 1 .. Len(q) - 1 : i + 1 \in DOMAIN q
<1>1. Head(q) \in E /\ Head(q) = q[1] /\ Tail(q) \in Seq(E) /\ Len(q) \in Nat /\ Len(q) # 0
      /\ DOMAIN q = 1 .. Len(q)
  OBVIOUS
<1>2. DOMAIN Tail(q) = 1 .. Len(q) - 1 /\ \A i \in 1 .. Len(q) - 1 : Tail(q)[i] = q[i + 1]
  BY <1>1
<1> QED BY <1>1, <1>2

LEMMA KnownTail ==
  ASSUME NEW k, NEW q \in Seq(Event), q # <<>>, Known(k, q)
  PROVE  Known(k, Tail(q)) /\ (Head(q).code \in Slot => k.slots[Head(q).code].chord \in Chord)
<1>1. /\ Head(q) = q[1] /\ Len(q) \in Nat \ {0}
      /\ DOMAIN Tail(q) = 1 .. Len(q) - 1
      /\ \A i \in 1 .. Len(q) - 1 : Tail(q)[i] = q[i + 1]
      /\ 1 \in DOMAIN q /\ \A i \in 1 .. Len(q) - 1 : i + 1 \in DOMAIN q
  BY ListFacts, Zenon
<1> QED BY <1>1, Zenon DEF Known

LEMMA KnownAppend ==
  ASSUME NEW k, NEW q \in Seq(Event), Known(k, q), NEW e \in Event,
         e.code \in Slot => k.slots[e.code].chord \in Chord
  PROVE  Append(q, e) \in Seq(Event) /\ Known(k, Append(q, e))
<1>1. /\ Append(q, e) \in Seq(Event) /\ DOMAIN Append(q, e) = 1 .. Len(q) + 1
      /\ DOMAIN q = 1 .. Len(q)
      /\ \A i \in 1 .. Len(q) + 1 :
           (i \in 1 .. Len(q) /\ Append(q, e)[i] = q[i]) \/ Append(q, e)[i] = e
  OBVIOUS
<1> QED BY <1>1, Zenon DEF Known

LEMMA KnownOne ==
  ASSUME NEW k, NEW e \in Event, e.code \in Slot => k.slots[e.code].chord \in Chord
  PROVE  <<e>> \in Seq(Event) /\ Known(k, <<e>>)
<1>1. <<e>> \in Seq(Event) /\ \A i \in DOMAIN <<e>> : <<e>>[i] = e
  OBVIOUS
<1> QED BY <1>1, Zenon DEF Known

LEMMA KnownEmpty == ASSUME NEW k PROVE Known(k, <<>>)
BY DEF Known

LEMMA KnownLonger ==
  ASSUME NEW k, NEW j, NEW q \in Seq(Event), Known(k, q),
         \A s \in Slot : k.slots[s].chord \in Chord => j.slots[s].chord \in Chord
  PROVE  Known(j, q)
BY Zenon DEF Known

LEMMA UpcomingOK ==
  ASSUME Processing
  PROVE  /\ Top \in Frame /\ Upcoming \in Event /\ Taken \in Frame
         /\ Upcoming.code \in Slot => kbd.slots[Upcoming.code].chord \in Chord
         /\ Known(kbd, Taken.events)
         /\ Tail(stack) \in Seq(Frame)
         /\ \A n \in DOMAIN Tail(stack) : Known(kbd, Tail(stack)[n].events)
<1>1. stack \in Seq(Frame) /\ stack # <<>>
  BY DEF Processing, TypeInv, TypeOK
<1>2. /\ Head(stack) \in Frame /\ Head(stack) = stack[1] /\ Tail(stack) \in Seq(Frame)
      /\ Len(stack) \in Nat \ {0}
      /\ DOMAIN Tail(stack) = 1 .. Len(stack) - 1
      /\ \A i \in 1 .. Len(stack) - 1 : Tail(stack)[i] = stack[i + 1]
      /\ 1 \in DOMAIN stack /\ \A i \in 1 .. Len(stack) - 1 : i + 1 \in DOMAIN stack
  BY <1>1, ListFacts, Zenon
<1>3. Top \in Frame /\ Top.events \in Seq(Event) /\ Top.events # <<>> /\ Top.timer \in Nat
      /\ Known(kbd, Top.events)
  BY <1>2 DEF Top, Frame, Processing, TypeInv
<1>4. Head(Top.events) \in Event /\ Tail(Top.events) \in Seq(Event)
  BY <1>3
<1>5. /\ Known(kbd, Tail(Top.events))
      /\ Head(Top.events).code \in Slot => kbd.slots[Head(Top.events).code].chord \in Chord
  BY <1>3, KnownTail, Zenon
<1>6. Upcoming \in Event
  BY <1>3, <1>4 DEF Upcoming, Event
<1>7. Upcoming.code \in Slot => kbd.slots[Upcoming.code].chord \in Chord
  BY <1>5, CodeAssumption DEF Upcoming
<1>8. Taken \in Frame /\ (Taken.events = Top.events \/ Taken.events = Tail(Top.events))
  <2>1. Upcoming.at \in Nat
    BY <1>6 DEF Event
  <2> QED BY <1>3, <1>4, <2>1 DEF Taken, Frame
<1>9. Known(kbd, Taken.events)
  BY <1>3, <1>5, <1>8
<1>10. \A n \in DOMAIN Tail(stack) : Known(kbd, Tail(stack)[n].events)
  BY <1>2 DEF Processing, TypeInv
<1> QED BY <1>2, <1>3, <1>6, <1>7, <1>8, <1>9, <1>10

\* Frames on top of a stack.
LEMMA Stacked ==
  ASSUME NEW k, NEW s \in Seq(Frame), NEW r \in Seq(Frame),
         \A n \in DOMAIN s : Known(k, s[n].events),
         \A n \in DOMAIN r : Known(k, r[n].events)
  PROVE  s \o r \in Seq(Frame) /\ \A n \in DOMAIN (s \o r) : Known(k, (s \o r)[n].events)
<1>1. s \o r \in Seq(Frame) /\ DOMAIN (s \o r) = 1 .. Len(s) + Len(r)
      /\ DOMAIN s = 1 .. Len(s) /\ DOMAIN r = 1 .. Len(r) /\ Len(s) \in Nat /\ Len(r) \in Nat
  OBVIOUS
<1>2. ASSUME NEW n \in DOMAIN (s \o r)
      PROVE  Known(k, (s \o r)[n].events)
  <2>1. CASE n <= Len(s)
    <3>1. n \in DOMAIN s /\ (s \o r)[n] = s[n]
      BY <1>1, <2>1
    <3> QED BY <3>1
  <2>2. CASE n > Len(s)
    <3>1. n - Len(s) \in DOMAIN r /\ (s \o r)[n] = r[n - Len(s)]
      BY <1>1, <2>2
    <3> QED BY <3>1
  <2> QED BY <1>1, <2>1, <2>2
<1> QED BY <1>1, <1>2

LEMMA OneFrame ==
  ASSUME NEW k, NEW f \in Frame, Known(k, f.events)
  PROVE  <<f>> \in Seq(Frame) /\ \A n \in DOMAIN <<f>> : Known(k, <<f>>[n].events)
<1>1. <<f>> \in Seq(Frame) /\ \A n \in DOMAIN <<f>> : <<f>>[n] = f
  OBVIOUS
<1> QED BY <1>1, Zenon

LEMMA ResultKnows ==
  ASSUME Processing, NEW k, Result(k)
  PROVE  /\ Known(k, Taken.events)
         /\ \A n \in DOMAIN Tail(stack) : Known(k, Tail(stack)[n].events)
<1>1. Taken.events \in Seq(Event) /\ Known(kbd, Taken.events)
  BY UpcomingOK DEF Frame
<1>2. ASSUME NEW n \in DOMAIN Tail(stack)
      PROVE  Tail(stack)[n].events \in Seq(Event) /\ Known(kbd, Tail(stack)[n].events)
  <2>1. Tail(stack) \in Seq(Frame) /\ Known(kbd, Tail(stack)[n].events)
    BY UpcomingOK
  <2>2. Tail(stack)[n] \in Frame
    BY <2>1
  <2> QED BY <2>1, <2>2 DEF Frame
<1> QED BY <1>1, <1>2, KnownLonger DEF Result

LEMMA ExitInv ==
  ASSUME Processing, NEW k, Result(k), Exit(k)
  PROVE  TypeInv'
<1> DEFINE j == [k EXCEPT !.timers = Later(k, Upcoming.at)]
           f == [Taken EXCEPT !.timer = Deadline(k, Upcoming.at)]
<1>1. k \in Keyboard /\ ActiveRecent(k) /\ KeyboardKnown(k)
  BY DEF Result, KeyboardOK
<1>2. Upcoming.at \in Nat
  BY UpcomingOK DEF Event
<1>3. Later(k, Upcoming.at) \in SUBSET Nat /\ Deadline(k, Upcoming.at) \in Nat
  <2>1. k.timers \in SUBSET Nat
    BY <1>1 DEF Keyboard
  <2> QED BY <1>2, <2>1, DeadlineType
<1>4. /\ j \in Keyboard /\ j.active = k.active /\ j.recent = k.recent /\ j.slots = k.slots
      /\ j.overload = k.overload /\ j.chord = k.chord
  BY <1>1, <1>3 DEF Keyboard
<1>5. f \in Frame /\ f.events = Taken.events
  BY <1>3, UpcomingOK DEF Frame
<1>6. kbd' = j /\ stack' = <<f>> \o Tail(stack) /\ UNCHANGED <<wake, now, struck, held>>
  BY DEF Exit
<1> HIDE DEF j, f
<1>7. ActiveRecent(j) /\ KeyboardKnown(j) /\ \A q : Known(k, q) => Known(j, q)
  BY <1>1, <1>4 DEF ActiveRecent, KeyboardKnown, Known
<1>8. Known(j, f.events) /\ \A n \in DOMAIN Tail(stack) : Known(j, Tail(stack)[n].events)
  BY <1>5, <1>7, ResultKnows
<1>9. stack' \in Seq(Frame) /\ \A n \in DOMAIN stack' : Known(j, stack'[n].events)
  <2>1. <<f>> \in Seq(Frame) /\ \A n \in DOMAIN <<f>> : Known(j, <<f>>[n].events)
    BY <1>5, <1>8, OneFrame
  <2>2. Tail(stack) \in Seq(Frame)
    BY UpcomingOK
  <2> QED BY <1>6, <1>8, <2>1, <2>2, Stacked
<1> QED BY <1>4, <1>6, <1>7, <1>9 DEF TypeInv, TypeOK, Processing

LEMMA CallInv ==
  ASSUME Processing, NEW k, Result(k), NEW frames \in Seq(Frame),
         \A n \in DOMAIN frames : Known(k, frames[n].events),
         Call(k, frames)
  PROVE  TypeInv'
<1>1. k \in Keyboard /\ ActiveRecent(k) /\ KeyboardKnown(k)
  BY DEF Result, KeyboardOK
<1>2. /\ Known(k, Taken.events) /\ Taken \in Frame /\ Tail(stack) \in Seq(Frame)
      /\ \A n \in DOMAIN Tail(stack) : Known(k, Tail(stack)[n].events)
  BY ResultKnows, UpcomingOK
<1>3. /\ <<Taken>> \o Tail(stack) \in Seq(Frame)
      /\ \A n \in DOMAIN (<<Taken>> \o Tail(stack)) : Known(k, (<<Taken>> \o Tail(stack))[n].events)
  <2>1. <<Taken>> \in Seq(Frame) /\ \A n \in DOMAIN <<Taken>> : Known(k, <<Taken>>[n].events)
    BY <1>2, OneFrame
  <2> QED BY <1>2, <2>1, Stacked
<1>4. kbd' = k /\ stack' = frames \o (<<Taken>> \o Tail(stack)) /\ UNCHANGED <<wake, now, struck, held>>
  BY <1>2 DEF Call
<1>5. stack' \in Seq(Frame) /\ \A n \in DOMAIN stack' : Known(k, stack'[n].events)
  BY <1>3, <1>4, Stacked
<1> QED BY <1>1, <1>4, <1>5 DEF TypeInv, TypeOK, Processing

-----------------------------------------------------------------------------
(* Chords.                                                                 *)

LEMMA BestIsMatch ==
  ASSUME NEW k, KeyboardOK(k), NEW q, Full(k, q) # {}
  PROVE  \E m \in Full(k, q) : Best(k, Full(k, q)) = m.chord
<1> DEFINE ms == Full(k, q)
           ls == {m.layer : m \in ms}
           l == Latest(k, ls)
           cs == {m.chord : m \in {n \in ms : n.layer = l}}
<1>1. \A m \in ms : m.layer \in Layer /\ m.chord \in Chord /\ k.active[m.layer] > 0
  BY DEF Full, Partial
<1>2. ls \in SUBSET {x \in Layer : k.active[x] > 0} /\ ls # {}
  BY <1>1
<1> HIDE DEF ms
<1>3. l \in ls
  <2> HIDE DEF ls
  <2> QED BY <1>2, LatestIsMember
<1> HIDE DEF l
<1>4. cs # {} /\ cs \in SUBSET (0 .. NrChords)
  BY <1>1, <1>3 DEF Chord
<1>5. PICK c \in cs : \A d \in cs : d <= c
  <2> HIDE DEF cs
  <2> QED BY <1>4, HasGreatest, ChordAssumption
<1>6. \A m \in ms : m.layer = l => m.chord <= c
  BY <1>5
<1>7. Best(k, ms) = CHOOSE d \in cs : \A m \in ms : m.layer = l => m.chord <= d
  BY DEF Best, l
<1>8. Best(k, ms) \in cs
  <2> HIDE DEF cs
  <2> QED BY <1>5, <1>6, <1>7
<1>9. \E m \in ms : Best(k, ms) = m.chord
  BY <1>8
<1> QED BY <1>9 DEF ms

LEMMA MatchType ==
  ASSUME NEW k, KeyboardOK(k), NEW q, NEW old \in Chord \cup {NoChord}
  PROVE  Match(k, q, old) \in Chord \cup {NoChord}
<1>1. CASE Full(k, q) = {}
  BY <1>1 DEF Match
<1>2. CASE Full(k, q) # {}
  <2>1. PICK m \in Full(k, q) : Best(k, Full(k, q)) = m.chord
    BY <1>2, BestIsMatch
  <2>2. m.chord \in Chord
    BY DEF Full, Partial
  <2> QED BY <1>2, <2>1, <2>2 DEF Match
<1> QED BY <1>1, <1>2

LEMMA RestKnown ==
  ASSUME NEW k, NEW q \in Seq(Event), Known(k, q), NEW match \in Chord \cup {NoChord}
  PROVE  Rest(q, match) \in Seq(Event) /\ Known(k, Rest(q, match))
<1>1. CASE match = NoChord
  BY <1>1 DEF Rest
<1>2. CASE match # NoChord
  <2> DEFINE n == Cardinality(ChordKeys[match])
             r == SubSeq(q, n + 1, Len(q))
  <2>1. n \in Nat
    <3>1. IsFiniteSet(ChordKeys[match])
      BY <1>2, ChordAssumption
    <3> QED BY <3>1, FS_CardinalityType
  <2> HIDE DEF n
  <2>2. r \in Seq(Event) /\ \A i \in DOMAIN r : n + i \in DOMAIN q /\ r[i] = q[n + i]
    <3>1. CASE n + 1 <= Len(q)
      BY <2>1, <3>1
    <3>2. CASE ~(n + 1 <= Len(q))
      BY <2>1, <3>2
    <3> QED BY <3>1, <3>2
  <2>3. Rest(q, match) = r
    BY <1>2 DEF Rest, n
  <2> HIDE DEF r
  <2> QED BY <2>2, <2>3, Zenon DEF Known
<1> QED BY <1>1, <1>2

LEMMA ChordFieldOK ==
  ASSUME NEW k, Result(k), NEW c \in Chording, Known(k, c.queue)
  PROVE  Result([k EXCEPT !.chord = c])
<1> DEFINE j == [k EXCEPT !.chord = c]
<1>1. k \in Keyboard
  BY DEF Result, KeyboardOK
<1>2. /\ j \in Keyboard /\ j.active = k.active /\ j.recent = k.recent /\ j.slots = k.slots
      /\ j.overload = k.overload /\ j.chord = c
  BY <1>1 DEF Keyboard
<1> HIDE DEF j
<1>3. KeyboardOK(j)
  BY <1>2, OtherFieldsOK DEF Result
<1>4. KeyboardKnown(j)
  BY <1>2 DEF KeyboardKnown, Known, Result
<1>5. Result(j)
  BY <1>2, <1>3, <1>4 DEF Result
<1> QED BY <1>5 DEF j

LEMMA AbortedOK ==
  ASSUME NEW k, Result(k)
  PROVE  Result([k EXCEPT !.aborted = TRUE])
<1> DEFINE j == [k EXCEPT !.aborted = TRUE]
<1>1. k \in Keyboard
  BY DEF Result, KeyboardOK
<1>2. /\ j \in Keyboard /\ j.active = k.active /\ j.recent = k.recent /\ j.slots = k.slots
      /\ j.overload = k.overload /\ j.chord = k.chord
  BY <1>1 DEF Keyboard
<1> HIDE DEF j
<1>3. KeyboardOK(j)
  BY <1>2, OtherFieldsOK DEF Result
<1>4. Result(j)
  BY <1>2, <1>3 DEF KeyboardKnown, Known, Result
<1> QED BY <1>4 DEF j

LEMMA ScheduleOK ==
  ASSUME NEW k, Result(k), NEW t \in Nat
  PROVE  Result(Schedule(k, t))
<1> DEFINE j == Schedule(k, t)
<1>1. k \in Keyboard
  BY DEF Result, KeyboardOK
<1>2. /\ j \in Keyboard /\ j.active = k.active /\ j.recent = k.recent /\ j.slots = k.slots
      /\ j.overload = k.overload /\ j.chord = k.chord
  BY <1>1 DEF Keyboard, Schedule
<1> HIDE DEF j
<1>3. KeyboardOK(j)
  BY <1>2, OtherFieldsOK DEF Result
<1>4. Result(j)
  BY <1>2, <1>3 DEF KeyboardKnown, Known, Result
<1> QED BY <1>4 DEF j

\* What the slots hold changes, but none that has had a chord is without.
LEMMA SlotsOK ==
  ASSUME NEW k, Result(k), NEW x \in [Slot -> ActiveChord],
         \A s \in Slot : k.slots[s].chord \in Chord => x[s].chord \in Chord,
         \A s \in Slot : x[s].on => x[s].chord \in Chord
  PROVE  /\ Result([k EXCEPT !.slots = x])
         /\ \A q \in Seq(Event) : Known(k, q) => Known([k EXCEPT !.slots = x], q)
<1> DEFINE j == [k EXCEPT !.slots = x]
<1>1. k \in Keyboard /\ KeyboardKnown(k) /\ k.overload.queue \in Seq(Event) /\ k.chord.queue \in Seq(Event)
  BY DEF Result, KeyboardOK, Keyboard, PendingOverload, Chording
<1>2. /\ j \in Keyboard /\ j.active = k.active /\ j.recent = k.recent /\ j.slots = x
      /\ j.overload = k.overload /\ j.chord = k.chord
  BY <1>1 DEF Keyboard
<1> HIDE DEF j
<1>3. \A q \in Seq(Event) : Known(k, q) => Known(j, q)
  BY <1>2, KnownLonger
<1>4. KeyboardOK(j) /\ KeyboardKnown(j)
  BY <1>1, <1>2, <1>3, OtherFieldsOK DEF Result, KeyboardKnown
<1>5. Result(j)
  BY <1>2, <1>4 DEF Result
<1> QED BY <1>3, <1>5 DEF j

LEMMA CallFrameType ==
  ASSUME NEW q \in Seq(Event), NEW kind \in {"loop", "chord", "overload", "code"}
  PROVE  CallFrame(kind, q) \in Frame /\ CallFrame(kind, q).events = q
BY DEF CallFrame, Frame

LEMMA TwoFrames ==
  ASSUME NEW k, NEW f \in Frame, NEW g \in Frame, Known(k, f.events), Known(k, g.events)
  PROVE  <<f, g>> \in Seq(Frame) /\ \A n \in DOMAIN <<f, g>> : Known(k, <<f, g>>[n].events)
<1>1. <<f, g>> \in Seq(Frame) /\ \A n \in DOMAIN <<f, g>> : <<f, g>>[n] \in {f, g}
  OBVIOUS
<1> QED BY <1>1, Zenon

Resolving(k, q, match) ==
  [k EXCEPT !.chord.state = "resolving", !.chord.queue = q, !.chord.match = match]

Started(k, q, match, slot) ==
  [Resolving(k, q, match) EXCEPT !.slots[slot] = [on |-> TRUE, chord |-> match, keys |-> ChordKeys[match]]]

LEMMA ResolvingOK ==
  ASSUME NEW k, Result(k), NEW q \in Seq(Event), Known(k, q), NEW match \in Chord \cup {NoChord}
  PROVE  /\ Result(Resolving(k, q, match)) /\ Resolving(k, q, match).slots = k.slots
         /\ Resolving(k, q, match) \in Keyboard
         /\ \A p : Known(k, p) => Known(Resolving(k, q, match), p)
<1> DEFINE c == [k.chord EXCEPT !.state = "resolving", !.queue = q, !.match = match]
           j == [k EXCEPT !.chord = c]
<1>1. k \in Keyboard /\ k.chord \in Chording
  BY DEF Result, KeyboardOK, Keyboard
<1>2. c \in Chording /\ c.queue = q
  BY <1>1 DEF Chording
<1>3. Resolving(k, q, match) = j
  BY <1>1 DEF Resolving, Keyboard, Chording
<1> HIDE DEF c
<1>4. j.slots = k.slots
  BY <1>1 DEF Keyboard
<1>5. Result(j)
  BY <1>2, ChordFieldOK
<1> HIDE DEF j
<1>6. j \in Keyboard /\ \A p : Known(k, p) => Known(j, p)
  BY <1>4, <1>5 DEF Known, Result, KeyboardOK
<1> QED BY <1>3, <1>4, <1>5, <1>6

LEMMA ResolveInv ==
  ASSUME Processing, NEW k, Result(k), NEW q \in Seq(Event), Known(k, q),
         NEW match \in Chord \cup {NoChord}, Resolve(k, q, match)
  PROVE  TypeInv'
<1> DEFINE free == {s \in Slot : ~k.slots[s].on}
           slot == Least(free)
           press == [code |-> slot, pressed |-> TRUE, at |-> k.chord.last]
           rest == CallFrame("chord", Rest(q, match))
           r == Resolving(k, q, match)
           started == Started(k, q, match, slot)
<1>1. k \in Keyboard /\ k.chord.last \in Nat /\ k.slots \in [Slot -> ActiveChord]
  BY DEF Result, KeyboardOK, Keyboard, Chording
<1>2. /\ Result(r) /\ r.slots = k.slots /\ r \in Keyboard
      /\ \A p : Known(k, p) => Known(r, p)
  BY ResolvingOK
<1>3. Rest(q, match) \in Seq(Event) /\ Known(k, Rest(q, match))
  BY RestKnown
<1>4. rest \in Frame /\ rest.events = Rest(q, match)
  BY <1>3, CallFrameType
<1>5. CASE match = NoChord
  <2>1. Call(r, <<rest>>)
    BY <1>5 DEF Resolve, Resolving
  <2> HIDE DEF r, rest
  <2>2. Known(r, rest.events)
    BY <1>2, <1>3, <1>4
  <2>3. <<rest>> \in Seq(Frame) /\ \A n \in DOMAIN <<rest>> : Known(r, <<rest>>[n].events)
    BY <1>4, <2>2, OneFrame
  <2> QED BY <1>2, <2>1, <2>3, CallInv
<1>6. CASE match # NoChord /\ free = {}
  <2>1. Exit([k EXCEPT !.aborted = TRUE])
    BY <1>6 DEF Resolve
  <2> QED BY <2>1, AbortedOK, ExitInv
<1>7. CASE match # NoChord /\ free # {}
  <2>1. Call(started, <<CallFrame("code", <<press>>), rest>>)
    BY <1>7 DEF Resolve, Resolving, Started
  <2>2. slot \in Slot
    <3>1. free \in SUBSET Nat
      BY CodeAssumption DEF Slot
    <3>2. Least(free) \in free
      BY <1>7, <3>1, LeastIsMember
    <3> QED BY <3>2
  <2> HIDE DEF slot
  <2> DEFINE a == [on |-> TRUE, chord |-> match, keys |-> ChordKeys[match]]
             x == [k.slots EXCEPT ![slot] = a]
  <2>3. /\ x \in [Slot -> ActiveChord] /\ x[slot].chord \in Chord
        /\ \A s \in Slot : k.slots[s].chord \in Chord => x[s].chord \in Chord
        /\ \A s \in Slot : x[s].on => x[s].chord \in Chord
    <3>0. \A s \in Slot : k.slots[s].on => k.slots[s].chord \in Chord
      BY DEF Result, KeyboardKnown
    <3>1. a \in ActiveChord /\ a.chord \in Chord
      BY <1>7, ChordAssumption DEF ActiveChord
    <3> HIDE DEF a
    <3> QED BY <1>1, <2>2, <3>0, <3>1
  <2> HIDE DEF r
  <2>4. started = [r EXCEPT !.slots = x] /\ started.slots = x
    BY <1>2 DEF Started, r, Keyboard
  <2> HIDE DEF x, started
  <2>5. /\ Result(started)
        /\ \A p \in Seq(Event) : Known(r, p) => Known(started, p)
    <3>1. \A s \in Slot : r.slots[s].chord \in Chord => x[s].chord \in Chord
      BY <1>2, <2>3
    <3> QED BY <1>2, <2>3, <2>4, <3>1, SlotsOK
  <2>6. press \in Event /\ started.slots[press.code].chord \in Chord
    BY <1>1, <2>2, <2>3, <2>4 DEF Event
  <2> HIDE DEF press, rest
  <2>7. <<press>> \in Seq(Event) /\ Known(started, <<press>>)
    BY <2>6, KnownOne
  <2> DEFINE code == CallFrame("code", <<press>>)
  <2>8. code \in Frame /\ code.events = <<press>>
    BY <2>7, CallFrameType
  <2> HIDE DEF code
  <2>9. Known(started, rest.events) /\ Known(started, code.events)
    BY <1>2, <1>3, <1>4, <2>5, <2>7, <2>8
  <2>10. <<code, rest>> \in Seq(Frame) /\ \A n \in DOMAIN <<code, rest>> : Known(started, <<code, rest>>[n].events)
    BY <1>4, <2>8, <2>9, TwoFrames
  <2>11. Call(started, <<code, rest>>)
    BY <2>1 DEF code
  <2> QED BY <2>5, <2>10, <2>11, CallInv
<1> QED BY <1>5, <1>6, <1>7

LEMMA AdvanceInv ==
  ASSUME Processing, NEW q \in Seq(Event), Known(kbd, q), NEW old \in Chord \cup {NoChord},
         NEW t \in Nat, Advance(q, old, t)
  PROVE  TypeInv'
<1> DEFINE match == Match(kbd, q, old)
           unambiguous == Full(kbd, q) # {} /\ Partial(kbd, q) = Full(kbd, q)
           c == [state |-> IF unambiguous THEN "hold" ELSE "pending",
                 queue |-> q, match |-> match, last |-> t]
           waiting == [kbd EXCEPT !.chord = c]
<1>1. Result(kbd) /\ kbd \in Keyboard
  BY DEF Processing, TypeInv, TypeOK, Result, KeyboardOK
<1>2. match \in Chord \cup {NoChord}
  BY <1>1, MatchType DEF Result
<1>3. c \in Chording /\ Known(kbd, c.queue)
  BY <1>2 DEF Chording
<1>4. \/ Exit(Schedule(waiting, t + kbd.config.interkey))
      \/ Exit(Schedule(waiting, t + kbd.config.hold))
      \/ Resolve(waiting, q, match)
  BY Zenon DEF Advance
<1>5. kbd.config.interkey \in Nat /\ kbd.config.hold \in Nat
  <2>1. kbd.config \in Config
    BY <1>1, ConfigAssumption DEF Keyboard
  <2> QED BY <2>1 DEF Config
<1> HIDE DEF match, c
<1>6. Result(waiting) /\ waiting.slots = kbd.slots
  BY <1>1, <1>3, ChordFieldOK DEF Keyboard
<1> HIDE DEF waiting
<1>7. CASE Exit(Schedule(waiting, t + kbd.config.interkey))
  <2>1. t + kbd.config.interkey \in Nat
    BY <1>5
  <2>2. Result(Schedule(waiting, t + kbd.config.interkey))
    BY <1>6, <2>1, ScheduleOK
  <2> QED BY <1>7, <2>2, ExitInv
<1>8. CASE Exit(Schedule(waiting, t + kbd.config.hold))
  <2>1. t + kbd.config.hold \in Nat
    BY <1>5
  <2>2. Result(Schedule(waiting, t + kbd.config.hold))
    BY <1>6, <2>1, ScheduleOK
  <2> QED BY <1>8, <2>2, ExitInv
<1>9. CASE Resolve(waiting, q, match)
  <2>1. Known(waiting, q)
    BY <1>6 DEF Known
  <2> QED BY <1>2, <1>6, <1>9, <2>1, ResolveInv
<1> QED BY <1>4, <1>7, <1>8, <1>9

LEMMA CurrentOK ==
  ASSUME Processing
  PROVE  /\ Result(kbd) /\ kbd \in Keyboard /\ kbd.chord \in Chording
         /\ kbd.chord.queue \in Seq(Event) /\ Known(kbd, kbd.chord.queue)
         /\ kbd.chord.match \in Chord \cup {NoChord}
         /\ kbd.config.interkey \in Nat /\ kbd.config.hold \in Nat
<1>1. Result(kbd) /\ kbd \in Keyboard
  BY DEF Processing, TypeInv, TypeOK, Result, KeyboardOK
<1>2. kbd.chord \in Chording /\ kbd.config \in Config
  BY <1>1, ConfigAssumption DEF Keyboard
<1>3. Known(kbd, kbd.chord.queue)
  BY DEF Processing, TypeInv, KeyboardKnown
<1> QED BY <1>1, <1>2, <1>3 DEF Chording, Config

\* A change of the chord's state alone.
LEMMA ChordStateOK ==
  ASSUME Processing, NEW s \in {"inactive", "pending", "hold", "resolving"}
  PROVE  Result([kbd EXCEPT !.chord.state = s])
<1> DEFINE c == [kbd.chord EXCEPT !.state = s]
<1>1. c \in Chording /\ c.queue = kbd.chord.queue
  BY CurrentOK DEF Chording
<1>2. [kbd EXCEPT !.chord.state = s] = [kbd EXCEPT !.chord = c]
  BY CurrentOK DEF Keyboard
<1> HIDE DEF c
<1>3. Result([kbd EXCEPT !.chord = c])
  BY <1>1, CurrentOK, ChordFieldOK
<1> QED BY <1>2, <1>3

LEMMA ReleaseChordKeyInv ==
  ASSUME Processing, ReleaseChordKey(Upcoming)
  PROVE  TypeInv'
<1> DEFINE e == Upcoming
           s == Least(Releasing(e))
           lifted == Lift(kbd, s, e.code)
           release == [code |-> s, pressed |-> FALSE, at |-> e.at]
<1>1. e \in Event /\ e.at \in Nat
  BY UpcomingOK DEF Event
<1>2. s \in Slot /\ kbd.slots[s].on /\ e.code \in kbd.slots[s].keys
  <2>1. Releasing(e) # {} /\ Releasing(e) \in SUBSET Nat
    BY CodeAssumption DEF ReleaseChordKey, Releasing, Slot
  <2>2. s \in Releasing(e)
    BY <2>1, LeastIsMember
  <2> QED BY <2>2 DEF Releasing
<1> HIDE DEF s
<1>3. kbd.slots \in [Slot -> ActiveChord]
  BY CurrentOK DEF Keyboard
<1> DEFINE a == [kbd.slots[s] EXCEPT !.keys = @ \ {e.code}, !.on = kbd.slots[s].keys # {e.code}]
           x == [kbd.slots EXCEPT ![s] = a]
<1>4. a \in ActiveChord /\ a.chord = kbd.slots[s].chord
  BY <1>2, <1>3 DEF ActiveChord
<1>5. lifted = [kbd EXCEPT !.slots = x]
  BY <1>2, <1>3, CurrentOK DEF Lift, Keyboard, ActiveChord
<1>a. kbd.slots[s].chord \in Chord /\ \A n \in Slot : kbd.slots[n].on => kbd.slots[n].chord \in Chord
  BY <1>2, CurrentOK DEF Result, KeyboardKnown
<1>6. /\ x \in [Slot -> ActiveChord] /\ x[s].chord \in Chord
      /\ \A n \in Slot : kbd.slots[n].chord \in Chord => x[n].chord \in Chord
      /\ \A n \in Slot : x[n].on => x[n].chord \in Chord
  <2> HIDE DEF a
  <2> QED BY <1>2, <1>3, <1>4, <1>a
<1> HIDE DEF x
<1>7. Result(lifted) /\ lifted.slots = x
  <2>1. Result([kbd EXCEPT !.slots = x])
    BY <1>6, CurrentOK, SlotsOK
  <2> QED BY <1>5, <2>1, CurrentOK DEF Keyboard
<1>8. Exit(lifted) \/ Call(lifted, <<CallFrame("code", <<release>>)>>)
  BY DEF ReleaseChordKey, s
<1> HIDE DEF lifted
<1>9. CASE Exit(lifted)
  BY <1>7, <1>9, ExitInv
<1>10. CASE Call(lifted, <<CallFrame("code", <<release>>)>>)
  <2> DEFINE code == CallFrame("code", <<release>>)
  <2>1. release \in Event /\ release.code = s
    BY <1>1, <1>2 DEF Event
  <2> HIDE DEF release
  <2>2. <<release>> \in Seq(Event) /\ Known(lifted, <<release>>)
    BY <1>6, <1>7, <2>1, KnownOne
  <2>3. code \in Frame /\ code.events = <<release>>
    BY <2>2, CallFrameType
  <2>4. Call(lifted, <<code>>)
    BY <1>10
  <2> HIDE DEF code
  <2>5. <<code>> \in Seq(Frame) /\ \A n \in DOMAIN <<code>> : Known(lifted, <<code>>[n].events)
    BY <2>2, <2>3, OneFrame
  <2> QED BY <1>7, <2>4, <2>5, CallInv
<1> QED BY <1>8, <1>9, <1>10

LEMMA QueueOK ==
  ASSUME Processing
  PROVE  /\ Append(kbd.chord.queue, Upcoming) \in Seq(Event)
         /\ Known(kbd, Append(kbd.chord.queue, Upcoming))
BY UpcomingOK, CurrentOK, KnownAppend

LEMMA BeginChordInv ==
  ASSUME Processing, BeginChord(Upcoming)
  PROVE  TypeInv'
<1>1. <<Upcoming>> \in Seq(Event) /\ Known(kbd, <<Upcoming>>) /\ Upcoming.at \in Nat
  BY UpcomingOK, KnownOne DEF Event
<1>2. Advance(<<Upcoming>>, NoChord, Upcoming.at)
  BY DEF BeginChord
<1> QED BY <1>1, <1>2, AdvanceInv

LEMMA ExtendChordInv ==
  ASSUME Processing, ExtendChord(Upcoming)
  PROVE  TypeInv'
<1> DEFINE q == Append(kbd.chord.queue, Upcoming)
<1>1. q \in Seq(Event) /\ Known(kbd, q)
  BY QueueOK
<1>2. \/ Exit([kbd EXCEPT !.aborted = TRUE])
      \/ Advance(q, kbd.chord.match, Upcoming.at)
      \/ Resolve(kbd, q, NoChord)
  BY DEF ExtendChord, Abort
<1> HIDE DEF q
<1>3. Upcoming.at \in Nat /\ Result(kbd) /\ kbd.chord.match \in Chord \cup {NoChord}
  BY UpcomingOK, CurrentOK DEF Event
<1>4. CASE Exit([kbd EXCEPT !.aborted = TRUE])
  BY <1>3, <1>4, AbortedOK, ExitInv
<1>5. CASE Advance(q, kbd.chord.match, Upcoming.at)
  BY <1>1, <1>3, <1>5, AdvanceInv
<1>6. CASE Resolve(kbd, q, NoChord)
  BY <1>1, <1>3, <1>6, ResolveInv
<1> QED BY <1>2, <1>4, <1>5, <1>6

LEMMA LapseChordInv ==
  ASSUME Processing, LapseChord(Upcoming)
  PROVE  TypeInv'
<1> DEFINE held1 == [kbd EXCEPT !.chord.state = "hold"]
           t == Upcoming.at + (kbd.config.hold - kbd.config.interkey)
<1>1. Upcoming.at \in Nat /\ Result(held1)
  BY UpcomingOK, ChordStateOK DEF Event
<1>2. \/ kbd.config.hold > kbd.config.interkey /\ Exit(Schedule(held1, t))
      \/ \E m \in {NoChord, kbd.chord.match} : Resolve(kbd, kbd.chord.queue, m)
  BY DEF LapseChord, Abort
<1> HIDE DEF held1
<1>3. CASE kbd.config.hold > kbd.config.interkey /\ Exit(Schedule(held1, t))
  <2>1. t \in Nat
    BY <1>1, <1>3, CurrentOK
  <2>2. Result(Schedule(held1, t))
    BY <1>1, <2>1, ScheduleOK
  <2> QED BY <1>3, <2>2, ExitInv
<1>4. ASSUME NEW m \in {NoChord, kbd.chord.match}, Resolve(kbd, kbd.chord.queue, m)
      PROVE  TypeInv'
  BY <1>4, CurrentOK, ResolveInv
<1> QED BY <1>2, <1>3, <1>4

LEMMA HoldChordInv ==
  ASSUME Processing, HoldChord(Upcoming)
  PROVE  TypeInv'
<1> DEFINE q == Append(kbd.chord.queue, Upcoming)
           c == [kbd.chord EXCEPT !.queue = q]
<1>1. q \in Seq(Event) /\ Known(kbd, q)
  BY QueueOK
<1>2. [kbd EXCEPT !.chord.queue = q] = [kbd EXCEPT !.chord = c]
  BY CurrentOK DEF Keyboard
<1>3. \/ Exit([kbd EXCEPT !.aborted = TRUE])
      \/ Resolve(kbd, q, NoChord)
      \/ Exit([kbd EXCEPT !.chord = c])
  BY <1>2, Zenon DEF HoldChord, Abort
<1> HIDE DEF q
<1>4. c \in Chording /\ c.queue = q
  BY <1>1, CurrentOK DEF Chording
<1> HIDE DEF c
<1>5. CASE Exit([kbd EXCEPT !.aborted = TRUE])
  BY <1>5, CurrentOK, AbortedOK, ExitInv
<1>6. CASE Resolve(kbd, q, NoChord)
  BY <1>1, <1>6, CurrentOK, ResolveInv
<1>7. CASE Exit([kbd EXCEPT !.chord = c])
  <2>1. Result([kbd EXCEPT !.chord = c])
    BY <1>1, <1>4, CurrentOK, ChordFieldOK
  <2> QED BY <1>7, <2>1, ExitInv
<1> QED BY <1>3, <1>5, <1>6, <1>7

LEMMA FireChordInv ==
  ASSUME Processing, FireChord(Upcoming)
  PROVE  TypeInv'
<1>1. Resolve(kbd, kbd.chord.queue, kbd.chord.match)
  BY DEF FireChord
<1> QED BY <1>1, CurrentOK, ResolveInv

-----------------------------------------------------------------------------
(* What passes the chords.                                                 *)

LEMMA KeptResult ==
  ASSUME Processing, NEW k, KeyboardOK(k), Kept(k, kbd)
  PROVE  Result(k)
<1>1. KeyboardKnown(kbd)
  BY DEF Processing, TypeInv
<1> QED BY <1>1 DEF Kept, Result, KeyboardKnown, Known

LEMMA DecisionType ==
  ASSUME NEW o \in PendingOverload, NEW e \in Event
  PROVE  Decision(o, e) \in Descriptor
BY FreeType DEF Decision, PendingOverload, Descriptor

LEMMA EnqueueOK ==
  ASSUME Processing, NEW k, Result(k)
  PROVE  /\ Enqueue(k.overload, Upcoming) \in PendingOverload
         /\ Known(k, Enqueue(k.overload, Upcoming).queue)
<1> DEFINE e == Upcoming
           q == Append(k.overload.queue, e)
<1>1. k.overload \in PendingOverload /\ Known(k, k.overload.queue)
  BY DEF Result, KeyboardOK, Keyboard, KeyboardKnown
<1>2. e \in Event /\ (e.code \in Slot => k.slots[e.code].chord \in Chord)
  BY UpcomingOK DEF Result
<1>3. k.overload.queue \in Seq(Event)
  BY <1>1 DEF PendingOverload
<1>4. q \in Seq(Event) /\ Known(k, q)
  BY <1>1, <1>2, <1>3, KnownAppend
<1>5. CASE e.code = NoCode
  BY <1>1, <1>5 DEF Enqueue
<1>6. CASE e.code # NoCode
  <2>1. Enqueue(k.overload, e) = [k.overload EXCEPT !.queue = q]
    BY <1>1, <1>6 DEF Enqueue, PendingOverload
  <2> HIDE DEF q
  <2>2. /\ [k.overload EXCEPT !.queue = q] \in PendingOverload
        /\ [k.overload EXCEPT !.queue = q].queue = q
    BY <1>1, <1>4 DEF PendingOverload
  <2> QED BY <1>4, <2>1, <2>2
<1> QED BY <1>5, <1>6

LEMMA OverloadFieldOK ==
  ASSUME NEW k, Result(k), NEW o \in PendingOverload, Known(k, o.queue)
  PROVE  Result([k EXCEPT !.overload = o])
<1> DEFINE j == [k EXCEPT !.overload = o]
<1>1. k \in Keyboard
  BY DEF Result, KeyboardOK
<1>2. /\ j \in Keyboard /\ j.active = k.active /\ j.recent = k.recent /\ j.slots = k.slots
      /\ j.overload = o /\ j.chord = k.chord
  BY <1>1 DEF Keyboard
<1> HIDE DEF j
<1>3. KeyboardOK(j)
  BY <1>2, OtherFieldsOK DEF Result
<1>4. KeyboardKnown(j)
  BY <1>2 DEF KeyboardKnown, Known, Result
<1>5. Result(j)
  BY <1>2, <1>3, <1>4 DEF Result
<1> QED BY <1>5 DEF j

LEMMA KeptFurther ==
  ASSUME NEW k, Result(k), NEW j, KeyboardOK(j), Kept(j, k)
  PROVE  Result(j) /\ \A q : Known(k, q) => Known(j, q)
BY DEF Kept, Result, KeyboardKnown, Known

\* A step that ends, or calls, with keyboard j.
Outcome(j) == /\ Result(j)
              /\ \/ Exit(j)
                 \/ \E frames \in Seq(Frame) :
                      (\A n \in DOMAIN frames : Known(j, frames[n].events)) /\ Call(j, frames)

LEMMA DeferOutcome ==
  ASSUME Processing, NEW k, Result(k), Defer(k, Upcoming), k.overload.code # NoCode
  PROVE  \E j : Outcome(j) /\ j.chord = k.chord /\ j.config = k.config
<1> DEFINE e == Upcoming
           o == Enqueue(k.overload, e)
           action == Decision(o, e)
           none == [k EXCEPT !.overload = NoOverload]
           decided == CacheSet(none, o.code, action)
           j == Press(decided, o.code, action, e.at)
           frame == CallFrame("overload", o.queue)
<1>1. e \in Event /\ e.at \in Nat
  BY UpcomingOK DEF Event
<1>2. o \in PendingOverload /\ Known(k, o.queue)
  BY EnqueueOK
<1>3. o.code \in Codes
  <2>1. o.code = k.overload.code /\ k.overload.code \in Code \cup Slot \cup {NoCode}
    BY DEF Enqueue, Result, KeyboardOK, Keyboard, PendingOverload
  <2> QED BY <2>1 DEF Codes
<1>4. Call(j, <<frame>>) \/ Exit([k EXCEPT !.overload = o])
  BY Zenon DEF Defer
<1> HIDE DEF o
<1>5. action \in Descriptor
  BY <1>1, <1>2, DecisionType
<1>6. Result(none) /\ none.slots = k.slots /\ none.chord = k.chord
      /\ none.config = k.config
  <2>1. NoOverload \in PendingOverload /\ Known(k, NoOverload.queue)
    <3>1. Main \in Layer
      BY ConfigAssumption
    <3>2. NoOverload.queue = <<>> /\ <<>> \in Seq(Event)
      BY DEF NoOverload
    <3>3. NoOverload \in PendingOverload
      BY <3>1, FreeType DEF NoOverload, PendingOverload
    <3> QED BY <3>2, <3>3, KnownEmpty
  <2> QED BY <2>1, OverloadFieldOK DEF Result, KeyboardOK, Keyboard
<1> HIDE DEF none, action
<1>7. KeyboardOK(decided) /\ Kept(decided, none)
  BY <1>3, <1>5, <1>6, CacheSetOK DEF Result
<1> HIDE DEF decided
<1>8. KeyboardOK(j) /\ Kept(j, none)
  <2>1. KeyboardOK(j) /\ Kept(j, decided)
    BY <1>1, <1>3, <1>5, <1>7, PressOK
  <2> QED BY <1>7, <2>1 DEF Kept
<1> HIDE DEF j
<1>9. CASE Call(j, <<frame>>)
  <2>1. Result(j) /\ Known(j, o.queue)
    <3>1. Known(none, o.queue)
      BY <1>2, <1>6 DEF Known
    <3> QED BY <1>6, <1>8, <3>1, KeptFurther
  <2>2. frame \in Frame /\ frame.events = o.queue
    BY <1>2, CallFrameType DEF PendingOverload
  <2> HIDE DEF frame
  <2>3. <<frame>> \in Seq(Frame) /\ \A n \in DOMAIN <<frame>> : Known(j, <<frame>>[n].events)
    BY <2>1, <2>2, OneFrame
  <2>4. j.chord = k.chord /\ j.config = k.config
    BY <1>6, <1>8 DEF Kept
  <2> QED BY <1>9, <2>1, <2>3, <2>4 DEF Outcome
<1>10. CASE Exit([k EXCEPT !.overload = o])
  <2>1. Result([k EXCEPT !.overload = o])
    BY <1>2, OverloadFieldOK
  <2>2. [k EXCEPT !.overload = o].chord = k.chord /\ [k EXCEPT !.overload = o].config = k.config
    BY DEF Result, KeyboardOK, Keyboard
  <2> QED BY <1>10, <2>1, <2>2 DEF Outcome
<1> QED BY <1>4, <1>9, <1>10

LEMMA DeliverOutcome ==
  ASSUME Processing, Deliver(Upcoming)
  PROVE  \E j : Outcome(j) /\ j.chord = kbd.chord /\ j.config = kbd.config
<1> DEFINE e == Upcoming
           k == DecideTimeout(kbd, e)
<1>1. e \in Event /\ (e.code \in Slot => kbd.slots[e.code].chord \in Chord)
  BY UpcomingOK
<1>2. KeyboardOK(k) /\ Kept(k, kbd)
  BY <1>1, CurrentOK, DecideTimeoutOK DEF Result
<1>3. \/ Exit([k EXCEPT !.aborted = TRUE])
      \/ Waits(k, e) /\ Defer(k, e)
      \/ Exit(Strike(k, e))
  BY DEF Deliver
<1> HIDE DEF k
<1>4. Result(k) /\ k.chord = kbd.chord /\ k.config = kbd.config /\ k \in Keyboard
  BY <1>2, KeptResult DEF Kept, KeyboardOK
<1>5. CASE Exit([k EXCEPT !.aborted = TRUE])
  <2>1. [k EXCEPT !.aborted = TRUE].chord = k.chord /\ [k EXCEPT !.aborted = TRUE].config = k.config
    BY <1>4 DEF Keyboard
  <2> QED BY <1>4, <1>5, <2>1, AbortedOK DEF Outcome
<1>6. CASE Waits(k, e) /\ Defer(k, e)
  BY <1>4, <1>6, DeferOutcome DEF Waits
<1>7. CASE Exit(Strike(k, e))
  <2>1. e.code \in Slot => k.slots[e.code].chord \in Chord
    BY <1>1, <1>4 DEF Result
  <2>2. KeyboardOK(Strike(k, e)) /\ Kept(Strike(k, e), k)
    BY <1>1, <1>4, <2>1, StrikeOK DEF Result
  <2>3. Result(Strike(k, e)) /\ Strike(k, e).chord = k.chord /\ Strike(k, e).config = k.config
    BY <1>4, <2>2, KeptFurther DEF Kept
  <2> QED BY <1>4, <1>7, <2>3 DEF Outcome
<1> QED BY <1>3, <1>5, <1>6, <1>7

LEMMA DeliverInv ==
  ASSUME Processing, Deliver(Upcoming)
  PROVE  TypeInv'
<1>1. PICK j : Outcome(j)
  BY DeliverOutcome
<1> QED BY <1>1, ExitInv, CallInv DEF Outcome

\* What a frame that returns leaves of the chord.
Returned == IF Top.kind = "chord" THEN [kbd EXCEPT !.chord = Inactive] ELSE kbd

LEMMA ReturnedOK ==
  ASSUME TypeInv
  PROVE  Result(Returned) /\ Returned.slots = kbd.slots
<1>1. Result(kbd) /\ kbd \in Keyboard
  BY DEF TypeInv, TypeOK, Result, KeyboardOK
<1>2. Inactive \in Chording /\ Inactive.queue = <<>>
  BY DEF Inactive, Chording
<1>3. Result([kbd EXCEPT !.chord = Inactive])
  BY <1>1, <1>2, KnownEmpty, ChordFieldOK
<1>4. [kbd EXCEPT !.chord = Inactive].slots = kbd.slots
  BY <1>1 DEF Keyboard
<1> QED BY <1>1, <1>3, <1>4 DEF Returned

LEMMA ReturnInv ==
  ASSUME TypeInv, Return
  PROVE  TypeInv'
<1> DEFINE k == Returned
<1>1. stack \in Seq(Frame) /\ stack # <<>> /\ UNCHANGED <<now, struck, held>>
  BY DEF TypeInv, TypeOK, Return
<1>2. /\ Head(stack) \in Frame /\ Tail(stack) \in Seq(Frame)
      /\ DOMAIN Tail(stack) = 1 .. Len(stack) - 1
      /\ \A i \in 1 .. Len(stack) - 1 : Tail(stack)[i] = stack[i + 1]
      /\ Len(stack) \in Nat \ {0}
      /\ DOMAIN stack = 1 .. Len(stack)
  BY <1>1, ListFacts, Zenon
<1>3. Result(k) /\ k.slots = kbd.slots /\ k \in Keyboard /\ ActiveRecent(k) /\ KeyboardKnown(k)
  BY ReturnedOK DEF Result, KeyboardOK
<1>4. \A n \in DOMAIN Tail(stack) : Known(k, Tail(stack)[n].events)
  BY <1>2, <1>3 DEF TypeInv, Known
<1>5. CASE Len(stack) = 1
  <2>1. kbd' = k /\ stack' = <<>> /\ wake' = Top.timer
    BY <1>5 DEF Return, Returned
  <2>2. wake' \in Nat
    BY <1>2, <2>1 DEF Top, Frame
  <2> QED BY <1>1, <1>3, <2>1, <2>2 DEF TypeInv, TypeOK
<1>6. CASE Len(stack) # 1 /\ stack' = Tail(stack) /\ kbd' = k /\ wake' = wake
  BY <1>1, <1>2, <1>3, <1>4, <1>6 DEF TypeInv, TypeOK
<1>7. ASSUME Len(stack) # 1,
             kbd' = [k EXCEPT !.timers = Later(k, stack[2].at)],
             stack' = <<[stack[2] EXCEPT !.timer = Deadline(k, stack[2].at)]>> \o Tail(Tail(stack)),
             wake' = wake
      PROVE  TypeInv'
  <2> DEFINE j == [k EXCEPT !.timers = Later(k, stack[2].at)]
             f == [stack[2] EXCEPT !.timer = Deadline(k, stack[2].at)]
             r == Tail(stack)
  <2>1. 1 \in DOMAIN r /\ r[1] = stack[2] /\ r # <<>>
    <3>1. 1 \in DOMAIN r /\ r[1] = stack[2]
      BY <1>2, <1>7
    <3> QED BY <3>1
  <2>2. stack[2] \in Frame /\ Known(k, stack[2].events)
    BY <1>2, <1>4, <2>1
  <2>3. /\ Tail(r) \in Seq(Frame) /\ DOMAIN Tail(r) = 1 .. Len(r) - 1
        /\ \A i \in 1 .. Len(r) - 1 : Tail(r)[i] = r[i + 1]
        /\ \A i \in 1 .. Len(r) - 1 : i + 1 \in DOMAIN r
    BY <1>2, <2>1, ListFacts, Zenon
  <2>4. \A n \in DOMAIN Tail(r) : Known(k, Tail(r)[n].events)
    BY <1>4, <2>3, Zenon
  <2>5. stack[2].at \in Nat
    BY <2>2 DEF Frame
  <2>6. Later(k, stack[2].at) \in SUBSET Nat /\ Deadline(k, stack[2].at) \in Nat
    <3>1. k.timers \in SUBSET Nat
      BY <1>3 DEF Keyboard
    <3> QED BY <2>5, <3>1, DeadlineType
  <2>7. /\ j \in Keyboard /\ j.active = k.active /\ j.recent = k.recent /\ j.slots = k.slots
        /\ j.overload = k.overload /\ j.chord = k.chord
    <3> HIDE DEF k
    <3> QED BY <1>3, <2>6 DEF Keyboard
  <2>8. f \in Frame /\ f.events = stack[2].events
    BY <2>2, <2>6 DEF Frame
  <2>a. kbd' = j /\ stack' = <<f>> \o Tail(r)
    BY <1>7
  <2> HIDE DEF j, f, k
  <2>9. ActiveRecent(j) /\ KeyboardKnown(j) /\ \A q : Known(k, q) => Known(j, q)
    BY <1>3, <2>7 DEF ActiveRecent, KeyboardKnown, Known
  <2>10. <<f>> \in Seq(Frame) /\ \A n \in DOMAIN <<f>> : Known(j, <<f>>[n].events)
    BY <2>2, <2>8, <2>9, OneFrame
  <2>11. stack' \in Seq(Frame) /\ \A n \in DOMAIN stack' : Known(j, stack'[n].events)
    <3>1. \A n \in DOMAIN Tail(r) : Known(j, Tail(r)[n].events)
      BY <2>4, <2>9
    <3> QED BY <2>3, <2>a, <2>10, <3>1, Stacked
  <2> QED BY <1>1, <1>7, <2>7, <2>9, <2>11, <2>a DEF TypeInv, TypeOK
<1> QED BY <1>5, <1>6, <1>7 DEF Return, Returned

LEMMA DispatchOK ==
  ASSUME TypeInv, NEW c \in Code \cup {NoCode}, NEW pressed \in BOOLEAN, NEW t \in Nat,
         Dispatch([code |-> c, pressed |-> pressed, at |-> t]), kbd' = kbd
  PROVE  /\ stack' \in Seq(Frame) /\ \A n \in DOMAIN stack' : Known(kbd, stack'[n].events)
         /\ now' \in Nat
<1> DEFINE e == [code |-> c, pressed |-> pressed, at |-> t]
           f == CallFrame("loop", <<e>>)
<1>1. e \in Event /\ e.code \notin Slot
  BY CodeAssumption DEF Event
<1>2. now' = t /\ stack' = <<f>>
  BY DEF Dispatch
<1> HIDE DEF e
<1>3. <<e>> \in Seq(Event) /\ Known(kbd, <<e>>)
  BY <1>1, KnownOne
<1>4. f \in Frame /\ f.events = <<e>>
  BY <1>3, CallFrameType
<1> HIDE DEF f
<1>5. <<f>> \in Seq(Frame) /\ \A n \in DOMAIN <<f>> : Known(kbd, <<f>>[n].events)
  BY <1>3, <1>4, OneFrame
<1> QED BY <1>2, <1>5

LEMMA TypeInit ==
  ASSUME Init
  PROVE  TypeInv
<1>1. PICK config \in Configs :
        kbd = [config |-> config,
            cache |-> [c \in Code \cup Slot |-> Free],
            active |-> [l \in Layer |-> IF l = Main THEN 1 ELSE 0],
            recent |-> <<Main>>,
            down |-> {},
            timers |-> {},
            chord |-> Inactive,
            slots |-> [s \in Slot |-> [on |-> FALSE, chord |-> NoChord, keys |-> {}]],
            timeout |-> NoTimeout,
            overload |-> NoOverload,
            aborted |-> FALSE]
  BY Zenon DEF Init
<1>2. Main \in Layer /\ Free \in Descriptor
  BY ConfigAssumption, FreeType
<1>3. /\ NoTimeout \in PendingTimeout /\ NoOverload \in PendingOverload
      /\ NoOverload.queue = <<>> /\ Inactive \in Chording /\ Inactive.queue = <<>>
  BY <1>2 DEF NoTimeout, PendingTimeout, NoOverload, PendingOverload, Inactive, Chording
<1>4. [s \in Slot |-> [on |-> FALSE, chord |-> NoChord, keys |-> {}]] \in [Slot -> ActiveChord]
  BY DEF ActiveChord
<1>5. kbd \in Keyboard
  <2>1. /\ [c \in Code \cup Slot |-> Free] \in [Code \cup Slot -> Descriptor]
        /\ [l \in Layer |-> IF l = Main THEN 1 ELSE 0] \in [Layer -> Nat]
        /\ <<Main>> \in Seq(Layer)
    BY <1>2
  <2> QED BY <1>1, <1>3, <1>4, <2>1 DEF Keyboard
<1>6. ActiveRecent(kbd)
  BY <1>1, <1>2 DEF ActiveRecent
<1>7. KeyboardKnown(kbd)
  BY <1>1, <1>3, <1>4 DEF KeyboardKnown, Known
<1>8. stack = <<>> /\ wake = 0 /\ now = 1 /\ struck = 0 /\ held = [c \in Code |-> 0]
  BY DEF Init
<1>9. held \in [Code -> 0 .. Devices]
  BY <1>8, BoundAssumption
<1> QED BY <1>5, <1>6, <1>7, <1>8, <1>9 DEF TypeInv, TypeOK

LEMMA KeyEventInv ==
  ASSUME TypeInv, NEW c \in Code, NEW pressed \in BOOLEAN, NEW t \in 1 .. MaxTime,
         KeyEvent(c, pressed, t)
  PROVE  TypeInv'
<1>1. kbd' = kbd /\ wake' = wake /\ struck' = t /\ t \in Nat
      /\ Dispatch([code |-> c, pressed |-> pressed, at |-> t])
  BY BoundAssumption DEF KeyEvent
<1>2. stack' \in Seq(Frame) /\ (\A n \in DOMAIN stack' : Known(kbd, stack'[n].events)) /\ now' \in Nat
  BY <1>1, DispatchOK
<1>3. held' \in [Code -> 0 .. Devices]
  <2>1. held \in [Code -> 0 .. Devices] /\ Devices \in Nat
    BY BoundAssumption DEF TypeInv, TypeOK
  <2>2. held' = [held EXCEPT ![c] = IF pressed THEN @ + 1 ELSE @ - 1]
        /\ (IF pressed THEN held[c] < Devices ELSE held[c] > 0)
    BY DEF KeyEvent
  <2> QED BY <2>1, <2>2
<1> QED BY <1>1, <1>2, <1>3 DEF TypeInv, TypeOK

LEMMA ExpireInv ==
  ASSUME TypeInv, Expire
  PROVE  TypeInv'
<1>1. PICK t : t \in Nat /\ Timeout(t)
  <2>1. now \in Nat /\ wake \in Nat /\ Late \in Nat
    BY BoundAssumption DEF TypeInv, TypeOK
  <2> DEFINE a == IF now > wake THEN now ELSE wake
  <2>2. a \in Nat
    BY <2>1
  <2>3. PICK t \in a .. a + Late : Timeout(t)
    BY DEF Expire
  <2> HIDE DEF a
  <2> QED BY <2>1, <2>2, <2>3
<1>2. kbd' = kbd /\ wake' = 0 /\ UNCHANGED <<struck, held>>
      /\ Dispatch([code |-> NoCode, pressed |-> FALSE, at |-> t])
  BY <1>1 DEF Timeout
<1>3. stack' \in Seq(Frame) /\ (\A n \in DOMAIN stack' : Known(kbd, stack'[n].events)) /\ now' \in Nat
  BY <1>1, <1>2, DispatchOK
<1> QED BY <1>2, <1>3 DEF TypeInv, TypeOK

LEMMA TypeStep ==
  ASSUME TypeInv, [Next]_vars
  PROVE  TypeInv'
<1>1. CASE \E c \in Code, pressed \in BOOLEAN, t \in 1 .. MaxTime : KeyEvent(c, pressed, t)
  BY <1>1, KeyEventInv
<1>2. CASE Expire
  BY <1>2, ExpireInv
<1>3. CASE ChordStep
  <2>1. Processing
    BY <1>3 DEF ChordStep, Processing
  <2>2. \/ ReleaseChordKey(Upcoming) \/ BeginChord(Upcoming) \/ ExtendChord(Upcoming)
        \/ LapseChord(Upcoming) \/ HoldChord(Upcoming) \/ FireChord(Upcoming)
    BY <1>3 DEF ChordStep
  <2> QED BY <2>1, <2>2, ReleaseChordKeyInv, BeginChordInv, ExtendChordInv, LapseChordInv,
             HoldChordInv, FireChordInv
<1>4. CASE stack # <<>> /\ Top.events # <<>> /\ Deliver(Upcoming)
  BY <1>4, DeliverInv DEF Processing
<1>5. CASE Return
  BY <1>5, ReturnInv
<1>6. CASE UNCHANGED vars
  BY <1>6 DEF vars, TypeInv, TypeOK
<1> QED BY <1>1, <1>2, <1>3, <1>4, <1>5, <1>6 DEF Next, Step

LEMMA TypeInvariant == Spec => []TypeInv
BY TypeInit, TypeStep, PTL DEF Spec

\* Whatever is withheld and replayed, and however replays nest, the keyboard stays one
\* that the code can work with: in particular, lookup_descriptor (keyboard.c:189) never
\* finds a chord's code without the chord that it stands for, and a layer that is active
\* has its place in the order of activation.
THEOREM PipelineTyped == Spec => []TypeOK
<1>1. TypeInv => TypeOK
  BY DEF TypeInv
<1> QED BY <1>1, TypeInvariant, PTL

-----------------------------------------------------------------------------
(* HoldHasMatch: while a chord is pending the queue holds presses only, the *)
(* first of which are those of the chord matched so far.                   *)

\* The first events of q press the keys of match.
Presented(q, match) ==
  /\ match # NoChord
  /\ Len(q) >= Cardinality(ChordKeys[match])
  /\ \A i \in 1 .. Cardinality(ChordKeys[match]) :
       q[i].pressed /\ q[i].code \in ChordKeys[match]

Matched(c) ==
  /\ c.state = "hold" => Presented(c.queue, c.match)
  /\ c.state = "pending" => /\ \A i \in DOMAIN c.queue : c.queue[i].pressed
                            /\ c.match # NoChord => Presented(c.queue, c.match)

LEMMA SizeType ==
  ASSUME NEW c \in Chord
  PROVE  Cardinality(ChordKeys[c]) \in Nat
<1>1. IsFiniteSet(ChordKeys[c])
  BY ChordAssumption
<1> QED BY <1>1, FS_CardinalityType

LEMMA PresentedLonger ==
  ASSUME NEW q \in Seq(Event), NEW e \in Event, NEW match \in Chord \cup {NoChord},
         Presented(q, match)
  PROVE  Presented(Append(q, e), match)
<1> DEFINE n == Cardinality(ChordKeys[match])
<1>1. n \in Nat
  BY SizeType DEF Presented
<1>2. n <= Len(q) /\ \A i \in 1 .. n : q[i].pressed /\ q[i].code \in ChordKeys[match]
  BY DEF Presented
<1>3. Len(Append(q, e)) = Len(q) + 1 /\ \A i \in 1 .. Len(q) : Append(q, e)[i] = q[i]
  OBVIOUS
<1> HIDE DEF n
<1>4. n <= Len(Append(q, e)) /\ \A i \in 1 .. n : Append(q, e)[i] = q[i]
  BY <1>1, <1>2, <1>3
<1> QED BY <1>2, <1>4 DEF Presented, n

LEMMA MatchPresented ==
  ASSUME NEW k, KeyboardOK(k), NEW q \in Seq(Event), \A i \in DOMAIN q : q[i].pressed,
         NEW old \in Chord \cup {NoChord}, old # NoChord => Presented(q, old),
         NEW match, match = Match(k, q, old)
  PROVE  /\ match # NoChord => Presented(q, match)
         /\ Full(k, q) # {} => Presented(q, match)
<1>1. CASE Full(k, q) = {}
  BY <1>1 DEF Match
<1>2. CASE Full(k, q) # {}
  <2>1. PICK m \in Full(k, q) : match = m.chord
    BY <1>2, BestIsMatch DEF Match
  <2>2. /\ m.chord \in Chord
        /\ \A i \in Presses(q) : q[i].code \in ChordKeys[m.chord]
        /\ Cardinality(Presses(q)) = Cardinality(ChordKeys[m.chord])
    BY DEF Full, Partial
  <2>3. Presses(q) = 1 .. Len(q) /\ Len(q) \in Nat
    BY DEF Presses
  <2>4. Cardinality(1 .. Len(q)) = Len(q)
    <3>1. Len(q) >= 1 => Cardinality(1 .. Len(q)) = Len(q) - 1 + 1
      BY <2>3, FS_Interval
    <3>2. Len(q) = 0 => 1 .. Len(q) = {}
      BY <2>3
    <3>3. Cardinality({}) = 0
      BY FS_EmptySet
    <3> QED BY <2>3, <3>1, <3>2, <3>3
  <2>5. match # NoChord
    BY <2>1, <2>2 DEF Chord, NoChord
  <2> QED BY <2>1, <2>2, <2>3, <2>4, <2>5 DEF Presented
<1> QED BY <1>1, <1>2

\* A chord that is resolved is neither pending nor held.
LEMMA ResolveMatched ==
  ASSUME Processing, NEW k, k \in Keyboard, NEW q, NEW match, Resolve(k, q, match),
         Matched(k.chord)
  PROVE  Matched(kbd'.chord)
<1>1. CASE match = NoChord
  <2>1. kbd' = Resolving(k, q, match)
    BY <1>1 DEF Resolve, Call, Resolving
  <2>2. kbd'.chord.state = "resolving"
    BY <2>1 DEF Resolving, Keyboard, Chording
  <2> QED BY <2>2 DEF Matched
<1>2. ASSUME match # NoChord, Exit([k EXCEPT !.aborted = TRUE])
      PROVE  Matched(kbd'.chord)
  <2>1. kbd'.chord = k.chord
    BY <1>2 DEF Exit, Keyboard
  <2> QED BY <2>1
<1>3. ASSUME match # NoChord, NEW frames,
             Call(Started(k, q, match, Least({s \in Slot : ~k.slots[s].on})), frames)
      PROVE  Matched(kbd'.chord)
  <2>1. kbd'.chord.state = "resolving"
    BY <1>3 DEF Call, Started, Resolving, Keyboard, Chording
  <2> QED BY <2>1 DEF Matched
<1> QED BY <1>1, <1>2, <1>3 DEF Resolve, Started, Resolving

\* Nor does the end of a handler touch the chord.
LEMMA ExitMatched ==
  ASSUME NEW k, k \in Keyboard, Matched(k.chord), Exit(k)
  PROVE  Matched(kbd'.chord)
<1>1. kbd'.chord = k.chord
  BY DEF Exit, Keyboard
<1> QED BY <1>1

LEMMA AdvanceMatched ==
  ASSUME Processing, NEW q \in Seq(Event), \A i \in DOMAIN q : q[i].pressed,
         NEW old \in Chord \cup {NoChord}, old # NoChord => Presented(q, old),
         NEW t \in Nat, Advance(q, old, t)
  PROVE  Matched(kbd'.chord)
<1> DEFINE match == Match(kbd, q, old)
           unambiguous == Full(kbd, q) # {} /\ Partial(kbd, q) = Full(kbd, q)
           c == [state |-> IF unambiguous THEN "hold" ELSE "pending",
                 queue |-> q, match |-> match, last |-> t]
           waiting == [kbd EXCEPT !.chord = c]
<1>1. kbd \in Keyboard /\ KeyboardOK(kbd)
  BY CurrentOK DEF Result
<1>2. /\ match # NoChord => Presented(q, match)
      /\ Full(kbd, q) # {} => Presented(q, match)
  BY <1>1, MatchPresented
<1>3. match \in Chord \cup {NoChord}
  BY <1>1, MatchType
<1>4. \/ Exit(Schedule(waiting, t + kbd.config.interkey))
      \/ Exit(Schedule(waiting, t + kbd.config.hold))
      \/ Resolve(waiting, q, match)
  BY Zenon DEF Advance
<1>5. Matched(c)
  <2> HIDE DEF match
  <2> QED BY <1>2 DEF Matched
<1>6. c \in Chording
  BY <1>3 DEF Chording
<1> HIDE DEF c, match
<1>7. waiting \in Keyboard /\ waiting.chord = c
  BY <1>1, <1>6 DEF Keyboard
<1> HIDE DEF waiting
<1>8. \A n \in Nat : Schedule(waiting, n) \in Keyboard /\ Schedule(waiting, n).chord = c
  BY <1>7 DEF Schedule, Keyboard
<1>9. t + kbd.config.interkey \in Nat /\ t + kbd.config.hold \in Nat
  BY CurrentOK
<1> QED BY <1>4, <1>5, <1>7, <1>8, <1>9, ExitMatched, ResolveMatched

LEMMA AbortedChord ==
  ASSUME NEW k \in Keyboard
  PROVE  [k EXCEPT !.aborted = TRUE] \in Keyboard /\ [k EXCEPT !.aborted = TRUE].chord = k.chord
BY DEF Keyboard

LEMMA BeginMatched ==
  ASSUME Processing, BeginChord(Upcoming)
  PROVE  Matched(kbd'.chord)
<1>1. <<Upcoming>> \in Seq(Event) /\ Upcoming.at \in Nat
  BY UpcomingOK DEF Event
<1>2. Advance(<<Upcoming>>, NoChord, Upcoming.at)
  BY DEF BeginChord
<1>3. \A i \in DOMAIN <<Upcoming>> : <<Upcoming>>[i].pressed
  <2>1. Presses(<<Upcoming>>) # {}
    BY DEF BeginChord, Partial
  <2> QED BY <2>1 DEF Presses
<1> QED BY <1>1, <1>2, <1>3, AdvanceMatched

LEMMA ExtendMatched ==
  ASSUME Processing, Matched(kbd.chord), ExtendChord(Upcoming)
  PROVE  Matched(kbd'.chord)
<1> DEFINE q == Append(kbd.chord.queue, Upcoming)
           old == kbd.chord.match
<1>1. q \in Seq(Event) /\ kbd \in Keyboard /\ Upcoming \in Event /\ Upcoming.at \in Nat
      /\ old \in Chord \cup {NoChord} /\ kbd.chord.queue \in Seq(Event)
  BY QueueOK, UpcomingOK, CurrentOK DEF Event
<1>2. \/ Exit([kbd EXCEPT !.aborted = TRUE])
      \/ Upcoming.pressed /\ Advance(q, old, Upcoming.at)
      \/ Resolve(kbd, q, NoChord)
  BY DEF ExtendChord, Abort
<1>3. old # NoChord => Presented(q, old)
  BY <1>1, PresentedLonger DEF Matched, ExtendChord
<1>4. Upcoming.pressed => \A i \in DOMAIN q : q[i].pressed
  <2>1. \A i \in DOMAIN kbd.chord.queue : kbd.chord.queue[i].pressed
    BY DEF Matched, ExtendChord
  <2> QED BY <1>1, <2>1
<1> HIDE DEF q
<1>5. CASE Exit([kbd EXCEPT !.aborted = TRUE])
  BY <1>1, <1>5, AbortedChord, ExitMatched
<1>6. CASE Upcoming.pressed /\ Advance(q, old, Upcoming.at)
  BY <1>1, <1>3, <1>4, <1>6, AdvanceMatched
<1>7. CASE Resolve(kbd, q, NoChord)
  BY <1>1, <1>7, ResolveMatched
<1> QED BY <1>2, <1>5, <1>6, <1>7

LEMMA LapseMatched ==
  ASSUME Processing, Matched(kbd.chord), LapseChord(Upcoming)
  PROVE  Matched(kbd'.chord)
<1> DEFINE k == [kbd EXCEPT !.chord.state = "hold"]
           t == Upcoming.at + (kbd.config.hold - kbd.config.interkey)
<1>1. kbd \in Keyboard /\ kbd.chord \in Chording /\ Upcoming.at \in Nat
  BY CurrentOK, UpcomingOK DEF Event
<1>2. \/ /\ kbd.chord.match # NoChord /\ kbd.config.hold > kbd.config.interkey
         /\ Exit(Schedule(k, t))
      \/ \E m \in {NoChord, kbd.chord.match} : Resolve(kbd, kbd.chord.queue, m)
  BY DEF LapseChord, Abort
<1>3. ASSUME kbd.chord.match # NoChord, kbd.config.hold > kbd.config.interkey,
             Exit(Schedule(k, t))
      PROVE  Matched(kbd'.chord)
  <2>1. t \in Nat
    BY <1>1, <1>3, CurrentOK
  <2>2. k.chord = [kbd.chord EXCEPT !.state = "hold"]
    BY <1>1 DEF Keyboard
  <2>3. Matched(k.chord)
    <3>1. kbd.chord.state = "pending"
      BY DEF LapseChord
    <3> HIDE DEF k
    <3> QED BY <1>1, <1>3, <2>2, <3>1 DEF Matched, Chording
  <2>4. k \in Keyboard
    BY ChordStateOK DEF Result, KeyboardOK
  <2> HIDE DEF k, t
  <2>5. Schedule(k, t) \in Keyboard /\ Schedule(k, t).chord = k.chord
    BY <2>1, <2>4 DEF Schedule, Keyboard
  <2> QED BY <1>3, <2>3, <2>5, ExitMatched
<1>4. ASSUME NEW m \in {NoChord, kbd.chord.match}, Resolve(kbd, kbd.chord.queue, m)
      PROVE  Matched(kbd'.chord)
  BY <1>1, <1>4, ResolveMatched
<1> QED BY <1>2, <1>3, <1>4

LEMMA HoldMatched ==
  ASSUME Processing, Matched(kbd.chord), HoldChord(Upcoming)
  PROVE  Matched(kbd'.chord)
<1> DEFINE q == Append(kbd.chord.queue, Upcoming)
           c == [kbd.chord EXCEPT !.queue = q]
<1>1. q \in Seq(Event) /\ kbd \in Keyboard /\ Upcoming \in Event /\ kbd.chord \in Chording
      /\ kbd.chord.queue \in Seq(Event) /\ kbd.chord.match \in Chord \cup {NoChord}
  BY QueueOK, UpcomingOK, CurrentOK
<1>2. [kbd EXCEPT !.chord.queue = q] = [kbd EXCEPT !.chord = c]
  BY <1>1 DEF Keyboard
<1>3. \/ Exit([kbd EXCEPT !.aborted = TRUE])
      \/ Resolve(kbd, q, NoChord)
      \/ Exit([kbd EXCEPT !.chord = c])
  BY <1>2, Zenon DEF HoldChord, Abort
<1>4. Matched(c) /\ c \in Chording
  <2>1. Presented(q, kbd.chord.match) /\ kbd.chord.state = "hold"
    BY <1>1, PresentedLonger DEF Matched, HoldChord
  <2> HIDE DEF q
  <2> QED BY <1>1, <2>1 DEF Matched, Chording
<1> HIDE DEF c, q
<1>5. CASE Exit([kbd EXCEPT !.chord = c])
  <2>1. [kbd EXCEPT !.chord = c] \in Keyboard /\ [kbd EXCEPT !.chord = c].chord = c
    BY <1>1, <1>4 DEF Keyboard
  <2> QED BY <1>4, <1>5, <2>1, ExitMatched
<1> QED BY <1>1, <1>3, <1>5, AbortedChord, ExitMatched, ResolveMatched

LEMMA DeliverMatched ==
  ASSUME Processing, Matched(kbd.chord), Deliver(Upcoming)
  PROVE  Matched(kbd'.chord)
<1>1. PICK j : Outcome(j) /\ j.chord = kbd.chord
  BY DeliverOutcome
<1>2. CASE Exit(j)
  BY <1>1, <1>2, ExitMatched DEF Outcome, Result, KeyboardOK
<1>3. ASSUME NEW frames, Call(j, frames)
      PROVE  Matched(kbd'.chord)
  BY <1>1, <1>3 DEF Call
<1> QED BY <1>1, <1>2, <1>3 DEF Outcome

LEMMA MatchedStep ==
  ASSUME TypeInv, Matched(kbd.chord), [Next]_vars
  PROVE  Matched(kbd'.chord)
<1>1. CASE \E c \in Code, pressed \in BOOLEAN, t \in 1 .. MaxTime : KeyEvent(c, pressed, t)
  BY <1>1 DEF KeyEvent
<1>2. CASE Expire
  BY <1>2 DEF Expire, Timeout
<1>3. CASE ChordStep
  <2>1. Processing
    BY <1>3 DEF ChordStep, Processing
  <2>2. \/ ReleaseChordKey(Upcoming) \/ BeginChord(Upcoming) \/ ExtendChord(Upcoming)
        \/ LapseChord(Upcoming) \/ HoldChord(Upcoming) \/ FireChord(Upcoming)
    BY <1>3 DEF ChordStep
  <2>3. CASE ReleaseChordKey(Upcoming)
    <3>1. kbd'.chord = kbd.chord
      BY <2>1, <2>3, CurrentOK DEF ReleaseChordKey, Exit, Call, Lift, Keyboard
    <3> QED BY <3>1
  <2>4. CASE FireChord(Upcoming)
    BY <2>1, <2>4, CurrentOK, ResolveMatched DEF FireChord
  <2> QED BY <2>1, <2>2, <2>3, <2>4, BeginMatched, ExtendMatched, LapseMatched, HoldMatched
<1>4. CASE stack # <<>> /\ Top.events # <<>> /\ Deliver(Upcoming)
  BY <1>4, DeliverMatched DEF Processing
<1>5. CASE Return
  <2>1. kbd'.chord \in {kbd.chord, Inactive}
    BY <1>5 DEF Return, TypeInv, TypeOK, Keyboard
  <2> QED BY <2>1 DEF Matched, Inactive
<1>6. CASE UNCHANGED vars
  BY <1>6 DEF vars
<1> QED BY <1>1, <1>2, <1>3, <1>4, <1>5, <1>6 DEF Next, Step

\* resolve_chord (keyboard.c:918) skips as many queued events as the matched chord has
\* keys, without looking at them: they are the presses of these keys, whatever chords
\* there are in whatever layers, and however the chords of different layers overlap.
THEOREM HoldHasMatchCorrect == Spec => []HoldHasMatch
<1>1. Init => Matched(kbd.chord)
  BY DEF Init, Matched, Inactive
<1>2. Matched(kbd.chord) => HoldHasMatch
  BY DEF Matched, HoldHasMatch, Presented
<1>3. TypeInv /\ Matched(kbd.chord) /\ [Next]_vars => Matched(kbd.chord)'
  BY MatchedStep
<1> QED BY <1>1, <1>2, <1>3, TypeInvariant, PTL DEF Spec

-----------------------------------------------------------------------------
(* OwnedOutput and HeldLayers, where what an undecided key becomes is a key *)
(* or a layer: an undecided key is in the cache as the timed key it is, so *)
(* that nothing is forgotten when its entry is replaced.                   *)

PlainActions == \A a \in Action : Descriptors[a].op \in {"key", "layer"}

Plain(d) == d.op \in {"key", "layer"}

TimersCached(k) ==
  /\ k.timeout.code # NoCode =>
       /\ Plain(k.timeout.action1) /\ Plain(k.timeout.action2)
       /\ ~k.timeout.spontaneous => k.cache[k.timeout.code].op = "timeout"
  /\ k.overload.code # NoCode =>
       /\ Plain(k.overload.action)
       /\ k.cache[k.overload.code].op \in {"overloadt", "overloadt2"}

Owned(down, cache) ==
  \A o \in down : \E c \in Codes : cache[c].op = "key" /\ cache[c].key = o

Holders(cache, l) == {c \in Codes : cache[c].op = "layer" /\ cache[c].layer = l}

Unit(d, l) == IF d.op = "layer" /\ d.layer = l THEN 1 ELSE 0

LEMMA HoldersFinite ==
  ASSUME NEW cache, NEW l
  PROVE  IsFiniteSet(Holders(cache, l)) /\ Cardinality(Holders(cache, l)) \in Nat
<1>1. IsFiniteSet(Slot) /\ IsFiniteSet(Code)
  <2>1. IsFiniteSet(1 .. NrSlots)
    BY CodeAssumption, FS_Interval
  <2> QED BY <2>1, CodeAssumption DEF Slot
<1>2. IsFiniteSet(Codes)
  BY <1>1, FS_Union DEF Codes
<1>3. Holders(cache, l) \subseteq Codes
  BY DEF Holders
<1>4. IsFiniteSet(Holders(cache, l))
  BY <1>2, <1>3, FS_Subset
<1> QED BY <1>4, FS_CardinalityType

\* An entry that is replaced adds and takes away one holder each.
LEMMA HoldersReplaced ==
  ASSUME NEW cache \in [Codes -> Descriptor], NEW c \in Codes, NEW d \in Descriptor, NEW l
  PROVE  Cardinality(Holders([cache EXCEPT ![c] = d], l)) + Unit(cache[c], l)
           = Cardinality(Holders(cache, l)) + Unit(d, l)
<1> DEFINE new == [cache EXCEPT ![c] = d]
           others == Holders(cache, l) \ {c}
<1>1. IsFiniteSet(Holders(cache, l)) /\ IsFiniteSet(Holders(new, l))
      /\ Cardinality(Holders(cache, l)) \in Nat
  BY HoldersFinite
<1>2. IsFiniteSet(others) /\ c \notin others
  BY <1>1, FS_Subset
<1>3. Cardinality(others) \in Nat /\ Cardinality(others \cup {c}) = Cardinality(others) + 1
  BY <1>2, FS_CardinalityType, FS_AddElement
<1>4. Holders(cache, l) = IF Unit(cache[c], l) = 1 THEN others \cup {c} ELSE others
  BY DEF Holders, Unit
<1>5. Holders(new, l) = IF Unit(d, l) = 1 THEN others \cup {c} ELSE others
  BY DEF Holders, Unit
<1>6. Unit(cache[c], l) \in {0, 1} /\ Unit(d, l) \in {0, 1}
  BY DEF Unit
<1> HIDE DEF others, new
<1>7. Cardinality(Holders(cache, l)) = Cardinality(others) + Unit(cache[c], l)
  BY <1>3, <1>4, <1>6
<1>8. Cardinality(Holders(new, l)) = Cardinality(others) + Unit(d, l)
  BY <1>3, <1>5, <1>6
<1> QED BY <1>3, <1>6, <1>7, <1>8 DEF new

\* What becoming d does to the keyboard, beside the order of layers and the timers.
Struck(k, c, d, j) ==
         /\ j.cache = k.cache /\ j.aborted = k.aborted
         /\ j.down = IF d.op = "key" THEN k.down \cup {d.key} ELSE k.down
         /\ j.active = IF d.op = "layer" THEN [k.active EXCEPT ![d.layer] = @ + 1] ELSE k.active
         /\ d.op # "timeout" => j.timeout = k.timeout
         /\ d.op = "timeout" => /\ j.timeout.code = c /\ ~j.timeout.spontaneous
                                /\ j.timeout.action1 = Descriptors[d.act]
                                /\ j.timeout.action2 = Descriptors[d.alt]
         /\ d.op \notin {"overloadt", "overloadt2"} => j.overload = k.overload
         /\ d.op \in {"overloadt", "overloadt2"} =>
              j.overload.code = c /\ j.overload.action = Descriptors[d.act]

LEMMA PressFields ==
  ASSUME NEW k \in Keyboard, NEW c, NEW d \in Descriptor, NEW t,
         NEW j, j = Press(k, c, d, t)
  PROVE  Struck(k, c, d, j)
<1>1. CASE d.op = "key"
  <2>1. j = [k EXCEPT !.down = @ \cup {d.key}]
    BY <1>1 DEF Press
  <2> QED BY <1>1, <2>1 DEF Keyboard, Struck
<1>2. CASE d.op = "layer"
  <2>1. j = ActivateLayer(k, d.layer)
    BY <1>2 DEF Press
  <2> QED BY <1>2, <2>1 DEF ActivateLayer, Keyboard, Struck
<1>3. CASE d.op = "timeout"
  <2> DEFINE p == [code |-> c, spontaneous |-> FALSE, expiration |-> t + d.span,
                   activation |-> t, action1 |-> Descriptors[d.act],
                   action2 |-> Descriptors[d.alt]]
  <2>1. j = Schedule([k EXCEPT !.timeout = p], t + d.span)
    BY <1>3 DEF Press
  <2>2. p.code = c /\ ~p.spontaneous /\ p.action1 = Descriptors[d.act] /\ p.action2 = Descriptors[d.alt]
    OBVIOUS
  <2> HIDE DEF p
  <2> QED BY <1>3, <2>1, <2>2 DEF Schedule, Keyboard, Struck
<1>4. CASE d.op \in {"overloadt", "overloadt2"}
  <2> DEFINE p == [code |-> c, expiration |-> t + d.span,
                   interrupt |-> d.op = "overloadt2", queue |-> k.overload.queue,
                   action |-> Descriptors[d.act], layer |-> d.layer]
  <2>1. j = Schedule([k EXCEPT !.overload = p], t + d.span)
    BY <1>4 DEF Press, Keyboard
  <2>2. p.code = c /\ p.action = Descriptors[d.act]
    OBVIOUS
  <2> HIDE DEF p
  <2> QED BY <1>4, <2>1, <2>2 DEF Schedule, Keyboard, Struck
<1>5. CASE d.op = "none"
  <2>1. j = k
    BY <1>5 DEF Press
  <2> QED BY <1>5, <2>1 DEF Struck
<1> QED BY <1>1, <1>2, <1>3, <1>4, <1>5 DEF Descriptor

\* ... and ceasing to be d.
Lifted(k, d, t, j) ==
         /\ j.cache = k.cache /\ j.overload = k.overload
         /\ j.down = IF d.op = "key" THEN k.down \ {d.key} ELSE k.down
         /\ d.op # "layer" => j.active = k.active /\ j.aborted = k.aborted
         /\ d.op = "layer" /\ k.active[d.layer] > 0 =>
              j.active = [k.active EXCEPT ![d.layer] = @ - 1] /\ j.aborted = k.aborted
         /\ j.timeout \in {k.timeout, [k.timeout EXCEPT !.spontaneous = TRUE]}
         /\ d.op = "timeout" /\ k.timeout.code # NoCode /\ t = k.timeout.activation
              => j.timeout = [k.timeout EXCEPT !.spontaneous = TRUE]

LEMMA ReleaseFields ==
  ASSUME NEW k \in Keyboard, NEW d \in Descriptor, NEW t,
         NEW j, j = Release(k, d, t)
  PROVE  Lifted(k, d, t, j)
<1>1. CASE d.op = "key"
  <2>1. j = [k EXCEPT !.down = @ \ {d.key}]
    BY <1>1 DEF Release
  <2> QED BY <1>1, <2>1 DEF Keyboard, Lifted
<1>2. CASE d.op = "layer"
  <2>1. j = DeactivateLayer(k, d.layer)
    BY <1>2 DEF Release
  <2>2. CASE k.active[d.layer] > 0
    <3>1. j = [k EXCEPT !.active[d.layer] = @ - 1]
      BY <2>1, <2>2 DEF DeactivateLayer
    <3> QED BY <1>2, <3>1 DEF Keyboard, Lifted
  <2>3. CASE ~(k.active[d.layer] > 0)
    <3>1. j = [k EXCEPT !.aborted = TRUE]
      BY <2>1, <2>3 DEF DeactivateLayer
    <3> QED BY <1>2, <2>3, <3>1 DEF Keyboard, Lifted
  <2> QED BY <2>2, <2>3
<1>3. CASE d.op = "timeout" /\ k.timeout.code # NoCode /\ t = k.timeout.activation
  <2> DEFINE p == [k.timeout EXCEPT !.spontaneous = TRUE]
  <2>1. j = [k EXCEPT !.timeout = p]
    BY <1>3 DEF Release, Keyboard
  <2> HIDE DEF p
  <2>2. /\ j.cache = k.cache /\ j.overload = k.overload /\ j.down = k.down
        /\ j.active = k.active /\ j.aborted = k.aborted /\ j.timeout = p
    BY <2>1 DEF Keyboard
  <2> QED BY <1>3, <2>2 DEF p, Lifted
<1>4. CASE /\ d.op \notin {"key", "layer"}
           /\ ~(d.op = "timeout" /\ k.timeout.code # NoCode /\ t = k.timeout.activation)
  <2>1. j = k
    BY <1>4 DEF Release
  <2> QED BY <1>4, <2>1 DEF Lifted
<1> QED BY <1>1, <1>2, <1>3, <1>4

LEMMA CacheFields ==
  ASSUME NEW k \in Keyboard, NEW c \in Codes, NEW d \in Descriptor,
         NEW j, j = CacheSet(k, c, d)
  PROVE  /\ j \in Keyboard /\ j.cache = [k.cache EXCEPT ![c] = d]
         /\ j.cache \in [Codes -> Descriptor] /\ j.cache[c] = d
         /\ \A b \in Codes : b # c => j.cache[b] = k.cache[b]
         /\ j.down = k.down /\ j.active = k.active /\ j.aborted = k.aborted
         /\ j.timeout = k.timeout /\ j.overload = k.overload
BY DEF CacheSet, Keyboard, Codes

-----------------------------------------------------------------------------
(* What the handlers do to these.                                          *)

Paid(k) == TimersCached(k) /\ Owned(k.down, k.cache)

Balanced(k) ==
  \A l \in Layer : k.active[l] = (IF l = Main THEN 1 ELSE 0) + Cardinality(Holders(k.cache, l))

LEMMA BalancedStep ==
  ASSUME NEW k \in Keyboard, Balanced(k), NEW c \in Codes, NEW d \in Descriptor,
         NEW j, j.cache = [k.cache EXCEPT ![c] = d],
         \A l \in Layer : j.active[l] + Unit(k.cache[c], l) = k.active[l] + Unit(d, l),
         j.active \in [Layer -> Nat]
  PROVE  Balanced(j)
<1> SUFFICES ASSUME NEW l \in Layer
             PROVE  j.active[l] = (IF l = Main THEN 1 ELSE 0) + Cardinality(Holders(j.cache, l))
  BY DEF Balanced
<1>1. k.cache \in [Codes -> Descriptor] /\ k.active[l] \in Nat /\ j.active[l] \in Nat
  BY DEF Keyboard, Codes
<1>2. Cardinality(Holders(j.cache, l)) + Unit(k.cache[c], l)
        = Cardinality(Holders(k.cache, l)) + Unit(d, l)
  BY <1>1, HoldersReplaced
<1>3. Cardinality(Holders(j.cache, l)) \in Nat /\ Cardinality(Holders(k.cache, l)) \in Nat
  BY HoldersFinite
<1>4. Unit(k.cache[c], l) \in Nat /\ Unit(d, l) \in Nat
  BY DEF Unit
<1>5. k.active[l] = (IF l = Main THEN 1 ELSE 0) + Cardinality(Holders(k.cache, l))
  BY DEF Balanced
<1>6. j.active[l] + Unit(k.cache[c], l) = k.active[l] + Unit(d, l)
  OBVIOUS
<1> QED BY <1>1, <1>2, <1>3, <1>4, <1>5, <1>6

\* A key that is bound to d owns what d presses or activates.
LEMMA Bound ==
  ASSUME PlainActions, NEW k \in Keyboard, Paid(k), NEW c \in Codes, ~Plain(k.cache[c]),
         NEW d \in Descriptor, NEW t,
         Plain(d) \/ (k.timeout.code = NoCode /\ k.overload.code = NoCode),
         k.timeout.code # NoCode /\ ~k.timeout.spontaneous => k.timeout.code # c,
         k.overload.code # NoCode => k.overload.code # c,
         NEW j, j = Press(CacheSet(k, c, d), c, d, t)
  PROVE  /\ Paid(j) /\ (Balanced(k) => Balanced(j)) /\ j.aborted = k.aborted
         /\ Plain(d) => j.timeout = k.timeout
<1> DEFINE i == CacheSet(k, c, d)
<1>1. /\ i \in Keyboard /\ i.cache = [k.cache EXCEPT ![c] = d]
      /\ i.cache \in [Codes -> Descriptor] /\ i.cache[c] = d
      /\ \A b \in Codes : b # c => i.cache[b] = k.cache[b]
      /\ i.down = k.down /\ i.active = k.active /\ i.aborted = k.aborted
      /\ i.timeout = k.timeout /\ i.overload = k.overload
  BY CacheFields
<1>0. j = Press(i, c, d, t)
  OBVIOUS
<1> HIDE DEF i
<1>2. /\ j.cache = i.cache /\ j.aborted = i.aborted
      /\ j.down = IF d.op = "key" THEN i.down \cup {d.key} ELSE i.down
      /\ j.active = IF d.op = "layer" THEN [i.active EXCEPT ![d.layer] = @ + 1] ELSE i.active
      /\ d.op # "timeout" => j.timeout = i.timeout
      /\ d.op = "timeout" => /\ j.timeout.code = c /\ ~j.timeout.spontaneous
                             /\ j.timeout.action1 = Descriptors[d.act]
                             /\ j.timeout.action2 = Descriptors[d.alt]
      /\ d.op \notin {"overloadt", "overloadt2"} => j.overload = i.overload
      /\ d.op \in {"overloadt", "overloadt2"} =>
           j.overload.code = c /\ j.overload.action = Descriptors[d.act]
  <2>1. Struck(i, c, d, j)
    BY <1>0, <1>1, PressFields, Zenon
  <2> QED BY <2>1 DEF Struck
<1>3. Plain(Descriptors[d.act]) /\ Plain(Descriptors[d.alt])
  BY DEF PlainActions, Plain, Descriptor
<1>4. k.timeout \in PendingTimeout /\ k.overload \in PendingOverload
      /\ (k.timeout.code # NoCode => k.timeout.code \in Codes)
      /\ (k.overload.code # NoCode => k.overload.code \in Codes)
  BY DEF Keyboard, PendingTimeout, PendingOverload, Codes
<1>5. /\ j.timeout.code # NoCode =>
           /\ Plain(j.timeout.action1) /\ Plain(j.timeout.action2)
           /\ ~j.timeout.spontaneous => j.cache[j.timeout.code].op = "timeout"
  <2>1. CASE d.op = "timeout"
    BY <1>1, <1>2, <1>3, <2>1
  <2>2. CASE d.op # "timeout"
    <3>1. j.timeout = k.timeout
      BY <1>1, <1>2, <2>2
    <3> QED BY <1>1, <1>2, <1>4, <3>1 DEF Paid, TimersCached
  <2> QED BY <2>1, <2>2
<1>6. /\ j.overload.code # NoCode =>
           /\ Plain(j.overload.action)
           /\ j.cache[j.overload.code].op \in {"overloadt", "overloadt2"}
  <2>1. CASE d.op \in {"overloadt", "overloadt2"}
    BY <1>1, <1>2, <1>3, <2>1
  <2>2. CASE d.op \notin {"overloadt", "overloadt2"}
    <3>1. j.overload = k.overload
      BY <1>1, <1>2, <2>2
    <3> QED BY <1>1, <1>2, <1>4, <3>1 DEF Paid, TimersCached
  <2> QED BY <2>1, <2>2
<1>7. Owned(j.down, j.cache)
  <2> SUFFICES ASSUME NEW o \in j.down
               PROVE  \E b \in Codes : j.cache[b].op = "key" /\ j.cache[b].key = o
    BY DEF Owned
  <2>1. CASE o \in k.down
    <3>1. PICK b \in Codes : k.cache[b].op = "key" /\ k.cache[b].key = o
      BY <2>1 DEF Paid, Owned
    <3>2. b # c
      BY <3>1 DEF Plain
    <3> QED BY <1>1, <1>2, <3>1, <3>2
  <2>2. CASE d.op = "key" /\ o = d.key
    BY <1>1, <1>2, <2>2
  <2> QED BY <1>1, <1>2, <2>1, <2>2
<1>8. ASSUME Balanced(k)
      PROVE  Balanced(j)
  <2>1. k.active \in [Layer -> Nat] /\ d.layer \in Layer
    BY DEF Keyboard, Descriptor
  <2>2. j.active \in [Layer -> Nat]
    BY <1>1, <1>2, <2>1
  <2>3. \A l \in Layer : j.active[l] = k.active[l] + Unit(d, l)
    BY <1>1, <1>2, <2>1 DEF Unit
  <2>4. \A l \in Layer : Unit(k.cache[c], l) = 0
    BY DEF Unit, Plain
  <2>5. \A l \in Layer : j.active[l] + Unit(k.cache[c], l) = k.active[l] + Unit(d, l)
    BY <2>2, <2>3, <2>4
  <2>6. j.cache = [k.cache EXCEPT ![c] = d]
    BY <1>1, <1>2
  <2> QED BY <1>8, <2>2, <2>5, <2>6, BalancedStep
<1>9. Plain(d) => j.timeout = k.timeout
  BY <1>1, <1>2 DEF Plain
<1> QED BY <1>1, <1>2, <1>5, <1>6, <1>7, <1>8, <1>9 DEF Paid, TimersCached

\* A key that is released gives back what it owns.
LEMMA Freed ==
  ASSUME NEW k \in Keyboard, Paid(k), NEW c \in Codes, NEW t,
         k.timeout.code = c => t = k.timeout.activation,
         k.overload.code # NoCode => k.overload.code # c,
         NEW j, j = Release(CacheSet(k, c, Free), k.cache[c], t)
  PROVE  Paid(j) /\ (Balanced(k) => Balanced(j) /\ j.aborted = k.aborted)
<1> DEFINE i == CacheSet(k, c, Free)
           d == k.cache[c]
<1>0. j = Release(i, d, t)
  OBVIOUS
<1>1. /\ i \in Keyboard /\ i.cache = [k.cache EXCEPT ![c] = Free]
      /\ i.cache \in [Codes -> Descriptor] /\ i.cache[c] = Free
      /\ \A b \in Codes : b # c => i.cache[b] = k.cache[b]
      /\ i.down = k.down /\ i.active = k.active /\ i.aborted = k.aborted
      /\ i.timeout = k.timeout /\ i.overload = k.overload
  BY CacheFields, FreeType
<1>a. d \in Descriptor /\ k.active \in [Layer -> Nat]
  BY DEF Keyboard, Codes
<1> HIDE DEF i, d
<1>2. /\ j.cache = i.cache /\ j.overload = i.overload
      /\ j.down = IF d.op = "key" THEN i.down \ {d.key} ELSE i.down
      /\ d.op # "layer" => j.active = i.active /\ j.aborted = i.aborted
      /\ d.op = "layer" /\ i.active[d.layer] > 0 =>
           j.active = [i.active EXCEPT ![d.layer] = @ - 1] /\ j.aborted = i.aborted
      /\ j.timeout \in {i.timeout, [i.timeout EXCEPT !.spontaneous = TRUE]}
      /\ d.op = "timeout" /\ i.timeout.code # NoCode /\ t = i.timeout.activation
           => j.timeout = [i.timeout EXCEPT !.spontaneous = TRUE]
  <2>1. Lifted(i, d, t, j)
    BY <1>0, <1>1, <1>a, ReleaseFields, Zenon
  <2> QED BY <2>1 DEF Lifted
<1>3. k.timeout \in PendingTimeout /\ k.overload \in PendingOverload
      /\ (k.timeout.code # NoCode => k.timeout.code \in Codes)
      /\ (k.overload.code # NoCode => k.overload.code \in Codes)
  BY DEF Keyboard, PendingTimeout, PendingOverload, Codes
<1>4. j.timeout.code # NoCode =>
           /\ Plain(j.timeout.action1) /\ Plain(j.timeout.action2)
           /\ ~j.timeout.spontaneous => j.cache[j.timeout.code].op = "timeout"
  <2> SUFFICES ASSUME j.timeout.code # NoCode
               PROVE  /\ Plain(j.timeout.action1) /\ Plain(j.timeout.action2)
                      /\ ~j.timeout.spontaneous => j.cache[j.timeout.code].op = "timeout"
    OBVIOUS
  <2>1. /\ j.timeout.code = k.timeout.code /\ j.timeout.action1 = k.timeout.action1
        /\ j.timeout.action2 = k.timeout.action2
        /\ ~j.timeout.spontaneous => ~k.timeout.spontaneous
    BY <1>1, <1>2, <1>3 DEF PendingTimeout
  <2>2. Plain(k.timeout.action1) /\ Plain(k.timeout.action2)
    BY <2>1 DEF Paid, TimersCached
  <2>3. ASSUME ~j.timeout.spontaneous
        PROVE  j.cache[j.timeout.code].op = "timeout"
    <3>1. k.cache[k.timeout.code].op = "timeout"
      BY <2>1, <2>3 DEF Paid, TimersCached
    <3>2. CASE k.timeout.code = c
      <4>1. j.timeout = [i.timeout EXCEPT !.spontaneous = TRUE]
        BY <1>1, <1>2, <2>1, <3>1, <3>2 DEF d
      <4>2. j.timeout.spontaneous
        BY <1>1, <1>3, <4>1 DEF PendingTimeout
      <4> QED BY <2>3, <4>2
    <3>3. CASE k.timeout.code # c
      BY <1>1, <1>2, <1>3, <2>1, <3>1, <3>3
    <3> QED BY <3>2, <3>3
  <2> QED BY <2>1, <2>2, <2>3
<1>5. j.overload.code # NoCode =>
           /\ Plain(j.overload.action)
           /\ j.cache[j.overload.code].op \in {"overloadt", "overloadt2"}
  BY <1>1, <1>2, <1>3 DEF Paid, TimersCached
<1>6. Owned(j.down, j.cache)
  <2> SUFFICES ASSUME NEW o \in j.down
               PROVE  \E b \in Codes : j.cache[b].op = "key" /\ j.cache[b].key = o
    BY DEF Owned
  <2>1. o \in k.down /\ (d.op = "key" => o # d.key)
    BY <1>1, <1>2
  <2>2. PICK b \in Codes : k.cache[b].op = "key" /\ k.cache[b].key = o
    BY <2>1 DEF Paid, Owned
  <2>3. b # c
    BY <2>1, <2>2 DEF d
  <2> QED BY <1>1, <1>2, <2>2, <2>3
<1>7. ASSUME Balanced(k)
      PROVE  Balanced(j) /\ j.aborted = k.aborted
  <2>1. d.op = "layer" => k.active[d.layer] > 0
    <3> SUFFICES ASSUME d.op = "layer" PROVE k.active[d.layer] > 0
      OBVIOUS
    <3>1. d.layer \in Layer
      BY <1>a DEF Descriptor
    <3>2. c \in Holders(k.cache, d.layer)
      BY DEF Holders, d
    <3>3. IsFiniteSet(Holders(k.cache, d.layer)) /\ Cardinality(Holders(k.cache, d.layer)) \in Nat
      BY HoldersFinite
    <3>4. Cardinality(Holders(k.cache, d.layer)) # 0
      BY <3>2, <3>3, FS_EmptySet
    <3>5. k.active[d.layer] = (IF d.layer = Main THEN 1 ELSE 0) + Cardinality(Holders(k.cache, d.layer))
      BY <1>7, <3>1 DEF Balanced
    <3> QED BY <3>3, <3>4, <3>5
  <2>2. d.op = "layer" => d.layer \in Layer
    BY <1>a DEF Descriptor
  <2>3. /\ j.active \in [Layer -> Nat] /\ j.aborted = k.aborted
        /\ \A l \in Layer : j.active[l] + Unit(d, l) = k.active[l]
    <3>1. CASE d.op = "layer"
      <4>1. j.active = [k.active EXCEPT ![d.layer] = @ - 1] /\ j.aborted = k.aborted
        BY <1>1, <1>2, <2>1, <3>1
      <4> QED BY <1>a, <2>1, <2>2, <3>1, <4>1 DEF Unit
    <3>2. CASE d.op # "layer"
      <4>1. j.active = k.active /\ j.aborted = k.aborted
        BY <1>1, <1>2, <3>2
      <4> QED BY <1>a, <3>2, <4>1 DEF Unit
    <3> QED BY <3>1, <3>2
  <2>4. \A l \in Layer : Unit(Free, l) = 0
    BY FreeType DEF Unit
  <2>5. \A l \in Layer : j.active[l] + Unit(k.cache[c], l) = k.active[l] + Unit(Free, l)
    BY <1>a, <2>3, <2>4 DEF d
  <2>6. j.cache = [k.cache EXCEPT ![c] = Free]
    BY <1>1, <1>2
  <2>7. Balanced(j)
    BY <1>7, <2>3, <2>5, <2>6, FreeType, BalancedStep
  <2> QED BY <2>3, <2>7
<1> QED BY <1>4, <1>5, <1>6, <1>7 DEF Paid, TimersCached

\* A key that is struck at once, and not bound, owns nothing afterwards.
LEMMA Clicked ==
  ASSUME NEW k \in Keyboard, Paid(k), NEW c, NEW d \in Descriptor, Plain(d), NEW t,
         Press(k, c, d, t) \in Keyboard,
         NEW j, j = Release(Press(k, c, d, t), d, t)
  PROVE  Paid(j) /\ (Balanced(k) => Balanced(j) /\ j.aborted = k.aborted)
         /\ (k.timeout.code = NoCode => j.timeout.code = NoCode)
<1> DEFINE i == Press(k, c, d, t)
<1>0. j = Release(i, d, t) /\ i \in Keyboard
  OBVIOUS
<1>1. /\ i.cache = k.cache /\ i.aborted = k.aborted
      /\ i.down = IF d.op = "key" THEN k.down \cup {d.key} ELSE k.down
      /\ i.active = IF d.op = "layer" THEN [k.active EXCEPT ![d.layer] = @ + 1] ELSE k.active
      /\ i.timeout = k.timeout /\ i.overload = k.overload
  <2>1. Struck(k, c, d, i)
    BY PressFields, Zenon
  <2> HIDE DEF i
  <2> QED BY <2>1 DEF Struck, Plain
<1> HIDE DEF i
<1>2. /\ j.cache = i.cache /\ j.overload = i.overload
      /\ j.down = IF d.op = "key" THEN i.down \ {d.key} ELSE i.down
      /\ d.op # "layer" => j.active = i.active /\ j.aborted = i.aborted
      /\ d.op = "layer" /\ i.active[d.layer] > 0 =>
           j.active = [i.active EXCEPT ![d.layer] = @ - 1] /\ j.aborted = i.aborted
      /\ j.timeout \in {i.timeout, [i.timeout EXCEPT !.spontaneous = TRUE]}
  <2>1. Lifted(i, d, t, j)
    BY <1>0, ReleaseFields, Zenon
  <2> QED BY <2>1 DEF Lifted
<1>3. k.timeout \in PendingTimeout /\ k.active \in [Layer -> Nat] /\ (d.op = "layer" => d.layer \in Layer)
  BY DEF Keyboard, Descriptor
<1>4. /\ j.timeout.code = k.timeout.code /\ j.timeout.action1 = k.timeout.action1
      /\ j.timeout.action2 = k.timeout.action2
      /\ ~j.timeout.spontaneous => ~k.timeout.spontaneous
  BY <1>1, <1>2, <1>3 DEF PendingTimeout
<1>5. TimersCached(j)
  BY <1>1, <1>2, <1>4 DEF Paid, TimersCached
<1>6. j.down \subseteq k.down
  BY <1>1, <1>2
<1>7. Owned(j.down, j.cache)
  BY <1>1, <1>2, <1>6 DEF Paid, Owned
<1>8. j.active = k.active /\ j.aborted = k.aborted
  <2>1. CASE d.op = "layer"
    <3>1. i.active = [k.active EXCEPT ![d.layer] = @ + 1] /\ d.layer \in Layer
      BY <1>1, <1>3, <2>1
    <3>2. i.active[d.layer] = k.active[d.layer] + 1 /\ k.active[d.layer] \in Nat
      BY <1>3, <3>1
    <3>3. j.active = [i.active EXCEPT ![d.layer] = @ - 1] /\ j.aborted = i.aborted
      BY <1>2, <2>1, <3>2
    <3>4. \A l \in Layer : j.active[l] = k.active[l]
      BY <1>3, <3>1, <3>3
    <3>5. j.active \in [Layer -> Int]
      BY <1>3, <3>1, <3>3
    <3> QED BY <1>1, <1>3, <3>3, <3>4, <3>5
  <2>2. CASE d.op # "layer"
    BY <1>1, <1>2, <2>2
  <2> QED BY <2>1, <2>2
<1>9. Balanced(k) => Balanced(j)
  BY <1>1, <1>2, <1>8 DEF Balanced
<1> QED BY <1>4, <1>5, <1>7, <1>8, <1>9 DEF Paid

\* A handler keeps what is owned and, unless it aborts, the levels of the layers.
Keeps(k, j) == Paid(j) /\ (Balanced(k) => Balanced(j) /\ j.aborted = k.aborted)

\* All that this is about, but for whether the keyboard has aborted.
Aside(k, j) == /\ j.cache = k.cache /\ j.down = k.down /\ j.active = k.active
               /\ j.timeout = k.timeout
               /\ j.overload.code = k.overload.code /\ j.overload.action = k.overload.action

LEMMA AsideKeeps ==
  ASSUME NEW k, Paid(k), NEW j, Aside(k, j)
  PROVE  Paid(j) /\ (Balanced(k) => Balanced(j))
BY DEF Aside, Paid, TimersCached, Balanced

\* What may come to the keys while a timed key is undecided.
Awaiting(k, e) ==
  k.timeout.code # NoCode /\ e.code # NoCode =>
    ~e.pressed /\ (e.code = k.timeout.code => e.at = k.timeout.activation)

LEMMA DecideTimeoutKeeps ==
  ASSUME PlainActions, NEW k, KeyboardOK(k), Paid(k), NEW e \in Event,
         NEW j, j = DecideTimeout(k, e)
  PROVE  Keeps(k, j) /\ Awaiting(j, e)
<1> DEFINE p == k.timeout
           action == IF e.at >= p.expiration THEN p.action2 ELSE p.action1
           decided == [k EXCEPT !.timeout = NoTimeout]
<1>1. k \in Keyboard
  BY DEF KeyboardOK
<1>2. CASE ~DecidesTimeout(k, e)
  <2>1. j = k
    BY <1>2 DEF DecideTimeout
  <2>2. Awaiting(k, e)
    BY <1>2 DEF DecidesTimeout, Awaiting, Event
  <2> QED BY <2>1, <2>2 DEF Keeps
<1>3. CASE DecidesTimeout(k, e)
  <2>1. p.code \in Codes /\ action \in Descriptor /\ e.at \in Nat /\ Plain(action)
    BY <1>1, <1>3 DEF DecidesTimeout, Keyboard, PendingTimeout, Codes, Event, Paid, TimersCached
  <2>2. /\ decided \in Keyboard /\ decided.timeout.code = NoCode
        /\ decided.cache = k.cache /\ decided.down = k.down /\ decided.active = k.active
        /\ decided.overload = k.overload /\ decided.aborted = k.aborted
        /\ decided.recent = k.recent
    <3>1. NoTimeout \in PendingTimeout /\ NoTimeout.code = NoCode
      BY FreeType DEF NoTimeout, PendingTimeout
    <3> QED BY <1>1, <3>1 DEF Keyboard
  <2> HIDE DEF action, decided
  <2>3. Paid(decided) /\ (Balanced(k) => Balanced(decided)) /\ KeyboardOK(decided)
    <3>1. Paid(decided) /\ (Balanced(k) => Balanced(decided))
      BY <2>2 DEF Paid, TimersCached, Balanced
    <3> QED BY <2>2, <3>1, OtherFieldsOK
  <2>4. CASE p.spontaneous
    <3>1. j = Release(Press(decided, p.code, action, e.at), action, e.at)
      BY <1>3, <2>4, Zenon DEF DecideTimeout, action, decided
    <3>2. Press(decided, p.code, action, e.at) \in Keyboard
      BY <2>1, <2>3, PressOK DEF KeyboardOK
    <3>3. Paid(j) /\ (Balanced(decided) => Balanced(j) /\ j.aborted = decided.aborted)
          /\ (decided.timeout.code = NoCode => j.timeout.code = NoCode)
      BY <2>1, <2>2, <2>3, <3>1, <3>2, Clicked
    <3> QED BY <2>2, <2>3, <3>3 DEF Keeps, Awaiting
  <2>5. CASE ~p.spontaneous
    <3>1. j = Press(CacheSet(decided, p.code, action), p.code, action, e.at)
      BY <1>3, <2>5, Zenon DEF DecideTimeout, action, decided
    <3>2. k.cache[p.code].op = "timeout"
      BY <1>3, <2>5 DEF Paid, TimersCached, DecidesTimeout
    <3>3. ~Plain(decided.cache[p.code])
      BY <2>2, <3>2 DEF Plain
    <3>4. decided.overload.code # NoCode => decided.overload.code # p.code
      BY <2>2, <2>3, <3>2 DEF Paid, TimersCached
    <3>5. /\ Paid(j) /\ (Balanced(decided) => Balanced(j)) /\ j.aborted = decided.aborted
          /\ Plain(action) => j.timeout = decided.timeout
      BY <2>1, <2>2, <2>3, <3>1, <3>3, <3>4, Bound
    <3> QED BY <2>1, <2>2, <2>3, <3>5 DEF Keeps, Awaiting
  <2> QED BY <2>4, <2>5
<1> QED BY <1>2, <1>3

LEMMA StrikeKeeps ==
  ASSUME PlainActions, NEW k, KeyboardOK(k), Paid(k), NEW e \in Event,
         e.code \in Slot => k.slots[e.code].chord \in Chord,
         Awaiting(k, e), ~Waits(k, e),
         NEW j, j = Strike(k, e)
  PROVE  Keeps(k, j)
<1>1. k \in Keyboard
  BY DEF KeyboardOK
<1>2. k.overload.code # NoCode => e.code # NoCode /\ ~e.pressed /\ e.code # k.overload.code
  BY DEF Waits
<1>3. CASE e.code # NoCode /\ e.pressed /\ ~Cached(k, e.code)
  <2> DEFINE d == Lookup(k, e.code)
  <2>1. e.code \in Codes
    BY <1>3 DEF Event, Codes
  <2>2. d \in Descriptor
    BY <2>1, LookupType
  <2>3. j = Press(CacheSet(k, e.code, d), e.code, d, e.at)
    BY <1>3 DEF Strike
  <2>4. ~Plain(k.cache[e.code])
    BY <1>3 DEF Cached, Plain
  <2>5. k.timeout.code = NoCode /\ k.overload.code = NoCode
    BY <1>2, <1>3 DEF Awaiting
  <2> HIDE DEF d
  <2>6. Paid(j) /\ (Balanced(k) => Balanced(j)) /\ j.aborted = k.aborted
    BY <1>1, <2>1, <2>2, <2>3, <2>4, <2>5, Bound
  <2> QED BY <2>6 DEF Keeps
<1>4. CASE e.code # NoCode /\ ~e.pressed /\ Cached(k, e.code)
  <2>1. e.code \in Codes
    BY <1>4 DEF Event, Codes
  <2>2. j = Release(CacheSet(k, e.code, Free), k.cache[e.code], e.at)
    BY <1>4 DEF Strike
  <2>3. k.timeout.code = e.code => e.at = k.timeout.activation
    BY <1>4 DEF Awaiting
  <2>4. Paid(j) /\ (Balanced(k) => Balanced(j) /\ j.aborted = k.aborted)
    BY <1>1, <1>2, <2>1, <2>2, <2>3, Freed
  <2> QED BY <2>4 DEF Keeps
<1>5. CASE ~(e.code # NoCode /\ e.pressed /\ ~Cached(k, e.code))
           /\ ~(e.code # NoCode /\ ~e.pressed /\ Cached(k, e.code))
  <2>1. j = k
    BY <1>5 DEF Strike
  <2> QED BY <2>1 DEF Keeps
<1> QED BY <1>3, <1>4, <1>5

\* What a step makes of the keyboard.
LEMMA ExitKeeps ==
  ASSUME NEW k \in Keyboard, Exit(k)
  PROVE  Aside(k, kbd') /\ kbd'.aborted = k.aborted
BY DEF Exit, Keyboard, Aside

LEMMA DeferKeeps ==
  ASSUME PlainActions, Processing, NEW k, Result(k), Paid(k), Defer(k, Upcoming),
         k.overload.code # NoCode
  PROVE  Keeps(k, kbd')
<1> DEFINE e == Upcoming
           o == Enqueue(k.overload, e)
           action == Decision(o, e)
           none == [k EXCEPT !.overload = NoOverload]
           j == Press(CacheSet(none, o.code, action), o.code, action, e.at)
<1>1. e \in Event /\ e.at \in Nat /\ k \in Keyboard
  BY UpcomingOK DEF Event, Result, KeyboardOK
<1>2. o \in PendingOverload /\ o.code = k.overload.code /\ o.action = k.overload.action
  <2>1. o \in PendingOverload
    BY EnqueueOK
  <2> QED BY <1>1, <2>1 DEF Enqueue, Keyboard, PendingOverload
<1>3. Call(j, <<CallFrame("overload", o.queue)>>) \/ Exit([k EXCEPT !.overload = o])
  BY Zenon DEF Defer
<1> HIDE DEF o
<1>4. o.code \in Codes /\ action \in Descriptor /\ Plain(action)
  <2>1. o.code \in Codes /\ Plain(o.action)
    BY <1>2 DEF PendingOverload, Codes, Paid, TimersCached
  <2>2. Plain(action)
    BY <2>1, FreeType DEF Decision, Plain
  <2> QED BY <1>1, <1>2, <2>1, <2>2, DecisionType
<1>5. /\ none \in Keyboard /\ none.overload.code = NoCode /\ none.cache = k.cache
      /\ none.down = k.down /\ none.active = k.active /\ none.timeout = k.timeout
      /\ none.aborted = k.aborted
  <2>1. NoOverload \in PendingOverload /\ NoOverload.code = NoCode
    <3>1. Main \in Layer
      BY ConfigAssumption
    <3> QED BY <3>1, FreeType DEF NoOverload, PendingOverload
  <2> QED BY <1>1, <2>1 DEF Keyboard
<1> HIDE DEF none, action
<1>6. CASE Call(j, <<CallFrame("overload", o.queue)>>)
  <2>1. Paid(none) /\ (Balanced(k) => Balanced(none))
    BY <1>5 DEF Paid, TimersCached, Balanced
  <2>2. k.cache[o.code].op \in {"overloadt", "overloadt2"}
    BY <1>2 DEF Paid, TimersCached
  <2>3. ~Plain(none.cache[o.code])
    BY <1>5, <2>2 DEF Plain
  <2>4. none.timeout.code # NoCode /\ ~none.timeout.spontaneous => none.timeout.code # o.code
    BY <1>5, <2>1, <2>2 DEF Paid, TimersCached
  <2>5. Paid(j) /\ (Balanced(none) => Balanced(j)) /\ j.aborted = none.aborted
    BY <1>4, <1>5, <2>1, <2>3, <2>4, Bound
  <2>6. kbd' = j
    BY <1>6 DEF Call
  <2> QED BY <1>5, <2>1, <2>5, <2>6 DEF Keeps
<1>7. CASE Exit([k EXCEPT !.overload = o])
  <2>1. /\ [k EXCEPT !.overload = o] \in Keyboard /\ Aside(k, [k EXCEPT !.overload = o])
        /\ [k EXCEPT !.overload = o].aborted = k.aborted
    BY <1>1, <1>2 DEF Keyboard, Aside
  <2>2. Aside(k, kbd') /\ kbd'.aborted = k.aborted
    BY <1>7, <2>1, ExitKeeps DEF Aside
  <2> QED BY <2>2, AsideKeeps DEF Keeps
<1> QED BY <1>3, <1>6, <1>7

\* There is room for what comes next.
Roomy == /\ Len(kbd.chord.queue) < QueueSize
         /\ Len(kbd.overload.queue) < QueueSize
         /\ \E s \in Slot : ~kbd.slots[s].on

\* A step keeps what is owned, and with room also the levels of the layers.
KeptOn == /\ Paid(kbd')
          /\ Roomy /\ Balanced(kbd) /\ ~kbd.aborted => Balanced(kbd') /\ ~kbd'.aborted

LEMMA DeliverKeeps ==
  ASSUME PlainActions, Processing, Paid(kbd), Deliver(Upcoming)
  PROVE  KeptOn
<1> DEFINE e == Upcoming
           k == DecideTimeout(kbd, e)
<1>1. e \in Event /\ (e.code \in Slot => kbd.slots[e.code].chord \in Chord)
  BY UpcomingOK
<1>2. KeyboardOK(k) /\ Kept(k, kbd) /\ Keeps(kbd, k) /\ Awaiting(k, e)
  BY <1>1, CurrentOK, DecideTimeoutOK, DecideTimeoutKeeps DEF Result
<1>3. \/ QueueFull(k, e) /\ Exit([k EXCEPT !.aborted = TRUE])
      \/ Waits(k, e) /\ Defer(k, e)
      \/ ~Waits(k, e) /\ Exit(Strike(k, e))
  BY DEF Deliver
<1> HIDE DEF k
<1>4. Result(k) /\ k \in Keyboard /\ Paid(k)
  BY <1>2, KeptResult DEF KeyboardOK, Keeps
<1>5. CASE QueueFull(k, e) /\ Exit([k EXCEPT !.aborted = TRUE])
  <2>1. ~Roomy
    <3>1. k.overload.queue = kbd.overload.queue /\ Len(k.overload.queue) >= QueueSize
      BY <1>2, <1>5 DEF Kept, QueueFull
    <3>2. Len(kbd.overload.queue) \in Nat /\ QueueSize \in Nat
      BY CurrentOK, BoundAssumption DEF Keyboard, PendingOverload
    <3> QED BY <3>1, <3>2 DEF Roomy
  <2>2. [k EXCEPT !.aborted = TRUE] \in Keyboard /\ Aside(k, [k EXCEPT !.aborted = TRUE])
    BY <1>4 DEF Keyboard, Aside
  <2>3. Aside(k, kbd')
    BY <1>5, <2>2, ExitKeeps DEF Aside
  <2> QED BY <1>4, <2>1, <2>3, AsideKeeps DEF KeptOn
<1>6. CASE Waits(k, e) /\ Defer(k, e)
  <2>1. Keeps(k, kbd')
    BY <1>4, <1>6, DeferKeeps DEF Waits
  <2> QED BY <1>2, <2>1 DEF Keeps, KeptOn
<1>7. CASE ~Waits(k, e) /\ Exit(Strike(k, e))
  <2>1. e.code \in Slot => k.slots[e.code].chord \in Chord
    BY <1>1, <1>4 DEF Result
  <2>2. KeyboardOK(k)
    BY <1>4 DEF Result
  <2>3. Keeps(k, Strike(k, e)) /\ Strike(k, e) \in Keyboard
    BY <1>1, <1>2, <1>4, <1>7, <2>1, <2>2, StrikeOK, StrikeKeeps DEF KeyboardOK
  <2>4. Aside(Strike(k, e), kbd') /\ kbd'.aborted = Strike(k, e).aborted
    BY <1>7, <2>3, ExitKeeps
  <2>5. Paid(kbd') /\ (Balanced(Strike(k, e)) => Balanced(kbd'))
    BY <2>3, <2>4, AsideKeeps DEF Keeps
  <2> QED BY <1>2, <2>3, <2>4, <2>5 DEF Keeps, KeptOn
<1> QED BY <1>3, <1>5, <1>6, <1>7

\* Chords do not touch the cache, nor what is undecided behind them.
Untouched(k) == k \in Keyboard /\ Aside(kbd, k) /\ k.aborted = kbd.aborted

LEMMA UntouchedStep ==
  ASSUME Paid(kbd), NEW k, Untouched(k), Exit(k) \/ (\E frames : Call(k, frames))
  PROVE  KeptOn
<1>1. Aside(k, kbd') /\ kbd'.aborted = k.aborted
  <2>1. CASE Exit(k)
    BY <2>1, ExitKeeps DEF Untouched
  <2>2. CASE \E frames : Call(k, frames)
    <3>1. kbd' = k
      BY <2>2 DEF Call
    <3> QED BY <3>1 DEF Aside
  <2> QED BY <2>1, <2>2
<1>2. Aside(kbd, kbd') /\ kbd'.aborted = kbd.aborted
  BY <1>1 DEF Untouched, Aside
<1> QED BY <1>2, AsideKeeps DEF KeptOn

LEMMA AbortStep ==
  ASSUME Paid(kbd), NEW k, Untouched(k), Exit([k EXCEPT !.aborted = TRUE]), ~Roomy
  PROVE  KeptOn
<1>1. [k EXCEPT !.aborted = TRUE] \in Keyboard /\ Aside(k, [k EXCEPT !.aborted = TRUE])
  BY DEF Untouched, Keyboard, Aside
<1>2. Aside(kbd, kbd')
  BY <1>1, ExitKeeps DEF Untouched, Aside
<1> QED BY <1>2, AsideKeeps DEF KeptOn

LEMMA ChordUntouched ==
  ASSUME NEW k, Untouched(k), NEW c \in Chording
  PROVE  Untouched([k EXCEPT !.chord = c])
BY DEF Untouched, Keyboard, Aside

LEMMA ScheduleUntouched ==
  ASSUME NEW k, Untouched(k), NEW t \in Nat
  PROVE  Untouched(Schedule(k, t))
BY DEF Untouched, Keyboard, Aside, Schedule

LEMMA ResolveKeeps ==
  ASSUME Paid(kbd), NEW k, Untouched(k), k.slots = kbd.slots, NEW q \in Seq(Event),
         NEW match \in Chord \cup {NoChord}, Resolve(k, q, match)
  PROVE  KeptOn
<1> DEFINE free == {s \in Slot : ~k.slots[s].on}
           slot == Least(free)
           c == [k.chord EXCEPT !.state = "resolving", !.queue = q, !.match = match]
           r == Resolving(k, q, match)
<1>1. k \in Keyboard /\ k.chord \in Chording
  BY DEF Untouched, Keyboard
<1>2. Untouched(r) /\ r.slots = k.slots
  <2>1. r = [k EXCEPT !.chord = c]
    BY <1>1 DEF Resolving, Keyboard, Chording
  <2>2. c \in Chording
    BY <1>1 DEF Chording
  <2> HIDE DEF c, r
  <2> QED BY <1>1, <2>1, <2>2, ChordUntouched DEF Keyboard
<1>3. CASE match = NoChord
  <2>1. \E frames : Call(r, frames)
    BY <1>3 DEF Resolve, Resolving
  <2> HIDE DEF r
  <2> QED BY <1>2, <2>1, UntouchedStep
<1>4. CASE match # NoChord /\ free = {}
  <2>1. Exit([k EXCEPT !.aborted = TRUE])
    BY <1>4 DEF Resolve
  <2>2. ~Roomy
    BY <1>4 DEF Roomy
  <2> QED BY <2>1, <2>2, AbortStep
<1>5. CASE match # NoChord /\ free # {}
  <2> DEFINE started == Started(k, q, match, slot)
             a == [on |-> TRUE, chord |-> match, keys |-> ChordKeys[match]]
             x == [k.slots EXCEPT ![slot] = a]
  <2>1. \E frames : Call(started, frames)
    BY <1>5 DEF Resolve, Resolving, Started
  <2>2. x \in [Slot -> ActiveChord]
    <3>1. a \in ActiveChord
      BY <1>5, ChordAssumption DEF ActiveChord
    <3>2. k.slots \in [Slot -> ActiveChord]
      BY <1>1 DEF Keyboard
    <3> HIDE DEF a
    <3> QED BY <3>1, <3>2
  <2> HIDE DEF slot
  <2>3. started = [r EXCEPT !.slots = x]
    <3> HIDE DEF r
    <3> QED BY <1>2 DEF Started, r
  <2> HIDE DEF x, r, started
  <2>4. Untouched(started)
    BY <1>2, <2>2, <2>3 DEF Untouched, Keyboard, Aside
  <2> QED BY <2>1, <2>4, UntouchedStep
<1> QED BY <1>3, <1>4, <1>5

LEMMA CurrentUntouched ==
  ASSUME Processing
  PROVE  Untouched(kbd)
BY CurrentOK DEF Untouched, Aside

LEMMA AdvanceKeeps ==
  ASSUME Processing, Paid(kbd), NEW q \in Seq(Event), NEW old \in Chord \cup {NoChord},
         NEW t \in Nat, Advance(q, old, t)
  PROVE  KeptOn
<1> DEFINE match == Match(kbd, q, old)
           unambiguous == Full(kbd, q) # {} /\ Partial(kbd, q) = Full(kbd, q)
           c == [state |-> IF unambiguous THEN "hold" ELSE "pending",
                 queue |-> q, match |-> match, last |-> t]
           waiting == [kbd EXCEPT !.chord = c]
<1>1. kbd \in Keyboard /\ KeyboardOK(kbd)
  BY CurrentOK DEF Result
<1>2. match \in Chord \cup {NoChord}
  BY <1>1, MatchType
<1>3. \/ Exit(Schedule(waiting, t + kbd.config.interkey))
      \/ Exit(Schedule(waiting, t + kbd.config.hold))
      \/ Resolve(waiting, q, match)
  BY Zenon DEF Advance
<1>4. c \in Chording
  BY <1>2 DEF Chording
<1> HIDE DEF c, match
<1>5. Untouched(waiting) /\ waiting.slots = kbd.slots
  BY <1>1, <1>4, ChordUntouched, CurrentUntouched DEF Keyboard
<1> HIDE DEF waiting
<1>6. t + kbd.config.interkey \in Nat /\ t + kbd.config.hold \in Nat
  BY CurrentOK
<1>7. /\ Untouched(Schedule(waiting, t + kbd.config.interkey))
      /\ Untouched(Schedule(waiting, t + kbd.config.hold))
  BY <1>5, <1>6, ScheduleUntouched
<1> QED BY <1>2, <1>3, <1>5, <1>7, UntouchedStep, ResolveKeeps

LEMMA OverflowsWithoutRoom ==
  ASSUME Processing, Overflows(Append(kbd.chord.queue, Upcoming))
  PROVE  ~Roomy
<1>1. kbd.chord.queue \in Seq(Event) /\ QueueSize \in Nat
  BY CurrentOK, BoundAssumption
<1>2. Len(Append(kbd.chord.queue, Upcoming)) = Len(kbd.chord.queue) + 1
      /\ Len(kbd.chord.queue) \in Nat
  BY <1>1
<1> QED BY <1>1, <1>2 DEF Overflows, Roomy

LEMMA ChordStepKeeps ==
  ASSUME PlainActions, TypeInv, Paid(kbd), ChordStep
  PROVE  KeptOn
<1> DEFINE e == Upcoming
           q == Append(kbd.chord.queue, e)
<1>1. Processing
  BY DEF ChordStep, Processing
<1>2. /\ kbd \in Keyboard /\ kbd.chord \in Chording /\ kbd.chord.queue \in Seq(Event)
      /\ kbd.chord.match \in Chord \cup {NoChord} /\ Untouched(kbd)
      /\ kbd.config.interkey \in Nat /\ kbd.config.hold \in Nat
  BY <1>1, CurrentOK, CurrentUntouched
<1>3. e \in Event /\ e.at \in Nat /\ q \in Seq(Event)
  BY <1>1, UpcomingOK, QueueOK DEF Event
<1>4. CASE ReleaseChordKey(e)
  <2> DEFINE s == Least(Releasing(e))
             a == [kbd.slots[s] EXCEPT !.keys = @ \ {e.code}, !.on = kbd.slots[s].keys # {e.code}]
             x == [kbd.slots EXCEPT ![s] = a]
             lifted == Lift(kbd, s, e.code)
  <2>1. s \in Slot
    <3>1. Releasing(e) # {} /\ Releasing(e) \in SUBSET Nat
      BY <1>4, CodeAssumption DEF ReleaseChordKey, Releasing, Slot
    <3>2. s \in Releasing(e)
      BY <3>1, LeastIsMember
    <3> QED BY <3>2 DEF Releasing
  <2>2. Exit(lifted) \/ \E frames : Call(lifted, frames)
    BY <1>4 DEF ReleaseChordKey
  <2> HIDE DEF s
  <2>3. kbd.slots \in [Slot -> ActiveChord]
    BY <1>2 DEF Keyboard
  <2>4. lifted = [kbd EXCEPT !.slots = x]
    BY <1>2, <2>1, <2>3 DEF Lift, Keyboard, ActiveChord
  <2>5. x \in [Slot -> ActiveChord]
    <3>1. a \in ActiveChord
      BY <2>1, <2>3 DEF ActiveChord
    <3> HIDE DEF a
    <3> QED BY <2>3, <3>1
  <2> HIDE DEF x, lifted
  <2>6. Untouched(lifted)
    BY <1>2, <2>4, <2>5 DEF Untouched, Keyboard, Aside
  <2> QED BY <2>2, <2>6, UntouchedStep
<1>5. CASE BeginChord(e)
  <2>1. Advance(<<e>>, NoChord, e.at) /\ <<e>> \in Seq(Event)
    BY <1>3, <1>5 DEF BeginChord
  <2> QED BY <1>1, <1>3, <2>1, AdvanceKeeps
<1>6. CASE ExtendChord(e)
  <2>1. \/ Overflows(q) /\ Exit([kbd EXCEPT !.aborted = TRUE])
        \/ Advance(q, kbd.chord.match, e.at)
        \/ Resolve(kbd, q, NoChord)
    BY <1>6 DEF ExtendChord, Abort
  <2> HIDE DEF q
  <2>2. CASE Overflows(q) /\ Exit([kbd EXCEPT !.aborted = TRUE])
    BY <1>1, <1>2, <2>2, AbortStep, OverflowsWithoutRoom DEF q
  <2>3. CASE Advance(q, kbd.chord.match, e.at)
    BY <1>1, <1>2, <1>3, <2>3, AdvanceKeeps
  <2>4. CASE Resolve(kbd, q, NoChord)
    BY <1>2, <1>3, <2>4, ResolveKeeps
  <2> QED BY <2>1, <2>2, <2>3, <2>4
<1>7. CASE LapseChord(e)
  <2> DEFINE c == [kbd.chord EXCEPT !.state = "hold"]
             k == [kbd EXCEPT !.chord = c]
             t == e.at + (kbd.config.hold - kbd.config.interkey)
  <2>0. [kbd EXCEPT !.chord.state = "hold"] = k
    BY <1>2 DEF Keyboard
  <2>1. \/ kbd.config.hold > kbd.config.interkey /\ Exit(Schedule(k, t))
        \/ \E m \in {NoChord, kbd.chord.match} : Resolve(kbd, kbd.chord.queue, m)
    BY <1>7, <2>0, Zenon DEF LapseChord, Abort
  <2>2. c \in Chording
    BY <1>2 DEF Chording
  <2> HIDE DEF c
  <2>3. Untouched(k)
    BY <1>2, <2>2, ChordUntouched
  <2> HIDE DEF k
  <2>4. CASE kbd.config.hold > kbd.config.interkey /\ Exit(Schedule(k, t))
    <3>1. t \in Nat
      BY <1>2, <1>3, <2>4
    <3>2. Untouched(Schedule(k, t))
      BY <2>3, <3>1, ScheduleUntouched
    <3> QED BY <2>4, <3>2, UntouchedStep
  <2>5. ASSUME NEW m \in {NoChord, kbd.chord.match}, Resolve(kbd, kbd.chord.queue, m)
        PROVE  KeptOn
    BY <1>2, <2>5, ResolveKeeps
  <2> QED BY <2>1, <2>4, <2>5
<1>8. CASE HoldChord(e)
  <2> DEFINE c == [kbd.chord EXCEPT !.queue = q]
  <2>0. [kbd EXCEPT !.chord.queue = q] = [kbd EXCEPT !.chord = c]
    BY <1>2 DEF Keyboard
  <2>1. \/ Overflows(q) /\ Exit([kbd EXCEPT !.aborted = TRUE])
        \/ Resolve(kbd, q, NoChord)
        \/ Exit([kbd EXCEPT !.chord = c])
    BY <1>8, <2>0, Zenon DEF HoldChord, Abort
  <2> HIDE DEF q
  <2>2. c \in Chording
    BY <1>2, <1>3 DEF Chording
  <2> HIDE DEF c
  <2>3. CASE Overflows(q) /\ Exit([kbd EXCEPT !.aborted = TRUE])
    BY <1>1, <1>2, <2>3, AbortStep, OverflowsWithoutRoom DEF q
  <2>4. CASE Resolve(kbd, q, NoChord)
    BY <1>2, <1>3, <2>4, ResolveKeeps
  <2>5. CASE Exit([kbd EXCEPT !.chord = c])
    <3>1. Untouched([kbd EXCEPT !.chord = c])
      BY <1>2, <2>2, ChordUntouched
    <3> QED BY <2>5, <3>1, UntouchedStep
  <2> QED BY <2>1, <2>3, <2>4, <2>5
<1>9. CASE FireChord(e)
  <2>1. Resolve(kbd, kbd.chord.queue, kbd.chord.match)
    BY <1>9 DEF FireChord
  <2> QED BY <1>2, <2>1, ResolveKeeps
<1> QED BY <1>4, <1>5, <1>6, <1>7, <1>8, <1>9 DEF ChordStep

LEMMA PaidStep ==
  ASSUME PlainActions, TypeInv, Paid(kbd), [Next]_vars
  PROVE  KeptOn
<1>1. CASE kbd' = kbd
  BY <1>1 DEF KeptOn
<1>2. CASE \E c \in Code, pressed \in BOOLEAN, t \in 1 .. MaxTime : KeyEvent(c, pressed, t)
  BY <1>1, <1>2 DEF KeyEvent
<1>3. CASE Expire
  BY <1>1, <1>3 DEF Expire, Timeout
<1>4. CASE ChordStep
  BY <1>4, ChordStepKeeps
<1>5. CASE stack # <<>> /\ Top.events # <<>> /\ Deliver(Upcoming)
  BY <1>5, DeliverKeeps DEF Processing
<1>6. CASE Return
  <2>1. Aside(kbd, kbd') /\ kbd'.aborted = kbd.aborted
    BY <1>6 DEF Return, TypeInv, TypeOK, Keyboard, Aside
  <2> QED BY <2>1, AsideKeeps DEF KeptOn
<1>7. CASE UNCHANGED vars
  BY <1>1, <1>7 DEF vars
<1> QED BY <1>2, <1>3, <1>4, <1>5, <1>6, <1>7 DEF Next, Step

LEMMA PaidInit ==
  ASSUME Init
  PROVE  Paid(kbd) /\ Balanced(kbd) /\ ~kbd.aborted
<1>1. /\ kbd.timeout.code = NoCode /\ kbd.overload.code = NoCode /\ kbd.down = {} /\ ~kbd.aborted
      /\ kbd.cache = [c \in Code \cup Slot |-> Free]
      /\ kbd.active = [l \in Layer |-> IF l = Main THEN 1 ELSE 0]
  BY DEF Init, NoTimeout, NoOverload
<1>2. Paid(kbd)
  BY <1>1 DEF Paid, TimersCached, Owned
<1>3. \A l \in Layer : Holders(kbd.cache, l) = {}
  BY <1>1, FreeType DEF Holders, Codes
<1>4. Cardinality({}) = 0
  BY FS_EmptySet
<1>5. Balanced(kbd)
  BY <1>1, <1>3, <1>4 DEF Balanced
<1> QED BY <1>1, <1>2, <1>5

\* No stuck key: whatever was withheld, replayed, and decided late, an output key is down
\* only for a key, or a chord, that is in the cache as that output key, so that its
\* release lifts it. This is so for any keymap in which a timed key becomes a key or a
\* layer and is not itself replaced by another timed key.
THEOREM PipelineOwned == ASSUME PlainActions PROVE Spec => []OwnedOutput
<1>1. TypeInv /\ Paid(kbd) /\ [Next]_vars => Paid(kbd)'
  BY PaidStep DEF KeptOn
<1>2. Init => Paid(kbd)
  BY PaidInit
<1>3. Paid(kbd) => OwnedOutput
  BY DEF Paid, Owned, OwnedOutput, Codes
<1> QED BY <1>1, <1>2, <1>3, TypeInvariant, PTL DEF Spec

\* The pairing that keyboard.c:266 demands, through the deferral of keys: a layer is
\* active as often as keys or chords hold it, and nothing aborts, as long as the queues
\* and the table of active chords have room for one more.
THEOREM PipelineHeldLayers == ASSUME PlainActions PROVE Spec /\ []Roomy => []HeldLayers
<1> DEFINE I == TypeInv /\ Paid(kbd) /\ Balanced(kbd) /\ ~kbd.aborted
<1>1. I /\ Roomy /\ TypeInv' /\ [Next]_vars => I'
  BY PaidStep DEF KeptOn
<1>2. Init => I
  BY PaidInit, TypeInit
<1>3. I => HeldLayers
  BY DEF Balanced, Holders, HeldLayers, Codes
<1> HIDE DEF I
<1> QED BY <1>1, <1>2, <1>3, TypeInvariant, PTL DEF Spec

-----------------------------------------------------------------------------
(* Conserved: the events that a queue or a frame has still to deliver lead *)
(* from the keys that are cached, or in a chord, to those that are held.   *)

\* e is news of its key, if D are down, and leaves E down.
Moves(e, D, E) ==
  IF e.code \in Code
  THEN IF e.pressed THEN e.code \notin D /\ E = D \cup {e.code}
                    ELSE e.code \in D /\ E = D \ {e.code}
  ELSE E = D

Path(q, f) == /\ f \in [0 .. Len(q) -> SUBSET Code]
              /\ \A i \in 1 .. Len(q) : Moves(q[i], f[i - 1], f[i])

Leads(q, D, E) == \E f : Path(q, f) /\ f[0] = D /\ f[Len(q)] = E

LEMMA LeadsType ==
  ASSUME NEW q \in Seq(Event), NEW D, NEW E, Leads(q, D, E)
  PROVE  D \in SUBSET Code /\ E \in SUBSET Code
<1>1. PICK f : Path(q, f) /\ f[0] = D /\ f[Len(q)] = E
  BY DEF Leads
<1>2. Len(q) \in Nat
  OBVIOUS
<1>3. 0 \in 0 .. Len(q) /\ Len(q) \in 0 .. Len(q)
  BY <1>2
<1> QED BY <1>1, <1>3 DEF Path

LEMMA LeadsNowhere ==
  ASSUME NEW D \in SUBSET Code, NEW E
  PROVE  Leads(<<>>, D, E) <=> D = E
<1>1. ASSUME Leads(<<>>, D, E) PROVE D = E
  BY <1>1 DEF Leads, Path
<1>2. Leads(<<>>, D, D)
  <2> DEFINE f == [i \in 0 .. 0 |-> D]
  <2>1. Len(<<>>) = 0 /\ 1 .. 0 = {}
    OBVIOUS
  <2>2. f \in [0 .. 0 -> SUBSET Code] /\ f[0] = D
    OBVIOUS
  <2> HIDE DEF f
  <2> QED BY <2>1, <2>2 DEF Leads, Path
<1> QED BY <1>1, <1>2

LEMMA MovesType ==
  ASSUME NEW e, NEW D \in SUBSET Code, NEW E, Moves(e, D, E)
  PROVE  E \in SUBSET Code
BY DEF Moves

LEMMA LeadsAppend ==
  ASSUME NEW q \in Seq(Event), NEW e \in Event, NEW D, NEW E, NEW F, Leads(q, D, E), Moves(e, E, F)
  PROVE  Leads(Append(q, e), D, F)
<1> DEFINE n == Len(q)
           r == Append(q, e)
<1>1. PICK f : Path(q, f) /\ f[0] = D /\ f[n] = E
  BY DEF Leads
<1>2. n \in Nat /\ Len(r) = n + 1 /\ r[n + 1] = e /\ \A i \in 1 .. n : r[i] = q[i]
  OBVIOUS
<1>3. E \in SUBSET Code /\ F \in SUBSET Code
  BY LeadsType, MovesType
<1> DEFINE g == [i \in 0 .. n + 1 |-> IF i = n + 1 THEN F ELSE f[i]]
<1> HIDE DEF n, r
<1>4. f \in [0 .. n -> SUBSET Code] /\ \A i \in 1 .. n : Moves(q[i], f[i - 1], f[i])
  BY <1>1 DEF Path, n
<1>5. g \in [0 .. n + 1 -> SUBSET Code]
  BY <1>2, <1>3, <1>4
<1>6. g[0] = D /\ g[n + 1] = F /\ g[n] = E /\ \A i \in 0 .. n : g[i] = f[i]
  BY <1>1, <1>2
<1> HIDE DEF g
<1>7. ASSUME NEW i \in 1 .. n + 1 PROVE Moves(r[i], g[i - 1], g[i])
  <2>1. CASE i = n + 1
    <3>1. i - 1 = n
      BY <1>2, <2>1
    <3> QED BY <1>2, <1>6, <2>1, <3>1
  <2>2. CASE i \in 1 .. n
    <3>1. i - 1 \in 0 .. n /\ i \in 0 .. n
      BY <1>2, <2>2
    <3> QED BY <1>2, <1>4, <1>6, <2>2, <3>1
  <2> QED BY <1>2, <2>1, <2>2
<1> QED BY <1>2, <1>5, <1>6, <1>7 DEF Leads, Path, r

LEMMA LeadsOne ==
  ASSUME NEW e \in Event, NEW D \in SUBSET Code, NEW E, Moves(e, D, E)
  PROVE  Leads(<<e>>, D, E)
<1>1. Leads(<<>>, D, D) /\ <<>> \in Seq(Event) /\ Append(<<>>, e) = <<e>>
  BY LeadsNowhere
<1> QED BY <1>1, LeadsAppend

LEMMA LeadsTail ==
  ASSUME NEW q \in Seq(Event), q # <<>>, NEW D, NEW F, Leads(q, D, F)
  PROVE  \E E \in SUBSET Code : Moves(Head(q), D, E) /\ Leads(Tail(q), E, F)
<1> DEFINE n == Len(q)
<1>1. PICK f : Path(q, f) /\ f[0] = D /\ f[n] = F
  BY DEF Leads
<1>2. /\ n \in Nat \ {0} /\ Len(Tail(q)) = n - 1 /\ Head(q) = q[1]
      /\ \A i \in 1 .. n - 1 : Tail(q)[i] = q[i + 1]
  <2>1. Len(Tail(q)) = n - 1
    OBVIOUS
  <2> QED BY <2>1, ListFacts, Zenon
<1> HIDE DEF n
<1>3. f \in [0 .. n -> SUBSET Code] /\ \A i \in 1 .. n : Moves(q[i], f[i - 1], f[i])
  BY <1>1 DEF Path, n
<1> DEFINE g == [i \in 0 .. n - 1 |-> f[i + 1]]
<1>4. g \in [0 .. n - 1 -> SUBSET Code]
  BY <1>2, <1>3
<1>5. g[0] = f[1] /\ g[n - 1] = F /\ \A i \in 0 .. n - 1 : g[i] = f[i + 1]
  BY <1>1, <1>2
<1> HIDE DEF g
<1>6. ASSUME NEW i \in 1 .. n - 1 PROVE Moves(Tail(q)[i], g[i - 1], g[i])
  <2>1. i + 1 \in 1 .. n /\ i \in 0 .. n - 1 /\ i - 1 \in 0 .. n - 1 /\ (i + 1) - 1 = i /\ (i - 1) + 1 = i
    BY <1>2
  <2>2. Moves(q[i + 1], f[i], f[i + 1])
    BY <1>3, <2>1
  <2>3. g[i - 1] = f[i] /\ g[i] = f[i + 1]
    BY <1>5, <2>1
  <2> QED BY <1>2, <2>2, <2>3
<1>7. Path(Tail(q), g)
  BY <1>2, <1>4, <1>6 DEF Path
<1>8. Leads(Tail(q), f[1], F)
  BY <1>2, <1>5, <1>7 DEF Leads
<1>9. 1 \in 1 .. n /\ 1 - 1 = 0 /\ 1 \in 0 .. n
  BY <1>2
<1>10. Moves(Head(q), D, f[1]) /\ f[1] \in SUBSET Code
  BY <1>1, <1>2, <1>3, <1>9
<1> QED BY <1>8, <1>10

\* A key that no event is of stays as it was.
LEMMA PathKeeps ==
  ASSUME NEW q \in Seq(Event), NEW f, Path(q, f), NEW c,
         NEW i \in 0 .. Len(q), NEW j \in i .. Len(q),
         \A m \in 1 .. Len(q) : i < m /\ m <= j => q[m].code # c
  PROVE  c \in f[i] <=> c \in f[j]
<1> DEFINE S == {m \in i .. j : (c \in f[m]) # (c \in f[i])}
<1>1. Len(q) \in Nat /\ i \in Nat /\ j \in Nat
  OBVIOUS
<1>2. SUFFICES ASSUME S # {} PROVE FALSE
  <2>1. j \in i .. j
    BY <1>1
  <2>2. S = {} => j \notin S
    OBVIOUS
  <2> QED BY <1>2, <2>1, <2>2
<1>3. S \in SUBSET Nat
  BY <1>1
<1>4. PICK m \in S : \A v \in S : m <= v
  BY <1>2, <1>3, HasLeast
<1>5. m \in i .. j /\ (c \in f[m]) # (c \in f[i])
  OBVIOUS
<1>6. i < m /\ m \in 1 .. Len(q) /\ m - 1 \in i .. j /\ m <= j
  BY <1>1, <1>5
<1>7. m - 1 \notin S
  BY <1>1, <1>4, <1>6
<1>8. (c \in f[m - 1]) = (c \in f[i])
  BY <1>6, <1>7
<1>9. Moves(q[m], f[m - 1], f[m]) /\ q[m].code # c
  BY <1>6 DEF Path
<1> QED BY <1>5, <1>8, <1>9 DEF Moves

LEMMA LeadsAround ==
  ASSUME NEW q \in Seq(Event), NEW D, NEW E, Leads(q, D, E), NEW c,
         \A i \in 1 .. Len(q) : q[i].code # c
  PROVE  (c \in D <=> c \in E) /\ Leads(q, D \ {c}, E \ {c})
<1> DEFINE n == Len(q)
<1>1. PICK f : Path(q, f) /\ f[0] = D /\ f[n] = E
  BY DEF Leads
<1>2. n \in Nat /\ 0 \in 0 .. n /\ n \in 0 .. n
  OBVIOUS
<1>3. c \in D <=> c \in E
  BY <1>1, <1>2, PathKeeps
<1>4. f \in [0 .. n -> SUBSET Code] /\ \A i \in 1 .. n : Moves(q[i], f[i - 1], f[i])
  BY <1>1 DEF Path
<1> HIDE DEF n
<1> DEFINE g == [i \in 0 .. n |-> f[i] \ {c}]
<1>5. g \in [0 .. n -> SUBSET Code] /\ \A i \in 0 .. n : g[i] = f[i] \ {c}
  BY <1>4
<1> HIDE DEF g
<1>6. ASSUME NEW i \in 1 .. n PROVE Moves(q[i], g[i - 1], g[i])
  <2>1. i - 1 \in 0 .. n /\ i \in 0 .. n
    BY <1>2
  <2>2. Moves(q[i], f[i - 1], f[i]) /\ q[i].code # c
    BY <1>4 DEF n
  <2>3. g[i - 1] = f[i - 1] \ {c} /\ g[i] = f[i] \ {c}
    BY <1>5, <2>1
  <2> QED BY <2>2, <2>3 DEF Moves
<1>7. Path(q, g) /\ g[0] = D \ {c} /\ g[n] = E \ {c}
  BY <1>1, <1>2, <1>5, <1>6 DEF Path, n
<1> QED BY <1>3, <1>7 DEF Leads, n

\* What is down and not released is not pressed, either.
LEMMA LeadsOpen ==
  ASSUME NEW q \in Seq(Event), NEW D, NEW E, Leads(q, D, E), NEW c \in Code, c \in D,
         \A i \in 1 .. Len(q) : q[i].code = c => q[i].pressed
  PROVE  \A i \in 1 .. Len(q) : q[i].code # c
<1> DEFINE S == {i \in 1 .. Len(q) : q[i].code = c}
<1>1. SUFFICES ASSUME S # {} PROVE FALSE
  OBVIOUS
<1>2. Len(q) \in Nat /\ S \in SUBSET Nat
  OBVIOUS
<1>3. PICK m \in S : \A v \in S : m <= v
  BY <1>1, <1>2, HasLeast
<1>4. m \in 1 .. Len(q) /\ q[m].code = c /\ m \in Nat
  BY <1>2
<1>5. PICK f : Path(q, f) /\ f[0] = D /\ f[Len(q)] = E
  BY DEF Leads
<1>6. ASSUME NEW i \in 1 .. Len(q), 0 < i, i <= m - 1 PROVE q[i].code # c
  BY <1>2, <1>3, <1>4, <1>6
<1>7. 0 \in 0 .. Len(q) /\ m - 1 \in 0 .. Len(q)
  BY <1>2, <1>4
<1> HIDE DEF S
<1>8. c \in f[m - 1]
  BY <1>5, <1>6, <1>7, PathKeeps
<1>9. Moves(q[m], f[m - 1], f[m]) /\ q[m].pressed
  BY <1>4, <1>5 DEF Path
<1> QED BY <1>4, <1>8, <1>9 DEF Moves

\* The last event of a key says whether it is down in the end.
LEMMA LeadsLast ==
  ASSUME NEW q \in Seq(Event), NEW D, NEW E, Leads(q, D, E), NEW c \in Code
  PROVE  /\ (\A i \in 1 .. Len(q) : q[i].code # c) => (c \in D <=> c \in E)
         /\ \A m \in 1 .. Len(q) :
              q[m].code = c /\ (\A j \in 1 .. Len(q) : q[j].code = c => j <= m)
                => (q[m].pressed <=> c \in E)
<1>1. PICK f : Path(q, f) /\ f[0] = D /\ f[Len(q)] = E
  BY DEF Leads
<1>2. Len(q) \in Nat /\ Len(q) \in 0 .. Len(q)
  OBVIOUS
<1>3. ASSUME NEW m \in 1 .. Len(q), q[m].code = c,
             \A j \in 1 .. Len(q) : q[j].code = c => j <= m
      PROVE  q[m].pressed <=> c \in E
  <2>1. m \in 0 .. Len(q) /\ Len(q) \in m .. Len(q)
    BY <1>2
  <2>2. \A j \in 1 .. Len(q) : m < j /\ j <= Len(q) => q[j].code # c
    BY <1>2, <1>3
  <2>3. c \in f[m] <=> c \in f[Len(q)]
    BY <1>1, <2>1, <2>2, PathKeeps
  <2>4. Moves(q[m], f[m - 1], f[m])
    BY <1>1 DEF Path
  <2>5. q[m].pressed <=> c \in f[m]
    BY <1>3, <2>4 DEF Moves
  <2> QED BY <1>1, <2>3, <2>5
<1> QED BY <1>3, LeadsAround

\* The events that present a chord press its keys, which were up, and no others.
LEMMA LeadsPresented ==
  ASSUME NEW q \in Seq(Event), NEW D, NEW F, Leads(q, D, F),
         NEW match \in Chord, Presented(q, match)
  PROVE  /\ \A c \in ChordKeys[match] : c \notin D
         /\ Leads(Rest(q, match), D \cup ChordKeys[match], F)
<1> DEFINE n == Len(q)
           K == ChordKeys[match]
           m == Cardinality(K)
<1>1. PICK f : Path(q, f) /\ f[0] = D /\ f[n] = F
  BY DEF Leads
<1>2. n \in Nat /\ m \in Nat /\ m <= n /\ K \subseteq Code /\ IsFiniteSet(K)
  <2>1. K \subseteq Code /\ IsFiniteSet(K)
    BY ChordAssumption
  <2> QED BY <2>1, SizeType DEF Presented
<1>3. \A i \in 1 .. m : q[i].pressed /\ q[i].code \in K
  BY DEF Presented
<1>4. f \in [0 .. n -> SUBSET Code] /\ \A i \in 1 .. n : Moves(q[i], f[i - 1], f[i])
  BY <1>1 DEF Path
<1> HIDE DEF n, m, K
<1>5. ASSUME NEW i \in 1 .. m
      PROVE  q[i].code \notin f[i - 1] /\ f[i] = f[i - 1] \cup {q[i].code} /\ q[i].code \in Code
  <2>1. i \in 1 .. n
    BY <1>2
  <2> QED BY <1>2, <1>3, <1>4, <2>1 DEF Moves
    \* What is down stays down.
<1>6. ASSUME NEW i \in 0 .. m, NEW j \in i .. m, NEW c, c \in f[i] PROVE c \in f[j]
  <2> DEFINE S == {v \in i .. j : c \notin f[v]}
  <2>1. SUFFICES ASSUME S # {} PROVE FALSE
    BY <1>2
  <2>2. S \in SUBSET Nat
    BY <1>2
  <2>3. PICK v \in S : \A u \in S : v <= u
    BY <2>1, <2>2, HasLeast
  <2>4. v \in 1 .. m /\ v - 1 \in i .. j /\ v \in Nat
    BY <1>2, <1>6, <2>2
  <2>5. v - 1 \notin S
    BY <2>3, <2>4
  <2>6. c \in f[v - 1]
    BY <2>4, <2>5
  <2> QED BY <1>5, <2>4, <2>6
<1>7. ASSUME NEW i \in 1 .. m, NEW j \in 1 .. m, i < j PROVE q[i].code # q[j].code
  <2>1. i \in 0 .. m /\ j - 1 \in i .. m
    BY <1>2, <1>7
  <2>2. q[i].code \in f[i]
    BY <1>5
  <2>3. q[i].code \in f[j - 1]
    BY <1>6, <2>1, <2>2
  <2> QED BY <1>5, <2>3
<1>8. \A c \in K : \E i \in 1 .. m : q[i].code = c
  <2> DEFINE g == [i \in 1 .. m |-> q[i].code]
  <2>1. g \in Injection(1 .. m, K)
    <3>1. g \in [1 .. m -> K]
      BY <1>3
    <3>2. ASSUME NEW i \in 1 .. m, NEW j \in 1 .. m, g[i] = g[j] PROVE i = j
      BY <1>2, <1>7, <3>2
    <3> HIDE DEF g
    <3> QED BY <3>1, <3>2 DEF Injection, IsInjective
  <2>2. Cardinality(1 .. m) = m
    <3>1. m >= 1 => Cardinality(1 .. m) = m - 1 + 1
      BY <1>2, FS_Interval
    <3>2. m = 0 => 1 .. m = {}
      BY <1>2
    <3> QED BY <1>2, <3>1, <3>2, FS_EmptySet
  <2> HIDE DEF g
  <2>3. g \in Surjection(1 .. m, K)
    BY <1>2, <2>1, <2>2, FS_Injection DEF m
  <2> QED BY <2>3 DEF Surjection, g
<1>9. ASSUME NEW c \in K PROVE c \notin D /\ c \in f[m]
  <2>1. PICK i \in 1 .. m : q[i].code = c
    BY <1>8
  <2>2. 0 \in 0 .. m /\ i - 1 \in 0 .. m /\ i \in 0 .. m /\ m \in i .. m
    BY <1>2
  <2>3. c \notin f[0]
    BY <1>5, <1>6, <2>1, <2>2
  <2>4. c \in f[m]
    BY <1>5, <1>6, <2>1, <2>2
  <2> QED BY <1>1, <2>3, <2>4
<1>10. D \subseteq f[m]
  <2>1. 0 \in 0 .. m /\ m \in 0 .. m
    BY <1>2
  <2> QED BY <1>1, <1>6, <2>1
<1>11. ASSUME NEW c \in f[m], c \notin D PROVE c \in K
  <2>0. 0 \in 0 .. m /\ m \in 0 .. m /\ m \in 0 .. n
    BY <1>2
  <2> SUFFICES ASSUME \A i \in 1 .. m : q[i].code # c PROVE FALSE
    BY <1>3
  <2>1. \A v \in 1 .. n : 0 < v /\ v <= m => q[v].code # c
    BY <1>2
  <2>2. c \in f[0] <=> c \in f[m]
    BY <1>1, <1>2, <2>0, <2>1, PathKeeps DEF n
  <2> QED BY <1>1, <1>11, <2>2
<1>12. f[m] = D \cup K
  BY <1>9, <1>10, <1>11
<1> DEFINE r == SubSeq(q, m + 1, n)
           h == [i \in 0 .. n - m |-> f[m + i]]
<1>13. Len(r) = n - m /\ n - m \in Nat /\ \A i \in 1 .. n - m : r[i] = q[m + i]
  BY <1>2 DEF n
<1>14. h \in [0 .. n - m -> SUBSET Code] /\ \A i \in 0 .. n - m : h[i] = f[m + i]
  BY <1>2, <1>4
<1> HIDE DEF r, h
<1>15. ASSUME NEW i \in 1 .. n - m PROVE Moves(r[i], h[i - 1], h[i])
  <2>1. i - 1 \in 0 .. n - m /\ i \in 0 .. n - m /\ m + i \in 1 .. n /\ m + (i - 1) = (m + i) - 1
    BY <1>2, <1>13
  <2>2. Moves(q[m + i], f[(m + i) - 1], f[m + i])
    BY <1>4, <2>1
  <2> QED BY <1>13, <1>14, <2>1, <2>2
<1>16. h[0] = f[m] /\ h[n - m] = F
  BY <1>1, <1>2, <1>13, <1>14
<1>17. Leads(r, f[m], F)
  BY <1>13, <1>14, <1>15, <1>16 DEF Leads, Path
<1>18. Rest(q, match) = r
  <2>1. match # NoChord
    BY DEF Presented
  <2> QED BY <2>1 DEF Rest, r, m, n, K
<1> QED BY <1>9, <1>12, <1>17, <1>18 DEF K

-----------------------------------------------------------------------------
(* ... and so does one frame after the other.                              *)

Onward(s, D, H) ==
  \E d \in [1 .. Len(s) + 1 -> SUBSET Code] :
    /\ d[1] = D /\ d[Len(s) + 1] = H
    /\ \A n \in 1 .. Len(s) : Leads(s[n].events, d[n], d[n + 1])

LEMMA OnwardNowhere ==
  ASSUME NEW D \in SUBSET Code, NEW H
  PROVE  Onward(<<>>, D, H) <=> D = H
<1>1. ASSUME Onward(<<>>, D, H) PROVE D = H
  BY <1>1 DEF Onward
<1>2. Onward(<<>>, D, D)
  <2> DEFINE d == [n \in 1 .. 1 |-> D]
  <2>1. Len(<<>>) = 0 /\ 1 .. 0 = {} /\ Len(<<>>) + 1 = 1
    OBVIOUS
  <2>2. d \in [1 .. 1 -> SUBSET Code] /\ d[1] = D
    OBVIOUS
  <2> HIDE DEF d
  <2> QED BY <2>1, <2>2 DEF Onward
<1> QED BY <1>1, <1>2

LEMMA OnwardType ==
  ASSUME NEW s \in Seq(Frame), NEW D, NEW H, Onward(s, D, H)
  PROVE  D \in SUBSET Code /\ H \in SUBSET Code
<1>1. Len(s) \in Nat
  OBVIOUS
<1>2. 1 \in 1 .. Len(s) + 1 /\ Len(s) + 1 \in 1 .. Len(s) + 1
  BY <1>1
<1> QED BY <1>2 DEF Onward

LEMMA OnwardTail ==
  ASSUME NEW s \in Seq(Frame), s # <<>>, NEW D, NEW H, Onward(s, D, H)
  PROVE  \E E \in SUBSET Code : Leads(Head(s).events, D, E) /\ Onward(Tail(s), E, H)
<1> DEFINE n == Len(s)
<1>1. PICK d \in [1 .. n + 1 -> SUBSET Code] :
        d[1] = D /\ d[n + 1] = H /\ \A i \in 1 .. n : Leads(s[i].events, d[i], d[i + 1])
  BY DEF Onward
<1>2. /\ n \in Nat \ {0} /\ Len(Tail(s)) = n - 1 /\ Head(s) = s[1]
      /\ \A i \in 1 .. n - 1 : Tail(s)[i] = s[i + 1]
  <2>1. Len(Tail(s)) = n - 1
    OBVIOUS
  <2> QED BY <2>1, ListFacts, Zenon
<1> HIDE DEF n
<1> DEFINE g == [i \in 1 .. n |-> d[i + 1]]
<1>3. g \in [1 .. n -> SUBSET Code] /\ \A i \in 1 .. n : g[i] = d[i + 1]
  BY <1>2
<1> HIDE DEF g
<1>4. ASSUME NEW i \in 1 .. n - 1 PROVE Leads(Tail(s)[i].events, g[i], g[i + 1])
  <2>1. i \in 1 .. n /\ i + 1 \in 1 .. n
    BY <1>2
  <2> QED BY <1>1, <1>2, <1>3, <2>1
<1>5. (n - 1) + 1 = n /\ g[1] = d[2] /\ g[n] = H /\ 1 \in 1 .. n /\ 1 + 1 = 2 /\ 2 \in 1 .. n + 1
  BY <1>1, <1>2, <1>3
<1>6. Onward(Tail(s), d[2], H)
  <2>1. Len(Tail(s)) + 1 = n
    BY <1>2, <1>5
  <2> QED BY <1>2, <1>3, <1>4, <1>5, <2>1 DEF Onward
<1>7. Leads(Head(s).events, D, d[2]) /\ d[2] \in SUBSET Code
  BY <1>1, <1>2, <1>5
<1> QED BY <1>6, <1>7

LEMMA OnwardPush ==
  ASSUME NEW s \in Seq(Frame), NEW f \in Frame, NEW D, NEW E, NEW H,
         Leads(f.events, D, E), Onward(s, E, H)
  PROVE  Onward(<<f>> \o s, D, H)
<1> DEFINE n == Len(s)
           r == <<f>> \o s
<1>1. PICK d \in [1 .. n + 1 -> SUBSET Code] :
        d[1] = E /\ d[n + 1] = H /\ \A i \in 1 .. n : Leads(s[i].events, d[i], d[i + 1])
  BY DEF Onward
<1>2. n \in Nat /\ Len(r) = n + 1 /\ r[1] = f /\ \A i \in 2 .. n + 1 : r[i] = s[i - 1]
  OBVIOUS
<1>3. D \in SUBSET Code
  <2>1. f.events \in Seq(Event)
    BY DEF Frame
  <2> QED BY <2>1, LeadsType
<1> HIDE DEF n, r
<1> DEFINE g == [i \in 1 .. n + 2 |-> IF i = 1 THEN D ELSE d[i - 1]]
<1>4. g \in [1 .. n + 2 -> SUBSET Code] /\ g[1] = D /\ \A i \in 2 .. n + 2 : g[i] = d[i - 1]
  BY <1>2, <1>3
<1> HIDE DEF g
<1>5. ASSUME NEW i \in 1 .. n + 1 PROVE Leads(r[i].events, g[i], g[i + 1])
  <2>1. CASE i = 1
    <3>1. 2 \in 2 .. n + 2 /\ 2 - 1 = 1 /\ 1 + 1 = 2
      BY <1>2
    <3>2. g[2] = E
      BY <1>1, <1>4, <3>1
    <3> QED BY <1>2, <1>4, <2>1, <3>1, <3>2
  <2>2. CASE i # 1
    <3>1. i \in 2 .. n + 1 /\ i \in 2 .. n + 2 /\ i + 1 \in 2 .. n + 2 /\ i - 1 \in 1 .. n
          /\ (i + 1) - 1 = (i - 1) + 1
      BY <1>2, <2>2
    <3>2. Leads(s[i - 1].events, d[i - 1], d[(i - 1) + 1])
      BY <1>1, <3>1
    <3>3. g[i] = d[i - 1] /\ g[i + 1] = d[(i - 1) + 1] /\ r[i] = s[i - 1]
      BY <1>2, <1>4, <3>1
    <3> QED BY <3>2, <3>3
  <2> QED BY <2>1, <2>2
<1>6. g[(n + 1) + 1] = H /\ (n + 1) + 1 = n + 2
  <2>1. n + 2 \in 2 .. n + 2 /\ (n + 2) - 1 = n + 1
    BY <1>2
  <2> QED BY <1>1, <1>2, <1>4, <2>1
<1>7. Len(r) + 1 = n + 2
  BY <1>2
<1> QED BY <1>2, <1>4, <1>5, <1>6, <1>7 DEF Onward, r

-----------------------------------------------------------------------------
(* What the keyboard withholds.                                            *)

Overloading(d) == d.op \in {"overloadt", "overloadt2"}

Chordless(config) == \A l \in Layer : config.chords[l] = {}

\* A keymap with chords has no overloaded keys.
Exclusive ==
  \A config \in Configs :
    Chordless(config) \/ /\ \A l \in Layer, c \in Code : ~Overloading(config.keymap[l][c])
                         /\ \A c \in Chord : ~Overloading(ChordDescriptor[c])

Chorded(k, c) == \E s \in Slot : k.slots[s].on /\ c \in k.slots[s].keys

DownCodes(k) == {c \in Code : Cached(k, c) \/ Chorded(k, c)}

Withheld(k) ==
  IF k.chord.state = "resolving" THEN k.overload.queue ELSE k.overload.queue \o k.chord.queue

\* A key is in one chord, or in the cache.
SlotsApart(k) ==
  \A s \in Slot : k.slots[s].on => \A c \in k.slots[s].keys :
    ~Cached(k, c) /\ \A t \in Slot : k.slots[t].on /\ c \in k.slots[t].keys => t = s

\* No event behind a chord releases a key of one that is in effect.
NotReleasing(k, q) == \A i \in DOMAIN q : q[i].pressed \/ ~Chorded(k, q[i].code)

Tidy(k) ==
  /\ Chordless(k.config) => k.chord.state = "inactive" /\ \A s \in Slot : ~k.slots[s].on
  /\ ~Chordless(k.config) => k.overload.code = NoCode
  /\ k.overload.code = NoCode => k.overload.queue = <<>>
  /\ k.chord.state = "inactive" => k.chord.queue = <<>>
  /\ SlotsApart(k)
  /\ k.chord.state \in {"pending", "hold"} => NotReleasing(k, k.chord.queue)

LEMMA WithheldIs ==
  ASSUME NEW k \in Keyboard, Tidy(k)
  PROVE  /\ k.chord.state \in {"pending", "hold"} => Withheld(k) = k.chord.queue
         /\ k.chord.state \in {"inactive", "resolving"} => Withheld(k) = k.overload.queue
         /\ Withheld(k) \in Seq(Event)
         /\ k.chord.state \in {"inactive", "pending", "hold", "resolving"}
<1>1. /\ k.chord.queue \in Seq(Event) /\ k.overload.queue \in Seq(Event)
      /\ k.chord.state \in {"inactive", "pending", "hold", "resolving"}
  BY DEF Keyboard, Chording, PendingOverload
<1>2. ASSUME k.chord.state \in {"pending", "hold"} PROVE Withheld(k) = k.chord.queue
  <2>1. k.overload.queue = <<>>
    BY <1>2 DEF Tidy
  <2>2. <<>> \o k.chord.queue = k.chord.queue
    BY <1>1
  <2> QED BY <1>2, <2>1, <2>2 DEF Withheld
<1>3. ASSUME k.chord.state = "inactive" PROVE Withheld(k) = k.overload.queue
  <2>1. k.chord.queue = <<>>
    BY <1>3 DEF Tidy
  <2>2. k.overload.queue \o <<>> = k.overload.queue
    BY <1>1
  <2> QED BY <1>3, <2>1, <2>2 DEF Withheld
<1>4. k.chord.state = "resolving" => Withheld(k) = k.overload.queue
  BY DEF Withheld
<1> QED BY <1>1, <1>2, <1>3, <1>4

\* The same keys are down, and the same events withheld.
Alike(k, j) == /\ j.config = k.config /\ j.chord = k.chord /\ j.overload = k.overload
               /\ j.slots = k.slots
               /\ \A c \in Codes : Cached(j, c) <=> Cached(k, c)

LEMMA AlikeTidy ==
  ASSUME NEW k \in Keyboard, NEW j, Alike(k, j)
  PROVE  (Tidy(k) => Tidy(j)) /\ Withheld(j) = Withheld(k) /\ DownCodes(j) = DownCodes(k)
<1>1. \A s \in Slot : k.slots[s].keys \subseteq Code
  BY DEF Keyboard, ActiveChord
<1>2. \A c : Chorded(j, c) <=> Chorded(k, c)
  BY DEF Chorded, Alike
<1>3. SlotsApart(k) => SlotsApart(j)
  BY <1>1 DEF SlotsApart, Alike, Codes
<1>4. \A q : NotReleasing(k, q) => NotReleasing(j, q)
  BY <1>2 DEF NotReleasing
<1>5. DownCodes(j) = DownCodes(k)
  BY <1>2 DEF DownCodes, Alike, Codes
<1> QED BY <1>3, <1>4, <1>5 DEF Tidy, Withheld, Alike

LEMMA FreeNotCached ==
  ASSUME NEW k, NEW c, k.cache[c] = Free
  PROVE  ~Cached(k, c)
BY FreeType DEF Cached

\* A key that is pressed, or released, and does nothing beside what is about that key.
LEMMA PressPlain ==
  ASSUME NEW k, KeyboardOK(k), NEW c \in Codes, NEW d \in Descriptor, ~Overloading(d),
         NEW t \in Nat, NEW j, j = Press(k, c, d, t)
  PROVE  Alike(k, j) /\ KeyboardOK(j)
<1>1. k \in Keyboard
  BY DEF KeyboardOK
<1>2. Struck(k, c, d, j)
  BY <1>1, PressFields
<1>3. KeyboardOK(j) /\ Kept(j, k)
  BY PressOK
<1> QED BY <1>2, <1>3 DEF Struck, Kept, Alike, Cached, Overloading

LEMMA ReleaseAlike ==
  ASSUME NEW k, KeyboardOK(k), NEW d \in Descriptor, NEW t, NEW j, j = Release(k, d, t)
  PROVE  Alike(k, j) /\ KeyboardOK(j)
<1>1. k \in Keyboard
  BY DEF KeyboardOK
<1>2. Lifted(k, d, t, j)
  BY <1>1, ReleaseFields
<1>3. KeyboardOK(j) /\ Kept(j, k)
  BY ReleaseOK
<1> QED BY <1>2, <1>3 DEF Lifted, Kept, Alike, Cached

LEMMA CacheEntry ==
  ASSUME NEW k \in Keyboard, NEW c \in Codes, NEW d \in Descriptor
  PROVE  /\ CacheSet(k, c, d).cache[c] = d
         /\ \A b \in Codes : b # c => CacheSet(k, c, d).cache[b] = k.cache[b]
         /\ CacheSet(k, c, d).overload = k.overload
BY DEF CacheSet, Keyboard, Codes

\* An entry that takes the place of another.
LEMMA ReplacedAlike ==
  ASSUME NEW k, KeyboardOK(k), NEW c \in Codes, Cached(k, c), NEW d \in Descriptor, d.op # "none",
         NEW j, j = CacheSet(k, c, d)
  PROVE  Alike(k, j) /\ KeyboardOK(j)
<1>1. k \in Keyboard
  BY DEF KeyboardOK
<1>2. /\ j.cache[c] = d /\ \A b \in Codes : b # c => j.cache[b] = k.cache[b]
      /\ j.overload = k.overload
  BY <1>1, CacheEntry
<1>3. KeyboardOK(j) /\ Kept(j, k)
  BY CacheSetOK
<1>4. \A b \in Codes : Cached(j, b) <=> Cached(k, b)
  BY <1>2 DEF Cached, Codes
<1> QED BY <1>2, <1>3, <1>4 DEF Kept, Alike

LEMMA AlikeTrans ==
  ASSUME NEW k, NEW j, NEW i, Alike(k, j), Alike(j, i)
  PROVE  Alike(k, i)
BY DEF Alike

LEMMA DecideTimeoutAlike ==
  ASSUME NEW k, KeyboardOK(k), Paid(k), NEW e \in Event, NEW j, j = DecideTimeout(k, e)
  PROVE  Alike(k, j)
<1> DEFINE p == k.timeout
           action == IF e.at >= p.expiration THEN p.action2 ELSE p.action1
           decided == [k EXCEPT !.timeout = NoTimeout]
<1>1. k \in Keyboard
  BY DEF KeyboardOK
<1>2. CASE ~DecidesTimeout(k, e)
  BY <1>2 DEF DecideTimeout, Alike
<1>3. CASE DecidesTimeout(k, e)
  <2>1. p.code \in Codes /\ action \in Descriptor /\ e.at \in Nat /\ Plain(action)
    BY <1>1, <1>3 DEF DecidesTimeout, Keyboard, PendingTimeout, Codes, Event, Paid, TimersCached
  <2>2. /\ decided \in Keyboard /\ decided.cache = k.cache /\ decided.overload = k.overload
        /\ decided.active = k.active /\ decided.recent = k.recent /\ decided.config = k.config
        /\ decided.chord = k.chord /\ decided.slots = k.slots
    <3>1. NoTimeout \in PendingTimeout
      BY FreeType DEF NoTimeout, PendingTimeout
    <3> QED BY <1>1, <3>1 DEF Keyboard
  <2>0. j = IF p.spontaneous THEN Release(Press(decided, p.code, action, e.at), action, e.at)
            ELSE Press(CacheSet(decided, p.code, action), p.code, action, e.at)
    BY <1>3, Zenon DEF DecideTimeout
  <2>3. k.timeout.code # NoCode
    BY <1>3 DEF DecidesTimeout
  <2> HIDE DEF action, decided
  <2>4. Alike(k, decided) /\ KeyboardOK(decided)
    BY <2>2, OtherFieldsOK DEF Alike, Cached
  <2>5. action.op # "none" /\ ~Overloading(action)
    BY <2>1 DEF Plain, Overloading
  <2>6. CASE p.spontaneous
    <3> DEFINE i == Press(decided, p.code, action, e.at)
    <3>1. Alike(decided, i) /\ KeyboardOK(i)
      BY <2>1, <2>4, <2>5, PressPlain
    <3>2. j = Release(i, action, e.at)
      BY <2>0, <2>6
    <3> HIDE DEF i
    <3>3. Alike(i, j)
      BY <2>1, <3>1, <3>2, ReleaseAlike
    <3> QED BY <2>4, <3>1, <3>3, AlikeTrans
  <2>7. CASE ~p.spontaneous
    <3> DEFINE i == CacheSet(decided, p.code, action)
    <3>1. Cached(decided, p.code)
      BY <2>2, <2>3, <2>7 DEF Paid, TimersCached, Cached
    <3>2. Alike(decided, i) /\ KeyboardOK(i)
      BY <2>1, <2>4, <2>5, <3>1, ReplacedAlike
    <3>3. j = Press(i, p.code, action, e.at)
      BY <2>0, <2>7
    <3> HIDE DEF i
    <3>4. Alike(i, j)
      BY <2>1, <2>5, <3>2, <3>3, PressPlain
    <3> QED BY <2>4, <3>2, <3>4, AlikeTrans
  <2> QED BY <2>6, <2>7
<1> QED BY <1>2, <1>3

\* A key's descriptor is never empty, and never overloaded where there are chords.
LEMMA LookupBinds ==
  ASSUME NEW k, KeyboardOK(k), NEW c \in Code
  PROVE  /\ Lookup(k, c).op # "none"
         /\ \/ ~Overloading(Lookup(k, c))
            \/ \E l \in Layer : Lookup(k, c) = k.config.keymap[l][c]
<1> DEFINE binding == {l \in Layer : k.active[l] > 0 /\ k.config.keymap[l][c].op # "none"}
<1>1. c \notin Slot
  BY CodeAssumption
<1>2. CASE binding # {}
  <2>1. Latest(k, binding) \in binding
    BY <1>2, LatestIsMember DEF KeyboardOK
  <2>2. Lookup(k, c) = k.config.keymap[Latest(k, binding)][c]
    BY <1>1, <1>2 DEF Lookup
  <2> QED BY <2>1, <2>2
<1>3. CASE binding = {}
  <2>1. Lookup(k, c) = [Free EXCEPT !.op = "key", !.key = SelfKey[c]]
    BY <1>1, <1>3 DEF Lookup
  <2>2. Lookup(k, c).op = "key"
    BY <2>1, FreeType DEF Descriptor
  <2> QED BY <2>2 DEF Overloading
<1> QED BY <1>2, <1>3

LEMMA LookupPrompt ==
  ASSUME Exclusive, NEW k, KeyboardOK(k), NEW c \in Codes,
         c \in Slot => k.slots[c].chord \in Chord, ~Chordless(k.config)
  PROVE  ~Overloading(Lookup(k, c))
<1>1. k.config \in Configs
  BY DEF KeyboardOK, Keyboard
<1>2. CASE c \in Slot
  BY <1>1, <1>2 DEF Lookup, Exclusive
<1>3. CASE c \in Code
  <2>1. \A l \in Layer : ~Overloading(k.config.keymap[l][c])
    BY <1>1, <1>3 DEF Exclusive
  <2> QED BY <1>3, <2>1, LookupBinds
<1> QED BY <1>2, <1>3 DEF Codes

\* The pieces of a keyboard that chords are made of say what is withheld.
LEMMA StrikeAccounts ==
  ASSUME Exclusive, NEW k, KeyboardOK(k), Tidy(k), NEW e \in Event,
         e.code \in Slot => k.slots[e.code].chord \in Chord,
         ~Waits(k, e), e.code # NoCode => k.chord.state \in {"inactive", "resolving"},
         ~e.pressed => ~Chorded(k, e.code),
         NEW D, NEW E, Leads(Withheld(k), DownCodes(k), D), Moves(e, D, E),
         NEW j, j = Strike(k, e)
  PROVE  Tidy(j) /\ Leads(Withheld(j), DownCodes(j), E)
<1> DEFINE c == e.code
           w == Withheld(k)
<1>1. k \in Keyboard /\ c \in Code \cup Slot \cup {NoCode} /\ e.at \in Nat /\ e.pressed \in BOOLEAN
  BY DEF KeyboardOK, Event
<1>2. Code \cap Slot = {} /\ NoCode \notin Code /\ NoCode \notin Slot
  BY CodeAssumption
<1>3. D \in SUBSET Code /\ E \in SUBSET Code /\ DownCodes(k) \in SUBSET Code
  <2>1. w \in Seq(Event)
    BY <1>1, WithheldIs
  <2> QED BY <2>1, LeadsType, MovesType
    \* What waits is not of the same key.
<1>4. c # NoCode => \A i \in 1 .. Len(w) : w[i].code # c
  <2> SUFFICES ASSUME c # NoCode PROVE \A i \in 1 .. Len(w) : w[i].code # c
    OBVIOUS
  <2>1. w = k.overload.queue /\ k.overload.queue \in Seq(Event)
    BY <1>1, WithheldIs DEF Keyboard, PendingOverload
  <2>2. CASE k.overload.code = NoCode
    <3>1. w = <<>>
      BY <2>1, <2>2 DEF Tidy
    <3> QED BY <3>1
  <2>3. CASE k.overload.code # NoCode
    <3>1. \A i \in DOMAIN k.overload.queue : k.overload.queue[i].code # c
      BY <2>3 DEF Waits
    <3> QED BY <2>1, <3>1
  <2> QED BY <2>2, <2>3
<1>5. c # NoCode => (c \in DownCodes(k) <=> c \in D) /\ Leads(w, DownCodes(k) \ {c}, D \ {c})
  <2>1. w \in Seq(Event)
    BY <1>1, WithheldIs
  <2> QED BY <1>4, <2>1, LeadsAround
<1>6. c \in Codes /\ e.pressed => k.overload.code = NoCode /\ w = <<>> /\ D = DownCodes(k)
  <2> SUFFICES ASSUME c \in Codes, e.pressed
               PROVE  k.overload.code = NoCode /\ w = <<>> /\ D = DownCodes(k)
    OBVIOUS
  <2>1. k.overload.code = NoCode
    BY DEF Waits
  <2>2. w = <<>>
    BY <1>1, <1>2, <2>1, WithheldIs DEF Tidy, Codes
  <2> QED BY <1>3, <2>1, <2>2, LeadsNowhere
<1>7. \A s \in Slot : k.slots[s].keys \subseteq Code
  BY <1>1 DEF Keyboard, ActiveChord
<1> HIDE DEF c, w
<1>8. CASE c # NoCode /\ e.pressed /\ ~Cached(k, c)
  <2> DEFINE d == Lookup(k, c)
             i == CacheSet(k, c, d)
  <2>1. c \in Codes
    BY <1>1, <1>8 DEF Codes
  <2>2. d \in Descriptor
    BY <2>1, LookupType DEF c
  <2>3. j = Press(i, c, d, e.at)
    BY <1>8 DEF Strike, c
  <2>4. c \in Code => d.op # "none"
    BY <1>1, <1>2, LookupBinds
  <2>5. ~Chordless(k.config) => ~Overloading(d)
    BY <1>1, <2>1, LookupPrompt DEF c
  <2> HIDE DEF d
  <2>6. /\ KeyboardOK(i) /\ Kept(i, k) /\ i.cache[c] = d /\ i.overload = k.overload
        /\ \A b \in Codes : b # c => i.cache[b] = k.cache[b]
    <3>1. KeyboardOK(i) /\ Kept(i, k)
      BY <2>1, <2>2, CacheSetOK
    <3>2. /\ i.cache[c] = d /\ \A b \in Codes : b # c => i.cache[b] = k.cache[b]
          /\ i.overload = k.overload
      BY <1>1, <2>1, <2>2, CacheEntry
    <3> QED BY <3>1, <3>2
  <2> HIDE DEF i
  <2>7. Kept(j, i) /\ Struck(i, c, d, j)
    BY <1>1, <2>1, <2>2, <2>3, <2>6, PressOK, PressFields DEF KeyboardOK
  <2>8. Kept(j, k)
    BY <2>6, <2>7 DEF Kept
  <2>9. /\ \A b \in Codes : b # c => (Cached(j, b) <=> Cached(k, b))
        /\ c \in Code => Cached(j, c)
    BY <2>4, <2>6, <2>7 DEF Struck, Cached
  <2>10. ~Overloading(d) => j.overload = k.overload
    BY <2>6, <2>7 DEF Struck, Overloading
  <2>11. \A b : Chorded(j, b) <=> Chorded(k, b)
    BY <2>8 DEF Chorded, Kept
  <2>12. c \notin DownCodes(k) /\ ~Chorded(k, c)
    <3>1. c \in Code => c \notin DownCodes(k)
      BY <1>6, <1>8, <2>1 DEF Moves, c
    <3> QED BY <1>2, <1>7, <2>1, <3>1 DEF DownCodes, Chorded, Codes
  <2>13. j.overload.queue = <<>> /\ Withheld(j) = <<>>
    <3>1. j.overload.queue = k.overload.queue /\ j.chord = k.chord
      BY <2>8 DEF Kept
    <3>2. k.overload.queue = <<>>
      BY <1>6, <1>8, <2>1 DEF Tidy
    <3>3. Withheld(j) = Withheld(k)
      BY <3>1 DEF Withheld
    <3> QED BY <1>6, <1>8, <2>1, <3>1, <3>2, <3>3 DEF w
  <2>14. DownCodes(j) = E
    <3>1. c \in Code => DownCodes(j) = DownCodes(k) \cup {c}
      BY <2>9, <2>11 DEF DownCodes, Codes
    <3>2. c \notin Code => DownCodes(j) = DownCodes(k)
      BY <2>9, <2>11 DEF DownCodes, Codes
    <3> QED BY <1>6, <1>8, <2>1, <3>1, <3>2 DEF Moves, c
  <2>15. SlotsApart(j)
    <3>1. SlotsApart(k)
      BY DEF Tidy
    <3>2. ASSUME NEW s \in Slot, k.slots[s].on, NEW b \in k.slots[s].keys
          PROVE  ~Cached(j, b)
      <4>1. b \in Codes /\ b # c /\ ~Cached(k, b)
        BY <1>7, <2>12, <3>1, <3>2 DEF SlotsApart, Chorded, Codes
      <4> QED BY <2>9, <4>1
    <3>3. j.slots = k.slots
      BY <2>8 DEF Kept
    <3> QED BY <3>1, <3>2, <3>3 DEF SlotsApart
  <2>16. Tidy(j)
    <3>1. \A q : NotReleasing(k, q) => NotReleasing(j, q)
      BY <2>11 DEF NotReleasing
    <3>2. ~Chordless(j.config) => j.overload.code = NoCode
      BY <2>5, <2>8, <2>10 DEF Tidy, Kept
    <3>3. j.config = k.config /\ j.chord = k.chord /\ j.slots = k.slots
      BY <2>8 DEF Kept
    <3> QED BY <2>13, <2>15, <3>1, <3>2, <3>3 DEF Tidy
  <2> QED BY <1>3, <2>13, <2>14, <2>16, LeadsNowhere
<1>9. CASE c # NoCode /\ ~e.pressed /\ Cached(k, c)
  <2> DEFINE i == CacheSet(k, c, Free)
  <2>1. c \in Codes /\ Free \in Descriptor /\ k.cache[c] \in Descriptor
    BY <1>1, <1>9, FreeType DEF Codes, Keyboard
  <2>2. j = Release(i, k.cache[c], e.at)
    BY <1>9 DEF Strike, c
  <2>3. /\ KeyboardOK(i) /\ Kept(i, k) /\ i.cache[c] = Free /\ i.overload = k.overload
        /\ \A b \in Codes : b # c => i.cache[b] = k.cache[b]
    <3>1. KeyboardOK(i) /\ Kept(i, k)
      BY <2>1, CacheSetOK
    <3>2. /\ i.cache[c] = Free /\ \A b \in Codes : b # c => i.cache[b] = k.cache[b]
          /\ i.overload = k.overload
      BY <1>1, <2>1, CacheEntry
    <3> QED BY <3>1, <3>2
  <2> HIDE DEF i
  <2>4. Alike(i, j)
    BY <2>1, <2>2, <2>3, ReleaseAlike
  <2>5. /\ \A b \in Code : b # c => (Cached(j, b) <=> Cached(k, b))
        /\ c \in Code => ~Cached(j, c)
        /\ j.config = k.config /\ j.chord = k.chord /\ j.overload = k.overload /\ j.slots = k.slots
    <3>1. ~Cached(i, c) /\ \A b \in Codes : b # c => (Cached(i, b) <=> Cached(k, b))
      BY <2>3, FreeNotCached DEF Cached
    <3> QED BY <2>3, <2>4, <3>1 DEF Alike, Kept, Codes
  <2>6. \A b : Chorded(j, b) <=> Chorded(k, b)
    BY <2>5 DEF Chorded
  <2>7. Tidy(j) /\ Withheld(j) = w
    <3>1. \A q : NotReleasing(k, q) => NotReleasing(j, q)
      BY <2>6 DEF NotReleasing
    <3>2. SlotsApart(k)
      BY DEF Tidy
    <3>3. SlotsApart(j)
      BY <1>7, <2>5, <3>2 DEF SlotsApart
    <3> QED BY <2>5, <3>1, <3>3 DEF Tidy, Withheld, w
  <2>8. DownCodes(j) = DownCodes(k) \ {c} /\ E = D \ {c}
    <3>1. c \in Code => ~Chorded(k, c)
      BY <1>9 DEF c
    <3>2. c \in Code => DownCodes(j) = DownCodes(k) \ {c}
      BY <2>5, <2>6, <3>1 DEF DownCodes
    <3>3. c \notin Code => DownCodes(j) = DownCodes(k)
      BY <2>5, <2>6 DEF DownCodes
    <3>4. c \notin Code => E = D
      BY DEF Moves, c
    <3>5. c \in Code => E = D \ {c}
      BY <1>9 DEF Moves, c
    <3> QED BY <1>3, <3>2, <3>3, <3>4, <3>5
  <2> QED BY <1>5, <1>9, <2>7, <2>8
<1>10. CASE ~(c # NoCode /\ e.pressed /\ ~Cached(k, c)) /\ ~(c # NoCode /\ ~e.pressed /\ Cached(k, c))
  <2>1. j = k
    BY <1>10 DEF Strike, c
  <2>2. c \notin Code
    <3> SUFFICES ASSUME c \in Code PROVE FALSE
      OBVIOUS
    <3>1. CASE e.pressed
      <4>1. c \in DownCodes(k) /\ c \notin D
        BY <1>2, <1>10, <3>1 DEF DownCodes, Moves, c
      <4> QED BY <1>6, <3>1, <4>1 DEF Codes
    <3>2. CASE ~e.pressed
      <4>1. c \notin DownCodes(k)
        BY <1>2, <1>10, <3>2 DEF DownCodes, c
      <4>2. c \in D
        BY <3>2 DEF Moves, c
      <4> QED BY <1>2, <1>5, <4>1, <4>2
    <3> QED BY <3>1, <3>2
  <2>3. E = D
    BY <2>2 DEF Moves, c
  <2> QED BY <2>1, <2>3 DEF w
<1> QED BY <1>8, <1>9, <1>10

-----------------------------------------------------------------------------
(* The frames on the stack.                                                *)

ChordFree(s) == \A n \in DOMAIN s : s[n].kind # "chord"

ChordOnce(s) ==
  \E n \in DOMAIN s : s[n].kind = "chord" /\ \A m \in DOMAIN s : s[m].kind = "chord" => m = n

\* The chord is being resolved just while the frame that replays its events is there.
Conforms(k, s) == IF k.chord.state = "resolving" THEN ChordOnce(s) ELSE ChordFree(s)

Accounts(k, s, H) ==
  /\ Tidy(k) /\ Conforms(k, s)
  /\ \E D : Leads(Withheld(k), DownCodes(k), D) /\ Onward(s, D, H)

\* What the stack has still to deliver after the event that it delivers now.
Ahead(E, H) == \E G : Leads(Taken.events, E, G) /\ Onward(Tail(stack), G, H)

LEMMA FrameOnTop ==
  ASSUME NEW f, NEW r \in Seq(Frame), NEW s, s = <<f>> \o r
  PROVE  /\ f.kind # "chord" => /\ ChordFree(s) <=> ChordFree(r)
                                /\ ChordOnce(s) <=> ChordOnce(r)
         /\ f.kind = "chord" => ~ChordFree(s) /\ (ChordFree(r) <=> ChordOnce(s))
<1> DEFINE n == Len(r)
<1>1. /\ n \in Nat /\ DOMAIN r = 1 .. n /\ DOMAIN s = 1 .. n + 1 /\ s[1] = f
      /\ \A i \in 1 .. n : s[i + 1] = r[i]
  OBVIOUS
<1> HIDE DEF n
<1>2. /\ 1 \in DOMAIN s
      /\ \A i \in DOMAIN r : i + 1 \in DOMAIN s /\ s[i + 1] = r[i] /\ i + 1 # 1
      /\ \A i \in DOMAIN s : i # 1 => i - 1 \in DOMAIN r /\ s[i] = r[i - 1]
  BY <1>1
<1>3. CASE f.kind # "chord"
  <2>1. ChordFree(s) <=> ChordFree(r)
    <3>1. ASSUME ChordFree(s) PROVE ChordFree(r)
      <4>1. ASSUME NEW n1 \in DOMAIN r PROVE r[n1].kind # "chord"
        <5>1. n1 + 1 \in DOMAIN s /\ s[n1 + 1] = r[n1]
          BY <1>2
        <5>2. s[n1 + 1].kind # "chord"
          BY <3>1, <5>1 DEF ChordFree
        <5> QED BY <5>1, <5>2
      <4> QED BY <4>1 DEF ChordFree
    <3>2. ASSUME ChordFree(r), NEW m \in DOMAIN s PROVE s[m].kind # "chord"
      <4>1. m = 1 \/ (m - 1 \in DOMAIN r /\ s[m] = r[m - 1])
        BY <1>2
      <4> QED BY <1>1, <1>3, <3>2, <4>1 DEF ChordFree
    <3> QED BY <3>1, <3>2 DEF ChordFree
  <2>2. ASSUME ChordOnce(r) PROVE ChordOnce(s)
    <3>1. PICK i \in DOMAIN r : r[i].kind = "chord" /\ \A m \in DOMAIN r : r[m].kind = "chord" => m = i
      BY <2>2 DEF ChordOnce
    <3>2. ASSUME NEW m \in DOMAIN s, s[m].kind = "chord" PROVE m = i + 1
      <4>1. m # 1
        BY <1>1, <1>3, <3>2
      <4>2. m - 1 = i
        BY <1>2, <3>1, <3>2, <4>1
      <4> QED BY <1>1, <3>2, <4>2
    <3> QED BY <1>2, <3>1, <3>2 DEF ChordOnce
  <2>3. ASSUME ChordOnce(s) PROVE ChordOnce(r)
    <3>1. PICK i \in DOMAIN s : s[i].kind = "chord" /\ \A m \in DOMAIN s : s[m].kind = "chord" => m = i
      BY <2>3 DEF ChordOnce
    <3>2. i # 1
      BY <1>1, <1>3, <3>1
    <3>3. i - 1 \in DOMAIN r /\ r[i - 1].kind = "chord"
      BY <1>2, <3>1, <3>2
    <3>4. ASSUME NEW m \in DOMAIN r, r[m].kind = "chord" PROVE m = i - 1
      <4>1. m + 1 = i
        BY <1>2, <3>1, <3>4
      <4> QED BY <1>1, <4>1
    <3> QED BY <3>3, <3>4 DEF ChordOnce
  <2> QED BY <1>3, <2>1, <2>2, <2>3
<1>4. CASE f.kind = "chord"
  <2>1. ~ChordFree(s)
    BY <1>1, <1>2, <1>4 DEF ChordFree
  <2>2. ASSUME ChordFree(r) PROVE ChordOnce(s)
    <3>1. \A m \in DOMAIN s : s[m].kind = "chord" => m = 1
      BY <1>2, <2>2 DEF ChordFree
    <3> QED BY <1>1, <1>2, <1>4, <3>1 DEF ChordOnce
  <2>3. ASSUME ChordOnce(s) PROVE ChordFree(r)
    <3>1. PICK i \in DOMAIN s : \A m \in DOMAIN s : s[m].kind = "chord" => m = i
      BY <2>3 DEF ChordOnce
    <3>2. i = 1
      BY <1>1, <1>2, <1>4, <3>1
    <3> QED BY <1>2, <3>1, <3>2 DEF ChordFree
  <2> QED BY <1>4, <2>1, <2>2, <2>3
<1> QED BY <1>3, <1>4

LEMMA TopAndTail ==
  ASSUME NEW s \in Seq(Frame), s # <<>>
  PROVE  s = <<Head(s)>> \o Tail(s) /\ Head(s) \in Frame /\ Tail(s) \in Seq(Frame)
OBVIOUS

\* The event processed now is news of its key.
LEMMA EventAhead ==
  ASSUME Processing, NEW D, NEW H, Onward(stack, D, H)
  PROVE  \E E : Moves(Upcoming, D, E) /\ Ahead(E, H)
<1>1. stack \in Seq(Frame) /\ stack # <<>> /\ Top \in Frame /\ Top.events \in Seq(Event) /\ Top.events # <<>>
  BY UpcomingOK DEF Processing, TypeInv, TypeOK, Frame
<1>2. PICK G : Leads(Top.events, D, G) /\ Onward(Tail(stack), G, H)
  BY <1>1, OnwardTail DEF Top
<1>3. CASE TimeoutDue(Top)
  <2>1. Upcoming = [code |-> NoCode, pressed |-> FALSE, at |-> Top.timer] /\ Taken.events = Top.events
    BY <1>1, <1>3 DEF Upcoming, Taken, Frame
  <2>2. Upcoming.code = NoCode
    BY <2>1
  <2>3. Moves(Upcoming, D, D)
    BY <2>2, CodeAssumption DEF Moves
  <2>4. Ahead(D, H)
    BY <1>2, <2>1 DEF Ahead
  <2> QED BY <2>3, <2>4
<1>4. CASE ~TimeoutDue(Top)
  <2>1. Upcoming = Head(Top.events) /\ Taken.events = Tail(Top.events)
    BY <1>1, <1>4 DEF Upcoming, Taken, Frame
  <2>2. PICK E : Moves(Head(Top.events), D, E) /\ Leads(Tail(Top.events), E, G)
    BY <1>1, <1>2, LeadsTail
  <2> QED BY <1>2, <2>1, <2>2 DEF Ahead
<1> QED BY <1>3, <1>4

LEMMA TakenKind ==
  ASSUME Processing
  PROVE  Taken.kind = Top.kind
<1>1. Top \in Frame
  BY UpcomingOK
<1> QED BY <1>1 DEF Taken, Frame

\* A frame like the one that the event was taken from, above the rest of the stack.
LEMMA RestOfStack ==
  ASSUME Processing, NEW f \in Frame, f.events = Taken.events, f.kind = Top.kind,
         NEW E, NEW H, Ahead(E, H), NEW s, s = <<f>> \o Tail(stack)
  PROVE  /\ s \in Seq(Frame) /\ Onward(s, E, H)
         /\ ChordFree(s) <=> ChordFree(stack)
         /\ ChordOnce(s) <=> ChordOnce(stack)
<1>1. stack = <<Top>> \o Tail(stack) /\ Tail(stack) \in Seq(Frame) /\ s \in Seq(Frame)
  BY UpcomingOK, TopAndTail DEF Processing, TypeInv, TypeOK, Top
<1>2. Onward(s, E, H)
  BY <1>1, OnwardPush DEF Ahead
<1>3. CASE Top.kind # "chord"
  BY <1>1, <1>2, <1>3, FrameOnTop
<1>4. CASE Top.kind = "chord"
  BY <1>1, <1>2, <1>4, FrameOnTop
<1> QED BY <1>3, <1>4

LEMMA ExitAccounts ==
  ASSUME Processing, NEW k \in Keyboard, Exit(k), Tidy(k), Conforms(k, stack),
         NEW E, NEW H, Leads(Withheld(k), DownCodes(k), E), Ahead(E, H)
  PROVE  Accounts(kbd', stack', H)
<1> DEFINE f == [Taken EXCEPT !.timer = Deadline(k, Upcoming.at)]
           j == [k EXCEPT !.timers = Later(k, Upcoming.at)]
<1>1. kbd' = j /\ stack' = <<f>> \o Tail(stack)
  BY DEF Exit
<1>2. Taken \in Frame /\ Upcoming.at \in Nat /\ k.timers \in SUBSET Nat
  BY UpcomingOK DEF Event, Keyboard
<1>3. Deadline(k, Upcoming.at) \in Nat
  BY <1>2, DeadlineType
<1>4. f \in Frame /\ f.events = Taken.events /\ f.kind = Top.kind
  BY <1>2, <1>3, TakenKind DEF Frame
<1>5. Alike(k, j)
  BY DEF Alike, Cached, Keyboard
<1> HIDE DEF f, j
<1>6. /\ Onward(stack', E, H)
      /\ ChordFree(stack') <=> ChordFree(stack)
      /\ ChordOnce(stack') <=> ChordOnce(stack)
  BY <1>1, <1>4, RestOfStack
<1>7. Tidy(j) /\ Leads(Withheld(j), DownCodes(j), E)
  BY <1>5, AlikeTidy
<1>8. Conforms(j, stack')
  BY <1>5, <1>6 DEF Conforms, Alike
<1> QED BY <1>1, <1>6, <1>7, <1>8 DEF Accounts

\* A frame of events that are replayed first.
LEMMA CallAccounts ==
  ASSUME Processing, NEW k \in Keyboard, NEW f \in Frame, Call(k, <<f>>), Tidy(k),
         IF f.kind = "chord" THEN k.chord.state = "resolving" /\ ChordFree(stack) ELSE Conforms(k, stack),
         NEW D, NEW E, NEW H, Leads(Withheld(k), DownCodes(k), D), Leads(f.events, D, E), Ahead(E, H)
  PROVE  Accounts(kbd', stack', H)
<1> DEFINE r == <<Taken>> \o Tail(stack)
<1>1. Taken \in Frame /\ Tail(stack) \in Seq(Frame)
  BY UpcomingOK
<1>2. kbd' = k /\ stack' = <<f>> \o r
  BY <1>1 DEF Call
<1>3. /\ r \in Seq(Frame) /\ Onward(r, E, H)
      /\ ChordFree(r) <=> ChordFree(stack)
      /\ ChordOnce(r) <=> ChordOnce(stack)
  BY <1>1, TakenKind, RestOfStack
<1> HIDE DEF r
<1>4. Onward(stack', D, H)
  BY <1>2, <1>3, OnwardPush
<1>5. Conforms(k, stack')
  BY <1>2, <1>3, FrameOnTop DEF Conforms
<1> QED BY <1>2, <1>4, <1>5 DEF Accounts

LEMMA TwoOnTop ==
  ASSUME NEW f \in Frame, NEW g \in Frame, NEW h \in Frame, NEW r \in Seq(Frame)
  PROVE  <<f, g>> \o <<h>> \o r = <<f>> \o (<<g>> \o (<<h>> \o r))
<1> DEFINE a == <<f, g>> \o <<h>> \o r
           b == <<f>> \o (<<g>> \o (<<h>> \o r))
           n == Len(r)
<1>1. n \in Nat /\ a \in Seq(Frame) /\ b \in Seq(Frame) /\ Len(a) = n + 3 /\ Len(b) = n + 3
  OBVIOUS
<1>2. ASSUME NEW i \in 1 .. n + 3 PROVE a[i] = b[i]
  <2>1. CASE i = 1
    BY <2>1
  <2>2. CASE i = 2
    BY <2>2
  <2>3. CASE i = 3
    BY <2>3
  <2>4. CASE i > 3
    <3>1. a[i] = r[i - 3]
      BY <1>1, <2>4
    <3>2. b[i] = r[i - 3]
      BY <1>1, <2>4
    <3> QED BY <3>1, <3>2
  <2> QED BY <1>1, <2>1, <2>2, <2>3, <2>4
<1> HIDE DEF a, b, n
<1>3. a = b
  BY <1>1, <1>2, SeqEqual
<1> QED BY <1>3 DEF a, b

LEMMA CallTwoAccounts ==
  ASSUME Processing, NEW k \in Keyboard, NEW f \in Frame, NEW g \in Frame, Call(k, <<f, g>>), Tidy(k),
         f.kind # "chord", g.kind = "chord", k.chord.state = "resolving", ChordFree(stack),
         NEW D, NEW E, NEW H, Leads(Withheld(k), DownCodes(k), D), Leads(f.events, D, D),
         Leads(g.events, D, E), Ahead(E, H)
  PROVE  Accounts(kbd', stack', H)
<1> DEFINE r == <<Taken>> \o Tail(stack)
           q == <<g>> \o r
<1>1. Taken \in Frame /\ Tail(stack) \in Seq(Frame)
  BY UpcomingOK
<1>2. kbd' = k /\ stack' = <<f>> \o q
  BY <1>1, TwoOnTop DEF Call
<1>3. /\ r \in Seq(Frame) /\ Onward(r, E, H)
      /\ ChordFree(r) <=> ChordFree(stack)
      /\ ChordOnce(r) <=> ChordOnce(stack)
  BY <1>1, TakenKind, RestOfStack
<1> HIDE DEF r
<1>4. Onward(q, D, H) /\ ChordOnce(q) /\ q \in Seq(Frame)
  <2>1. Onward(q, D, H) /\ q \in Seq(Frame)
    BY <1>3, OnwardPush
  <2>2. ChordFree(r)
    BY <1>3
  <2>3. ChordOnce(q)
    BY <1>3, <2>2, FrameOnTop
  <2> QED BY <2>1, <2>3
<1> HIDE DEF q
<1>5. Onward(stack', D, H) /\ ChordOnce(stack')
  BY <1>2, <1>4, OnwardPush, FrameOnTop
<1> QED BY <1>2, <1>5 DEF Accounts, Conforms

-----------------------------------------------------------------------------
(* What passes the chords.                                                 *)

\* What waits behind an overloaded key goes on waiting, or is replayed as it waited.
LEMMA DeferWithheld ==
  ASSUME Processing, NEW k, Result(k), Paid(k), Tidy(k), k.overload.code # NoCode, Defer(k, Upcoming)
  PROVE  /\ Withheld(k) = k.overload.queue /\ k.overload.queue \in Seq(Event)
         /\ k.chord.state = "inactive"
         /\ \E j \in Keyboard :
              /\ Tidy(j) /\ DownCodes(j) = DownCodes(k) /\ j.chord = k.chord
              /\ j.config = k.config /\ j.slots = k.slots
              /\ \A c \in Codes : Cached(j, c) <=> Cached(k, c)
              /\ \/ Exit(j) /\ Withheld(j) = Enqueue(k.overload, Upcoming).queue
                 \/ \E f \in Frame : /\ Call(j, <<f>>) /\ Withheld(j) = <<>>
                                     /\ f.events = Enqueue(k.overload, Upcoming).queue
                                     /\ f.kind = "overload"
<1> DEFINE e == Upcoming
           o == Enqueue(k.overload, e)
           action == Decision(o, e)
           none == [k EXCEPT !.overload = NoOverload]
           decided == CacheSet(none, o.code, action)
           j == Press(decided, o.code, action, e.at)
           frame == CallFrame("overload", o.queue)
           S == DownCodes(k)
<1>1. e \in Event /\ e.at \in Nat /\ k \in Keyboard /\ KeyboardOK(k)
  BY UpcomingOK DEF Event, Result, KeyboardOK
<1>2. o \in PendingOverload /\ o.queue \in Seq(Event)
  BY EnqueueOK DEF PendingOverload
<1>3. o.code = k.overload.code /\ o.action = k.overload.action
  BY <1>1 DEF Enqueue, Keyboard, PendingOverload
<1>4. Call(j, <<frame>>) \/ Exit([k EXCEPT !.overload = o])
  BY Zenon DEF Defer
<1>5. Chordless(k.config) /\ k.chord.state = "inactive" /\ k.chord.queue = <<>>
  BY DEF Tidy
<1>6. Withheld(k) = k.overload.queue /\ k.overload.queue \in Seq(Event)
  BY <1>1, <1>5, WithheldIs DEF Keyboard, PendingOverload
<1> HIDE DEF o
<1>7. action \in Descriptor /\ Plain(action)
  <2>1. Plain(o.action)
    BY <1>3 DEF Paid, TimersCached
  <2>2. Plain(action)
    BY <2>1, FreeType DEF Decision, Plain
  <2> QED BY <1>1, <1>2, <2>2, DecisionType
<1> HIDE DEF action
<1>8. ASSUME Call(j, <<frame>>)
      PROVE  /\ j \in Keyboard /\ Tidy(j) /\ Withheld(j) = <<>> /\ DownCodes(j) = S /\ j.chord = k.chord
             /\ frame \in Frame /\ frame.events = o.queue /\ frame.kind = "overload"
             /\ j.config = k.config /\ j.slots = k.slots
             /\ \A c \in Codes : Cached(j, c) <=> Cached(k, c)
  <2>1. /\ none \in Keyboard /\ none.overload = NoOverload /\ none.cache = k.cache
        /\ none.chord = k.chord /\ none.config = k.config /\ none.slots = k.slots
        /\ none.active = k.active /\ none.recent = k.recent
    <3>1. NoOverload \in PendingOverload
      BY ConfigAssumption, FreeType DEF NoOverload, PendingOverload
    <3> QED BY <1>1, <3>1 DEF Keyboard
  <2> HIDE DEF none
  <2>2. KeyboardOK(none)
    BY <1>1, <2>1, OtherFieldsOK
  <2>3. Tidy(none) /\ Withheld(none) = <<>> /\ DownCodes(none) = S
    <3>1. NoOverload.queue = <<>>
      BY DEF NoOverload
    <3>2. \A c : (Cached(none, c) <=> Cached(k, c)) /\ (Chorded(none, c) <=> Chorded(k, c))
      BY <2>1 DEF Cached, Chorded
    <3>3. SlotsApart(none)
      BY <2>1, <3>2 DEF SlotsApart, Tidy
    <3>4. Tidy(none)
      BY <1>5, <2>1, <3>1, <3>3 DEF Tidy
    <3>5. Withheld(none) = <<>>
      BY <1>5, <2>1, <3>1, <3>4, WithheldIs
    <3> QED BY <3>2, <3>4, <3>5 DEF DownCodes
  <2>4. o.code \in Codes /\ Cached(none, o.code)
    BY <1>1, <1>3, <2>1 DEF Keyboard, PendingOverload, Codes, Paid, TimersCached, Cached
  <2>5. Alike(none, decided) /\ KeyboardOK(decided)
    BY <1>7, <2>2, <2>4, ReplacedAlike DEF Plain
  <2> HIDE DEF decided
  <2>6. Alike(decided, j) /\ KeyboardOK(j)
    BY <1>1, <1>7, <2>4, <2>5, PressPlain DEF Plain, Overloading
  <2> HIDE DEF j
  <2>7. Alike(none, j) /\ j \in Keyboard
    BY <2>5, <2>6, AlikeTrans DEF KeyboardOK
  <2>8. Tidy(j) /\ Withheld(j) = <<>> /\ DownCodes(j) = S /\ j.chord = k.chord
    BY <2>1, <2>3, <2>7, AlikeTidy DEF Alike
  <2>9. frame \in Frame /\ frame.events = o.queue /\ frame.kind = "overload"
    BY <1>2 DEF CallFrame, Frame
  <2>10. /\ j.config = k.config /\ j.slots = k.slots
         /\ \A c \in Codes : Cached(j, c) <=> Cached(k, c)
    BY <2>1, <2>7 DEF Alike, Cached
  <2> QED BY <2>7, <2>8, <2>9, <2>10
<1> DEFINE i == [k EXCEPT !.overload = o]
<1>9. /\ i \in Keyboard /\ Tidy(i) /\ Withheld(i) = o.queue /\ DownCodes(i) = S /\ i.chord = k.chord
      /\ i.config = k.config /\ i.slots = k.slots
      /\ \A c \in Codes : Cached(i, c) <=> Cached(k, c)
  <2>1. /\ i \in Keyboard /\ i.overload = o /\ i.cache = k.cache
        /\ i.chord = k.chord /\ i.config = k.config /\ i.slots = k.slots
    BY <1>1, <1>2 DEF Keyboard
  <2> HIDE DEF i
  <2>2. \A c : (Cached(i, c) <=> Cached(k, c)) /\ (Chorded(i, c) <=> Chorded(k, c))
    BY <2>1 DEF Cached, Chorded
  <2>3. SlotsApart(i)
    BY <2>1, <2>2 DEF SlotsApart, Tidy
  <2>4. Tidy(i)
    BY <1>3, <1>5, <2>1, <2>3 DEF Tidy
  <2>5. Withheld(i) = o.queue
    BY <1>5, <2>1, <2>4, WithheldIs
  <2> QED BY <2>1, <2>2, <2>4, <2>5 DEF DownCodes
<1>10. CASE Call(j, <<frame>>)
  <2> HIDE DEF j, frame, S
  <2>1. \E f \in Frame : Call(j, <<f>>) /\ f.events = o.queue /\ f.kind = "overload"
    BY <1>8, <1>10
  <2> QED BY <1>5, <1>6, <1>8, <1>10, <2>1 DEF o, S
<1>11. CASE Exit(i)
  <2> HIDE DEF i, S
  <2> QED BY <1>5, <1>6, <1>9, <1>11 DEF o, S
<1> QED BY <1>4, <1>10, <1>11

LEMMA DeferAccounts ==
  ASSUME Processing, NEW k, Result(k), Paid(k), Tidy(k), Conforms(k, stack),
         k.overload.code # NoCode, Defer(k, Upcoming),
         NEW D, NEW E, NEW H, Leads(Withheld(k), DownCodes(k), D), Moves(Upcoming, D, E), Ahead(E, H)
  PROVE  Accounts(kbd', stack', H)
<1> DEFINE e == Upcoming
           q == Enqueue(k.overload, e).queue
           S == DownCodes(k)
<1>1. e \in Event /\ k.overload \in PendingOverload
  BY UpcomingOK DEF Result, KeyboardOK, Keyboard
<1>2. Withheld(k) = k.overload.queue /\ k.overload.queue \in Seq(Event) /\ k.chord.state = "inactive"
  BY DeferWithheld
<1>3. PICK j \in Keyboard :
        /\ Tidy(j) /\ DownCodes(j) = S /\ j.chord = k.chord
        /\ \/ Exit(j) /\ Withheld(j) = q
           \/ \E f \in Frame : /\ Call(j, <<f>>) /\ Withheld(j) = <<>>
                               /\ f.events = q /\ f.kind = "overload"
  BY DeferWithheld
<1>4. Leads(q, S, E)
  <2>1. CASE e.code = NoCode
    <3>1. q = k.overload.queue
      BY <2>1 DEF Enqueue
    <3>2. E = D
      BY <2>1, CodeAssumption DEF Moves
    <3> QED BY <1>2, <3>1, <3>2
  <2>2. CASE e.code # NoCode
    <3>1. q = Append(k.overload.queue, e)
      BY <1>1, <2>2 DEF Enqueue, PendingOverload
    <3> QED BY <1>1, <1>2, <3>1, LeadsAppend
  <2> QED BY <2>1, <2>2
<1>5. Conforms(j, stack)
  BY <1>3 DEF Conforms
<1>6. S \in SUBSET Code
  BY DEF DownCodes
<1> HIDE DEF q, S
<1>7. CASE Exit(j) /\ Withheld(j) = q
  BY <1>3, <1>4, <1>5, <1>7, ExitAccounts
<1>8. ASSUME NEW f \in Frame, Call(j, <<f>>), Withheld(j) = <<>>, f.events = q, f.kind = "overload"
      PROVE  Accounts(kbd', stack', H)
  <2>1. Leads(Withheld(j), DownCodes(j), S)
    BY <1>3, <1>6, <1>8, LeadsNowhere
  <2> QED BY <1>3, <1>4, <1>5, <1>8, <2>1, CallAccounts
<1> QED BY <1>3, <1>7, <1>8

LEMMA DeliverAccounts ==
  ASSUME PlainActions, Exclusive, Processing, Paid(kbd), Deliver(Upcoming),
         NEW H, Accounts(kbd, stack, H)
  PROVE  ~kbd'.aborted => Accounts(kbd', stack', H)
<1> DEFINE e == Upcoming
           k == DecideTimeout(kbd, e)
<1>1. e \in Event /\ (e.code \in Slot => kbd.slots[e.code].chord \in Chord)
  BY UpcomingOK
<1>2. KeyboardOK(kbd) /\ kbd \in Keyboard
  BY CurrentOK DEF Result
<1>3. KeyboardOK(k) /\ Kept(k, kbd) /\ Keeps(kbd, k) /\ Alike(kbd, k)
  BY <1>1, <1>2, DecideTimeoutOK, DecideTimeoutKeeps, DecideTimeoutAlike
<1>4. \/ QueueFull(k, e) /\ Exit([k EXCEPT !.aborted = TRUE])
      \/ Waits(k, e) /\ Defer(k, e)
      \/ ~Waits(k, e) /\ Exit(Strike(k, e))
  BY DEF Deliver
<1>5. PassesChord(e)
  BY DEF Deliver
<1> HIDE DEF k
<1>6. Result(k) /\ k \in Keyboard /\ Paid(k)
  BY <1>3, KeptResult DEF KeyboardOK, Keeps
<1>7. PICK D : Leads(Withheld(kbd), DownCodes(kbd), D) /\ Onward(stack, D, H)
  BY DEF Accounts
<1>8. PICK E : Moves(e, D, E) /\ Ahead(E, H)
  BY <1>7, EventAhead
<1>9. Tidy(k) /\ Leads(Withheld(k), DownCodes(k), D) /\ Conforms(k, stack)
  <2>1. Tidy(k) /\ Leads(Withheld(k), DownCodes(k), D)
    BY <1>2, <1>3, <1>7, AlikeTidy DEF Accounts
  <2> QED BY <1>3, <2>1 DEF Accounts, Conforms, Alike
<1>10. CASE QueueFull(k, e) /\ Exit([k EXCEPT !.aborted = TRUE])
  <2>1. kbd'.aborted = TRUE
    BY <1>6, <1>10 DEF Exit, Keyboard
  <2> QED BY <2>1
<1>11. CASE Waits(k, e) /\ Defer(k, e)
  BY <1>6, <1>8, <1>9, <1>11, DeferAccounts DEF Waits
<1>12. CASE ~Waits(k, e) /\ Exit(Strike(k, e))
  <2> DEFINE j == Strike(k, e)
  <2>1. e.code \in Slot => k.slots[e.code].chord \in Chord
    BY <1>1, <1>6 DEF Result
  <2>2. KeyboardOK(j) /\ Kept(j, k)
    BY <1>1, <1>3, <2>1, StrikeOK
  <2>3. e.code # NoCode => k.chord.state \in {"inactive", "resolving"}
    BY <1>3, <1>5 DEF PassesChord, Alike
  <2>4. ~e.pressed => ~Chorded(k, e.code)
    <3>1. Releasing(e) = {}
      BY <1>5 DEF PassesChord
    <3> QED BY <1>3, <3>1 DEF Releasing, Chorded, Alike
  <2>5. Tidy(j) /\ Leads(Withheld(j), DownCodes(j), E)
    BY <1>1, <1>3, <1>8, <1>9, <1>12, <2>1, <2>3, <2>4, StrikeAccounts
  <2> HIDE DEF j
  <2>6. j \in Keyboard /\ Conforms(j, stack)
    BY <1>9, <2>2 DEF KeyboardOK, Kept, Conforms
  <2>7. Exit(j)
    BY <1>12 DEF j
  <2> QED BY <1>8, <2>5, <2>6, <2>7, ExitAccounts
<1> QED BY <1>4, <1>10, <1>11, <1>12

-----------------------------------------------------------------------------
(* Chords that begin, are resolved, and are released.                      *)

\* A keyboard that may have chords pending.
Ready(k) == /\ ~Chordless(k.config) /\ k.overload.code = NoCode /\ k.overload.queue = <<>>
            /\ SlotsApart(k)

LEMMA TidyReady ==
  ASSUME NEW k, Tidy(k), ~Chordless(k.config)
  PROVE  Ready(k)
BY DEF Tidy, Ready

LEMMA ChordFields ==
  ASSUME NEW k \in Keyboard, Ready(k), NEW c \in Chording, NEW j, j = [k EXCEPT !.chord = c]
  PROVE  /\ j \in Keyboard /\ j.chord = c /\ j.slots = k.slots /\ j.cache = k.cache
         /\ j.config = k.config /\ j.overload = k.overload
         /\ j.aborted = k.aborted /\ Ready(j) /\ DownCodes(j) = DownCodes(k)
         /\ \A x : Chorded(j, x) <=> Chorded(k, x)
<1>1. /\ j \in Keyboard /\ j.chord = c /\ j.slots = k.slots /\ j.cache = k.cache
      /\ j.config = k.config /\ j.overload = k.overload /\ j.aborted = k.aborted
  BY DEF Keyboard
<1>2. \A x : (Cached(j, x) <=> Cached(k, x)) /\ (Chorded(j, x) <=> Chorded(k, x))
  BY <1>1 DEF Cached, Chorded
<1>3. SlotsApart(j)
  BY <1>1, <1>2 DEF SlotsApart, Ready
<1> QED BY <1>1, <1>2, <1>3 DEF Ready, DownCodes

LEMMA HoldingTidy ==
  ASSUME NEW k \in Keyboard, Ready(k), k.chord.state \in {"pending", "hold"},
         NotReleasing(k, k.chord.queue)
  PROVE  Tidy(k) /\ Withheld(k) = k.chord.queue
<1>1. Tidy(k)
  BY DEF Tidy, Ready
<1> QED BY <1>1, WithheldIs

LEMMA ResolvingTidy ==
  ASSUME NEW k \in Keyboard, Ready(k), k.chord.state = "resolving"
  PROVE  Tidy(k) /\ Withheld(k) = <<>>
BY DEF Tidy, Ready, Withheld

LEMMA ResolveAccounts ==
  ASSUME Processing, NEW k \in Keyboard, Ready(k), ChordFree(stack), NEW q \in Seq(Event),
         NEW match \in Chord \cup {NoChord}, match # NoChord => Presented(q, match),
         NEW E, NEW H, Leads(q, DownCodes(k), E), Ahead(E, H), Resolve(k, q, match)
  PROVE  ~kbd'.aborted => Accounts(kbd', stack', H)
<1> DEFINE free == {s \in Slot : ~k.slots[s].on}
           slot == Least(free)
           press == [code |-> slot, pressed |-> TRUE, at |-> k.chord.last]
           rest == CallFrame("chord", Rest(q, match))
           c == [k.chord EXCEPT !.state = "resolving", !.queue = q, !.match = match]
           r == Resolving(k, q, match)
           started == Started(k, q, match, slot)
           S == DownCodes(k)
<1>1. k.chord \in Chording /\ k.slots \in [Slot -> ActiveChord]
  BY DEF Keyboard
<1>2. r = [k EXCEPT !.chord = c]
  BY <1>1 DEF Resolving, Keyboard, Chording
<1>3. c \in Chording /\ c.state = "resolving"
  BY <1>1 DEF Chording
<1> HIDE DEF c, r
<1>4. /\ r \in Keyboard /\ Ready(r) /\ r.slots = k.slots /\ DownCodes(r) = S /\ r.chord = c
      /\ r.cache = k.cache
  BY <1>2, <1>3, ChordFields
<1>5. S \in SUBSET Code /\ E \in SUBSET Code
  BY LeadsType
<1>6. CASE match = NoChord
  <2>1. Call(r, <<rest>>)
    BY <1>6 DEF Resolve, Resolving, r
  <2>2. Rest(q, match) = q
    BY <1>6 DEF Rest
  <2>3. rest \in Frame /\ rest.events = q /\ rest.kind = "chord"
    BY <2>2 DEF CallFrame, Frame
  <2> HIDE DEF rest, S
  <2>4. Tidy(r) /\ Withheld(r) = <<>>
    BY <1>3, <1>4, ResolvingTidy
  <2>5. Leads(Withheld(r), DownCodes(r), S) /\ Leads(q, S, E)
    BY <1>4, <1>5, <2>4, LeadsNowhere DEF S
  <2>6. IF rest.kind = "chord" THEN r.chord.state = "resolving" /\ ChordFree(stack) ELSE Conforms(r, stack)
    BY <1>3, <1>4, <2>3
  <2> QED BY <1>4, <2>1, <2>3, <2>4, <2>5, <2>6, CallAccounts
<1>7. CASE match # NoChord /\ free = {}
  <2>1. Exit([k EXCEPT !.aborted = TRUE])
    BY <1>7 DEF Resolve
  <2>2. kbd'.aborted = TRUE
    BY <2>1 DEF Exit, Keyboard
  <2> QED BY <2>2
<1>8. CASE match # NoChord /\ free # {}
  <2> DEFINE a == [on |-> TRUE, chord |-> match, keys |-> ChordKeys[match]]
             x == [k.slots EXCEPT ![slot] = a]
             code == CallFrame("code", <<press>>)
  <2>1. Call(started, <<code, rest>>)
    BY <1>8 DEF Resolve, Resolving, Started
  <2>2. slot \in Slot /\ ~k.slots[slot].on
    <3>1. free \in SUBSET Nat
      BY CodeAssumption DEF Slot
    <3>2. slot \in free
      BY <1>8, <3>1, LeastIsMember
    <3> QED BY <3>2
  <2>3. press \in Event /\ press.code = slot /\ slot \notin Code
    BY <1>1, <2>2, CodeAssumption DEF Event, Chording
  <2>4. started = [r EXCEPT !.slots = x]
    BY <1>4 DEF Started, r, Keyboard
  <2> HIDE DEF slot, press
  <2>5. a \in ActiveChord /\ a.on /\ a.keys = ChordKeys[match] /\ match \in Chord
    BY <1>8, ChordAssumption DEF ActiveChord
  <2> HIDE DEF a
  <2>6. x \in [Slot -> ActiveChord] /\ x[slot] = a /\ \A s \in Slot : s # slot => x[s] = k.slots[s]
    BY <1>1, <2>2, <2>5
  <2> HIDE DEF x, started
  <2>7. /\ started \in Keyboard /\ started.slots = x /\ started.chord = c /\ started.cache = k.cache
        /\ started.config = r.config /\ started.overload = r.overload
    BY <1>4, <2>4, <2>6 DEF Keyboard
  <2>8. (\A b \in ChordKeys[match] : b \notin S) /\ Leads(Rest(q, match), S \cup ChordKeys[match], E)
    BY <1>8, <2>5, LeadsPresented
  <2>9. \A b : Chorded(started, b) <=> Chorded(k, b) \/ b \in ChordKeys[match]
    BY <2>2, <2>5, <2>6, <2>7 DEF Chorded
  <2>10. \A b : Cached(started, b) <=> Cached(k, b)
    BY <2>7 DEF Cached
  <2>11. ChordKeys[match] \subseteq Code
    BY <2>5, ChordAssumption
  <2>12. DownCodes(started) = S \cup ChordKeys[match]
    BY <2>9, <2>10, <2>11 DEF DownCodes
  <2>13. SlotsApart(started)
    <3>1. SlotsApart(k)
      BY DEF Ready
    <3>2. ASSUME NEW s \in Slot, x[s].on, NEW b \in x[s].keys PROVE ~Cached(started, b)
      <4>1. CASE s = slot
        BY <2>5, <2>6, <2>8, <2>10, <2>11, <3>2, <4>1 DEF DownCodes
      <4>2. CASE s # slot
        BY <2>6, <2>10, <3>1, <3>2, <4>2 DEF SlotsApart
      <4> QED BY <4>1, <4>2
    <3>3. ASSUME NEW s \in Slot, x[s].on, s # slot, NEW b \in x[s].keys PROVE b \notin ChordKeys[match]
      <4>1. Chorded(k, b)
        BY <2>6, <3>3 DEF Chorded
      <4> QED BY <2>8, <2>11, <4>1 DEF DownCodes
    <3>4. ASSUME NEW s \in Slot, x[s].on, NEW b \in x[s].keys, NEW t \in Slot, x[t].on, b \in x[t].keys
          PROVE  t = s
      <4>1. CASE s = slot \/ t = slot
        BY <2>5, <2>6, <3>3, <3>4, <4>1
      <4>2. CASE s # slot /\ t # slot
        BY <2>6, <3>1, <3>4, <4>2 DEF SlotsApart
      <4> QED BY <4>1, <4>2
    <3> QED BY <2>7, <3>2, <3>4 DEF SlotsApart
  <2>14. Ready(started)
    BY <1>4, <2>7, <2>13 DEF Ready
  <2>15. Tidy(started) /\ Withheld(started) = <<>>
    BY <1>3, <2>7, <2>14, ResolvingTidy
  <2> DEFINE T == S \cup ChordKeys[match]
  <2>16. T \in SUBSET Code
    BY <1>5, <2>11
  <2>17. code \in Frame /\ code.events = <<press>> /\ code.kind = "code"
    BY <2>3 DEF CallFrame, Frame
  <2>18. rest \in Frame /\ rest.events = Rest(q, match) /\ rest.kind = "chord"
    <3>1. Rest(q, match) \in Seq(Event)
      <4>1. Cardinality(ChordKeys[match]) \in Nat
        BY <2>5, SizeType
      <4> QED BY <4>1 DEF Rest
    <3> QED BY <3>1 DEF CallFrame, Frame
  <2> HIDE DEF T, S, code, rest
  <2>19. Leads(code.events, T, T)
    <3>1. Moves(press, T, T)
      BY <2>3 DEF Moves
    <3> QED BY <2>3, <2>16, <2>17, <3>1, LeadsOne
  <2>20. Leads(Withheld(started), DownCodes(started), T)
    BY <2>12, <2>15, <2>16, LeadsNowhere DEF T
  <2>21. Leads(rest.events, T, E)
    BY <2>8, <2>18 DEF T
  <2>22. started.chord.state = "resolving"
    BY <1>3, <2>7
  <2> QED BY <2>1, <2>7, <2>15, <2>17, <2>18, <2>19, <2>20, <2>21, <2>22, CallTwoAccounts
<1> QED BY <1>6, <1>7, <1>8

\* A keyboard that waits with chords, as it is stored when a handler ends.
LEMMA HoldingAccounts ==
  ASSUME Processing, ChordFree(stack), NEW k \in Keyboard, Ready(k),
         k.chord.state \in {"pending", "hold"}, NotReleasing(k, k.chord.queue),
         NEW j \in Keyboard, Alike(k, j), Exit(j),
         NEW E, NEW H, Leads(k.chord.queue, DownCodes(k), E), Ahead(E, H)
  PROVE  Accounts(kbd', stack', H)
<1>1. Tidy(k) /\ Withheld(k) = k.chord.queue
  BY HoldingTidy
<1>2. Tidy(j) /\ Withheld(j) = k.chord.queue /\ DownCodes(j) = DownCodes(k)
  BY <1>1, AlikeTidy
<1>3. Conforms(j, stack)
  BY DEF Conforms, Alike
<1> QED BY <1>2, <1>3, ExitAccounts

LEMMA ScheduleAlike ==
  ASSUME NEW k \in Keyboard, NEW t \in Nat
  PROVE  Schedule(k, t) \in Keyboard /\ Alike(k, Schedule(k, t))
<1> DEFINE j == Schedule(k, t)
<1>1. /\ j \in Keyboard /\ j.config = k.config /\ j.chord = k.chord /\ j.overload = k.overload
      /\ j.slots = k.slots /\ j.cache = k.cache
  BY DEF Schedule, Keyboard
<1> HIDE DEF j
<1>2. j \in Keyboard /\ Alike(k, j)
  BY <1>1 DEF Alike, Cached
<1> QED BY <1>2 DEF j

LEMMA PressedNotReleasing ==
  ASSUME NEW k, NEW q, \A i \in DOMAIN q : q[i].pressed
  PROVE  NotReleasing(k, q)
BY DEF NotReleasing

LEMMA AdvanceAccounts ==
  ASSUME Processing, Ready(kbd), ChordFree(stack),
         NEW q \in Seq(Event), \A i \in DOMAIN q : q[i].pressed,
         NEW old \in Chord \cup {NoChord}, old # NoChord => Presented(q, old),
         NEW t \in Nat, Advance(q, old, t),
         NEW E, NEW H, Leads(q, DownCodes(kbd), E), Ahead(E, H)
  PROVE  ~kbd'.aborted => Accounts(kbd', stack', H)
<1> DEFINE match == Match(kbd, q, old)
           unambiguous == Full(kbd, q) # {} /\ Partial(kbd, q) = Full(kbd, q)
           c == [state |-> IF unambiguous THEN "hold" ELSE "pending",
                 queue |-> q, match |-> match, last |-> t]
           waiting == [kbd EXCEPT !.chord = c]
<1>1. kbd \in Keyboard /\ KeyboardOK(kbd)
  BY CurrentOK DEF Result
<1>2. match # NoChord => Presented(q, match)
  BY <1>1, MatchPresented
<1>3. match \in Chord \cup {NoChord}
  BY <1>1, MatchType
<1>4. \/ Exit(Schedule(waiting, t + kbd.config.interkey))
      \/ Exit(Schedule(waiting, t + kbd.config.hold))
      \/ Resolve(waiting, q, match)
  BY Zenon DEF Advance
<1>5. c \in Chording /\ c.state \in {"pending", "hold"} /\ c.queue = q
  BY <1>3 DEF Chording
<1> HIDE DEF c, match
<1>6. waiting \in Keyboard /\ waiting.chord = c /\ Ready(waiting) /\ DownCodes(waiting) = DownCodes(kbd)
  BY <1>1, <1>5, ChordFields
<1> HIDE DEF waiting
<1>7. NotReleasing(waiting, waiting.chord.queue)
  BY <1>5, <1>6, PressedNotReleasing
<1>8. ASSUME NEW n \in Nat, Exit(Schedule(waiting, n))
      PROVE  Accounts(kbd', stack', H)
  <2> DEFINE j == Schedule(waiting, n)
  <2>1. j \in Keyboard /\ Alike(waiting, j)
    BY <1>6, ScheduleAlike
  <2>2. Exit(j)
    BY <1>8
  <2> HIDE DEF j
  <2> QED BY <1>5, <1>6, <1>7, <2>1, <2>2, HoldingAccounts
<1>9. t + kbd.config.interkey \in Nat /\ t + kbd.config.hold \in Nat
  BY CurrentOK
<1>10. CASE Resolve(waiting, q, match)
  BY <1>2, <1>3, <1>6, <1>10, ResolveAccounts
<1> QED BY <1>4, <1>8, <1>9, <1>10

\* What a chord's handler starts from.
LEMMA ChordNews ==
  ASSUME Processing, NEW H, Accounts(kbd, stack, H)
  PROVE  /\ kbd \in Keyboard /\ Tidy(kbd) /\ Conforms(kbd, stack)
         /\ Upcoming \in Event /\ Upcoming.at \in Nat
         /\ \E D, E : /\ Leads(Withheld(kbd), DownCodes(kbd), D)
                      /\ Moves(Upcoming, D, E) /\ Ahead(E, H)
<1>1. PICK D : Leads(Withheld(kbd), DownCodes(kbd), D) /\ Onward(stack, D, H)
  BY DEF Accounts
<1>2. \E E : Moves(Upcoming, D, E) /\ Ahead(E, H)
  BY <1>1, EventAhead
<1>3. Upcoming \in Event /\ Upcoming.at \in Nat
  BY UpcomingOK DEF Event
<1> QED BY <1>1, <1>2, <1>3, CurrentOK DEF Accounts

LEMMA BeginAccounts ==
  ASSUME Processing, NEW H, Accounts(kbd, stack, H), BeginChord(Upcoming)
  PROVE  ~kbd'.aborted => Accounts(kbd', stack', H)
<1> DEFINE e == Upcoming
<1>1. kbd \in Keyboard /\ Tidy(kbd) /\ Conforms(kbd, stack) /\ e \in Event /\ e.at \in Nat
  BY ChordNews
<1>2. PICK D, E : Leads(Withheld(kbd), DownCodes(kbd), D) /\ Moves(e, D, E) /\ Ahead(E, H)
  BY ChordNews
<1>3. ~Chordless(kbd.config) /\ kbd.chord.state = "inactive" /\ Advance(<<e>>, NoChord, e.at)
      /\ Presses(<<e>>) # {}
  BY DEF BeginChord, Partial, Chordless
<1>4. Ready(kbd) /\ ChordFree(stack)
  BY <1>1, <1>3, TidyReady DEF Conforms
<1>5. Withheld(kbd) = <<>>
  BY <1>1, <1>3, WithheldIs DEF Tidy
<1>6. DownCodes(kbd) \in SUBSET Code
  BY DEF DownCodes
<1>7. D = DownCodes(kbd)
  BY <1>2, <1>5, <1>6, LeadsNowhere
<1>8. Leads(<<e>>, DownCodes(kbd), E)
  BY <1>1, <1>2, <1>6, <1>7, LeadsOne
<1>9. <<e>> \in Seq(Event) /\ \A i \in DOMAIN <<e>> : <<e>>[i].pressed
  BY <1>1, <1>3 DEF Presses
<1>10. NoChord \in Chord \cup {NoChord}
  OBVIOUS
<1> HIDE DEF e
<1> QED BY <1>1, <1>2, <1>3, <1>4, <1>8, <1>9, <1>10, AdvanceAccounts

\* ... and if the chord is pending or held.
LEMMA HoldingNews ==
  ASSUME Processing, NEW H, Accounts(kbd, stack, H), kbd.chord.state \in {"pending", "hold"}
  PROVE  /\ Ready(kbd) /\ ChordFree(stack) /\ NotReleasing(kbd, kbd.chord.queue)
         /\ kbd.chord.queue \in Seq(Event)
         /\ \E D, E : /\ Leads(kbd.chord.queue, DownCodes(kbd), D)
                      /\ Leads(Append(kbd.chord.queue, Upcoming), DownCodes(kbd), E)
                      /\ Upcoming.code = NoCode => E = D
                      /\ Ahead(E, H)
<1> DEFINE e == Upcoming
<1>1. kbd \in Keyboard /\ Tidy(kbd) /\ Conforms(kbd, stack) /\ e \in Event
  BY ChordNews
<1>2. PICK D, E : Leads(Withheld(kbd), DownCodes(kbd), D) /\ Moves(e, D, E) /\ Ahead(E, H)
  BY ChordNews
<1>3. ~Chordless(kbd.config) /\ NotReleasing(kbd, kbd.chord.queue)
  BY <1>1 DEF Tidy
<1>4. Ready(kbd) /\ ChordFree(stack)
  BY <1>1, <1>3, TidyReady DEF Conforms
<1>5. Withheld(kbd) = kbd.chord.queue /\ kbd.chord.queue \in Seq(Event)
  BY <1>1, WithheldIs, CurrentOK
<1>6. Leads(Append(kbd.chord.queue, e), DownCodes(kbd), E)
  BY <1>1, <1>2, <1>5, LeadsAppend
<1>7. e.code = NoCode => E = D
  BY <1>2, CodeAssumption DEF Moves
<1> QED BY <1>2, <1>3, <1>4, <1>5, <1>6, <1>7

LEMMA ExtendAccounts ==
  ASSUME Processing, Matched(kbd.chord), NEW H, Accounts(kbd, stack, H), ExtendChord(Upcoming)
  PROVE  ~kbd'.aborted => Accounts(kbd', stack', H)
<1> DEFINE q == Append(kbd.chord.queue, Upcoming)
           old == kbd.chord.match
<1>1. q \in Seq(Event) /\ kbd \in Keyboard /\ Upcoming \in Event /\ Upcoming.at \in Nat
      /\ old \in Chord \cup {NoChord} /\ kbd.chord.queue \in Seq(Event)
  BY QueueOK, UpcomingOK, CurrentOK DEF Event
<1>2. \/ Exit([kbd EXCEPT !.aborted = TRUE])
      \/ Upcoming.pressed /\ Advance(q, old, Upcoming.at)
      \/ Resolve(kbd, q, NoChord)
  BY DEF ExtendChord, Abort
<1>3. old # NoChord => Presented(q, old)
  BY <1>1, PresentedLonger DEF Matched, ExtendChord
<1>4. Upcoming.pressed => \A i \in DOMAIN q : q[i].pressed
  <2>1. \A i \in DOMAIN kbd.chord.queue : kbd.chord.queue[i].pressed
    BY DEF Matched, ExtendChord
  <2> QED BY <1>1, <2>1
<1>5. kbd.chord.state \in {"pending", "hold"}
  BY DEF ExtendChord
<1>6. Ready(kbd) /\ ChordFree(stack)
  BY <1>5, HoldingNews
<1>7. PICK E : Leads(q, DownCodes(kbd), E) /\ Ahead(E, H)
  BY <1>5, HoldingNews
<1> HIDE DEF q, old
<1>8. CASE Exit([kbd EXCEPT !.aborted = TRUE])
  <2>1. kbd'.aborted = TRUE
    BY <1>1, <1>8 DEF Exit, Keyboard
  <2> QED BY <2>1
<1>9. CASE Upcoming.pressed /\ Advance(q, old, Upcoming.at)
  BY <1>1, <1>3, <1>4, <1>6, <1>7, <1>9, AdvanceAccounts
<1>10. CASE Resolve(kbd, q, NoChord)
  BY <1>1, <1>6, <1>7, <1>10, ResolveAccounts
<1> QED BY <1>2, <1>8, <1>9, <1>10

LEMMA LapseAccounts ==
  ASSUME Processing, Matched(kbd.chord), NEW H, Accounts(kbd, stack, H), LapseChord(Upcoming)
  PROVE  ~kbd'.aborted => Accounts(kbd', stack', H)
<1> DEFINE c == [kbd.chord EXCEPT !.state = "hold"]
           k == [kbd EXCEPT !.chord = c]
           t == Upcoming.at + (kbd.config.hold - kbd.config.interkey)
           q == kbd.chord.queue
<1>1. kbd \in Keyboard /\ kbd.chord \in Chording /\ Upcoming.at \in Nat /\ q \in Seq(Event)
      /\ kbd.chord.match \in Chord \cup {NoChord}
  BY CurrentOK, UpcomingOK DEF Event
<1>2. [kbd EXCEPT !.chord.state = "hold"] = k
  BY <1>1 DEF Keyboard
<1>3. \/ kbd.config.hold > kbd.config.interkey /\ Exit(Schedule(k, t))
      \/ \E m \in {NoChord, kbd.chord.match} : Resolve(kbd, q, m)
  BY <1>2 DEF LapseChord, Abort
<1>4. kbd.chord.state = "pending" /\ Upcoming.code = NoCode
  BY DEF LapseChord
<1>5. Ready(kbd) /\ ChordFree(stack) /\ NotReleasing(kbd, q)
  BY <1>4, HoldingNews
<1>6. PICK E : Leads(q, DownCodes(kbd), E) /\ Ahead(E, H)
  BY <1>4, HoldingNews
<1>7. kbd.chord.match # NoChord => Presented(q, kbd.chord.match)
  BY <1>4 DEF Matched
<1>8. CASE kbd.config.hold > kbd.config.interkey /\ Exit(Schedule(k, t))
  <2>1. t \in Nat
    BY <1>1, <1>8, CurrentOK
  <2>2. c \in Chording /\ c.state = "hold" /\ c.queue = q
    BY <1>1 DEF Chording
  <2> HIDE DEF c, q, t
  <2>3. /\ k \in Keyboard /\ k.chord = c /\ Ready(k) /\ DownCodes(k) = DownCodes(kbd)
        /\ \A x : Chorded(k, x) <=> Chorded(kbd, x)
    BY <1>1, <1>5, <2>2, ChordFields
  <2>4. Exit(Schedule(k, t))
    BY <1>8
  <2> HIDE DEF k
  <2>5. NotReleasing(k, q)
    BY <1>5, <2>3 DEF NotReleasing
  <2> DEFINE j == Schedule(k, t)
  <2>6. j \in Keyboard /\ Alike(k, j) /\ Exit(j)
    BY <2>1, <2>3, <2>4, ScheduleAlike
  <2> HIDE DEF j
  <2> QED BY <1>5, <1>6, <2>2, <2>3, <2>5, <2>6, HoldingAccounts
<1>9. ASSUME NEW m \in {NoChord, kbd.chord.match}, Resolve(kbd, q, m)
      PROVE  ~kbd'.aborted => Accounts(kbd', stack', H)
  <2>1. m \in Chord \cup {NoChord} /\ (m # NoChord => Presented(q, m))
    BY <1>1, <1>7
  <2> HIDE DEF q
  <2> QED BY <1>1, <1>5, <1>6, <1>9, <2>1, ResolveAccounts
<1> QED BY <1>3, <1>8, <1>9

LEMMA HoldAccounts ==
  ASSUME Processing, NEW H, Accounts(kbd, stack, H), HoldChord(Upcoming)
  PROVE  ~kbd'.aborted => Accounts(kbd', stack', H)
<1> DEFINE e == Upcoming
           q == Append(kbd.chord.queue, e)
           c == [kbd.chord EXCEPT !.queue = q]
           k == [kbd EXCEPT !.chord = c]
<1>1. q \in Seq(Event) /\ kbd \in Keyboard /\ e \in Event /\ kbd.chord \in Chording
      /\ kbd.chord.queue \in Seq(Event)
  BY QueueOK, UpcomingOK, CurrentOK
<1>2. [kbd EXCEPT !.chord.queue = q] = k
  BY <1>1 DEF Keyboard
<1>3. \/ Exit([kbd EXCEPT !.aborted = TRUE])
      \/ Resolve(kbd, q, NoChord)
      \/ Exit(k)
  BY <1>2, Zenon DEF HoldChord, Abort
<1>4. kbd.chord.state = "hold" /\ Releasing(e) = {}
  BY DEF HoldChord
<1>5. Ready(kbd) /\ ChordFree(stack) /\ NotReleasing(kbd, kbd.chord.queue)
  BY <1>4, HoldingNews
<1>6. PICK E : Leads(q, DownCodes(kbd), E) /\ Ahead(E, H)
  BY <1>4, HoldingNews
<1>7. NotReleasing(kbd, q)
  <2>1. e.pressed \/ ~Chorded(kbd, e.code)
    BY <1>4 DEF Releasing, Chorded
  <2> QED BY <1>1, <1>5, <2>1 DEF NotReleasing
<1>8. CASE Exit([kbd EXCEPT !.aborted = TRUE])
  <2>1. kbd'.aborted = TRUE
    BY <1>1, <1>8 DEF Exit, Keyboard
  <2> QED BY <2>1
<1>9. CASE Resolve(kbd, q, NoChord)
  <2> HIDE DEF q
  <2> QED BY <1>1, <1>5, <1>6, <1>9, ResolveAccounts
<1>10. CASE Exit(k)
  <2> HIDE DEF q
  <2>1. c \in Chording /\ c.state = "hold" /\ c.queue = q
    BY <1>1, <1>4 DEF Chording
  <2> HIDE DEF c
  <2>2. /\ k \in Keyboard /\ k.chord = c /\ Ready(k) /\ DownCodes(k) = DownCodes(kbd)
        /\ \A x : Chorded(k, x) <=> Chorded(kbd, x)
    BY <1>1, <1>5, <2>1, ChordFields
  <2> HIDE DEF k
  <2>3. NotReleasing(k, q)
    BY <1>7, <2>2 DEF NotReleasing
  <2>4. Alike(k, k)
    BY DEF Alike
  <2> QED BY <1>5, <1>6, <1>10, <2>1, <2>2, <2>3, <2>4, HoldingAccounts
<1> QED BY <1>3, <1>8, <1>9, <1>10

LEMMA FireAccounts ==
  ASSUME Processing, Matched(kbd.chord), NEW H, Accounts(kbd, stack, H), FireChord(Upcoming)
  PROVE  ~kbd'.aborted => Accounts(kbd', stack', H)
<1> DEFINE q == kbd.chord.queue
           m == kbd.chord.match
<1>1. kbd \in Keyboard /\ q \in Seq(Event) /\ m \in Chord \cup {NoChord}
  BY CurrentOK
<1>2. kbd.chord.state = "hold" /\ Upcoming.code = NoCode /\ Resolve(kbd, q, m)
  BY DEF FireChord
<1>3. Ready(kbd) /\ ChordFree(stack)
  BY <1>2, HoldingNews
<1>4. PICK E : Leads(q, DownCodes(kbd), E) /\ Ahead(E, H)
  BY <1>2, HoldingNews
<1>5. m # NoChord => Presented(q, m)
  BY <1>2 DEF Matched
<1> HIDE DEF q, m
<1> QED BY <1>1, <1>2, <1>3, <1>4, <1>5, ResolveAccounts

\* The release of a chord's key takes it out of the chord; nothing that waits is of it.
LEMMA ReleaseAccounts ==
  ASSUME Processing, NEW H, Accounts(kbd, stack, H), ReleaseChordKey(Upcoming)
  PROVE  Accounts(kbd', stack', H)
<1> DEFINE e == Upcoming
           s == Least(Releasing(e))
           b == e.code
           lifted == Lift(kbd, s, b)
           release == [code |-> s, pressed |-> FALSE, at |-> e.at]
           S == DownCodes(kbd)
<1>1. kbd \in Keyboard /\ Tidy(kbd) /\ Conforms(kbd, stack) /\ e \in Event /\ e.at \in Nat
  BY ChordNews
<1>2. PICK D, E : Leads(Withheld(kbd), S, D) /\ Moves(e, D, E) /\ Ahead(E, H)
  BY ChordNews
<1>3. s \in Slot /\ kbd.slots[s].on /\ b \in kbd.slots[s].keys /\ ~e.pressed
  <2>1. Releasing(e) # {} /\ Releasing(e) \in SUBSET Nat
    BY CodeAssumption DEF ReleaseChordKey, Releasing, Slot
  <2>2. s \in Releasing(e)
    BY <2>1, LeastIsMember
  <2> QED BY <2>2 DEF Releasing
<1>4. Exit(lifted) \/ Call(lifted, <<CallFrame("code", <<release>>)>>)
  BY DEF ReleaseChordKey
<1> HIDE DEF s
<1>5. kbd.slots \in [Slot -> ActiveChord]
  BY <1>1 DEF Keyboard
<1>6. b \in Code /\ Chorded(kbd, b) /\ ~Cached(kbd, b)
  <2>1. b \in Code
    BY <1>3, <1>5 DEF ActiveChord
  <2> QED BY <1>1, <1>3, <2>1 DEF Chorded, Tidy, SlotsApart
<1>7. b \in S /\ b \in D /\ E = D \ {b}
  BY <1>2, <1>3, <1>6 DEF DownCodes, Moves
<1>8. ~Chordless(kbd.config) /\ kbd.overload.queue = <<>>
  BY <1>1, <1>3 DEF Tidy
<1>9. Withheld(kbd) \in Seq(Event) /\ \A i \in 1 .. Len(Withheld(kbd)) : Withheld(kbd)[i].code # b
  <2>1. CASE kbd.chord.state \in {"inactive", "resolving"}
    <3>1. Withheld(kbd) = <<>>
      BY <1>1, <1>8, <2>1, WithheldIs
    <3> QED BY <3>1
  <2>2. CASE kbd.chord.state \in {"pending", "hold"}
    <3>1. Withheld(kbd) = kbd.chord.queue /\ Withheld(kbd) \in Seq(Event)
      BY <1>1, <2>2, WithheldIs
    <3>2. \A i \in 1 .. Len(Withheld(kbd)) : Withheld(kbd)[i].code = b => Withheld(kbd)[i].pressed
      BY <1>1, <1>6, <2>2, <3>1 DEF Tidy, NotReleasing
    <3> QED BY <1>2, <1>6, <1>7, <3>1, <3>2, LeadsOpen
  <2> QED BY <1>1, <2>1, <2>2, WithheldIs
<1>10. Leads(Withheld(kbd), S \ {b}, E)
  BY <1>2, <1>7, <1>9, LeadsAround
<1> DEFINE a == [kbd.slots[s] EXCEPT !.keys = @ \ {b}, !.on = kbd.slots[s].keys # {b}]
           x == [kbd.slots EXCEPT ![s] = a]
<1>11. /\ a \in ActiveChord /\ a.keys = kbd.slots[s].keys \ {b}
       /\ a.on <=> kbd.slots[s].keys # {b}
  BY <1>3, <1>5 DEF ActiveChord
<1>12. lifted = [kbd EXCEPT !.slots = x]
  BY <1>1, <1>3, <1>5 DEF Lift, Keyboard, ActiveChord
<1> HIDE DEF a, lifted
<1>13. x \in [Slot -> ActiveChord] /\ x[s] = a /\ \A n \in Slot : n # s => x[n] = kbd.slots[n]
  BY <1>3, <1>5, <1>11
<1> HIDE DEF x
<1>14. /\ lifted \in Keyboard /\ lifted.slots = x /\ lifted.chord = kbd.chord
       /\ lifted.cache = kbd.cache /\ lifted.config = kbd.config
       /\ lifted.overload = kbd.overload
  BY <1>1, <1>12, <1>13 DEF Keyboard
<1> HIDE DEF b
<1>15. \A n \in Slot : \A c :
         x[n].on /\ c \in x[n].keys <=> kbd.slots[n].on /\ c \in kbd.slots[n].keys /\ c # b
  <2>1. SlotsApart(kbd)
    BY <1>1 DEF Tidy
  <2>2. \A n \in Slot : kbd.slots[n].on /\ b \in kbd.slots[n].keys => n = s
    BY <1>3, <2>1 DEF SlotsApart
  <2>3. ASSUME NEW c PROVE x[s].on /\ c \in x[s].keys <=> kbd.slots[s].on /\ c \in kbd.slots[s].keys /\ c # b
    BY <1>3, <1>11, <1>13
  <2>4. ASSUME NEW n \in Slot, n # s, NEW c
        PROVE  x[n].on /\ c \in x[n].keys <=> kbd.slots[n].on /\ c \in kbd.slots[n].keys /\ c # b
    BY <1>13, <2>2, <2>4
  <2> QED BY <2>3, <2>4
<1>16. \A c : Cached(lifted, c) <=> Cached(kbd, c)
  BY <1>14 DEF Cached
<1>17. \A c : Chorded(lifted, c) <=> Chorded(kbd, c) /\ c # b
  BY <1>14, <1>15 DEF Chorded
<1>18. DownCodes(lifted) = S \ {b}
  BY <1>6, <1>16, <1>17 DEF DownCodes
<1>19. SlotsApart(lifted)
  <2>1. SlotsApart(kbd)
    BY <1>1 DEF Tidy
  <2> QED BY <1>14, <1>15, <1>16, <2>1 DEF SlotsApart
<1>20. Tidy(lifted)
  <2>1. NotReleasing(kbd, kbd.chord.queue) => NotReleasing(lifted, kbd.chord.queue)
    BY <1>17 DEF NotReleasing
  <2> QED BY <1>1, <1>8, <1>14, <1>19, <2>1 DEF Tidy
<1>21. Withheld(lifted) = Withheld(kbd) /\ Conforms(lifted, stack)
  BY <1>1, <1>14 DEF Withheld, Conforms
<1> HIDE DEF S
<1>22. Leads(Withheld(lifted), DownCodes(lifted), E)
  BY <1>10, <1>18, <1>21
<1>23. CASE Exit(lifted)
  BY <1>2, <1>14, <1>20, <1>21, <1>22, <1>23, ExitAccounts
<1>24. CASE Call(lifted, <<CallFrame("code", <<release>>)>>)
  <2> DEFINE f == CallFrame("code", <<release>>)
  <2>1. release \in Event /\ release.code \notin Code
    BY <1>1, <1>3, CodeAssumption DEF Event
  <2> HIDE DEF release
  <2>2. f \in Frame /\ f.events = <<release>> /\ f.kind = "code"
    BY <2>1 DEF CallFrame, Frame
  <2>3. Call(lifted, <<f>>)
    BY <1>24
  <2> HIDE DEF f
  <2>4. E \in SUBSET Code
    BY <1>9, <1>10, LeadsType
  <2>5. Leads(f.events, E, E)
    <3>1. Moves(release, E, E)
      BY <2>1 DEF Moves
    <3> QED BY <2>1, <2>2, <2>4, <3>1, LeadsOne
  <2> QED BY <1>2, <1>14, <1>20, <1>21, <1>22, <2>2, <2>3, <2>5, CallAccounts
<1> QED BY <1>4, <1>23, <1>24

-----------------------------------------------------------------------------
(* A frame that returns, and the event loop.                               *)

LEMMA ReturnedAccounts ==
  ASSUME TypeInv, stack # <<>>, Top.events = <<>>, NEW H, Accounts(kbd, stack, H)
  PROVE  Accounts(Returned, Tail(stack), H) /\ Returned \in Keyboard
<1> DEFINE k == Returned
           r == Tail(stack)
<1>1. stack \in Seq(Frame) /\ kbd \in Keyboard
  BY DEF TypeInv, TypeOK
<1>2. stack = <<Top>> \o r /\ Top \in Frame /\ r \in Seq(Frame)
  BY <1>1, TopAndTail DEF Top
<1>3. PICK D : Leads(Withheld(kbd), DownCodes(kbd), D) /\ Onward(stack, D, H)
  BY DEF Accounts
<1>4. Onward(r, D, H)
  <2>1. PICK E \in SUBSET Code : Leads(Top.events, D, E) /\ Onward(r, E, H)
    BY <1>1, <1>3, OnwardTail DEF Top
  <2>2. D \in SUBSET Code
    BY <1>1, <1>3, OnwardType
  <2>3. D = E
    BY <2>1, <2>2, LeadsNowhere
  <2> QED BY <2>1, <2>3
<1>5. Tidy(kbd) /\ Conforms(kbd, stack)
  BY DEF Accounts
<1>6. CASE Top.kind # "chord"
  <2>1. k = kbd
    BY <1>6 DEF Returned
  <2>2. Conforms(kbd, r)
    BY <1>2, <1>5, <1>6, FrameOnTop DEF Conforms
  <2> QED BY <1>1, <1>3, <1>4, <1>5, <2>1, <2>2 DEF Accounts
<1>7. CASE Top.kind = "chord"
  <2>1. ~ChordFree(stack) /\ (ChordFree(r) <=> ChordOnce(stack))
    BY <1>2, <1>7, FrameOnTop
  <2>2. kbd.chord.state = "resolving" /\ ChordFree(r)
    BY <1>5, <2>1 DEF Conforms
  <2>3. k = [kbd EXCEPT !.chord = Inactive]
    BY <1>7 DEF Returned
  <2>4. Inactive \in Chording /\ Inactive.state = "inactive" /\ Inactive.queue = <<>>
    BY DEF Inactive, Chording
  <2> HIDE DEF k
  <2>5. /\ k \in Keyboard /\ k.chord = Inactive /\ k.slots = kbd.slots /\ k.cache = kbd.cache
        /\ k.config = kbd.config /\ k.overload = kbd.overload
    BY <1>1, <2>3, <2>4 DEF Keyboard
  <2>6. \A c : (Cached(k, c) <=> Cached(kbd, c)) /\ (Chorded(k, c) <=> Chorded(kbd, c))
    BY <2>5 DEF Cached, Chorded
  <2>7. Tidy(k)
    <3>1. SlotsApart(k)
      BY <1>5, <2>5, <2>6 DEF SlotsApart, Tidy
    <3> QED BY <1>5, <2>4, <2>5, <3>1 DEF Tidy
  <2>8. Withheld(k) = kbd.overload.queue /\ Withheld(kbd) = kbd.overload.queue
    BY <1>1, <1>5, <2>2, <2>4, <2>5, <2>7, WithheldIs
  <2>9. DownCodes(k) = DownCodes(kbd)
    BY <2>6 DEF DownCodes
  <2>10. Conforms(k, r)
    BY <2>2, <2>4, <2>5 DEF Conforms
  <2>11. k \in Keyboard /\ Accounts(k, r, H)
    BY <1>3, <1>4, <2>5, <2>7, <2>8, <2>9, <2>10 DEF Accounts
  <2> QED BY <2>11 DEF k
<1> QED BY <1>6, <1>7

LEMMA ReturnAccounts ==
  ASSUME TypeInv, Return, NEW H, Accounts(kbd, stack, H)
  PROVE  Accounts(kbd', stack', H)
<1> DEFINE k == Returned
           r == Tail(stack)
           caller == stack[2]
           j == [k EXCEPT !.timers = Later(k, caller.at)]
           f == [caller EXCEPT !.timer = Deadline(k, caller.at)]
<1>1. stack \in Seq(Frame) /\ stack # <<>> /\ Top.events = <<>> /\ r \in Seq(Frame)
  BY DEF TypeInv, TypeOK, Return
<1>2. Accounts(k, r, H) /\ k \in Keyboard
  BY <1>1, ReturnedAccounts
<1>3. CASE kbd' = k /\ stack' = r
  BY <1>2, <1>3
<1>4. CASE Len(stack) = 1 /\ kbd' = k /\ stack' = <<>>
  <2>1. Len(r) = 0 /\ r \in Seq(Frame)
    BY <1>1, <1>4
  <2> HIDE DEF r
  <2>2. r = <<>>
    BY <2>1
  <2> QED BY <1>2, <1>4, <2>2
<1>5. CASE Len(stack) # 1 /\ kbd' = j /\ stack' = <<f>> \o Tail(r)
  <2>1. r # <<>> /\ Head(r) = caller
    <3>1. /\ DOMAIN r = 1 .. Len(stack) - 1 /\ Len(stack) \in Nat \ {0}
          /\ \A i \in 1 .. Len(stack) - 1 : r[i] = stack[i + 1]
      BY <1>1, ListFacts, Zenon
    <3>2. 1 \in DOMAIN r /\ r[1] = caller
      BY <1>5, <3>1
    <3>3. r # <<>>
      <4> SUFFICES ASSUME r = <<>> PROVE FALSE
        OBVIOUS
      <4> HIDE DEF r
      <4>1. DOMAIN r = {}
        OBVIOUS
      <4> QED BY <3>2, <4>1
    <3> HIDE DEF r
    <3>4. Head(r) = r[1]
      BY <1>1, <3>3, ListFacts, Zenon
    <3> QED BY <3>2, <3>3, <3>4
  <2>2. r = <<caller>> \o Tail(r) /\ caller \in Frame /\ Tail(r) \in Seq(Frame)
    BY <1>1, <2>1, TopAndTail
  <2>3. caller.at \in Nat /\ k.timers \in SUBSET Nat
    BY <1>2, <2>2 DEF Frame, Keyboard
  <2>4. Later(k, caller.at) \in SUBSET Nat /\ Deadline(k, caller.at) \in Nat
    BY <2>3, DeadlineType
  <2>5. f \in Frame /\ f.events = caller.events /\ f.kind = caller.kind
    BY <2>2, <2>4 DEF Frame
  <2>6. Alike(k, j)
    <3> HIDE DEF k
    <3>1. /\ j.config = k.config /\ j.chord = k.chord /\ j.overload = k.overload
          /\ j.slots = k.slots /\ j.cache = k.cache
      BY <1>2 DEF Keyboard
    <3> HIDE DEF j
    <3> QED BY <3>1 DEF Alike, Cached
  <2> HIDE DEF f, j, k, caller
  <2>7. Tidy(j) /\ Withheld(j) = Withheld(k) /\ DownCodes(j) = DownCodes(k)
    BY <1>2, <2>6, AlikeTidy DEF Accounts
  <2> DEFINE s == <<f>> \o Tail(r)
  <2>8. (ChordFree(s) <=> ChordFree(r)) /\ (ChordOnce(s) <=> ChordOnce(r))
    <3>1. CASE caller.kind = "chord"
      BY <2>2, <2>5, <3>1, FrameOnTop
    <3>2. CASE caller.kind # "chord"
      BY <2>2, <2>5, <3>2, FrameOnTop
    <3> QED BY <3>1, <3>2
  <2>9. PICK D : Leads(Withheld(k), DownCodes(k), D) /\ Onward(r, D, H)
    BY <1>2 DEF Accounts
  <2>10. PICK E \in SUBSET Code : Leads(caller.events, D, E) /\ Onward(Tail(r), E, H)
    BY <1>1, <2>1, <2>9, OnwardTail
  <2>11. Onward(s, D, H)
    BY <2>2, <2>5, <2>10, OnwardPush
  <2> HIDE DEF s
  <2>12. Conforms(j, s)
    BY <1>2, <2>6, <2>8 DEF Accounts, Conforms, Alike
  <2>13. Accounts(j, s, H)
    BY <2>7, <2>9, <2>11, <2>12 DEF Accounts
  <2> QED BY <1>5, <2>13 DEF s
<1> QED BY <1>3, <1>4, <1>5 DEF Return, Returned

LEMMA DispatchAccounts ==
  ASSUME TypeInv, stack = <<>>, NEW e \in Event, Dispatch(e), kbd' = kbd,
         NEW G, NEW H, Accounts(kbd, stack, G), Moves(e, G, H)
  PROVE  Accounts(kbd', stack', H)
<1> DEFINE f == CallFrame("loop", <<e>>)
<1>1. PICK D : Leads(Withheld(kbd), DownCodes(kbd), D) /\ Onward(<<>>, D, G)
  BY DEF Accounts
<1>2. D \in SUBSET Code /\ D = G
  <2>1. <<>> \in Seq(Frame)
    OBVIOUS
  <2>2. D \in SUBSET Code
    BY <1>1, <2>1, OnwardType
  <2> QED BY <1>1, <2>2, OnwardNowhere
<1>3. H \in SUBSET Code
  BY <1>2, MovesType
<1>4. <<e>> \in Seq(Event) /\ Leads(<<e>>, D, H)
  BY <1>2, LeadsOne
<1>5. f \in Frame /\ f.events = <<e>> /\ f.kind = "loop"
  BY <1>4 DEF CallFrame, Frame
<1>6. stack' = <<f>>
  BY DEF Dispatch
<1> HIDE DEF f
<1>7. stack' = <<f>> \o <<>> /\ <<>> \in Seq(Frame)
  BY <1>5, <1>6
<1>8. Onward(<<>>, H, H)
  BY <1>3, OnwardNowhere
<1>9. Onward(stack', D, H)
  BY <1>4, <1>5, <1>7, <1>8, OnwardPush
<1>10. Tidy(kbd) /\ Conforms(kbd, stack')
  <2>1. (ChordFree(stack') <=> ChordFree(<<>>)) /\ (ChordOnce(stack') <=> ChordOnce(<<>>))
    BY <1>5, <1>7, FrameOnTop
  <2> QED BY <2>1 DEF Accounts, Conforms
<1> QED BY <1>1, <1>9, <1>10 DEF Accounts

-----------------------------------------------------------------------------
(* The invariant, and the theorem.                                         *)

HeldCodes == {c \in Code : held[c] > 0}

Accounted == ~kbd.aborted => Accounts(kbd, stack, HeldCodes)

LEMMA AccountedInit ==
  ASSUME Init
  PROVE  Accounted
<1>1. /\ kbd.overload = NoOverload /\ kbd.chord = Inactive
      /\ kbd.cache = [c \in Code \cup Slot |-> Free]
      /\ kbd.slots = [s \in Slot |-> [on |-> FALSE, chord |-> NoChord, keys |-> {}]]
      /\ stack = <<>> /\ held = [c \in Code |-> 0]
  BY DEF Init
<1>2. /\ kbd.overload.code = NoCode /\ kbd.overload.queue = <<>>
      /\ kbd.chord.state = "inactive" /\ kbd.chord.queue = <<>>
  BY <1>1 DEF NoOverload, Inactive
<1>3. \A s \in Slot : ~kbd.slots[s].on
  BY <1>1
<1>4. Tidy(kbd)
  BY <1>2, <1>3 DEF Tidy, SlotsApart
<1>5. Withheld(kbd) = <<>>
  BY <1>2 DEF Withheld
<1>6. \A c \in Code : ~Cached(kbd, c) /\ ~Chorded(kbd, c)
  BY <1>1, <1>3, FreeType DEF Cached, Chorded
<1>7. DownCodes(kbd) = {} /\ HeldCodes = {}
  <2>1. DownCodes(kbd) = {}
    BY <1>6 DEF DownCodes
  <2>2. HeldCodes = {}
    BY <1>1 DEF HeldCodes
  <2> QED BY <2>1, <2>2
<1>8. {} \in SUBSET Code
  OBVIOUS
<1>9. Leads(Withheld(kbd), DownCodes(kbd), {}) /\ Onward(stack, {}, HeldCodes)
  BY <1>1, <1>5, <1>7, <1>8, LeadsNowhere, OnwardNowhere
<1>10. Conforms(kbd, stack)
  BY <1>1, <1>2 DEF Conforms, ChordFree
<1> QED BY <1>4, <1>9, <1>10 DEF Accounted, Accounts

LEMMA KeyEventAccounts ==
  ASSUME Devices = 1, TypeInv, Accounted, NEW c \in Code, NEW pressed \in BOOLEAN,
         NEW t \in 1 .. MaxTime, KeyEvent(c, pressed, t)
  PROVE  Accounted'
<1> DEFINE e == [code |-> c, pressed |-> pressed, at |-> t]
<1>1. kbd' = kbd /\ t \in Nat /\ Dispatch(e) /\ stack = <<>> /\ ~kbd.aborted
  BY BoundAssumption DEF KeyEvent, Idle
<1>2. e \in Event /\ e.code = c /\ e.pressed = pressed
  BY <1>1 DEF Event
<1>3. held \in [Code -> 0 .. 1]
  BY DEF TypeInv, TypeOK
<1>4. held' = [held EXCEPT ![c] = IF pressed THEN @ + 1 ELSE @ - 1]
      /\ (IF pressed THEN held[c] < 1 ELSE held[c] > 0)
  BY DEF KeyEvent
<1> HIDE DEF e
<1>5. Moves(e, HeldCodes, HeldCodes')
  <2>1. \A b \in Code : b # c => held'[b] = held[b]
    BY <1>3, <1>4
  <2>2. held[c] \in {0, 1}
    BY <1>3
  <2>3. CASE pressed
    <3>1. held[c] = 0 /\ held'[c] = 1
      BY <1>3, <1>4, <2>2, <2>3
    <3>2. HeldCodes' = HeldCodes \cup {c} /\ c \notin HeldCodes
      BY <2>1, <3>1 DEF HeldCodes
    <3> QED BY <1>2, <2>3, <3>2 DEF Moves
  <2>4. CASE ~pressed
    <3>1. held[c] = 1 /\ held'[c] = 0
      BY <1>3, <1>4, <2>2, <2>4
    <3>2. HeldCodes' = HeldCodes \ {c} /\ c \in HeldCodes
      BY <2>1, <3>1 DEF HeldCodes
    <3> QED BY <1>2, <2>4, <3>2 DEF Moves
  <2> QED BY <2>3, <2>4
<1>6. Accounts(kbd', stack', HeldCodes')
  BY <1>1, <1>2, <1>5, DispatchAccounts DEF Accounted
<1> QED BY <1>6 DEF Accounted

LEMMA ExpireAccounts ==
  ASSUME TypeInv, Accounted, Expire
  PROVE  Accounted'
<1>1. PICK t : t \in Nat /\ Timeout(t)
  <2>1. now \in Nat /\ wake \in Nat /\ Late \in Nat
    BY BoundAssumption DEF TypeInv, TypeOK
  <2> DEFINE a == IF now > wake THEN now ELSE wake
  <2>2. a \in Nat
    BY <2>1
  <2>3. PICK t \in a .. a + Late : Timeout(t)
    BY DEF Expire
  <2> HIDE DEF a
  <2> QED BY <2>1, <2>2, <2>3
<1> DEFINE e == [code |-> NoCode, pressed |-> FALSE, at |-> t]
<1>2. kbd' = kbd /\ held' = held /\ Dispatch(e) /\ stack = <<>> /\ ~kbd.aborted
  BY <1>1 DEF Timeout, Idle
<1>3. e \in Event /\ e.code = NoCode
  BY <1>1 DEF Event
<1> HIDE DEF e
<1>4. Moves(e, HeldCodes, HeldCodes)
  BY <1>3, CodeAssumption DEF Moves
<1>5. HeldCodes' = HeldCodes
  BY <1>2 DEF HeldCodes
<1>6. Accounts(kbd', stack', HeldCodes)
  BY <1>2, <1>3, <1>4, DispatchAccounts DEF Accounted
<1> QED BY <1>5, <1>6 DEF Accounted

LEMMA ProcessingAccounts ==
  ASSUME PlainActions, Exclusive, Processing, Paid(kbd), Matched(kbd.chord), Accounted,
         ChordStep \/ Deliver(Upcoming)
  PROVE  Accounted'
<1>1. /\ ReleaseChordKey(Upcoming) \/ BeginChord(Upcoming) \/ ExtendChord(Upcoming)
           \/ LapseChord(Upcoming) \/ HoldChord(Upcoming) \/ FireChord(Upcoming)
           \/ Deliver(Upcoming)
      /\ ~kbd.aborted
  BY DEF ChordStep, ReleaseChordKey, BeginChord, ExtendChord, LapseChord, HoldChord, FireChord,
         Deliver, Running
<1>2. held' = held
  BY <1>1 DEF ReleaseChordKey, BeginChord, ExtendChord, LapseChord, HoldChord, FireChord,
         Deliver, Advance, Abort, Resolve, Defer, Exit, Call
<1> DEFINE H == HeldCodes
<1>3. Accounts(kbd, stack, H)
  BY <1>1 DEF Accounted
<1>4. HeldCodes' = H
  BY <1>2 DEF HeldCodes
<1> HIDE DEF H
<1>5. ~kbd'.aborted => Accounts(kbd', stack', H)
  BY <1>1, <1>3, ReleaseAccounts, BeginAccounts, ExtendAccounts, LapseAccounts, HoldAccounts,
     FireAccounts, DeliverAccounts
<1> QED BY <1>4, <1>5 DEF Accounted

LEMMA AccountedStep ==
  ASSUME PlainActions, Exclusive, Devices = 1, TypeInv, Paid(kbd), Matched(kbd.chord), Accounted,
         [Next]_vars
  PROVE  Accounted'
<1>1. CASE \E c \in Code, pressed \in BOOLEAN, t \in 1 .. MaxTime : KeyEvent(c, pressed, t)
  BY <1>1, KeyEventAccounts
<1>2. CASE Expire
  BY <1>2, ExpireAccounts
<1>3. CASE ChordStep
  <2>1. Processing
    BY <1>3 DEF ChordStep, Processing
  <2> QED BY <1>3, <2>1, ProcessingAccounts
<1>4. CASE stack # <<>> /\ Top.events # <<>> /\ Deliver(Upcoming)
  BY <1>4, ProcessingAccounts DEF Processing
<1>5. CASE Return
  <2>1. ~kbd.aborted /\ held' = held
    BY <1>5 DEF Return
  <2>2. Accounts(kbd', stack', HeldCodes)
    BY <1>5, <2>1, ReturnAccounts DEF Accounted
  <2>3. HeldCodes' = HeldCodes
    BY <2>1 DEF HeldCodes
  <2> QED BY <2>2, <2>3 DEF Accounted
<1>6. CASE UNCHANGED vars
  BY <1>6 DEF vars, Accounted, Accounts, HeldCodes
<1> QED BY <1>1, <1>2, <1>3, <1>4, <1>5, <1>6 DEF Next, Step

LEMMA SettledIsConserved ==
  ASSUME TypeInv, Accounted
  PROVE  Conserved
<1> SUFFICES ASSUME Idle, NEW c \in Code
             PROVE  SaysDown(c, Cached(kbd, c) \/ InChord(c)) = (held[c] > 0)
  BY DEF Conserved
<1> DEFINE q == Queued
           S == DownCodes(kbd)
           H == HeldCodes
           mine == {i \in DOMAIN q : q[i].code = c}
           settled == Cached(kbd, c) \/ InChord(c)
           down == held[c] > 0
<1>1. stack = <<>> /\ kbd \in Keyboard /\ Accounts(kbd, <<>>, H) /\ held[c] \in Nat
  BY DEF Idle, Accounted, TypeInv, TypeOK
<1>2. q \in Seq(Event)
  BY <1>1 DEF Queued, Keyboard, PendingOverload, Chording
<1>3. Withheld(kbd) = q
  <2>1. ~ChordOnce(<<>>)
    BY DEF ChordOnce
  <2> QED BY <1>1, <2>1 DEF Accounts, Conforms, Withheld, Queued
<1>4. Leads(q, S, H)
  <2>1. PICK D : Leads(q, S, D) /\ Onward(<<>>, D, H)
    BY <1>1, <1>3 DEF Accounts
  <2>2. D \in SUBSET Code
    BY <1>2, <2>1, LeadsType
  <2> QED BY <2>1, <2>2, OnwardNowhere
<1>5. (c \in S <=> settled) /\ (c \in H <=> down)
  BY DEF DownCodes, Chorded, InChord, HeldCodes
<1>6. settled \in BOOLEAN /\ down \in BOOLEAN
  BY <1>1
<1>7. SaysDown(c, settled) =
        IF mine = {} THEN settled ELSE q[CHOOSE i \in mine : \A j \in mine : j <= i].pressed
  BY DEF SaysDown
<1> HIDE DEF q, S, H, settled, down
<1>8. DOMAIN q = 1 .. Len(q) /\ Len(q) \in Nat /\ \A i \in 1 .. Len(q) : q[i] \in Event
  BY <1>2
<1>9. CASE mine = {}
  <2>1. \A i \in 1 .. Len(q) : q[i].code # c
    BY <1>8, <1>9
  <2>2. c \in S <=> c \in H
    BY <1>2, <1>4, <2>1, LeadsLast
  <2>3. settled = down
    BY <1>5, <1>6, <2>2
  <2> HIDE DEF mine
  <2>4. SaysDown(c, settled) = down
    BY <1>7, <1>9, <2>3
  <2> QED BY <2>4 DEF settled, down
<1>10. CASE mine # {}
  <2> DEFINE m == CHOOSE i \in mine : \A j \in mine : j <= i
  <2>1. m \in mine /\ \A j \in mine : j <= m
    <3>1. mine \in SUBSET (0 .. Len(q))
      BY <1>8
    <3> HIDE DEF mine
    <3>2. \E u \in mine : \A v \in mine : v <= u
      BY <1>8, <1>10, <3>1, HasGreatest
    <3> QED BY <3>2
  <2>2. SaysDown(c, settled) = q[m].pressed
    <3> HIDE DEF mine
    <3> QED BY <1>7, <1>10
  <2> HIDE DEF m
  <2>3. m \in 1 .. Len(q) /\ q[m].code = c /\ \A j \in 1 .. Len(q) : q[j].code = c => j <= m
    BY <1>8, <2>1
  <2>4. q[m].pressed <=> c \in H
    BY <1>2, <1>4, <2>3, LeadsLast
  <2>5. q[m].pressed \in BOOLEAN
    BY <1>8, <2>3 DEF Event
  <2>6. SaysDown(c, settled) = down
    BY <1>5, <1>6, <2>2, <2>4, <2>5
  <2> QED BY <2>6 DEF settled, down
<1> QED BY <1>9, <1>10

\* Nothing is lost and nothing sticks, however chords and overloaded keys nest: a key of
\* the keyboard is held if and only if it is in the cache, in a chord in effect, or on its
\* way there in a queue. This is so on a keyboard whose devices do not share keys, for any
\* keymap in which a timed key becomes a key or a layer, and that has chords or overloaded
\* keys but not both.
THEOREM PipelineConserved ==
  ASSUME PlainActions, Exclusive, Devices = 1 PROVE Spec => []Conserved
<1> DEFINE I == TypeInv /\ Paid(kbd) /\ Matched(kbd.chord) /\ Accounted
<1>1. I /\ TypeInv' /\ [Next]_vars => I'
  BY PaidStep, MatchedStep, AccountedStep DEF KeptOn
<1>2. Init => I
  <2>1. Init => Matched(kbd.chord)
    BY DEF Init, Matched, Inactive
  <2> QED BY <2>1, TypeInit, PaidInit, AccountedInit
<1>3. I => Conserved
  BY SettledIsConserved
<1> HIDE DEF I
<1> QED BY <1>1, <1>2, <1>3, TypeInvariant, PTL DEF Spec

-----------------------------------------------------------------------------
(* Chronological: times that ascend through a queue, and through the       *)
(* frames.                                                                 *)

Ascends(q, a, b) ==
  /\ a <= b
  /\ \A i \in 1 .. Len(q) : /\ a <= q[i].at /\ q[i].at <= b
                            /\ \A j \in 1 .. Len(q) : i < j => q[i].at <= q[j].at

LEMMA AscendsEmpty ==
  ASSUME NEW a \in Nat, NEW b \in Nat, a <= b
  PROVE  Ascends(<<>>, a, b)
<1>1. Len(<<>>) = 0 /\ 1 .. 0 = {}
  OBVIOUS
<1> QED BY <1>1 DEF Ascends

LEMMA AscendsAppend ==
  ASSUME NEW q \in Seq(Event), NEW e \in Event, NEW a \in Nat, NEW b \in Nat,
         Ascends(q, a, b), b <= e.at
  PROVE  Append(q, e) \in Seq(Event) /\ Ascends(Append(q, e), a, e.at)
<1> DEFINE n == Len(q)
           r == Append(q, e)
<1>1. n \in Nat /\ r \in Seq(Event) /\ Len(r) = n + 1 /\ r[n + 1] = e /\ \A i \in 1 .. n : r[i] = q[i]
  OBVIOUS
<1>2. /\ a <= b /\ e.at \in Nat /\ \A i \in 1 .. n : q[i].at \in Nat
      /\ \A i \in 1 .. n : /\ a <= q[i].at /\ q[i].at <= b
                           /\ \A j \in 1 .. n : i < j => q[i].at <= q[j].at
  <2>1. \A i \in 1 .. n : q[i] \in Event
    BY <1>1
  <2> QED BY <2>1 DEF Ascends, Event
<1> HIDE DEF n, r
<1>3. ASSUME NEW i \in 1 .. n + 1
      PROVE  /\ a <= r[i].at /\ r[i].at <= e.at
             /\ \A j \in 1 .. n + 1 : i < j => r[i].at <= r[j].at
  <2>1. CASE i \in 1 .. n
    <3>1. r[i] = q[i] /\ a <= q[i].at /\ q[i].at <= b /\ q[i].at \in Nat
      BY <1>1, <1>2, <2>1
    <3>2. q[i].at <= e.at
      BY <1>2, <3>1
    <3>3. ASSUME NEW j \in 1 .. n + 1, i < j PROVE r[i].at <= r[j].at
      <4>1. j \in 1 .. n \/ j = n + 1
        BY <1>1
      <4> QED BY <1>1, <1>2, <2>1, <3>1, <3>2, <3>3, <4>1
    <3> QED BY <3>1, <3>2, <3>3
  <2>2. CASE i = n + 1
    BY <1>1, <1>2, <2>2
  <2> QED BY <1>1, <2>1, <2>2
<1> QED BY <1>1, <1>2, <1>3 DEF Ascends, r

LEMMA AscendsOne ==
  ASSUME NEW e \in Event, NEW a \in Nat, a <= e.at
  PROVE  Ascends(<<e>>, a, e.at)
<1>1. Len(<<e>>) = 1 /\ <<e>>[1] = e /\ e.at \in Nat /\ 1 .. 1 = {1}
  BY DEF Event
<1> QED BY <1>1 DEF Ascends

LEMMA AscendsTail ==
  ASSUME NEW q \in Seq(Event), q # <<>>, NEW a \in Nat, NEW b \in Nat, Ascends(q, a, b)
  PROVE  Head(q).at \in Nat /\ a <= Head(q).at /\ Ascends(Tail(q), Head(q).at, b)
<1> DEFINE n == Len(q)
<1>1. /\ Head(q) = q[1] /\ n \in Nat \ {0} /\ Len(Tail(q)) = n - 1 /\ q[1] \in Event
      /\ \A i \in 1 .. n - 1 : Tail(q)[i] = q[i + 1]
  <2>1. Len(Tail(q)) = n - 1 /\ q[1] \in Event
    OBVIOUS
  <2> QED BY <2>1, ListFacts, Zenon
<1>2. /\ a <= b /\ \A i \in 1 .. n : /\ a <= q[i].at /\ q[i].at <= b
                                     /\ \A j \in 1 .. n : i < j => q[i].at <= q[j].at
  BY DEF Ascends
<1>3. q[1].at \in Nat
  BY <1>1 DEF Event
<1> HIDE DEF n
<1>4. ASSUME NEW i \in 1 .. n - 1
      PROVE  /\ q[1].at <= Tail(q)[i].at /\ Tail(q)[i].at <= b
             /\ \A j \in 1 .. n - 1 : i < j => Tail(q)[i].at <= Tail(q)[j].at
  <2>1. i + 1 \in 1 .. n /\ 1 \in 1 .. n /\ 1 < i + 1 /\ Tail(q)[i] = q[i + 1]
    BY <1>1
  <2>2. ASSUME NEW j \in 1 .. n - 1, i < j PROVE Tail(q)[i].at <= Tail(q)[j].at
    <3>1. j + 1 \in 1 .. n /\ i + 1 < j + 1 /\ Tail(q)[j] = q[j + 1]
      BY <1>1, <2>2
    <3> QED BY <1>2, <2>1, <3>1
  <2> QED BY <1>2, <2>1, <2>2
<1>5. a <= q[1].at /\ q[1].at <= b
  <2>1. 1 \in 1 .. n
    BY <1>1
  <2> QED BY <1>2, <2>1
<1> QED BY <1>1, <1>3, <1>4, <1>5 DEF Ascends

-----------------------------------------------------------------------------
Chain(s, a, b) ==
  \E d \in [1 .. Len(s) + 1 -> Nat] :
    /\ d[1] = a /\ d[Len(s) + 1] = b
    /\ \A n \in 1 .. Len(s) : Ascends(s[n].events, d[n], d[n + 1])

LEMMA ChainEmpty ==
  ASSUME NEW a \in Nat, NEW b
  PROVE  Chain(<<>>, a, b) <=> a = b
<1>1. ASSUME Chain(<<>>, a, b) PROVE a = b
  BY <1>1 DEF Chain
<1>2. Chain(<<>>, a, a)
  <2> DEFINE d == [n \in 1 .. 1 |-> a]
  <2>1. Len(<<>>) = 0 /\ 1 .. 0 = {} /\ Len(<<>>) + 1 = 1
    OBVIOUS
  <2>2. d \in [1 .. 1 -> Nat] /\ d[1] = a
    OBVIOUS
  <2> HIDE DEF d
  <2> QED BY <2>1, <2>2 DEF Chain
<1> QED BY <1>1, <1>2

LEMMA ChainTail ==
  ASSUME NEW s \in Seq(Frame), s # <<>>, NEW a, NEW b, Chain(s, a, b)
  PROVE  a \in Nat /\ \E c \in Nat : Ascends(Head(s).events, a, c) /\ Chain(Tail(s), c, b)
<1> DEFINE n == Len(s)
<1>1. PICK d \in [1 .. n + 1 -> Nat] :
        d[1] = a /\ d[n + 1] = b /\ \A i \in 1 .. n : Ascends(s[i].events, d[i], d[i + 1])
  BY DEF Chain
<1>2. /\ n \in Nat \ {0} /\ Len(Tail(s)) = n - 1 /\ Head(s) = s[1]
      /\ \A i \in 1 .. n - 1 : Tail(s)[i] = s[i + 1]
  <2>1. Len(Tail(s)) = n - 1
    OBVIOUS
  <2> QED BY <2>1, ListFacts, Zenon
<1> HIDE DEF n
<1> DEFINE g == [i \in 1 .. n |-> d[i + 1]]
<1>3. g \in [1 .. n -> Nat] /\ \A i \in 1 .. n : g[i] = d[i + 1]
  BY <1>2
<1> HIDE DEF g
<1>4. ASSUME NEW i \in 1 .. n - 1 PROVE Ascends(Tail(s)[i].events, g[i], g[i + 1])
  <2>1. i \in 1 .. n /\ i + 1 \in 1 .. n
    BY <1>2
  <2> QED BY <1>1, <1>2, <1>3, <2>1
<1>5. (n - 1) + 1 = n /\ g[1] = d[2] /\ g[n] = b /\ 1 \in 1 .. n /\ 1 + 1 = 2 /\ 2 \in 1 .. n + 1
  BY <1>1, <1>2, <1>3
<1>6. Chain(Tail(s), d[2], b)
  <2>1. Len(Tail(s)) + 1 = n
    BY <1>2, <1>5
  <2> QED BY <1>2, <1>3, <1>4, <1>5, <2>1 DEF Chain
<1>7. Ascends(Head(s).events, a, d[2]) /\ d[2] \in Nat /\ a \in Nat
  <2>1. 1 \in 1 .. n + 1
    BY <1>2
  <2> QED BY <1>1, <1>2, <1>5, <2>1
<1> QED BY <1>6, <1>7

LEMMA ChainPush ==
  ASSUME NEW s \in Seq(Frame), NEW f \in Frame, NEW a \in Nat, NEW c \in Nat, NEW b,
         Ascends(f.events, a, c), Chain(s, c, b)
  PROVE  Chain(<<f>> \o s, a, b)
<1> DEFINE n == Len(s)
           r == <<f>> \o s
<1>1. PICK d \in [1 .. n + 1 -> Nat] :
        d[1] = c /\ d[n + 1] = b /\ \A i \in 1 .. n : Ascends(s[i].events, d[i], d[i + 1])
  BY DEF Chain
<1>2. n \in Nat /\ Len(r) = n + 1 /\ r[1] = f /\ \A i \in 2 .. n + 1 : r[i] = s[i - 1]
  OBVIOUS
<1> HIDE DEF n, r
<1> DEFINE g == [i \in 1 .. n + 2 |-> IF i = 1 THEN a ELSE d[i - 1]]
<1>3. g \in [1 .. n + 2 -> Nat] /\ g[1] = a /\ \A i \in 2 .. n + 2 : g[i] = d[i - 1]
  BY <1>2
<1> HIDE DEF g
<1>4. ASSUME NEW i \in 1 .. n + 1 PROVE Ascends(r[i].events, g[i], g[i + 1])
  <2>1. CASE i = 1
    <3>1. 2 \in 2 .. n + 2 /\ 2 - 1 = 1 /\ 1 + 1 = 2
      BY <1>2
    <3>2. g[2] = c
      BY <1>1, <1>3, <3>1
    <3> QED BY <1>2, <1>3, <2>1, <3>1, <3>2
  <2>2. CASE i # 1
    <3>1. i \in 2 .. n + 1 /\ i \in 2 .. n + 2 /\ i + 1 \in 2 .. n + 2 /\ i - 1 \in 1 .. n
          /\ (i + 1) - 1 = (i - 1) + 1
      BY <1>2, <2>2
    <3>2. Ascends(s[i - 1].events, d[i - 1], d[(i - 1) + 1])
      BY <1>1, <3>1
    <3>3. g[i] = d[i - 1] /\ g[i + 1] = d[(i - 1) + 1] /\ r[i] = s[i - 1]
      BY <1>2, <1>3, <3>1
    <3> QED BY <3>2, <3>3
  <2> QED BY <2>1, <2>2
<1>5. g[(n + 1) + 1] = b /\ (n + 1) + 1 = n + 2
  <2>1. n + 2 \in 2 .. n + 2 /\ (n + 2) - 1 = n + 1
    BY <1>2
  <2> QED BY <1>1, <1>2, <1>3, <2>1
<1>6. Len(r) + 1 = n + 2
  BY <1>2
<1> QED BY <1>2, <1>3, <1>4, <1>5, <1>6 DEF Chain, r

\* The frames beneath the one that replays a chord's events.
Beneath(s, a, b) ==
  \E n \in 1 .. Len(s), r \in Seq(Frame) :
    /\ s[n].kind = "chord" /\ Len(r) = Len(s) - n
    /\ \A i \in 1 .. Len(r) : r[i] = s[n + i]
    /\ Chain(r, a, b)

LEMMA BeneathPush ==
  ASSUME NEW s \in Seq(Frame), NEW f \in Frame, NEW a, NEW b
  PROVE  /\ Beneath(s, a, b) => Beneath(<<f>> \o s, a, b)
         /\ f.kind = "chord" /\ Chain(s, a, b) => Beneath(<<f>> \o s, a, b)
<1> DEFINE t == <<f>> \o s
           m == Len(s)
<1>1. /\ m \in Nat /\ Len(t) = m + 1 /\ t[1] = f /\ \A i \in 1 .. m : t[i + 1] = s[i]
  OBVIOUS
<1> HIDE DEF t
<1>2. ASSUME Beneath(s, a, b) PROVE Beneath(t, a, b)
  <2>1. PICK n \in 1 .. m, r \in Seq(Frame) :
          /\ s[n].kind = "chord" /\ Len(r) = m - n
          /\ \A i \in 1 .. Len(r) : r[i] = s[n + i]
          /\ Chain(r, a, b)
    BY <1>2 DEF Beneath
  <2>2. n + 1 \in 1 .. Len(t) /\ t[n + 1].kind = "chord" /\ Len(r) = Len(t) - (n + 1)
    BY <1>1, <2>1
  <2>3. ASSUME NEW i \in 1 .. Len(r) PROVE r[i] = t[(n + 1) + i]
    <3>1. n + i \in 1 .. m /\ (n + i) + 1 = (n + 1) + i
      BY <1>1, <2>1
    <3> QED BY <1>1, <2>1, <3>1
  <2> QED BY <2>1, <2>2, <2>3 DEF Beneath
<1>3. ASSUME f.kind = "chord", Chain(s, a, b) PROVE Beneath(t, a, b)
  <2>1. 1 \in 1 .. Len(t) /\ t[1].kind = "chord" /\ Len(s) = Len(t) - 1
    BY <1>1, <1>3
  <2>2. \A i \in 1 .. Len(s) : s[i] = t[1 + i]
    BY <1>1
  <2> QED BY <1>3, <2>1, <2>2 DEF Beneath
<1> QED BY <1>2, <1>3 DEF t

LEMMA BeneathTail ==
  ASSUME NEW s \in Seq(Frame), s # <<>>, NEW a, NEW b, Beneath(s, a, b)
  PROVE  /\ Head(s).kind # "chord" => Beneath(Tail(s), a, b)
         /\ Head(s).kind = "chord" /\ ChordOnce(s) => Chain(Tail(s), a, b)
<1> DEFINE m == Len(s)
           t == Tail(s)
<1>1. /\ m \in Nat \ {0} /\ Len(t) = m - 1 /\ Head(s) = s[1] /\ t \in Seq(Frame)
      /\ DOMAIN s = 1 .. m
      /\ \A i \in 1 .. m - 1 : t[i] = s[i + 1]
  <2>1. Len(t) = m - 1
    OBVIOUS
  <2> QED BY <2>1, ListFacts, Zenon
<1> HIDE DEF t
<1>2. PICK n \in 1 .. m, r \in Seq(Frame) :
        /\ s[n].kind = "chord" /\ Len(r) = m - n
        /\ \A i \in 1 .. Len(r) : r[i] = s[n + i]
        /\ Chain(r, a, b)
  BY DEF Beneath
<1> HIDE DEF m
<1>3. ASSUME Head(s).kind # "chord" PROVE Beneath(t, a, b)
  <2>1. n # 1
    BY <1>1, <1>2, <1>3
  <2>2. n - 1 \in 1 .. Len(t) /\ t[n - 1].kind = "chord" /\ Len(r) = Len(t) - (n - 1)
    <3>1. n - 1 \in 1 .. m - 1 /\ (n - 1) + 1 = n
      BY <1>1, <2>1
    <3> QED BY <1>1, <1>2, <3>1
  <2>3. ASSUME NEW i \in 1 .. Len(r) PROVE r[i] = t[(n - 1) + i]
    <3>1. (n - 1) + i \in 1 .. m - 1 /\ ((n - 1) + i) + 1 = n + i
      BY <1>1, <1>2, <2>1
    <3> QED BY <1>1, <1>2, <3>1
  <2> QED BY <1>2, <2>2, <2>3 DEF Beneath
<1>4. ASSUME Head(s).kind = "chord", ChordOnce(s) PROVE Chain(t, a, b)
  <2>1. n = 1
    <3>1. 1 \in DOMAIN s /\ n \in DOMAIN s
      BY <1>1
    <3> QED BY <1>1, <1>2, <1>4, <3>1 DEF ChordOnce
  <2>2. Len(r) = Len(t) /\ \A i \in 1 .. Len(r) : r[i] = t[i]
    BY <1>1, <1>2, <2>1
  <2>3. r = t
    BY <1>1, <2>2
  <2> QED BY <1>2, <2>3
<1> QED BY <1>3, <1>4 DEF t

LEMMA AscendsWiden ==
  ASSUME NEW q \in Seq(Event), NEW a \in Nat, NEW b \in Nat, NEW c \in Nat, b <= c
  PROVE  /\ Ascends(q, a, b) => Ascends(q, a, c)
         /\ Ascends(q, b, c) /\ a <= b => Ascends(q, a, c)
<1> DEFINE n == Len(q)
<1>1. \A i \in 1 .. n : q[i].at \in Nat
  <2>1. \A i \in 1 .. n : q[i] \in Event
    OBVIOUS
  <2> QED BY <2>1 DEF Event
<1>2. ASSUME Ascends(q, a, b) PROVE Ascends(q, a, c)
  <2>1. /\ a <= b /\ \A i \in 1 .. n : /\ a <= q[i].at /\ q[i].at <= b
                                       /\ \A j \in 1 .. n : i < j => q[i].at <= q[j].at
    BY <1>2 DEF Ascends
  <2> HIDE DEF n
  <2>2. a <= c /\ \A i \in 1 .. n : q[i].at <= c
    BY <1>1, <2>1
  <2> QED BY <2>1, <2>2 DEF Ascends, n
<1>3. ASSUME Ascends(q, b, c), a <= b PROVE Ascends(q, a, c)
  <2>1. /\ b <= c /\ \A i \in 1 .. n : /\ b <= q[i].at /\ q[i].at <= c
                                       /\ \A j \in 1 .. n : i < j => q[i].at <= q[j].at
    BY <1>3 DEF Ascends
  <2> HIDE DEF n
  <2>2. a <= c /\ \A i \in 1 .. n : a <= q[i].at
    BY <1>1, <1>3, <2>1
  <2> QED BY <2>1, <2>2 DEF Ascends, n
<1> QED BY <1>2, <1>3

\* The frames that replay, or deliver, what is still to be withheld, up to time T.
Timely(k, s, T) ==
  \E t \in Nat : /\ Ascends(Withheld(k), 0, t)
                 /\ IF k.chord.state = "resolving" THEN Beneath(s, t, T) ELSE Chain(s, t, T)

OnTime(u, T) == \E v \in Nat : Ascends(Taken.events, u, v) /\ Chain(Tail(stack), v, T)

LEMMA EventOnTime ==
  ASSUME Processing, NEW t \in Nat, NEW T, Chain(stack, t, T)
  PROVE  \E u \in Nat : /\ t <= u /\ (Upcoming.code # NoCode => u = Upcoming.at)
                        /\ OnTime(u, T)
<1>1. stack \in Seq(Frame) /\ stack # <<>> /\ Top \in Frame /\ Top.events \in Seq(Event) /\ Top.events # <<>>
  BY UpcomingOK DEF Processing, TypeInv, TypeOK, Frame
<1>2. PICK v \in Nat : Ascends(Top.events, t, v) /\ Chain(Tail(stack), v, T)
  BY <1>1, ChainTail DEF Top
<1>3. CASE TimeoutDue(Top)
  <2>1. Upcoming = [code |-> NoCode, pressed |-> FALSE, at |-> Top.timer] /\ Taken.events = Top.events
    BY <1>1, <1>3 DEF Upcoming, Taken, Frame
  <2>2. Upcoming.code = NoCode /\ OnTime(t, T)
    BY <1>2, <2>1 DEF OnTime
  <2> QED BY <2>2
<1>4. CASE ~TimeoutDue(Top)
  <2>1. Upcoming = Head(Top.events) /\ Taken.events = Tail(Top.events)
    BY <1>1, <1>4 DEF Upcoming, Taken, Frame
  <2>2. Upcoming.at \in Nat /\ t <= Upcoming.at /\ Ascends(Taken.events, Upcoming.at, v)
    BY <1>1, <1>2, <2>1, AscendsTail
  <2> QED BY <1>2, <2>2 DEF OnTime
<1> QED BY <1>3, <1>4

LEMMA ExitTimely ==
  ASSUME Processing, NEW k \in Keyboard, Exit(k), k.chord.state # "resolving",
         NEW u \in Nat, NEW T, Ascends(Withheld(k), 0, u), OnTime(u, T)
  PROVE  Timely(kbd', stack', T)
<1> DEFINE f == [Taken EXCEPT !.timer = Deadline(k, Upcoming.at)]
<1>1. stack' = <<f>> \o Tail(stack) /\ kbd'.chord = k.chord /\ kbd'.overload = k.overload
  BY DEF Exit, Keyboard
<1>2. Taken \in Frame /\ Upcoming.at \in Nat /\ k.timers \in SUBSET Nat /\ Tail(stack) \in Seq(Frame)
  BY UpcomingOK DEF Event, Keyboard
<1>3. Deadline(k, Upcoming.at) \in Nat
  BY <1>2, DeadlineType
<1>4. f \in Frame /\ f.events = Taken.events
  BY <1>2, <1>3 DEF Frame
<1> HIDE DEF f
<1>5. Chain(stack', u, T)
  BY <1>1, <1>2, <1>4, ChainPush DEF OnTime
<1>6. Withheld(kbd') = Withheld(k) /\ kbd'.chord.state # "resolving"
  BY <1>1 DEF Withheld
<1> QED BY <1>5, <1>6 DEF Timely

LEMMA CallTimely ==
  ASSUME Processing, NEW k \in Keyboard, NEW f \in Frame, Call(k, <<f>>), k.chord.state # "resolving",
         NEW t \in Nat, NEW u \in Nat, NEW T, Ascends(Withheld(k), 0, t), Ascends(f.events, t, u),
         OnTime(u, T)
  PROVE  Timely(kbd', stack', T)
<1> DEFINE r == <<Taken>> \o Tail(stack)
<1>1. Taken \in Frame /\ Tail(stack) \in Seq(Frame) /\ r \in Seq(Frame)
  BY UpcomingOK
<1>2. kbd' = k /\ stack' = <<f>> \o r
  BY <1>1 DEF Call
<1>3. Chain(r, u, T)
  BY <1>1, ChainPush DEF OnTime
<1> HIDE DEF r
<1>4. Chain(stack', t, T)
  BY <1>1, <1>2, <1>3, ChainPush
<1> QED BY <1>2, <1>4 DEF Timely

\* A chord that is resolved leaves the frame of its caller as it is.
LEMMA ResolveTimely ==
  ASSUME Processing, NEW k \in Keyboard, k.overload.queue = <<>>, NEW q \in Seq(Event),
         NEW match \in Chord \cup {NoChord}, Resolve(k, q, match),
         NEW u \in Nat, NEW T, OnTime(u, T)
  PROVE  ~kbd'.aborted => Timely(kbd', stack', T)
<1> DEFINE slot == Least({s \in Slot : ~k.slots[s].on})
           press == [code |-> slot, pressed |-> TRUE, at |-> k.chord.last]
           code == CallFrame("code", <<press>>)
           rest == CallFrame("chord", Rest(q, match))
           r == <<Taken>> \o Tail(stack)
<1>1. Taken \in Frame /\ Tail(stack) \in Seq(Frame) /\ r \in Seq(Frame)
  BY UpcomingOK
<1>2. Chain(r, u, T)
  BY <1>1, ChainPush DEF OnTime
<1>3. rest \in Frame /\ rest.kind = "chord"
  <2>1. Rest(q, match) \in Seq(Event)
    <3>1. CASE match = NoChord
      BY <3>1 DEF Rest
    <3>2. CASE match # NoChord
      <4>1. Cardinality(ChordKeys[match]) \in Nat
        BY <3>2, SizeType
      <4> QED BY <3>2, <4>1 DEF Rest
    <3> QED BY <3>1, <3>2
  <2> QED BY <2>1 DEF CallFrame, Frame
<1> DEFINE b == <<rest>> \o r
<1>4. b \in Seq(Frame)
  BY <1>1, <1>3
<1> HIDE DEF r, rest
<1>5. Beneath(b, u, T)
  BY <1>1, <1>2, <1>3, BeneathPush
<1>6. Ascends(<<>>, 0, u)
  BY AscendsEmpty
<1>7. CASE match = NoChord
  <2>1. kbd' = Resolving(k, q, match) /\ stack' = b
    BY <1>1, <1>7 DEF Resolve, Call, Resolving, rest, r
  <2>2. kbd'.chord.state = "resolving" /\ kbd'.overload = k.overload
    BY <2>1 DEF Resolving, Keyboard, Chording
  <2>3. Withheld(kbd') = <<>>
    BY <2>2 DEF Withheld
  <2> HIDE DEF b
  <2> QED BY <1>5, <1>6, <2>1, <2>2, <2>3 DEF Timely
<1>8. CASE match # NoChord /\ {s \in Slot : ~k.slots[s].on} = {}
  <2>1. kbd'.aborted = TRUE
    BY <1>8 DEF Resolve, Exit, Keyboard
  <2> QED BY <2>1
<1>9. CASE match # NoChord /\ {s \in Slot : ~k.slots[s].on} # {}
  <2>1. kbd' = Started(k, q, match, slot) /\ stack' = <<code, rest>> \o <<Taken>> \o Tail(stack)
    BY <1>9 DEF Resolve, Call, Started, Resolving, rest
  <2>2. kbd'.chord.state = "resolving" /\ kbd'.overload = k.overload
    BY <2>1 DEF Started, Resolving, Keyboard, Chording
  <2>3. Withheld(kbd') = <<>>
    BY <2>2 DEF Withheld
  <2>4. slot \in Slot
    <3>1. {s \in Slot : ~k.slots[s].on} \in SUBSET Nat
      BY CodeAssumption DEF Slot
    <3> QED BY <1>9, <3>1, LeastIsMember
  <2> HIDE DEF slot
  <2>5. code \in Frame
    <3>1. press \in Event
      BY <2>4 DEF Event, Keyboard, Chording
    <3> QED BY <3>1 DEF CallFrame, Frame
  <2> HIDE DEF code
  <2>6. stack' = <<code>> \o b
    BY <1>1, <1>3, <2>1, <2>5, TwoOnTop DEF b, r
  <2> HIDE DEF b
  <2>7. Beneath(stack', u, T)
    BY <1>4, <1>5, <2>5, <2>6, BeneathPush
  <2> QED BY <1>6, <2>2, <2>3, <2>7 DEF Timely
<1> QED BY <1>7, <1>8, <1>9

\* What happens while a chord is resolved stays above the frames beneath it.
LEMMA ReplayTimely ==
  ASSUME Processing, ChordOnce(stack), NEW k \in Keyboard, k.chord.state = "resolving",
         k.overload.queue = <<>>, NEW t \in Nat, NEW T, Beneath(stack, t, T),
         Exit(k) \/ \E f \in Frame : Call(k, <<f>>)
  PROVE  Timely(kbd', stack', T)
<1>1. stack \in Seq(Frame) /\ stack # <<>> /\ Tail(stack) \in Seq(Frame) /\ Taken \in Frame /\ Taken.kind = Top.kind
  BY UpcomingOK, TakenKind DEF Processing, TypeInv, TypeOK
<1>2. ASSUME NEW f \in Frame, f.kind = Top.kind PROVE Beneath(<<f>> \o Tail(stack), t, T)
  <2>1. CASE Top.kind = "chord"
    <3>1. Chain(Tail(stack), t, T)
      BY <1>1, <2>1, BeneathTail DEF Top
    <3> QED BY <1>1, <1>2, <2>1, <3>1, BeneathPush
  <2>2. CASE Top.kind # "chord"
    <3>1. Beneath(Tail(stack), t, T)
      BY <1>1, <2>2, BeneathTail DEF Top
    <3> QED BY <1>1, <1>2, <3>1, BeneathPush
  <2> QED BY <2>1, <2>2
<1>3. Ascends(<<>>, 0, t)
  BY AscendsEmpty
<1>4. Beneath(stack', t, T) /\ kbd'.chord = k.chord /\ kbd'.overload = k.overload
  <2>1. CASE Exit(k)
    <3> DEFINE f == [Taken EXCEPT !.timer = Deadline(k, Upcoming.at)]
    <3>1. Upcoming.at \in Nat /\ k.timers \in SUBSET Nat
      BY UpcomingOK DEF Event, Keyboard
    <3>2. Deadline(k, Upcoming.at) \in Nat
      BY <3>1, DeadlineType
    <3>3. f \in Frame /\ f.kind = Top.kind
      BY <1>1, <3>2 DEF Frame
    <3>4. stack' = <<f>> \o Tail(stack) /\ kbd'.chord = k.chord /\ kbd'.overload = k.overload
      BY <2>1 DEF Exit, Keyboard
    <3> HIDE DEF f
    <3> QED BY <1>2, <3>3, <3>4
  <2>2. ASSUME NEW f \in Frame, Call(k, <<f>>)
        PROVE  Beneath(stack', t, T) /\ kbd' = k
    <3> DEFINE r == <<Taken>> \o Tail(stack)
    <3>1. kbd' = k /\ stack' = <<f>> \o r /\ r \in Seq(Frame)
      BY <1>1, <2>2 DEF Call
    <3>2. Beneath(r, t, T)
      BY <1>1, <1>2
    <3> HIDE DEF r
    <3> QED BY <3>1, <3>2, BeneathPush
  <2> QED BY <2>1, <2>2
<1>5. Withheld(kbd') = <<>> /\ kbd'.chord.state = "resolving"
  BY <1>4 DEF Withheld
<1> QED BY <1>3, <1>4, <1>5 DEF Timely

\* Outside a resolution, what waits ends before the event that comes.
LEMMA TimelyNews ==
  ASSUME Processing, Tidy(kbd), kbd.chord.state # "resolving", NEW T, Timely(kbd, stack, T)
  PROVE  \E t, u \in Nat : /\ Ascends(Withheld(kbd), 0, t) /\ t <= u
                           /\ Upcoming.code # NoCode => u = Upcoming.at
                           /\ OnTime(u, T) /\ Ascends(Withheld(kbd), 0, u)
                           /\ Upcoming.code # NoCode =>
                                Ascends(Append(Withheld(kbd), Upcoming), 0, u)
<1>1. PICK t \in Nat : Ascends(Withheld(kbd), 0, t) /\ Chain(stack, t, T)
  BY DEF Timely
<1>2. PICK u \in Nat : t <= u /\ (Upcoming.code # NoCode => u = Upcoming.at) /\ OnTime(u, T)
  BY <1>1, EventOnTime
<1>3. Withheld(kbd) \in Seq(Event) /\ Upcoming \in Event
  BY CurrentOK, UpcomingOK, WithheldIs
<1>4. Ascends(Withheld(kbd), 0, u)
  BY <1>1, <1>2, <1>3, AscendsWiden
<1>5. ASSUME Upcoming.code # NoCode PROVE Ascends(Append(Withheld(kbd), Upcoming), 0, u)
  BY <1>1, <1>2, <1>3, <1>5, AscendsAppend
<1> QED BY <1>1, <1>2, <1>4, <1>5

\* ... and in one, nothing waits.
LEMMA ReplayNews ==
  ASSUME Processing, Tidy(kbd), Conforms(kbd, stack), kbd.chord.state = "resolving",
         NEW T, Timely(kbd, stack, T)
  PROVE  /\ kbd.overload.code = NoCode /\ kbd.overload.queue = <<>> /\ ChordOnce(stack)
         /\ \E t \in Nat : Beneath(stack, t, T)
<1>1. kbd.overload.code = NoCode /\ kbd.overload.queue = <<>>
  BY DEF Tidy
<1> QED BY <1>1 DEF Conforms, Timely

LEMMA StrikeWithheld ==
  ASSUME NEW k, KeyboardOK(k), NEW e \in Event, e.code \in Slot => k.slots[e.code].chord \in Chord,
         NEW j, j = Strike(k, e)
  PROVE  /\ j \in Keyboard /\ j.chord = k.chord /\ j.overload.queue = k.overload.queue
         /\ Withheld(j) = Withheld(k)
<1>1. KeyboardOK(j) /\ Kept(j, k)
  BY StrikeOK
<1>2. j \in Keyboard /\ j.chord = k.chord
  BY <1>1 DEF KeyboardOK, Kept
<1>3. j.overload.queue = k.overload.queue
  <2>1. k \in Keyboard /\ e.at \in Nat
    BY DEF KeyboardOK, Event
  <2>2. \A i, c, d : i \in Keyboard => Press(i, c, d, e.at).overload.queue = i.overload.queue
    BY <2>1 DEF Press, Schedule, ActivateLayer, Keyboard
  <2>3. \A i, d : i \in Keyboard => Release(i, d, e.at).overload.queue = i.overload.queue
    BY DEF Release, DeactivateLayer, Keyboard
  <2>4. CASE e.code # NoCode /\ e.pressed /\ ~Cached(k, e.code)
    <3> DEFINE d == Lookup(k, e.code)
    <3>1. e.code \in Codes
      BY <2>4 DEF Event, Codes
    <3>2. d \in Descriptor
      BY <3>1, LookupType
    <3> HIDE DEF d
    <3>3. CacheSet(k, e.code, d) \in Keyboard /\ CacheSet(k, e.code, d).overload = k.overload
      BY <2>1, <3>1, <3>2 DEF CacheSet, Keyboard, Codes
    <3>4. j = Press(CacheSet(k, e.code, d), e.code, d, e.at)
      BY <2>4 DEF Strike, d
    <3> QED BY <2>2, <3>3, <3>4
  <2>5. CASE e.code # NoCode /\ ~e.pressed /\ Cached(k, e.code)
    <3>1. e.code \in Codes /\ Free \in Descriptor
      BY <2>5, FreeType DEF Event, Codes
    <3>2. CacheSet(k, e.code, Free) \in Keyboard /\ CacheSet(k, e.code, Free).overload = k.overload
      BY <2>1, <3>1 DEF CacheSet, Keyboard, Codes
    <3>3. j = Release(CacheSet(k, e.code, Free), k.cache[e.code], e.at)
      BY <2>5 DEF Strike
    <3> QED BY <2>3, <3>2, <3>3
  <2>6. CASE ~(e.code # NoCode /\ e.pressed /\ ~Cached(k, e.code))
             /\ ~(e.code # NoCode /\ ~e.pressed /\ Cached(k, e.code))
    BY <2>6 DEF Strike
  <2> QED BY <2>4, <2>5, <2>6
<1> QED BY <1>2, <1>3 DEF Withheld

LEMMA DeliverTimely ==
  ASSUME PlainActions, Processing, Paid(kbd), Deliver(Upcoming), Tidy(kbd), Conforms(kbd, stack),
         NEW T, Timely(kbd, stack, T)
  PROVE  ~kbd'.aborted => Timely(kbd', stack', T)
<1> DEFINE e == Upcoming
           k == DecideTimeout(kbd, e)
<1>1. e \in Event /\ (e.code \in Slot => kbd.slots[e.code].chord \in Chord)
  BY UpcomingOK
<1>2. KeyboardOK(kbd) /\ kbd \in Keyboard
  BY CurrentOK DEF Result
<1>3. KeyboardOK(k) /\ Kept(k, kbd) /\ Keeps(kbd, k) /\ Alike(kbd, k)
  BY <1>1, <1>2, DecideTimeoutOK, DecideTimeoutKeeps, DecideTimeoutAlike
<1>4. \/ QueueFull(k, e) /\ Exit([k EXCEPT !.aborted = TRUE])
      \/ Waits(k, e) /\ Defer(k, e)
      \/ ~Waits(k, e) /\ Exit(Strike(k, e))
  BY DEF Deliver
<1> HIDE DEF k
<1>5. Result(k) /\ k \in Keyboard /\ Paid(k) /\ k.overload \in PendingOverload
  BY <1>3, KeptResult DEF KeyboardOK, Keeps, Keyboard
<1>6. Tidy(k) /\ Withheld(k) = Withheld(kbd) /\ k.chord = kbd.chord /\ k.overload = kbd.overload
  BY <1>2, <1>3, AlikeTidy DEF Alike
<1>7. CASE QueueFull(k, e) /\ Exit([k EXCEPT !.aborted = TRUE])
  <2>1. kbd'.aborted = TRUE
    BY <1>5, <1>7 DEF Exit, Keyboard
  <2> QED BY <2>1
<1>8. CASE Waits(k, e) /\ Defer(k, e)
  <2>1. k.overload.code # NoCode
    BY <1>8 DEF Waits
  <2> DEFINE q == Enqueue(k.overload, e).queue
  <2>2. Withheld(k) = k.overload.queue /\ k.chord.state = "inactive"
    BY <1>5, <1>6, <1>8, <2>1, DeferWithheld
  <2>3. PICK j \in Keyboard :
          /\ j.chord = k.chord
          /\ \/ Exit(j) /\ Withheld(j) = q
             \/ \E f \in Frame : Call(j, <<f>>) /\ Withheld(j) = <<>> /\ f.events = q
    BY <1>5, <1>6, <1>8, <2>1, DeferWithheld
  <2>4. kbd.chord.state # "resolving" /\ j.chord.state # "resolving"
    BY <1>6, <2>2, <2>3
  <2>5. PICK u \in Nat : /\ OnTime(u, T) /\ Ascends(Withheld(kbd), 0, u)
                         /\ e.code # NoCode => Ascends(Append(Withheld(kbd), e), 0, u)
    BY <2>4, TimelyNews
  <2>6. Ascends(q, 0, u)
    BY <1>5, <1>6, <2>2, <2>5 DEF Enqueue, PendingOverload
  <2> HIDE DEF q
  <2>7. CASE Exit(j) /\ Withheld(j) = q
    BY <2>4, <2>5, <2>6, <2>7, ExitTimely
  <2>8. ASSUME NEW f \in Frame, Call(j, <<f>>), Withheld(j) = <<>>, f.events = q
        PROVE  Timely(kbd', stack', T)
    <3>1. Ascends(<<>>, 0, 0)
      BY AscendsEmpty
    <3> QED BY <2>4, <2>5, <2>6, <2>8, <3>1, CallTimely
  <2> QED BY <2>3, <2>7, <2>8
<1>9. CASE ~Waits(k, e) /\ Exit(Strike(k, e))
  <2> DEFINE j == Strike(k, e)
  <2>1. e.code \in Slot => k.slots[e.code].chord \in Chord
    BY <1>1, <1>5 DEF Result
  <2>2. /\ j \in Keyboard /\ j.chord = kbd.chord /\ j.overload.queue = kbd.overload.queue
        /\ Withheld(j) = Withheld(kbd)
    BY <1>1, <1>3, <1>6, <2>1, StrikeWithheld
  <2>3. Exit(j)
    BY <1>9
  <2> HIDE DEF j
  <2>4. CASE kbd.chord.state = "resolving"
    <3>1. PICK t \in Nat : Beneath(stack, t, T)
      BY <2>4, ReplayNews
    <3>2. kbd.overload.queue = <<>> /\ ChordOnce(stack)
      BY <2>4, ReplayNews
    <3> QED BY <2>2, <2>3, <2>4, <3>1, <3>2, ReplayTimely
  <2>5. CASE kbd.chord.state # "resolving"
    <3>1. PICK u \in Nat : OnTime(u, T) /\ Ascends(Withheld(kbd), 0, u)
      BY <2>5, TimelyNews
    <3> QED BY <2>2, <2>3, <2>5, <3>1, ExitTimely
  <2> QED BY <2>4, <2>5
<1> QED BY <1>4, <1>7, <1>8, <1>9

LEMMA ReleaseTimely ==
  ASSUME Processing, ReleaseChordKey(Upcoming), Tidy(kbd), Conforms(kbd, stack),
         NEW T, Timely(kbd, stack, T)
  PROVE  Timely(kbd', stack', T)
<1> DEFINE e == Upcoming
           s == Least(Releasing(e))
           lifted == Lift(kbd, s, e.code)
           release == [code |-> s, pressed |-> FALSE, at |-> e.at]
           f == CallFrame("code", <<release>>)
<1>1. e \in Event /\ e.at \in Nat /\ kbd \in Keyboard
  BY UpcomingOK, CurrentOK DEF Event
<1>2. s \in Slot /\ e.code \in kbd.slots[s].keys
  <2>1. Releasing(e) # {} /\ Releasing(e) \in SUBSET Nat
    BY CodeAssumption DEF ReleaseChordKey, Releasing, Slot
  <2>2. s \in Releasing(e)
    BY <2>1, LeastIsMember
  <2> QED BY <2>2 DEF Releasing
<1>3. Exit(lifted) \/ Call(lifted, <<f>>)
  BY DEF ReleaseChordKey
<1> HIDE DEF s
<1>4. e.code # NoCode
  <2>1. e.code \in Code
    BY <1>1, <1>2 DEF Keyboard, ActiveChord
  <2> QED BY <2>1, CodeAssumption
<1> DEFINE a == [kbd.slots[s] EXCEPT !.keys = @ \ {e.code}, !.on = kbd.slots[s].keys # {e.code}]
           x == [kbd.slots EXCEPT ![s] = a]
<1>a. kbd.slots \in [Slot -> ActiveChord]
  BY <1>1 DEF Keyboard
<1>b. lifted = [kbd EXCEPT !.slots = x]
  BY <1>1, <1>2, <1>a DEF Lift, Keyboard, ActiveChord
<1>c. a \in ActiveChord
  BY <1>2, <1>a DEF ActiveChord
<1>d. x \in [Slot -> ActiveChord]
  <2> HIDE DEF a
  <2> QED BY <1>2, <1>a, <1>c
<1> HIDE DEF x, lifted
<1>5. lifted \in Keyboard /\ lifted.chord = kbd.chord /\ lifted.overload = kbd.overload
  BY <1>1, <1>b, <1>d DEF Keyboard
<1>6. Withheld(lifted) = Withheld(kbd)
  BY <1>5 DEF Withheld
<1>7. release \in Event /\ release.at = e.at
  BY <1>1, <1>2 DEF Event
<1> HIDE DEF release
<1>8. f \in Frame /\ f.events = <<release>>
  BY <1>7 DEF CallFrame, Frame
<1> HIDE DEF f
<1>9. CASE kbd.chord.state = "resolving"
  <2>1. PICK t \in Nat : Beneath(stack, t, T)
    BY <1>9, ReplayNews
  <2>2. kbd.overload.queue = <<>> /\ ChordOnce(stack)
    BY <1>9, ReplayNews
  <2> QED BY <1>3, <1>5, <1>8, <1>9, <2>1, <2>2, ReplayTimely
<1>10. CASE kbd.chord.state # "resolving"
  <2>1. PICK t, u \in Nat : /\ Ascends(Withheld(kbd), 0, t) /\ t <= u /\ OnTime(u, T)
                            /\ Ascends(Withheld(kbd), 0, u)
                            /\ e.code # NoCode => u = e.at
    BY <1>10, TimelyNews
  <2>2. CASE Exit(lifted)
    BY <1>5, <1>6, <1>10, <2>1, <2>2, ExitTimely
  <2>3. CASE Call(lifted, <<f>>)
    <3>1. Ascends(<<release>>, t, u)
      BY <1>4, <1>7, <2>1, AscendsOne
    <3> QED BY <1>5, <1>6, <1>8, <1>10, <2>1, <2>3, <3>1, CallTimely
  <2> QED BY <1>3, <2>2, <2>3
<1> QED BY <1>9, <1>10

\* A chord that begins, grows, or is decided: it waits with the event that came, or is
\* resolved.
LEMMA ChordWithheld ==
  ASSUME Processing, Tidy(kbd),
         \/ BeginChord(Upcoming) \/ ExtendChord(Upcoming) \/ LapseChord(Upcoming)
         \/ HoldChord(Upcoming) \/ FireChord(Upcoming)
  PROVE  /\ kbd.overload.queue = <<>> /\ kbd.chord.state # "resolving"
         /\ \/ kbd'.aborted
            \/ \E k \in Keyboard, q \in Seq(Event), m \in Chord \cup {NoChord} :
                 k.overload = kbd.overload /\ Resolve(k, q, m)
            \/ \E k \in Keyboard :
                 /\ Exit(k) /\ k.overload = kbd.overload /\ k.chord.state # "resolving"
                 /\ \/ k.chord.queue = kbd.chord.queue
                    \/ Upcoming.code # NoCode /\ k.chord.queue = Append(kbd.chord.queue, Upcoming)
<1> DEFINE e == Upcoming
           q == kbd.chord.queue
           Outcome2 ==
             \/ kbd'.aborted
             \/ \E k \in Keyboard, r \in Seq(Event), m \in Chord \cup {NoChord} :
                  k.overload = kbd.overload /\ Resolve(k, r, m)
             \/ \E k \in Keyboard :
                  /\ Exit(k) /\ k.overload = kbd.overload /\ k.chord.state # "resolving"
                  /\ k.chord.queue = q \/ (e.code # NoCode /\ k.chord.queue = Append(q, e))
<1>1. kbd \in Keyboard /\ KeyboardOK(kbd) /\ kbd.chord \in Chording /\ q \in Seq(Event)
      /\ kbd.chord.match \in Chord \cup {NoChord} /\ e \in Event /\ e.at \in Nat
      /\ Append(q, e) \in Seq(Event)
  BY CurrentOK, UpcomingOK, QueueOK DEF Event, Result
<1>2. kbd.config.interkey \in Nat /\ kbd.config.hold \in Nat
  BY CurrentOK
<1>3. ASSUME Exit([kbd EXCEPT !.aborted = TRUE]) PROVE Outcome2
  <2>1. kbd'.aborted = TRUE
    BY <1>1, <1>3 DEF Exit, Keyboard
  <2> QED BY <2>1
<1>4. ASSUME NEW r \in Seq(Event), NEW m \in Chord \cup {NoChord}, Resolve(kbd, r, m) PROVE Outcome2
  BY <1>1, <1>4
<1>5. ASSUME NEW c \in Chording, NEW n \in Nat, c.state # "resolving",
             c.queue = q \/ (e.code # NoCode /\ c.queue = Append(q, e)),
             Exit([kbd EXCEPT !.chord = c]) \/ Exit(Schedule([kbd EXCEPT !.chord = c], n))
      PROVE  Outcome2
  <2> DEFINE k == [kbd EXCEPT !.chord = c]
             j == Schedule(k, n)
  <2>1. /\ k \in Keyboard /\ k.overload = kbd.overload /\ k.chord = c
    BY <1>1, <1>5 DEF Keyboard
  <2>2. j \in Keyboard /\ Alike(k, j)
    BY <2>1, ScheduleAlike
  <2>3. j.overload = kbd.overload /\ j.chord = c
    BY <2>1, <2>2 DEF Alike
  <2>4. Exit(k) \/ Exit(j)
    BY <1>5
  <2> HIDE DEF j, k, q
  <2> QED BY <1>5, <2>1, <2>2, <2>3, <2>4
<1>6. ASSUME e.code # NoCode, NEW old \in Chord \cup {NoChord}, Advance(Append(q, e), old, e.at)
      PROVE  Outcome2
  <2> DEFINE r == Append(q, e)
             match == Match(kbd, r, old)
             unambiguous == Full(kbd, r) # {} /\ Partial(kbd, r) = Full(kbd, r)
             c == [state |-> IF unambiguous THEN "hold" ELSE "pending",
                   queue |-> r, match |-> match, last |-> e.at]
             waiting == [kbd EXCEPT !.chord = c]
  <2>1. match \in Chord \cup {NoChord}
    BY <1>1, <1>6, MatchType
  <2>2. \/ Exit(Schedule(waiting, e.at + kbd.config.interkey))
        \/ Exit(Schedule(waiting, e.at + kbd.config.hold))
        \/ Resolve(waiting, r, match)
    BY <1>6, Zenon DEF Advance
  <2>3. c \in Chording /\ c.state # "resolving" /\ c.queue = r
    BY <1>1, <2>1 DEF Chording
  <2>4. waiting \in Keyboard /\ waiting.overload = kbd.overload
    <3> HIDE DEF c
    <3> QED BY <1>1, <2>3 DEF Keyboard
  <2>5. CASE Resolve(waiting, r, match)
    <3>1. r \in Seq(Event)
      BY <1>1
    <3> HIDE DEF r, match, waiting
    <3> QED BY <2>1, <2>4, <2>5, <3>1
  <2>6. ASSUME NEW n \in Nat, Exit(Schedule(waiting, n)) PROVE Outcome2
    <3>1. Exit(Schedule([kbd EXCEPT !.chord = c], n))
      BY <2>6
    <3> HIDE DEF c
    <3> QED BY <1>5, <1>6, <2>3, <3>1
  <2>7. e.at + kbd.config.interkey \in Nat /\ e.at + kbd.config.hold \in Nat
    BY <1>1, <1>2
  <2> QED BY <2>2, <2>5, <2>6, <2>7
<1>7. CASE BeginChord(e)
  <2>1. kbd.chord.state = "inactive" /\ e.code # NoCode /\ Partial(kbd, <<e>>) # {} /\ Advance(<<e>>, NoChord, e.at)
    BY <1>7 DEF BeginChord
  <2>2. ~Chordless(kbd.config)
    BY <2>1 DEF Partial, Chordless
  <2>3. q = <<>> /\ kbd.overload.queue = <<>>
    BY <2>1, <2>2 DEF Tidy
  <2>4. Append(q, e) = <<e>>
    BY <2>3
  <2>5. Outcome2
    <3>1. Advance(Append(q, e), NoChord, e.at)
      BY <2>1, <2>4
    <3> HIDE DEF Outcome2, q
    <3> QED BY <1>6, <2>1, <3>1
  <2> QED BY <2>1, <2>3, <2>5
<1>8. CASE ExtendChord(e)
  <2>1. kbd.chord.state = "pending" /\ e.code # NoCode
    BY <1>8 DEF ExtendChord
  <2>2. kbd.overload.queue = <<>>
    BY <2>1 DEF Tidy
  <2>3. \/ Exit([kbd EXCEPT !.aborted = TRUE])
        \/ Advance(Append(q, e), kbd.chord.match, e.at)
        \/ Resolve(kbd, Append(q, e), NoChord)
    BY <1>8 DEF ExtendChord, Abort
  <2>4. Outcome2
    <3> HIDE DEF Outcome2, q
    <3> QED BY <1>1, <1>3, <1>4, <1>6, <2>1, <2>3
  <2> QED BY <2>1, <2>2, <2>4
<1>9. CASE LapseChord(e)
  <2> DEFINE c == [kbd.chord EXCEPT !.state = "hold"]
             t == e.at + (kbd.config.hold - kbd.config.interkey)
  <2>1. kbd.chord.state = "pending"
    BY <1>9 DEF LapseChord
  <2>2. kbd.overload.queue = <<>>
    BY <2>1 DEF Tidy
  <2>3. [kbd EXCEPT !.chord.state = "hold"] = [kbd EXCEPT !.chord = c]
    BY <1>1 DEF Keyboard
  <2>4. \/ kbd.config.hold > kbd.config.interkey /\ Exit(Schedule([kbd EXCEPT !.chord = c], t))
        \/ \E m \in {NoChord, kbd.chord.match} : Resolve(kbd, q, m)
    BY <1>9, <2>3 DEF LapseChord, Abort
  <2>5. c \in Chording /\ c.state # "resolving" /\ c.queue = q
    BY <1>1 DEF Chording
  <2>6. kbd.config.hold > kbd.config.interkey => t \in Nat
    BY <1>1, <1>2
  <2>7. Outcome2
    <3> HIDE DEF Outcome2, q, c, t
    <3> QED BY <1>1, <1>4, <1>5, <2>4, <2>5, <2>6
  <2> QED BY <2>1, <2>2, <2>7
<1>10. CASE HoldChord(e)
  <2> DEFINE c == [kbd.chord EXCEPT !.queue = Append(q, e)]
  <2>1. kbd.chord.state = "hold" /\ e.code # NoCode
    BY <1>10 DEF HoldChord
  <2>2. kbd.overload.queue = <<>>
    BY <2>1 DEF Tidy
  <2>3. [kbd EXCEPT !.chord.queue = Append(q, e)] = [kbd EXCEPT !.chord = c]
    BY <1>1 DEF Keyboard
  <2>4. \/ Exit([kbd EXCEPT !.aborted = TRUE])
        \/ Resolve(kbd, Append(q, e), NoChord)
        \/ Exit([kbd EXCEPT !.chord = c])
    BY <1>10, <2>3, Zenon DEF HoldChord, Abort
  <2>5. c \in Chording /\ c.state # "resolving" /\ c.queue = Append(q, e)
    BY <1>1, <2>1 DEF Chording
  <2>6. Outcome2
    <3> HIDE DEF Outcome2, q, c
    <3> QED BY <1>1, <1>3, <1>4, <1>5, <2>1, <2>4, <2>5
  <2> QED BY <2>1, <2>2, <2>6
<1>11. CASE FireChord(e)
  <2>1. kbd.chord.state = "hold" /\ Resolve(kbd, q, kbd.chord.match)
    BY <1>11 DEF FireChord
  <2>2. kbd.overload.queue = <<>>
    BY <2>1 DEF Tidy
  <2>3. Outcome2
    <3> HIDE DEF Outcome2, q
    <3> QED BY <1>1, <1>4, <2>1
  <2> QED BY <2>1, <2>2, <2>3
<1> QED BY <1>7, <1>8, <1>9, <1>10, <1>11

LEMMA ChordTimely ==
  ASSUME Processing, Tidy(kbd),
         \/ BeginChord(Upcoming) \/ ExtendChord(Upcoming) \/ LapseChord(Upcoming)
         \/ HoldChord(Upcoming) \/ FireChord(Upcoming),
         NEW T, Timely(kbd, stack, T)
  PROVE  ~kbd'.aborted => Timely(kbd', stack', T)
<1> DEFINE e == Upcoming
           q == kbd.chord.queue
<1>1. /\ kbd.overload.queue = <<>> /\ kbd.chord.state # "resolving"
      /\ \/ kbd'.aborted
         \/ \E k \in Keyboard, r \in Seq(Event), m \in Chord \cup {NoChord} :
              k.overload = kbd.overload /\ Resolve(k, r, m)
         \/ \E k \in Keyboard :
              /\ Exit(k) /\ k.overload = kbd.overload /\ k.chord.state # "resolving"
              /\ \/ k.chord.queue = q
                 \/ e.code # NoCode /\ k.chord.queue = Append(q, e)
  BY ChordWithheld
<1>2. \A k \in Keyboard : k.overload = kbd.overload /\ k.chord.state # "resolving" =>
                            Withheld(k) = k.chord.queue
  <2> SUFFICES ASSUME NEW k \in Keyboard, k.overload = kbd.overload, k.chord.state # "resolving"
               PROVE  Withheld(k) = k.chord.queue
    OBVIOUS
  <2>1. k.chord.queue \in Seq(Event) /\ k.overload.queue = <<>>
    BY <1>1 DEF Keyboard, Chording
  <2>2. Withheld(k) = <<>> \o k.chord.queue
    BY <2>1 DEF Withheld
  <2> QED BY <2>1, <2>2
<1>3. kbd \in Keyboard
  BY CurrentOK
<1>4. PICK u \in Nat : /\ OnTime(u, T) /\ Ascends(q, 0, u)
                       /\ e.code # NoCode => Ascends(Append(q, e), 0, u)
  <2>1. Withheld(kbd) = q
    BY <1>1, <1>2, <1>3
  <2> QED BY <1>1, <2>1, TimelyNews
<1>5. ASSUME NEW k \in Keyboard, NEW r \in Seq(Event), NEW m \in Chord \cup {NoChord},
             k.overload = kbd.overload, Resolve(k, r, m)
      PROVE  ~kbd'.aborted => Timely(kbd', stack', T)
  <2>1. k.overload.queue = <<>>
    BY <1>1, <1>5
  <2> QED BY <1>4, <1>5, <2>1, ResolveTimely
<1>6. ASSUME NEW k \in Keyboard, Exit(k), k.overload = kbd.overload, k.chord.state # "resolving",
             k.chord.queue = q \/ (e.code # NoCode /\ k.chord.queue = Append(q, e))
      PROVE  Timely(kbd', stack', T)
  <2>1. Ascends(Withheld(k), 0, u)
    BY <1>2, <1>4, <1>6
  <2> QED BY <1>4, <1>6, <2>1, ExitTimely
<1> QED BY <1>1, <1>5, <1>6

LEMMA ReturnedTimely ==
  ASSUME TypeInv, stack # <<>>, Top.events = <<>>, NEW T, Tidy(kbd), Conforms(kbd, stack),
         Timely(kbd, stack, T)
  PROVE  Timely(Returned, Tail(stack), T)
<1> DEFINE k == Returned
           r == Tail(stack)
<1>1. stack \in Seq(Frame) /\ kbd \in Keyboard
  BY DEF TypeInv, TypeOK
<1>2. stack = <<Top>> \o r /\ Top \in Frame /\ r \in Seq(Frame)
  BY <1>1, TopAndTail DEF Top
<1>3. Withheld(kbd) \in Seq(Event)
  BY <1>1, WithheldIs
<1>4. PICK t \in Nat : /\ Ascends(Withheld(kbd), 0, t)
                       /\ kbd.chord.state = "resolving" => Beneath(stack, t, T)
                       /\ kbd.chord.state # "resolving" => Chain(stack, t, T)
  BY DEF Timely
<1>5. CASE Top.kind # "chord"
  <2>1. k = kbd
    BY <1>5 DEF Returned
  <2>2. CASE kbd.chord.state = "resolving"
    <3>1. Beneath(r, t, T)
      BY <1>1, <1>4, <1>5, <2>2, BeneathTail DEF Top
    <3> QED BY <1>4, <2>1, <2>2, <3>1 DEF Timely
  <2>3. CASE kbd.chord.state # "resolving"
    <3>1. PICK u \in Nat : Ascends(Top.events, t, u) /\ Chain(r, u, T)
      BY <1>1, <1>4, <2>3, ChainTail DEF Top
    <3>2. t <= u
      BY <3>1 DEF Ascends
    <3>3. Ascends(Withheld(kbd), 0, u)
      BY <1>3, <1>4, <3>2, AscendsWiden
    <3> QED BY <2>1, <2>3, <3>1, <3>3 DEF Timely
  <2> QED BY <2>2, <2>3
<1>6. CASE Top.kind = "chord"
  <2>1. ~ChordFree(stack)
    BY <1>2, <1>6, FrameOnTop
  <2>2. kbd.chord.state = "resolving" /\ ChordOnce(stack)
    BY <2>1 DEF Conforms
  <2>3. Chain(r, t, T)
    BY <1>1, <1>4, <1>6, <2>2, BeneathTail DEF Top
  <2>4. k = [kbd EXCEPT !.chord = Inactive]
    BY <1>6 DEF Returned
  <2> HIDE DEF k
  <2>5. k.chord.state = "inactive" /\ k.chord.queue = <<>> /\ k.overload = kbd.overload
    BY <1>1, <2>4 DEF Keyboard, Inactive
  <2>6. kbd.overload.queue \in Seq(Event) /\ Withheld(kbd) = kbd.overload.queue
    BY <1>1, <2>2 DEF Withheld, Keyboard, PendingOverload
  <2>7. Withheld(k) = Withheld(kbd)
    BY <2>5, <2>6 DEF Withheld
  <2>8. Timely(k, r, T)
    BY <1>4, <2>3, <2>5, <2>7 DEF Timely
  <2> QED BY <2>8 DEF k
<1> QED BY <1>5, <1>6

LEMMA ReturnTimely ==
  ASSUME TypeInv, Return, NEW H, Accounts(kbd, stack, H), NEW T, Timely(kbd, stack, T)
  PROVE  Timely(kbd', stack', T)
<1> DEFINE k == Returned
           r == Tail(stack)
           caller == stack[2]
           j == [k EXCEPT !.timers = Later(k, caller.at)]
           f == [caller EXCEPT !.timer = Deadline(k, caller.at)]
<1>1. stack \in Seq(Frame) /\ stack # <<>> /\ Top.events = <<>> /\ r \in Seq(Frame)
  BY DEF TypeInv, TypeOK, Return
<1>2. Accounts(k, r, H) /\ k \in Keyboard /\ Timely(k, r, T)
  BY <1>1, ReturnedAccounts, ReturnedTimely DEF Accounts
<1>3. CASE kbd' = k /\ stack' = r
  BY <1>2, <1>3
<1>4. CASE Len(stack) = 1 /\ kbd' = k /\ stack' = <<>>
  <2>1. Len(r) = 0 /\ r \in Seq(Frame)
    BY <1>1, <1>4
  <2> HIDE DEF r
  <2>2. r = <<>>
    BY <2>1
  <2> QED BY <1>2, <1>4, <2>2
<1>5. CASE Len(stack) # 1 /\ kbd' = j /\ stack' = <<f>> \o Tail(r)
  <2>1. r # <<>> /\ Head(r) = caller
    <3>1. /\ DOMAIN r = 1 .. Len(stack) - 1 /\ Len(stack) \in Nat \ {0}
          /\ \A i \in 1 .. Len(stack) - 1 : r[i] = stack[i + 1]
      BY <1>1, ListFacts, Zenon
    <3>2. 1 \in DOMAIN r /\ r[1] = caller
      BY <1>5, <3>1
    <3>3. r # <<>>
      <4> SUFFICES ASSUME r = <<>> PROVE FALSE
        OBVIOUS
      <4> HIDE DEF r
      <4>1. DOMAIN r = {}
        OBVIOUS
      <4> QED BY <3>2, <4>1
    <3> HIDE DEF r
    <3>4. Head(r) = r[1]
      BY <1>1, <3>3, ListFacts, Zenon
    <3> QED BY <3>2, <3>3, <3>4
  <2>2. caller \in Frame /\ Tail(r) \in Seq(Frame)
    BY <1>1, <2>1, TopAndTail
  <2>3. caller.at \in Nat /\ k.timers \in SUBSET Nat
    BY <1>2, <2>2 DEF Frame, Keyboard
  <2>4. Later(k, caller.at) \in SUBSET Nat /\ Deadline(k, caller.at) \in Nat
    BY <2>3, DeadlineType
  <2>5. f \in Frame /\ f.events = caller.events /\ f.kind = caller.kind
    BY <2>2, <2>4 DEF Frame
  <2>6. j.chord = k.chord /\ Withheld(j) = Withheld(k)
    <3> HIDE DEF k
    <3>1. j.chord = k.chord /\ j.overload = k.overload
      BY <1>2 DEF Keyboard
    <3> HIDE DEF j
    <3> QED BY <3>1 DEF Withheld
  <2> HIDE DEF f, j, k, caller
  <2> DEFINE s == <<f>> \o Tail(r)
  <2>7. PICK t \in Nat : /\ Ascends(Withheld(k), 0, t)
                         /\ k.chord.state = "resolving" => Beneath(r, t, T)
                         /\ k.chord.state # "resolving" => Chain(r, t, T)
    BY <1>2 DEF Timely
  <2>8. CASE k.chord.state = "resolving"
    <3> SUFFICES Timely(j, s, T)
      BY <1>5
    <3>1. ChordOnce(r) /\ Beneath(r, t, T)
      BY <1>2, <2>7, <2>8 DEF Accounts, Conforms
    <3>2. CASE caller.kind = "chord"
      <4>1. Chain(Tail(r), t, T)
        BY <1>1, <2>1, <3>1, <3>2, BeneathTail
      <4>2. Beneath(s, t, T)
        BY <2>2, <2>5, <3>2, <4>1, BeneathPush
      <4> HIDE DEF s
      <4> QED BY <2>6, <2>7, <2>8, <4>2 DEF Timely
    <3>3. CASE caller.kind # "chord"
      <4>1. Beneath(Tail(r), t, T)
        BY <1>1, <2>1, <3>1, <3>3, BeneathTail
      <4>2. Beneath(s, t, T)
        BY <2>2, <2>5, <4>1, BeneathPush
      <4> HIDE DEF s
      <4> QED BY <2>6, <2>7, <2>8, <4>2 DEF Timely
    <3> QED BY <3>2, <3>3
  <2>9. CASE k.chord.state # "resolving"
    <3>1. PICK u \in Nat : Ascends(caller.events, t, u) /\ Chain(Tail(r), u, T)
      BY <1>1, <2>1, <2>7, <2>9, ChainTail
    <3>2. Chain(s, t, T)
      BY <2>2, <2>5, <3>1, ChainPush
    <3> HIDE DEF s
    <3>3. Timely(j, s, T)
      BY <2>6, <2>7, <2>9, <3>2 DEF Timely
    <3> QED BY <1>5, <3>3 DEF s
  <2> QED BY <2>8, <2>9
<1> QED BY <1>3, <1>4, <1>5 DEF Return, Returned

LEMMA DispatchTimely ==
  ASSUME TypeInv, stack = <<>>, NEW e \in Event, Dispatch(e), kbd' = kbd, now <= e.at,
         Conforms(kbd, stack), Timely(kbd, stack, now)
  PROVE  Timely(kbd', stack', now')
<1> DEFINE f == CallFrame("loop", <<e>>)
<1>1. kbd.chord.state # "resolving"
  BY DEF Conforms, ChordOnce
<1>2. PICK t \in Nat : Ascends(Withheld(kbd), 0, t) /\ Chain(<<>>, t, now)
  BY <1>1 DEF Timely
<1>3. t = now /\ e.at \in Nat
  BY <1>2, ChainEmpty DEF Event
<1>4. f \in Frame /\ f.events = <<e>> /\ stack' = <<f>> /\ now' = e.at
  BY DEF CallFrame, Frame, Dispatch
<1> HIDE DEF f
<1>5. stack' = <<f>> \o <<>> /\ <<>> \in Seq(Frame)
  BY <1>4
<1>6. Ascends(<<e>>, t, e.at) /\ Chain(<<>>, e.at, e.at)
  BY <1>3, AscendsOne, ChainEmpty
<1>7. Chain(stack', t, now')
  BY <1>3, <1>4, <1>5, <1>6, ChainPush
<1> QED BY <1>1, <1>2, <1>7 DEF Timely

-----------------------------------------------------------------------------
(* The invariant, and the theorem.                                         *)

Ordered == ~kbd.aborted => Timely(kbd, stack, now)

LEMMA OrderedInit ==
  ASSUME Init
  PROVE  Ordered
<1>1. kbd.chord.state = "inactive" /\ kbd.chord.queue = <<>> /\ kbd.overload.queue = <<>>
      /\ stack = <<>> /\ now = 1
  BY DEF Init, Inactive, NoOverload
<1>2. Withheld(kbd) = <<>>
  BY <1>1 DEF Withheld
<1>3. Ascends(<<>>, 0, 1) /\ Chain(<<>>, 1, 1)
  BY AscendsEmpty, ChainEmpty
<1> QED BY <1>1, <1>2, <1>3 DEF Ordered, Timely

LEMMA ProcessingOrdered ==
  ASSUME PlainActions, Processing, Paid(kbd), Accounted, Ordered,
         ChordStep \/ Deliver(Upcoming)
  PROVE  Ordered'
<1>1. /\ ReleaseChordKey(Upcoming) \/ BeginChord(Upcoming) \/ ExtendChord(Upcoming)
           \/ LapseChord(Upcoming) \/ HoldChord(Upcoming) \/ FireChord(Upcoming)
           \/ Deliver(Upcoming)
      /\ ~kbd.aborted
  BY DEF ChordStep, ReleaseChordKey, BeginChord, ExtendChord, LapseChord, HoldChord, FireChord,
         Deliver, Running
<1>2. now' = now
  BY <1>1 DEF ReleaseChordKey, BeginChord, ExtendChord, LapseChord, HoldChord, FireChord,
         Deliver, Advance, Abort, Resolve, Defer, Exit, Call
<1>3. Tidy(kbd) /\ Conforms(kbd, stack)
  BY <1>1 DEF Accounted, Accounts
<1> DEFINE T == now
<1>4. Timely(kbd, stack, T) /\ now' = T
  BY <1>1, <1>2 DEF Ordered
<1> HIDE DEF T
<1>5. ~kbd'.aborted => Timely(kbd', stack', T)
  BY <1>1, <1>3, <1>4, ReleaseTimely, ChordTimely, DeliverTimely
<1> QED BY <1>4, <1>5 DEF Ordered

LEMMA KeyEventOrdered ==
  ASSUME TypeInv, Accounted, Ordered, NEW c \in Code, NEW pressed \in BOOLEAN,
         NEW t \in 1 .. MaxTime, KeyEvent(c, pressed, t)
  PROVE  Ordered'
<1> DEFINE e == [code |-> c, pressed |-> pressed, at |-> t]
<1>1. kbd' = kbd /\ t \in Nat /\ Dispatch(e) /\ stack = <<>> /\ ~kbd.aborted /\ now <= t
  BY BoundAssumption DEF KeyEvent, Idle, TypeInv, TypeOK
<1>2. e \in Event /\ e.at = t
  BY <1>1 DEF Event
<1> HIDE DEF e
<1>3. Conforms(kbd, stack) /\ Timely(kbd, stack, now)
  BY <1>1 DEF Accounted, Accounts, Ordered
<1>4. Timely(kbd', stack', now')
  BY <1>1, <1>2, <1>3, DispatchTimely
<1> QED BY <1>4 DEF Ordered

LEMMA ExpireOrdered ==
  ASSUME TypeInv, Accounted, Ordered, Expire
  PROVE  Ordered'
<1>1. now \in Nat /\ wake \in Nat /\ Late \in Nat
  BY BoundAssumption DEF TypeInv, TypeOK
<1>2. PICK t : t \in Nat /\ now <= t /\ Timeout(t)
  <2> DEFINE a == IF now > wake THEN now ELSE wake
  <2>1. a \in Nat /\ now <= a
    BY <1>1
  <2>2. PICK t \in a .. a + Late : Timeout(t)
    BY DEF Expire
  <2> HIDE DEF a
  <2> QED BY <1>1, <2>1, <2>2
<1> DEFINE e == [code |-> NoCode, pressed |-> FALSE, at |-> t]
<1>3. kbd' = kbd /\ Dispatch(e) /\ stack = <<>> /\ ~kbd.aborted
  BY <1>2 DEF Timeout, Idle
<1>4. e \in Event /\ e.at = t
  BY <1>2 DEF Event
<1> HIDE DEF e
<1>5. Conforms(kbd, stack) /\ Timely(kbd, stack, now)
  BY <1>3 DEF Accounted, Accounts, Ordered
<1>6. Timely(kbd', stack', now')
  BY <1>2, <1>3, <1>4, <1>5, DispatchTimely
<1> QED BY <1>6 DEF Ordered

LEMMA OrderedStep ==
  ASSUME PlainActions, TypeInv, Paid(kbd), Accounted, Ordered, [Next]_vars
  PROVE  Ordered'
<1>1. CASE \E c \in Code, pressed \in BOOLEAN, t \in 1 .. MaxTime : KeyEvent(c, pressed, t)
  BY <1>1, KeyEventOrdered
<1>2. CASE Expire
  BY <1>2, ExpireOrdered
<1>3. CASE ChordStep
  <2>1. Processing
    BY <1>3 DEF ChordStep, Processing
  <2> QED BY <1>3, <2>1, ProcessingOrdered
<1>4. CASE stack # <<>> /\ Top.events # <<>> /\ Deliver(Upcoming)
  BY <1>4, ProcessingOrdered DEF Processing
<1>5. CASE Return
  <2>1. ~kbd.aborted /\ now' = now
    BY <1>5 DEF Return
  <2>2. Accounts(kbd, stack, HeldCodes) /\ Timely(kbd, stack, now)
    BY <2>1 DEF Accounted, Ordered
  <2>3. Timely(kbd', stack', now)
    BY <1>5, <2>2, ReturnTimely
  <2> QED BY <2>1, <2>3 DEF Ordered
<1>6. CASE UNCHANGED vars
  BY <1>6 DEF vars, Ordered, Timely
<1> QED BY <1>1, <1>2, <1>3, <1>4, <1>5, <1>6 DEF Next, Step

LEMMA OrderedIsChronological ==
  ASSUME TypeInv, Accounted, Ordered
  PROVE  Chronological
<1> SUFFICES ASSUME Idle PROVE \A i, j \in DOMAIN Queued : i < j => Queued[i].at <= Queued[j].at
  BY DEF Chronological
<1>1. stack = <<>> /\ kbd \in Keyboard /\ Conforms(kbd, stack) /\ Timely(kbd, stack, now)
  BY DEF Idle, Accounted, Accounts, Ordered, TypeInv, TypeOK
<1>2. kbd.chord.state # "resolving"
  BY <1>1 DEF Conforms, ChordOnce
<1>3. Withheld(kbd) = Queued
  BY <1>2 DEF Withheld, Queued
<1>4. PICK t \in Nat : Ascends(Queued, 0, t)
  BY <1>1, <1>3 DEF Timely
<1>5. Queued \in Seq(Event)
  BY <1>1 DEF Queued, Keyboard, PendingOverload, Chording
<1>6. DOMAIN Queued = 1 .. Len(Queued)
  BY <1>5
<1> QED BY <1>4, <1>6 DEF Ascends

\* Nothing is reordered: what waits behind an undecided key, and behind it what may be part
\* of a chord, waits in the order in which it was struck, however often it was withheld and
\* replayed.  This is so on the keyboards of PipelineConserved.
THEOREM PipelineChronological ==
  ASSUME PlainActions, Exclusive, Devices = 1 PROVE Spec => []Chronological
<1> DEFINE I == TypeInv /\ Paid(kbd) /\ Matched(kbd.chord) /\ Accounted /\ Ordered
<1>1. I /\ TypeInv' /\ [Next]_vars => I'
  BY PaidStep, MatchedStep, AccountedStep, OrderedStep DEF KeptOn
<1>2. Init => I
  <2>1. Init => Matched(kbd.chord)
    BY DEF Init, Matched, Inactive
  <2> QED BY <2>1, TypeInit, PaidInit, AccountedInit, OrderedInit
<1>3. I => Chronological
  BY OrderedIsChronological
<1> HIDE DEF I
<1> QED BY <1>1, <1>2, <1>3, TypeInvariant, PTL DEF Spec
=============================================================================
