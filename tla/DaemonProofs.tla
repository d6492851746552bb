---------------------------- MODULE DaemonProofs ----------------------------
(***************************************************************************)
(* Proofs about Daemon.                                                    *)
(***************************************************************************)
EXTENDS Daemon, FiniteSetTheorems, WellFoundedInduction, TLAPS

\* Every set of times that is not empty has a least one.
LEMMA HasLeast ==
  ASSUME NEW S \in SUBSET Nat, S # {}
  PROVE  \E u \in S : \A v \in S : u <= v
<1> DEFINE R == OpToRel(<, Nat)
<1>1. IsWellFoundedOn(R, Nat)
  BY NatLessThanWellFounded
<1> HIDE DEF R
<1>2. PICK u \in S : \A v \in S : <<v, u>> \notin R
  BY <1>1, WFMin
<1>3. ASSUME NEW v \in S PROVE ~(v < u)
  <2>1. v < u => <<v, u>> \in R
    BY DEF R, OpToRel
  <2> QED
    BY <2>1, <1>2
<1> QED
  BY <1>3

LEMMA AwaitsType ==
  ASSUME NEW k \in Keyboard, NEW t \in Nat, \A u \in k.timers : u > t
  PROVE  Awaits(k, t) \in Nat
<1>1. CASE k.timers = {}
  BY <1>1 DEF Awaits
<1>2. CASE k.timers # {}
  <2> DEFINE u == CHOOSE v \in k.timers : \A w \in k.timers : v <= w
  <2>1. k.timers \in SUBSET Nat
    BY DEF Keyboard
  <2>2. u \in k.timers
    BY <2>1, <1>2, HasLeast
  <2>3. u \in Nat /\ u > t
    BY <2>1, <2>2
  <2>4. Awaits(k, t) = u - t
    BY <1>2 DEF Awaits
  <2> QED
    BY <2>3, <2>4
<1> QED
  BY <1>1, <1>2

-----------------------------------------------------------------------------
(* A keyboard and its output.                                              *)

Worlds == [kbd : Keyboard, out : SUBSET Code]

\* The keys that k holds down at the output.
Holds(k) == {c \in Code : k.cache[c] = "key"}

\* The key that is pending is in the cache as the timed key it is.
Timed(k) == k.pending # NoCode => k.cache[k.pending] = "timed"

\* What is down at the output is down because of the keyboard or of others.
Covered(s, others) == s.out \subseteq Holds(s.kbd) \cup others
Exact(s) == s.out = Holds(s.kbd)

\* What an event does to a keyboard and its output.
Kept(s, r) == /\ r \in Worlds
              /\ r.kbd.file = s.kbd.file
              /\ Timed(r.kbd)
              /\ \A others : Covered(s, others) => Covered(r, others)
              /\ Exact(s) => Exact(r)

LEMMA KeptReflexive ==
  ASSUME NEW s \in Worlds, Timed(s.kbd)
  PROVE  Kept(s, s)
BY DEF Kept

LEMMA KeptTransitive ==
  ASSUME NEW s, NEW r, NEW q, Kept(s, r), Kept(r, q)
  PROVE  Kept(s, q)
BY DEF Kept

\* The key that was pending is decided as a key or a layer.
LEMMA DecidedKept ==
  ASSUME NEW s \in Worlds, Timed(s.kbd), s.kbd.pending # NoCode,
         NEW op \in {"key", "layer"}
  PROVE  LET p == s.kbd.pending
             r == Perform([s EXCEPT !.kbd.pending = NoCode, !.kbd.cache[p] = op], p, op, TRUE)
         IN  Kept(s, r) /\ r.kbd.pending = NoCode
<1> DEFINE p == s.kbd.pending
           k == [s.kbd EXCEPT !.pending = NoCode, !.cache[p] = op]
           r == [kbd |-> k, out |-> IF op = "key" THEN s.out \cup {p} ELSE s.out]
<1>1. p \in Code /\ s.kbd.cache[p] = "timed"
  BY DEF Worlds, Keyboard, Timed
<1>2. r = Perform([s EXCEPT !.kbd.pending = NoCode, !.kbd.cache[p] = op], p, op, TRUE)
  BY DEF Perform, SendKey, Worlds
<1>3. k.pending = NoCode /\ k.file = s.kbd.file /\ Timed(k)
  BY DEF Worlds, Keyboard, Timed
<1>4. k.cache = [s.kbd.cache EXCEPT ![p] = op]
  BY DEF Worlds, Keyboard
<1>5. k \in Keyboard
  BY <1>1 DEF Worlds, Keyboard
<1>6. Holds(k) = IF op = "key" THEN Holds(s.kbd) \cup {p} ELSE Holds(s.kbd)
  BY <1>1, <1>4 DEF Holds, Worlds, Keyboard
<1> HIDE DEF k, p
<1>7. r \in Worlds
  BY <1>1, <1>5 DEF Worlds
<1>8. Kept(s, r)
  BY <1>3, <1>6, <1>7 DEF Kept, Covered, Exact
<1>9. r.kbd.pending = NoCode
  BY <1>3
<1> HIDE DEF r
<1> QED
  BY <1>2, <1>8, <1>9 DEF p

LEMMA DecideKept ==
  ASSUME NEW s \in Worlds, Timed(s.kbd), NEW c, NEW pressed \in BOOLEAN, NEW t \in Nat
  PROVE  LET r == Decide(s, c, pressed, t)
         IN  /\ Kept(s, r)
             /\ pressed => r.kbd.pending = NoCode
             /\ r.kbd.pending = NoCode \/ r.kbd.pending # c
<1> DEFINE p  == s.kbd.pending
           op == IF t >= s.kbd.due THEN "layer" ELSE "key"
<1>1. CASE p # NoCode /\ (t >= s.kbd.due \/ pressed \/ c = p)
  BY <1>1, DecidedKept DEF Decide
<1>2. CASE ~(p # NoCode /\ (t >= s.kbd.due \/ pressed \/ c = p))
  <2>1. Decide(s, c, pressed, t) = s
    BY <1>2 DEF Decide
  <2> QED
    BY <1>2, <2>1, KeptReflexive
<1> QED
  BY <1>1, <1>2

\* A key that was not in the cache is struck, with nothing pending.
LEMMA StrikeDownKept ==
  ASSUME setup \in Setup, NEW s \in Worlds, s.kbd.file \in File, s.kbd.pending = NoCode,
         NEW c \in Code, s.kbd.cache[c] = "none", NEW t \in Nat
  PROVE  Kept(s, StrikeDown(s, c, t))
<1> DEFINE op == setup.bind[s.kbd.file][c]
           cache == [s.kbd.cache EXCEPT ![c] = op]
           k == [s.kbd EXCEPT !.cache = cache]
           timed == [k EXCEPT !.pending = c, !.due = t + Span, !.timers = @ \cup {t + Span}]
           r == [kbd |-> IF op = "timed" THEN timed ELSE k,
                 out |-> IF op = "key" THEN s.out \cup {c} ELSE s.out]
<1>1. op \in {"key", "layer", "timed"}
  BY DEF Setup
<1> HIDE DEF op
<1>2. r = StrikeDown(s, c, t)
  BY DEF StrikeDown, Perform, SendKey, Worlds, op, Keyboard
<1>3. cache \in [Code -> {"none", "key", "layer", "timed"}] /\ cache[c] = op
  BY <1>1 DEF Worlds, Keyboard
<1>4. {d \in Code : cache[d] = "key"} = IF op = "key" THEN Holds(s.kbd) \cup {c}
                                                      ELSE Holds(s.kbd)
  BY <1>1 DEF Holds, Worlds, Keyboard
<1> HIDE DEF cache
<1>5. /\ k \in Keyboard /\ k.file = s.kbd.file
      /\ k.pending = NoCode /\ k.cache = cache
  BY <1>3 DEF Worlds, Keyboard
<1>6. timed \in Keyboard /\ timed.file = k.file /\ timed.pending = c /\ timed.cache = cache
  <2>1. t + Span \in Nat
    BY BoundAssumption
  <2> HIDE DEF k
  <2> QED
    BY <1>5, <2>1 DEF Keyboard
<1> HIDE DEF k, timed
<1>7. r \in Worlds
  BY <1>5, <1>6 DEF Worlds
<1>8. Holds(r.kbd) = {d \in Code : cache[d] = "key"} /\ Timed(r.kbd) /\ r.kbd.file = s.kbd.file
  BY <1>3, <1>5, <1>6 DEF Holds, Timed
<1>9. Kept(s, r)
  BY <1>4, <1>7, <1>8 DEF Kept, Covered, Exact
<1> HIDE DEF r
<1> QED
  BY <1>2, <1>9

\* A key in the cache comes up, and is not the one that is pending.
LEMMA ReleaseKept ==
  ASSUME NEW s \in Worlds, Timed(s.kbd), NEW c \in Code, s.kbd.pending # c
  PROVE  Kept(s, Perform([s EXCEPT !.kbd.cache[c] = "none"], c, s.kbd.cache[c], FALSE))
<1> DEFINE op == s.kbd.cache[c]
           cache == [s.kbd.cache EXCEPT ![c] = "none"]
           k == [s.kbd EXCEPT !.cache = cache]
           r == [kbd |-> k, out |-> IF op = "key" THEN s.out \ {c} ELSE s.out]
<1>1. r = Perform([s EXCEPT !.kbd.cache[c] = "none"], c, op, FALSE)
  BY DEF Perform, SendKey, Worlds, Keyboard
<1>2. /\ cache \in [Code -> {"none", "key", "layer", "timed"}]
      /\ \A d \in Code : d # c => cache[d] = s.kbd.cache[d]
  BY DEF Worlds, Keyboard
<1>3. {d \in Code : cache[d] = "key"} = Holds(s.kbd) \ {c}
  BY DEF Holds, Worlds, Keyboard
<1>4. op # "key" => c \notin Holds(s.kbd)
  BY DEF Holds
<1> HIDE DEF cache, op
<1>5. /\ k \in Keyboard /\ k.file = s.kbd.file
      /\ k.pending = s.kbd.pending /\ k.cache = cache
  BY <1>2 DEF Worlds, Keyboard
<1>6. Timed(k)
  BY <1>2, <1>5 DEF Timed, Worlds, Keyboard
<1>7. Holds(k) = Holds(s.kbd) \ {c}
  BY <1>3, <1>5 DEF Holds
<1> HIDE DEF k
<1>8. r \in Worlds
  BY <1>5 DEF Worlds
<1>9. Kept(s, r)
  BY <1>4, <1>5, <1>6, <1>7, <1>8 DEF Kept, Covered, Exact
<1> QED
  BY <1>1, <1>9 DEF op

LEMMA StrikeKept ==
  ASSUME setup \in Setup, NEW s \in Worlds, s.kbd.file \in File, Timed(s.kbd),
         NEW c, NEW pressed \in BOOLEAN, NEW t \in Nat,
         pressed => s.kbd.pending = NoCode, s.kbd.pending = NoCode \/ s.kbd.pending # c
  PROVE  Kept(s, Strike(s, c, pressed, t))
<1>1. CASE c \in Code /\ pressed /\ s.kbd.cache[c] = "none"
  BY <1>1, StrikeDownKept DEF Strike
<1>2. CASE c \in Code /\ ~pressed /\ s.kbd.cache[c] # "none"
  <2>1. s.kbd.pending # c
    BY <1>2, NameAssumption
  <2>2. Strike(s, c, pressed, t) =
          Perform([s EXCEPT !.kbd.cache[c] = "none"], c, s.kbd.cache[c], FALSE)
    BY <1>2 DEF Strike
  <2> QED
    BY <1>2, <2>1, <2>2, ReleaseKept
<1>3. CASE /\ ~(c \in Code /\ pressed /\ s.kbd.cache[c] = "none")
           /\ ~(c \in Code /\ ~pressed /\ s.kbd.cache[c] # "none")
  <2>1. Strike(s, c, pressed, t) = s
    BY <1>3, Zenon DEF Strike
  <2> QED
    BY <2>1, KeptReflexive
<1> QED
  BY <1>1, <1>2, <1>3

LEMMA ProcessKept ==
  ASSUME setup \in Setup, NEW s \in Worlds, s.kbd.file \in File, Timed(s.kbd),
         NEW c, NEW pressed \in BOOLEAN, NEW t \in Nat
  PROVE  LET r == Process(s, c, pressed, t)
         IN  Kept(s, r) /\ \A u \in r.kbd.timers : u > t
<1> DEFINE q == Decide(s, c, pressed, t)
           done == Strike(q, c, pressed, t)
           r == [done EXCEPT !.kbd.timers = {u \in @ : u > t}]
<1>1. /\ Kept(s, q)
      /\ pressed => q.kbd.pending = NoCode
      /\ q.kbd.pending = NoCode \/ q.kbd.pending # c
  BY DecideKept
<1> HIDE DEF q
<1>2. q \in Worlds /\ q.kbd.file \in File /\ Timed(q.kbd)
  BY <1>1 DEF Kept
<1>3. Kept(q, done)
  BY <1>1, <1>2, StrikeKept
<1>4. done \in Worlds /\ Timed(done.kbd)
  BY <1>3 DEF Kept
<1> HIDE DEF done
<1>5. /\ r \in Worlds /\ r.out = done.out
      /\ r.kbd.file = done.kbd.file /\ r.kbd.cache = done.kbd.cache
      /\ r.kbd.pending = done.kbd.pending
      /\ r.kbd.timers = {u \in done.kbd.timers : u > t}
  BY <1>4 DEF Worlds, Keyboard
<1>6. Process(s, c, pressed, t) = r
  BY DEF Process, q, done
<1> HIDE DEF r
<1>7. Kept(done, r)
  BY <1>4, <1>5 DEF Kept, Timed, Covered, Exact, Holds
<1>8. Kept(s, r)
  BY <1>1, <1>3, <1>7, KeptTransitive
<1> QED
  BY <1>5, <1>6, <1>8

-----------------------------------------------------------------------------
(* The inductive invariant.                                                *)

KeyboardsTimed == \A a \in Address : Timed(heap[a])

DaemonInv == TypeOK /\ KeyboardsTimed /\ Grabbed /\ Mirrored

\* The files of the keyboards, and the directory, are what they were.
SameFiles == setup' = setup /\ \A a \in Address : heap'[a].file = heap[a].file

\* What Hand and Handled are about, apart from the devices.
Worked == /\ heap' \in [Address -> Keyboard]
          /\ keystate' \subseteq Code
          /\ timeout' \in Nat /\ last' \in Int
          /\ loop' \in Loop
          /\ broken' \in BOOLEAN
          /\ KeyboardsTimed'
          /\ Mirrored'

LEMMA RemainingType ==
  ASSUME TypeOK
  PROVE  Remaining \in Nat
BY DEF TypeOK, Loop, Remaining

LEMMA HandledType ==
  ASSUME TypeOK, NEW w \in Nat, NEW phase \in {"devices", "typed", "monitor"},
         Handled(w, phase)
  PROVE  timeout' \in Nat /\ last' \in Int /\ loop' \in Loop
<1>1. loop \in Loop
  BY DEF TypeOK
<1>2. /\ timeout' = w /\ last' = loop.stamp
      /\ loop' = [loop EXCEPT !.wait = w, !.phase = phase]
  BY DEF Handled
<1>3. loop' \in Loop
  BY <1>1, <1>2 DEF Loop
<1> QED
  BY <1>1, <1>2, <1>3 DEF Loop

LEMMA MirroredUnchanged ==
  ASSUME Mirrored, UNCHANGED <<heap, keystate>>
  PROVE  Mirrored'
<1>1. Live' = Live /\ \A a \in Live : Down(a)' = Down(a)
  BY DEF Live, Down
<1>2. (UNION {Down(a) : a \in Live})' = UNION {Down(a) : a \in Live}
  BY <1>1
<1> QED
  BY <1>1, <1>2 DEF Mirrored

\* An event that concerns no keyboard.
LEMMA HandledWorked ==
  ASSUME DaemonInv, NEW phase \in {"devices", "typed", "monitor"},
         Handled(Remaining, phase), UNCHANGED <<heap, keystate, broken>>
  PROVE  Worked
<1>1. TypeOK /\ KeyboardsTimed /\ Mirrored
  BY DEF DaemonInv
<1>2. timeout' \in Nat /\ last' \in Int /\ loop' \in Loop
  BY <1>1, RemainingType, HandledType
<1>3. heap' \in [Address -> Keyboard] /\ keystate' \subseteq Code /\ broken' \in BOOLEAN
  BY <1>1 DEF TypeOK
<1>4. KeyboardsTimed'
  BY <1>1 DEF KeyboardsTimed
<1> QED
  BY <1>1, <1>2, <1>3, <1>4, MirroredUnchanged DEF Worked

\* A live keyboard processes its events.  Of the keys that are down, each is its own or
\* another's before as after; it only ever takes away its own.
LEMMA MirroredKept ==
  ASSUME TypeOK, Mirrored, NEW a \in Live, NEW s, Kept(World(a), s),
         heap' = [heap EXCEPT ![a] = s.kbd], keystate' = s.out
  PROVE  Mirrored'
<1> DEFINE others == UNION {Down(b) : b \in Live \ {a}}
<1>1. a \in Address /\ heap \in [Address -> Keyboard]
  BY DEF Live, TypeOK
<1>2. heap'[a] = s.kbd /\ \A b \in Address : b # a => heap'[b] = heap[b]
  BY <1>1
<1>3. Live' = Live
  <2>1. heap'[a].file = heap[a].file
    BY <1>2 DEF Kept, World
  <2> QED
    BY <1>2, <2>1 DEF Live
<1>4. Down(a) = Holds(World(a).kbd) /\ Down(a)' = Holds(s.kbd)
  BY <1>2 DEF Down, Holds, World
<1>5. \A b \in Live \ {a} : Down(b)' = Down(b)
  BY <1>2 DEF Down, Live
<1>6. /\ UNION {Down(b) : b \in Live} = Down(a) \cup others
      /\ (UNION {Down(b) : b \in Live})' = Down(a)' \cup others
  BY <1>3, <1>5
<1>7. keystate' \subseteq Down(a)' \cup others
  <2>1. Covered(World(a), others)
    BY <1>4, <1>6 DEF Mirrored, Covered, World
  <2> HIDE DEF others
  <2>2. Covered(s, others)
    BY <2>1 DEF Kept
  <2> QED
    BY <2>2, <1>4 DEF Covered
<1>8. ASSUME Cardinality(Live) = 1
      PROVE  keystate' = Down(a)' \cup others
  <2>1. IsFiniteSet(Live)
    BY HeapAssumption, FS_Subset DEF Live
  <2>2. PICK b : Live = {b}
    BY <1>8, <2>1, FS_Singleton
  <2>3. Live = {a} /\ others = {}
    BY <2>2
  <2> HIDE DEF others
  <2>4. keystate = Down(a)
    BY <1>6, <1>8, <2>3 DEF Mirrored
  <2>5. World(a).out = keystate
    BY DEF World
  <2>6. Exact(s)
    BY <2>4, <2>5, <1>4 DEF Kept, Exact
  <2> QED
    BY <2>3, <2>6, <1>4 DEF Exact
<1> QED
  BY <1>3, <1>6, <1>7, <1>8 DEF Mirrored

LEMMA HandWorked ==
  ASSUME DaemonInv, NEW a \in Address, NEW s, NEW phase \in {"devices", "typed"},
         a \in Live => Kept(World(a), s) /\ \A u \in s.kbd.timers : u > loop.stamp,
         Hand(a, s, phase)
  PROVE  Worked /\ \A b \in Address : heap'[b].file = heap[b].file
<1>1. TypeOK /\ KeyboardsTimed /\ Mirrored
  BY DEF DaemonInv
<1>2. CASE a \in Live
  <2>1. /\ Kept(World(a), s) /\ \A u \in s.kbd.timers : u > loop.stamp
        /\ heap' = [heap EXCEPT ![a] = s.kbd] /\ keystate' = s.out
        /\ Handled(Awaits(s.kbd, loop.stamp), phase) /\ broken' = broken
    BY <1>2 DEF Hand
  <2>2. s.kbd \in Keyboard /\ s.out \subseteq Code /\ s.kbd.file = heap[a].file /\ Timed(s.kbd)
    BY <2>1 DEF Kept, Worlds, World
  <2>3. Awaits(s.kbd, loop.stamp) \in Nat
    BY <2>1, <2>2, <1>1, AwaitsType DEF TypeOK, Loop
  <2>4. timeout' \in Nat /\ last' \in Int /\ loop' \in Loop
    BY <2>1, <2>3, <1>1, HandledType
  <2>5. /\ heap' \in [Address -> Keyboard] /\ KeyboardsTimed'
        /\ \A b \in Address : heap'[b].file = heap[b].file
    BY <2>1, <2>2, <1>1 DEF TypeOK, KeyboardsTimed
  <2>6. keystate' \subseteq Code /\ broken' \in BOOLEAN
    BY <2>1, <2>2, <1>1 DEF TypeOK
  <2>7. Mirrored'
    BY <2>1, <1>1, <1>2, MirroredKept
  <2> QED
    BY <2>4, <2>5, <2>6, <2>7 DEF Worked
<1>3. CASE a \notin Live
  <2>1. /\ broken' = TRUE /\ Handled(Remaining, phase) /\ UNCHANGED <<heap, keystate>>
    BY <1>3 DEF Hand
  <2>2. timeout' \in Nat /\ last' \in Int /\ loop' \in Loop
    BY <2>1, <1>1, RemainingType, HandledType
  <2>3. heap' \in [Address -> Keyboard] /\ keystate' \subseteq Code /\ broken' \in BOOLEAN
    BY <2>1, <1>1 DEF TypeOK
  <2>4. KeyboardsTimed' /\ Mirrored'
    BY <2>1, <1>1, MirroredUnchanged DEF KeyboardsTimed
  <2> QED
    BY <2>1, <2>2, <2>3, <2>4 DEF Worked
<1> QED
  BY <1>2, <1>3

-----------------------------------------------------------------------------
(* The devices.                                                            *)

\* What Grabbed says of one device.
Fits(entry, found) == /\ entry.grabbed = (entry.data # NoKbd)
                      /\ entry.grabbed => entry.plugged /\ entry.data \in found

LEMMA ManagedFits ==
  ASSUME NEW entry \in Entry, NEW found \in SUBSET Address, NEW e \in Managed(entry, found)
  PROVE  e \in Entry /\ Fits(e, found)
<1>1. \/ \E a \in found : e = [plugged |-> TRUE, grabbed |-> TRUE, data |-> a]
      \/ e = [plugged |-> TRUE, grabbed |-> FALSE, data |-> NoKbd]
  BY DEF Managed
<1>2. ASSUME NEW a \in found, e = [plugged |-> TRUE, grabbed |-> TRUE, data |-> a]
      PROVE  e \in Entry /\ Fits(e, found)
  <2>1. a \in Address /\ a # NoKbd
    BY NameAssumption
  <2> QED
    BY <2>1, <1>2 DEF Entry, Fits
<1>3. CASE e = [plugged |-> TRUE, grabbed |-> FALSE, data |-> NoKbd]
  BY <1>3 DEF Entry, Fits
<1> QED
  BY <1>1, <1>2, <1>3

LEMMA UnpluggedFits == Unplugged \in Entry /\ \A found : Fits(Unplugged, found)
BY DEF Unplugged, Entry, Fits

LEMMA MatchesType ==
  ASSUME NEW d, NEW keyboards
  PROVE  Matches(d, keyboards) \in SUBSET Address
BY DEF Matches

LEMMA MatchesKept ==
  ASSUME SameFiles, NEW d \in Device
  PROVE  Matches(d, heap)' = Matches(d, heap)
BY DEF SameFiles, Matches

LEMMA GrabbedFits == Grabbed <=> \A d \in Device : Fits(devices[d], Matches(d, heap))
BY DEF Grabbed, Fits

LEMMA GrabbedKept ==
  ASSUME Grabbed, SameFiles, devices' = devices
  PROVE  Grabbed'
BY MatchesKept DEF Grabbed

LEMMA TablesFit ==
  ASSUME NEW keyboards, NEW outcomes \in [Device -> SUBSET Entry],
         \A d \in Device : \A e \in outcomes[d] : Fits(e, Matches(d, keyboards)),
         NEW table \in Tables(outcomes)
  PROVE  /\ table \in [Device -> Entry]
         /\ \A d \in Device : Fits(table[d], Matches(d, keyboards))
BY DEF Tables

-----------------------------------------------------------------------------
(* One step for each action.                                               *)

\* What is left to show of a step once Hand or Handled is accounted for.
LEMMA WorkedInv ==
  ASSUME DaemonInv, Worked, SameFiles,
         active' \in Address \cup {NoKbd}, devices' \in [Device -> Entry],
         churn' \in Nat, held' \in [Device -> SUBSET Code], Grabbed'
  PROVE  DaemonInv'
<1>1. setup' \in Setups
  BY DEF DaemonInv, TypeOK, SameFiles
<1> QED
  BY <1>1 DEF DaemonInv, TypeOK, Worked

LEMMA WorldType ==
  ASSUME DaemonInv, NEW a \in Live
  PROVE  /\ World(a) \in Worlds /\ World(a).kbd.file \in File /\ Timed(World(a).kbd)
         /\ setup \in Setup /\ loop.stamp \in Nat
<1>1. a \in Address /\ heap[a] \in Keyboard /\ heap[a].file # NoFile /\ Timed(heap[a])
  BY DEF DaemonInv, TypeOK, KeyboardsTimed, Live
<1>2. keystate \subseteq Code /\ setup \in Setup /\ loop.stamp \in Nat
  BY SetupAssumption DEF DaemonInv, TypeOK, Loop
<1> QED
  BY <1>1, <1>2 DEF World, Worlds, Keyboard

\* One event, handed to a live keyboard.
LEMMA EventKept ==
  ASSUME DaemonInv, NEW a \in Live, NEW c, NEW pressed \in BOOLEAN
  PROVE  LET r == Process(World(a), c, pressed, loop.stamp)
         IN  Kept(World(a), r) /\ \A u \in r.kbd.timers : u > loop.stamp
BY WorldType, ProcessKept

LEMMA DeviceKeyInv ==
  ASSUME DaemonInv, NEW d \in Device, NEW c \in Code, NEW pressed \in BOOLEAN,
         DeviceKey(d, c, pressed)
  PROVE  DaemonInv'
<1>1. /\ TypeOK /\ Grabbed /\ setup' = setup /\ devices' = devices /\ churn' = churn
      /\ held' = [held EXCEPT ![d] = IF pressed THEN @ \cup {c} ELSE @ \ {c}]
  BY DEF DaemonInv, DeviceKey
<1>2. devices' \in [Device -> Entry] /\ churn' \in Nat /\ held' \in [Device -> SUBSET Code]
  BY <1>1 DEF TypeOK
<1>3. Worked /\ SameFiles /\ active' \in Address \cup {NoKbd}
  <2>1. CASE devices[d].data # NoKbd
    <3> DEFINE a == devices[d].data
               r == Process(World(a), c, pressed, loop.stamp)
    <3>1. a \in Address
      BY <2>1, <1>1 DEF TypeOK, Entry
    <3>2. active' = a /\ Hand(a, r, "typed")
      BY <2>1 DEF DeviceKey
    <3>3. a \in Live => Kept(World(a), r) /\ \A u \in r.kbd.timers : u > loop.stamp
      BY EventKept
    <3> HIDE DEF a, r
    <3>4. Worked /\ \A b \in Address : heap'[b].file = heap[b].file
      BY <3>1, <3>2, <3>3, HandWorked
    <3> QED
      BY <3>1, <3>2, <3>4, <1>1 DEF SameFiles
  <2>2. CASE devices[d].data = NoKbd
    <3>1. Handled(Remaining, "typed") /\ UNCHANGED <<heap, active, keystate, broken>>
      BY <2>2 DEF DeviceKey
    <3>2. Worked
      BY <3>1, HandledWorked
    <3> QED
      BY <3>1, <3>2, <1>1 DEF SameFiles, TypeOK
  <2> QED
    BY <2>1, <2>2
<1> QED
  BY <1>1, <1>2, <1>3, GrabbedKept, WorkedInv

\* A scroll or a click is two events: the second finds the keyboard the first has left.
LEMMA ClickKept ==
  ASSUME DaemonInv, NEW a \in Live
  PROVE  LET t == loop.stamp
             r == Process(Process(World(a), Click, TRUE, t), Click, FALSE, t)
         IN  Kept(World(a), r) /\ \A u \in r.kbd.timers : u > t
<1> DEFINE t == loop.stamp
           q == Process(World(a), Click, TRUE, t)
           r == Process(q, Click, FALSE, t)
<1>1. Kept(World(a), q)
  BY EventKept
<1> HIDE DEF q
<1>2. q \in Worlds /\ q.kbd.file \in File /\ Timed(q.kbd)
  BY <1>1, WorldType DEF Kept
<1>3. Kept(q, r) /\ \A u \in r.kbd.timers : u > t
  BY <1>2, WorldType, ProcessKept
<1> HIDE DEF r
<1>4. Kept(World(a), r)
  BY <1>1, <1>3, KeptTransitive
<1> QED
  BY <1>3, <1>4 DEF q, r

LEMMA DeviceClickInv ==
  ASSUME DaemonInv, NEW d \in Device, DeviceClick(d)
  PROVE  DaemonInv'
<1>1. /\ TypeOK /\ Grabbed /\ setup' = setup /\ devices' = devices
      /\ churn' = churn /\ held' = held /\ loop.phase \in {"devices", "typed"}
      /\ active' = IF devices[d].data # NoKbd THEN devices[d].data ELSE active
  BY DEF DaemonInv, DeviceClick, Ready, Reading
<1>2. /\ active' \in Address \cup {NoKbd} /\ devices' \in [Device -> Entry]
      /\ churn' \in Nat /\ held' \in [Device -> SUBSET Code]
  BY <1>1 DEF TypeOK, Entry
<1>3. Worked /\ SameFiles
  <2>1. CASE active' # NoKbd
    <3> DEFINE r(a) == Process(Process(World(a), Click, TRUE, loop.stamp),
                               Click, FALSE, loop.stamp)
    <3>1. PICK a \in Address : a = active'
      BY <2>1, <1>2
    <3>2. Hand(a, r(a), loop.phase)
      BY <2>1, <3>1 DEF DeviceClick
    <3>3. a \in Live => Kept(World(a), r(a)) /\ \A u \in r(a).kbd.timers : u > loop.stamp
      BY ClickKept
    <3> HIDE DEF r
    <3>4. Worked /\ \A b \in Address : heap'[b].file = heap[b].file
      BY <1>1, <3>2, <3>3, HandWorked
    <3> QED
      BY <3>4, <1>1 DEF SameFiles
  <2>2. CASE active' = NoKbd
    <3>1. Handled(Remaining, loop.phase) /\ UNCHANGED <<heap, keystate, broken>>
      BY <2>2 DEF DeviceClick
    <3>2. Worked
      BY <3>1, <1>1, HandledWorked
    <3> QED
      BY <3>1, <3>2, <1>1 DEF SameFiles
  <2> QED
    BY <2>1, <2>2
<1> QED
  BY <1>1, <1>2, <1>3, GrabbedKept, WorkedInv

LEMMA DeviceMoveInv ==
  ASSUME DaemonInv, NEW d \in Device, DeviceMove(d)
  PROVE  DaemonInv'
<1>1. /\ TypeOK /\ Grabbed /\ devices' = devices /\ churn' = churn /\ held' = held
      /\ loop.phase \in {"devices", "typed"}
      /\ active' = IF devices[d].data # NoKbd THEN devices[d].data ELSE active
      /\ Handled(Remaining, loop.phase) /\ UNCHANGED <<setup, heap, keystate, broken>>
  BY DEF DaemonInv, DeviceMove, Ready, Reading
<1>2. /\ active' \in Address \cup {NoKbd} /\ devices' \in [Device -> Entry]
      /\ churn' \in Nat /\ held' \in [Device -> SUBSET Code]
  BY <1>1 DEF TypeOK, Entry
<1>3. Worked /\ SameFiles
  BY <1>1, HandledWorked DEF SameFiles
<1> QED
  BY <1>1, <1>2, <1>3, GrabbedKept, WorkedInv

LEMMA PlugInv ==
  ASSUME DaemonInv, NEW d \in Device, Plug(d)
  PROVE  DaemonInv'
<1>1. /\ TypeOK /\ Grabbed /\ active' = active /\ held' = held /\ churn' = churn + 1
      /\ Handled(Remaining, "monitor") /\ UNCHANGED <<setup, heap, keystate, broken>>
  BY DEF DaemonInv, Plug, Changed
<1>2. PICK entry \in Managed(Unplugged, Matches(d, heap)) :
        devices' = [devices EXCEPT ![d] = entry]
  BY DEF Plug
<1>3. entry \in Entry /\ Fits(entry, Matches(d, heap))
  BY MatchesType, UnpluggedFits, ManagedFits
<1>4. /\ active' \in Address \cup {NoKbd} /\ devices' \in [Device -> Entry]
      /\ churn' \in Nat /\ held' \in [Device -> SUBSET Code]
  BY <1>1, <1>2, <1>3 DEF TypeOK
<1>5. Worked /\ SameFiles
  BY <1>1, HandledWorked DEF SameFiles
<1>6. \A e \in Device : Fits(devices'[e], Matches(e, heap))
  BY <1>1, <1>2, <1>3, GrabbedFits DEF TypeOK
<1>7. Grabbed'
  BY <1>5, <1>6, MatchesKept DEF Grabbed, Fits
<1> QED
  BY <1>4, <1>5, <1>7, WorkedInv

LEMMA UnplugInv ==
  ASSUME DaemonInv, NEW d \in Device, Unplug(d)
  PROVE  DaemonInv'
<1>1. /\ TypeOK /\ Grabbed /\ active' = active /\ churn' = churn + 1
      /\ loop.phase \in {"devices", "typed"}
      /\ devices' = [devices EXCEPT ![d] = Unplugged]
      /\ held' = [held EXCEPT ![d] = {}]
      /\ Handled(Remaining, loop.phase) /\ UNCHANGED <<setup, heap, keystate, broken>>
  BY DEF DaemonInv, Unplug, Changed, Ready, Reading
<1>2. /\ active' \in Address \cup {NoKbd} /\ devices' \in [Device -> Entry]
      /\ churn' \in Nat /\ held' \in [Device -> SUBSET Code]
  BY <1>1, UnpluggedFits DEF TypeOK
<1>3. Worked /\ SameFiles
  BY <1>1, HandledWorked DEF SameFiles
<1>4. \A e \in Device : Fits(devices'[e], Matches(e, heap))
  BY <1>1, UnpluggedFits, GrabbedFits DEF TypeOK
<1>5. Grabbed'
  BY <1>3, <1>4, MatchesKept DEF Grabbed, Fits
<1> QED
  BY <1>2, <1>3, <1>5, WorkedInv

\* Keyboards are new, and hold nothing.
LEMMA LoadedType ==
  ASSUME NEW parsed \in SUBSET File, NEW at, NEW a \in Address
  PROVE  LET k == Loaded(parsed, at)[a]
         IN  k \in Keyboard /\ k.cache = [c \in Code |-> "none"] /\ k.pending = NoCode
<1> DEFINE k == Loaded(parsed, at)[a]
<1>1. PICK f \in File \cup {NoFile} : k = NewKeyboard(f)
  <2>1. CASE \E f \in parsed : at[f] = a
    <3>1. (CHOOSE f \in parsed : at[f] = a) \in File
      BY <2>1
    <3>2. k = NewKeyboard(CHOOSE f \in parsed : at[f] = a)
      BY <2>1 DEF Loaded
    <3> QED
      BY <3>1, <3>2
  <2>2. CASE ~ \E f \in parsed : at[f] = a
    BY <2>2 DEF Loaded, Freed
  <2> QED
    BY <2>1, <2>2
<1> QED
  BY <1>1 DEF NewKeyboard, Keyboard

LEMMA ReloadInv ==
  ASSUME DaemonInv, Reload
  PROVE  DaemonInv'
<1> DEFINE outcomes == [d \in Device |-> IF devices[d].plugged
                                        THEN Managed(devices[d], Matches(d, heap'))
                                        ELSE {Unplugged}]
<1>1. /\ TypeOK /\ setup' = setup /\ active' = active /\ held' = held /\ broken' = broken
      /\ churn' = churn + 1 /\ keystate' = {} /\ Handled(Remaining, "monitor")
      /\ devices' \in Tables(outcomes)
  BY DEF DaemonInv, Reload, Changed, ClearVkbd
<1>2. PICK parsed \in SUBSET File : \E at \in Placements(parsed) : heap' = Loaded(parsed, at)
  BY DEF Reload
<1>3. \A a \in Address : /\ heap'[a] \in Keyboard /\ heap'[a].pending = NoCode
                         /\ heap'[a].cache = [c \in Code |-> "none"]
  BY <1>2, LoadedType
<1>4. heap' \in [Address -> Keyboard]
  BY <1>2, <1>3 DEF Loaded
<1>5. KeyboardsTimed'
  BY <1>3 DEF KeyboardsTimed, Timed
<1>6. Mirrored'
  <2>1. \A a \in Live' : Down(a)' = {}
    BY <1>3 DEF Live, Down
  <2> QED
    BY <2>1, <1>1 DEF Mirrored
<1>7. timeout' \in Nat /\ last' \in Int /\ loop' \in Loop
  BY <1>1, RemainingType, HandledType
<1>8. \A d \in Device : \A e \in outcomes[d] : e \in Entry /\ Fits(e, Matches(d, heap'))
  <2> SUFFICES ASSUME NEW d \in Device, NEW e \in outcomes[d]
               PROVE  e \in Entry /\ Fits(e, Matches(d, heap'))
    OBVIOUS
  <2>1. CASE devices[d].plugged
    <3>1. devices[d] \in Entry /\ Matches(d, heap') \in SUBSET Address
      BY <1>1, MatchesType DEF TypeOK
    <3> QED
      BY <2>1, <3>1, ManagedFits
  <2>2. CASE ~devices[d].plugged
    BY <2>2, UnpluggedFits
  <2> QED
    BY <2>1, <2>2
<1>9. outcomes \in [Device -> SUBSET Entry]
  BY <1>8
<1> HIDE DEF outcomes
<1>10. /\ devices' \in [Device -> Entry]
       /\ \A d \in Device : Fits(devices'[d], Matches(d, heap'))
  BY <1>1, <1>8, <1>9, TablesFit
<1>11. \A d \in Device : Matches(d, heap)' = Matches(d, heap')
  BY <1>1 DEF Matches
<1>12. Grabbed'
  BY <1>10, <1>11 DEF Grabbed, Fits
<1>13. TypeOK'
  BY <1>1, <1>4, <1>7, <1>10 DEF TypeOK
<1> QED
  BY <1>5, <1>6, <1>12, <1>13 DEF DaemonInv

\* Only evloop moves on.
LEMMA LoopInv ==
  ASSUME DaemonInv, loop' \in Loop,
         UNCHANGED <<setup, heap, active, devices, keystate, timeout, last, held, churn, broken>>
  PROVE  DaemonInv'
<1>1. TypeOK' /\ KeyboardsTimed'
  BY DEF DaemonInv, TypeOK, KeyboardsTimed
<1>2. SameFiles
  BY DEF SameFiles
<1>3. Grabbed'
  BY <1>2, GrabbedKept DEF DaemonInv
<1>4. Mirrored'
  BY MirroredUnchanged DEF DaemonInv
<1> QED
  BY <1>1, <1>3, <1>4 DEF DaemonInv

LEMMA PollReturnsInv ==
  ASSUME DaemonInv, NEW t \in Times, PollReturns(t)
  PROVE  DaemonInv'
<1>1. t \in Nat /\ loop \in Loop
  BY BoundAssumption DEF Times, DaemonInv, TypeOK
<1> DEFINE w == IF t - loop.start < loop.wait THEN loop.wait - (t - loop.start) ELSE 0
<1>2. w \in Nat
  BY <1>1 DEF Loop
<1>3. loop' = [loop EXCEPT !.stamp = t, !.wait = w,
                           !.phase = IF Expiring(t) THEN "expired" ELSE "devices"]
  BY <1>1 DEF PollReturns, Loop
<1> HIDE DEF w
<1>4. loop' \in Loop
  BY <1>1, <1>2, <1>3 DEF Loop
<1> QED
  BY <1>4, LoopInv DEF PollReturns

LEMMA PollInv ==
  ASSUME DaemonInv, NEW slip \in 0 .. Slip, Poll(slip)
  PROVE  DaemonInv'
<1>1. loop \in Loop /\ slip \in Nat
  BY BoundAssumption DEF DaemonInv, TypeOK
<1>2. loop' = [phase |-> "poll", stamp |-> loop.stamp,
               start |-> loop.stamp + slip, wait |-> loop.wait]
  BY <1>1 DEF Poll, Loop
<1>3. loop' \in Loop
  BY <1>1, <1>2 DEF Loop
<1> QED
  BY <1>3, LoopInv DEF Poll

LEMMA TimeoutEventInv ==
  ASSUME DaemonInv, TimeoutEvent
  PROVE  DaemonInv'
<1>1. /\ TypeOK /\ KeyboardsTimed /\ Grabbed /\ Mirrored
      /\ UNCHANGED <<setup, active, devices, held, churn>>
  BY DEF DaemonInv, TimeoutEvent
<1>2. /\ active' \in Address \cup {NoKbd} /\ devices' \in [Device -> Entry]
      /\ churn' \in Nat /\ held' \in [Device -> SUBSET Code]
  BY <1>1 DEF TypeOK
<1>3. Worked /\ SameFiles
  <2>1. CASE active = NoKbd
    <3>1. /\ loop' = [loop EXCEPT !.wait = 0, !.phase = "devices"]
          /\ timeout' = Remaining /\ last' = loop.stamp
          /\ UNCHANGED <<heap, keystate, broken>>
      BY <2>1 DEF TimeoutEvent
    <3>2. loop' \in Loop /\ last' \in Int
      <4>1. loop \in Loop
        BY <1>1 DEF TypeOK
      <4>2. loop' = [phase |-> "devices", stamp |-> loop.stamp,
                     start |-> loop.start, wait |-> 0]
        BY <3>1, <4>1 DEF Loop
      <4> QED
        BY <3>1, <4>1, <4>2 DEF Loop
    <3>3. /\ heap' \in [Address -> Keyboard] /\ keystate' \subseteq Code
          /\ broken' \in BOOLEAN /\ KeyboardsTimed'
      BY <3>1, <1>1 DEF TypeOK, KeyboardsTimed
    <3>4. timeout' \in Nat /\ Mirrored'
      BY <3>1, <1>1, RemainingType, MirroredUnchanged
    <3> QED
      BY <3>1, <3>2, <3>3, <3>4, <1>1 DEF Worked, SameFiles
  <2>2. CASE active # NoKbd
    <3> DEFINE r == Process(World(active), NoCode, FALSE, loop.stamp)
    <3>1. active \in Address
      BY <2>2, <1>1 DEF TypeOK
    <3>2. Hand(active, r, "devices")
      BY <2>2 DEF TimeoutEvent
    <3>3. active \in Live => Kept(World(active), r) /\ \A u \in r.kbd.timers : u > loop.stamp
      BY EventKept
    <3> HIDE DEF r
    <3>4. Worked /\ \A b \in Address : heap'[b].file = heap[b].file
      BY <3>1, <3>2, <3>3, HandWorked
    <3> QED
      BY <3>4, <1>1 DEF SameFiles
  <2> QED
    BY <2>1, <2>2
<1> QED
  BY <1>1, <1>2, <1>3, GrabbedKept, WorkedInv

LEMMA InitInv ==
  ASSUME Init
  PROVE  DaemonInv
<1> DEFINE outcomes == [d \in Device |-> {Unplugged} \cup Managed(Unplugged, Matches(d, heap))]
<1>1. /\ setup \in Setups /\ active = NoKbd /\ keystate = {} /\ churn = 0 /\ broken = FALSE
      /\ last \in IF \E d \in Device : devices[d].plugged THEN Stray ELSE {0}
      /\ timeout = IF last < 0 THEN -last ELSE 0
      /\ loop = [phase |-> "poll", stamp |-> 0, start |-> 0, wait |-> 0]
      /\ held = [d \in Device |-> {}]
      /\ devices \in Tables(outcomes)
  BY DEF Init
<1>2. heap = Loaded(File, CHOOSE at \in Placements(File) : TRUE)
  BY DEF Init
<1>3. \A a \in Address : /\ heap[a] \in Keyboard /\ heap[a].pending = NoCode
                         /\ heap[a].cache = [c \in Code |-> "none"]
  BY <1>2, LoadedType
<1>4. heap \in [Address -> Keyboard]
  BY <1>2, <1>3 DEF Loaded
<1>5. KeyboardsTimed
  BY <1>3 DEF KeyboardsTimed, Timed
<1>6. Mirrored
  <2>1. \A a \in Live : Down(a) = {}
    BY <1>3 DEF Live, Down
  <2> QED
    BY <2>1, <1>1 DEF Mirrored
<1>7. \A d \in Device : \A e \in outcomes[d] : e \in Entry /\ Fits(e, Matches(d, heap))
  BY MatchesType, UnpluggedFits, ManagedFits
<1>8. outcomes \in [Device -> SUBSET Entry]
  BY <1>7
<1> HIDE DEF outcomes
<1>9. devices \in [Device -> Entry] /\ Grabbed
  BY <1>1, <1>7, <1>8, TablesFit, GrabbedFits
<1>10. last \in Int /\ timeout \in Nat
  <2>1. last \in Int
    BY <1>1, StrayAssumption
  <2> QED
    BY <1>1, <2>1
<1>11. loop \in Loop
  BY <1>1 DEF Loop
<1>12. TypeOK
  BY <1>1, <1>4, <1>9, <1>10, <1>11 DEF TypeOK
<1> QED
  BY <1>5, <1>6, <1>9, <1>12 DEF DaemonInv

LEMMA NextInv ==
  ASSUME DaemonInv, [Next]_vars
  PROVE  DaemonInv'
<1>1. ASSUME NEW d \in Device, NEW c \in Code, NEW pressed \in BOOLEAN,
             DeviceKey(d, c, pressed)
      PROVE  DaemonInv'
  BY <1>1, DeviceKeyInv
<1>2. ASSUME NEW d \in Device, DeviceClick(d) \/ DeviceMove(d) \/ Plug(d) \/ Unplug(d)
      PROVE  DaemonInv'
  BY <1>2, DeviceClickInv, DeviceMoveInv, PlugInv, UnplugInv
<1>3. CASE Reload
  BY <1>3, ReloadInv
<1>4. ASSUME NEW t \in Times, PollReturns(t)
      PROVE  DaemonInv'
  BY <1>4, PollReturnsInv
<1>5. ASSUME NEW slip \in 0 .. Slip, Poll(slip)
      PROVE  DaemonInv'
  BY <1>5, PollInv
<1>6. CASE TimeoutEvent
  BY <1>6, TimeoutEventInv
<1>7. CASE UNCHANGED vars
  BY <1>7, LoopInv DEF vars, DaemonInv, TypeOK
<1> QED
  BY <1>1, <1>2, <1>3, <1>4, <1>5, <1>6, <1>7 DEF Next

LEMMA DaemonInvariant == Spec => []DaemonInv
BY InitInv, NextInv, PTL DEF Spec

-----------------------------------------------------------------------------
(* The timeout of the keyboard used last.                                  *)

\* No config lists a mouse, or the devices have one config.
MiceShare ==
  \A s \in Setups :
    (\E f \in File, d \in Mouse : s.rank[f][d] # 0) =>
      \E f \in File : \A g \in File, d \in Device : s.rank[g][d] # 0 => g = f

Due(k) == k.pending # NoCode => k.due \in k.timers
KeyboardsDue == \A a \in Address : Due(heap[a])

Used(f) == \E d \in Device : setup.rank[f][d] # 0

\* A file is one keyboard, ...
Distinct == \A a, b \in Live : heap[a].file = heap[b].file => a = b

\* ... and where mice have a keyboard, only the one used last has a key pending.
Sole ==
  (\E f \in File, d \in Mouse : setup.rank[f][d] # 0) =>
    \A a \in Live : heap[a].pending # NoCode => a = active /\ Used(heap[a].file)

Since == IF loop.phase = "poll" THEN loop.start ELSE loop.stamp

\* event_handler's timeout and evloop's run out together, no later than the key is due.
Waiting ==
  active \in Live /\ heap[active].pending # NoCode /\ loop.phase # "expired" =>
    /\ loop.wait > 0 /\ Since + loop.wait = last + timeout
    /\ last <= Since /\ last + timeout <= heap[active].due

AwaitInv == KeyboardsDue /\ Distinct /\ Sole /\ Waiting

LEMMA DecideDue ==
  ASSUME NEW s \in Worlds, Timed(s.kbd), Due(s.kbd), NEW c, NEW pressed \in BOOLEAN, NEW t \in Nat
  PROVE  LET r == Decide(s, c, pressed, t)
         IN  Due(r.kbd) /\ (r.kbd.pending # NoCode => t < r.kbd.due)
<1> DEFINE p  == s.kbd.pending
           op == IF t >= s.kbd.due THEN "layer" ELSE "key"
<1>1. CASE p # NoCode /\ (t >= s.kbd.due \/ pressed \/ c = p)
  <2>1. op \in {"key", "layer"}
    OBVIOUS
  <2>2. Decide(s, c, pressed, t).kbd.pending = NoCode
    BY <1>1, <2>1, DecidedKept DEF Decide
  <2> QED
    BY <2>2 DEF Due
<1>2. CASE ~(p # NoCode /\ (t >= s.kbd.due \/ pressed \/ c = p))
  <2>1. Decide(s, c, pressed, t) = s
    BY <1>2 DEF Decide
  <2>2. s.kbd.due \in Nat
    BY DEF Worlds, Keyboard
  <2> QED
    BY <1>2, <2>1, <2>2
<1> QED
  BY <1>1, <1>2

LEMMA StrikeDue ==
  ASSUME setup \in Setup, NEW s \in Worlds, NEW c, NEW pressed \in BOOLEAN, NEW t \in Nat,
         Due(s.kbd), s.kbd.pending # NoCode => t < s.kbd.due
  PROVE  LET r == Strike(s, c, pressed, t)
         IN  Due(r.kbd) /\ (r.kbd.pending # NoCode => t < r.kbd.due)
<1>1. t + Span \in Nat /\ t < t + Span /\ s.kbd \in Keyboard
  BY BoundAssumption DEF Worlds
<1>2. CASE c \in Code /\ pressed /\ s.kbd.cache[c] = "none"
  <2> DEFINE op == setup.bind[s.kbd.file][c]
             cache == [s.kbd.cache EXCEPT ![c] = op]
             k == [s.kbd EXCEPT !.cache = cache]
             b == [k EXCEPT !.pending = c, !.due = t + Span, !.timers = @ \cup {t + Span}]
  <2>1. Strike(s, c, pressed, t).kbd = IF op = "timed" THEN b ELSE k
    BY <1>1, <1>2 DEF Strike, StrikeDown, Perform, SendKey, Worlds, Keyboard
  <2> HIDE DEF cache, op
  <2>2. /\ k.pending = s.kbd.pending /\ k.due = s.kbd.due /\ k.timers = s.kbd.timers
        /\ b.due = t + Span /\ b.timers = s.kbd.timers \cup {t + Span}
    BY <1>1 DEF Keyboard
  <2> HIDE DEF k, b
  <2> QED
    BY <1>1, <2>1, <2>2 DEF Due
<1>3. CASE c \in Code /\ ~pressed /\ s.kbd.cache[c] # "none"
  <2> DEFINE cache == [s.kbd.cache EXCEPT ![c] = "none"]
             k == [s.kbd EXCEPT !.cache = cache]
  <2>1. Strike(s, c, pressed, t).kbd = k
    BY <1>1, <1>3 DEF Strike, Perform, SendKey, Worlds, Keyboard
  <2> HIDE DEF cache
  <2>2. k.pending = s.kbd.pending /\ k.due = s.kbd.due /\ k.timers = s.kbd.timers
    BY <1>1 DEF Keyboard
  <2> HIDE DEF k
  <2> QED
    BY <2>1, <2>2 DEF Due
<1>4. CASE /\ ~(c \in Code /\ pressed /\ s.kbd.cache[c] = "none")
           /\ ~(c \in Code /\ ~pressed /\ s.kbd.cache[c] # "none")
  <2>1. Strike(s, c, pressed, t) = s
    BY <1>4, Zenon DEF Strike
  <2> QED
    BY <2>1
<1> QED
  BY <1>2, <1>3, <1>4

LEMMA ProcessDue ==
  ASSUME setup \in Setup, NEW s \in Worlds, s.kbd.file \in File, Timed(s.kbd), Due(s.kbd),
         NEW c, NEW pressed \in BOOLEAN, NEW t \in Nat
  PROVE  Due(Process(s, c, pressed, t).kbd)
<1> DEFINE q == Decide(s, c, pressed, t)
           done == Strike(q, c, pressed, t)
           k == [done.kbd EXCEPT !.timers = {u \in @ : u > t}]
<1>1. /\ Kept(s, q) /\ Due(q.kbd) /\ (q.kbd.pending # NoCode => t < q.kbd.due)
      /\ pressed => q.kbd.pending = NoCode
      /\ q.kbd.pending = NoCode \/ q.kbd.pending # c
  BY DecideKept, DecideDue
<1> HIDE DEF q
<1>2. q \in Worlds /\ q.kbd.file \in File /\ Timed(q.kbd)
  BY <1>1 DEF Kept
<1>3. done \in Worlds /\ Due(done.kbd) /\ (done.kbd.pending # NoCode => t < done.kbd.due)
  BY <1>1, <1>2, StrikeKept, StrikeDue DEF Kept
<1> HIDE DEF done
<1>4. Process(s, c, pressed, t).kbd = k
  BY <1>3 DEF Process, done, q, Worlds
<1>5. /\ k.pending = done.kbd.pending /\ k.due = done.kbd.due
      /\ k.timers = {u \in done.kbd.timers : u > t} /\ k.due \in Nat
  BY <1>3 DEF Worlds, Keyboard
<1> HIDE DEF k
<1> QED
  BY <1>3, <1>4, <1>5 DEF Due

LEMMA AwaitsLeast ==
  ASSUME NEW k \in Keyboard, NEW t \in Nat, NEW due \in k.timers, \A u \in k.timers : u > t
  PROVE  Awaits(k, t) \in Nat /\ Awaits(k, t) > 0 /\ t + Awaits(k, t) <= due
<1> DEFINE u == CHOOSE v \in k.timers : \A w \in k.timers : v <= w
<1>1. k.timers \in SUBSET Nat /\ k.timers # {}
  BY DEF Keyboard
<1>2. u \in k.timers /\ \A w \in k.timers : u <= w
  BY <1>1, HasLeast
<1>3. u \in Nat /\ due \in Nat /\ u > t /\ u <= due
  BY <1>1, <1>2
<1>4. Awaits(k, t) = u - t
  BY <1>1 DEF Awaits
<1> HIDE DEF u
<1> QED
  BY <1>3, <1>4

\* Where mice have a keyboard, it is the one that has a key pending, if any has.
LEMMA SoleUsed ==
  ASSUME DaemonInv, AwaitInv, MiceShare, NEW f \in File, NEW d \in Mouse, setup.rank[f][d] # 0,
         NEW a \in Live, Used(heap[a].file), NEW b \in Live, heap[b].pending # NoCode
  PROVE  b = active /\ b = a /\ Used(heap[b].file)
<1>1. heap \in [Address -> Keyboard] /\ setup \in Setups /\ Distinct /\ Sole
  BY DEF DaemonInv, TypeOK, AwaitInv
<1>2. PICK g \in File : \A h \in File, e \in Device : setup.rank[h][e] # 0 => h = g
  BY <1>1 DEF MiceShare
<1>3. \A h \in File : Used(h) => h = g
  BY <1>2 DEF Used
<1>4. heap[a].file \in File /\ heap[b].file \in File
  BY <1>1 DEF Live, Keyboard
<1>5. b = active /\ Used(heap[b].file)
  BY <1>1 DEF Sole
<1>6. heap[a].file = heap[b].file
  BY <1>3, <1>4, <1>5
<1> QED
  BY <1>1, <1>5, <1>6 DEF Distinct

\* An event that no keyboard hears.
LEMMA HandledAwaits ==
  ASSUME DaemonInv, AwaitInv, MiceShare, NEW phase \in {"devices", "typed", "monitor"},
         loop.phase \notin {"poll", "expired"}, Handled(Remaining, phase),
         UNCHANGED <<setup, heap>>,
         \/ active' = active
         \/ /\ active' \in Live /\ Used(heap[active'].file)
            /\ \E f \in File, d \in Mouse : setup.rank[f][d] # 0
  PROVE  AwaitInv'
<1>1. KeyboardsDue' /\ Distinct' /\ Live' = Live
  BY DEF AwaitInv, KeyboardsDue, Distinct, Live
<1>2. Sole'
  <2>1. ASSUME NEW f \in File, NEW d \in Mouse, setup.rank[f][d] # 0, NEW a \in Live,
               heap[a].pending # NoCode
        PROVE  a = active' /\ Used(heap[a].file)
    <3>1. a = active /\ Used(heap[a].file)
      BY <2>1 DEF AwaitInv, Sole
    <3>2. active' # active => a = active'
      BY <2>1, SoleUsed
    <3> QED
      BY <3>1, <3>2
  <2> QED
    BY <1>1, <2>1 DEF Sole, Used
<1>3. Waiting'
  <2> SUFFICES ASSUME active' \in Live, heap[active'].pending # NoCode
               PROVE  /\ loop'.wait > 0 /\ Since' + loop'.wait = last' + timeout'
                      /\ last' <= Since' /\ last' + timeout' <= heap[active'].due
    BY <1>1 DEF Waiting
  <2>1. active' = active
    BY SoleUsed
  <2>2. /\ loop \in Loop /\ timeout \in Nat /\ last \in Int /\ heap[active].due \in Nat
        /\ loop.wait > 0 /\ loop.stamp + loop.wait = last + timeout
        /\ last <= loop.stamp /\ last + timeout <= heap[active].due
    BY <2>1 DEF AwaitInv, Waiting, Since, DaemonInv, TypeOK, Live, Keyboard
  <2>3. loop.stamp \in Nat /\ loop.wait \in Nat
    BY <2>2 DEF Loop
  <2>4. Remaining = loop.wait
    BY <2>2, <2>3 DEF Remaining
  <2>5. /\ loop'.wait = loop.wait /\ loop'.stamp = loop.stamp /\ loop'.phase # "poll"
        /\ last' = loop.stamp /\ timeout' = loop.wait
    BY <2>2, <2>4 DEF Handled, Loop
  <2> QED
    BY <2>1, <2>2, <2>3, <2>5 DEF Since
<1> QED
  BY <1>1, <1>2, <1>3 DEF AwaitInv

\* An event that the keyboard at a hears, which is then the one used last.
LEMMA HandAwaits ==
  ASSUME DaemonInv, AwaitInv, MiceShare, NEW a \in Address, active' = a, setup' = setup,
         NEW s, NEW phase \in {"devices", "typed"}, Hand(a, s, phase),
         a # active => a \in Live /\ Used(heap[a].file),
         a \in Live /\ s.kbd.pending # NoCode => heap[a].pending # NoCode \/ Used(heap[a].file),
         a \in Live => /\ Kept(World(a), s) /\ Due(s.kbd) /\ \A u \in s.kbd.timers : u > loop.stamp
  PROVE  AwaitInv'
<1>1. heap \in [Address -> Keyboard] /\ setup \in Setups /\ loop \in Loop /\ loop.stamp \in Nat
      /\ KeyboardsDue /\ Distinct /\ Sole
  BY DEF DaemonInv, TypeOK, AwaitInv, Loop
<1>2. CASE a \notin Live
  <2>1. heap' = heap /\ Live' = Live
    BY <1>2 DEF Hand, Live
  <2>2. KeyboardsDue' /\ Distinct'
    BY <1>1, <2>1 DEF KeyboardsDue, Distinct
  <2>3. Waiting'
    BY <1>2, <2>1 DEF Waiting
  <2>4. Sole'
    BY <1>1, <1>2, <2>1 DEF Sole, Used
  <2> QED
    BY <2>2, <2>3, <2>4 DEF AwaitInv
<1>3. CASE a \in Live
  <2>1. /\ Kept(World(a), s) /\ Due(s.kbd) /\ \A u \in s.kbd.timers : u > loop.stamp
        /\ heap' = [heap EXCEPT ![a] = s.kbd]
        /\ Handled(Awaits(s.kbd, loop.stamp), phase)
    BY <1>3 DEF Hand
  <2>2. s.kbd \in Keyboard /\ s.kbd.file = heap[a].file
    BY <2>1 DEF Kept, Worlds, World
  <2>3. /\ heap'[a] = s.kbd /\ \A b \in Address : b # a => heap'[b] = heap[b]
        /\ \A b \in Address : heap'[b].file = heap[b].file
    BY <1>1, <2>1, <2>2
  <2>4. Live' = Live /\ \A b \in Live : b \in Address
    BY <2>3 DEF Live
  <2>5. KeyboardsDue'
    BY <1>1, <2>1, <2>3 DEF KeyboardsDue
  <2>6. Distinct'
    BY <1>1, <2>3, <2>4 DEF Distinct
  <2>7. Sole'
    <3> SUFFICES ASSUME NEW f \in File, NEW d \in Mouse, setup.rank[f][d] # 0, NEW b \in Live,
                        heap'[b].pending # NoCode
                 PROVE  b = a /\ Used(heap[b].file)
      BY <2>3, <2>4 DEF Sole, Used
    <3>1. CASE b = a
      <4>1. heap[a].pending # NoCode \/ Used(heap[a].file)
        BY <1>3, <2>3, <3>1
      <4> QED
        BY <1>1, <1>3, <3>1, <4>1 DEF Sole
    <3>2. CASE b # a
      <4>1. heap[b].pending # NoCode
        BY <2>3, <2>4, <3>2
      <4>2. b = active
        BY <1>1, <4>1 DEF Sole
      <4> QED
        BY <1>3, <3>2, <4>1, <4>2, SoleUsed
    <3> QED
      BY <3>1, <3>2
  <2>8. Waiting'
    <3> SUFFICES ASSUME s.kbd.pending # NoCode
                 PROVE  /\ loop'.wait > 0 /\ Since' + loop'.wait = last' + timeout'
                        /\ last' <= Since' /\ last' + timeout' <= s.kbd.due
      BY <2>3 DEF Waiting
    <3> DEFINE w == Awaits(s.kbd, loop.stamp)
    <3>1. s.kbd.due \in s.kbd.timers
      BY <2>1 DEF Due
    <3>2. w \in Nat /\ w > 0 /\ loop.stamp + w <= s.kbd.due
      BY <1>1, <2>1, <2>2, <3>1, AwaitsLeast
    <3> HIDE DEF w
    <3>3. /\ loop'.wait = w /\ loop'.stamp = loop.stamp /\ loop'.phase # "poll"
          /\ last' = loop.stamp /\ timeout' = w
      BY <1>1, <2>1 DEF Handled, Loop, w
    <3> QED
      BY <1>1, <3>2, <3>3 DEF Since
  <2> QED
    BY <2>5, <2>6, <2>7, <2>8 DEF AwaitInv
<1> QED
  BY <1>2, <1>3

\* A device feeds a live keyboard whose config lists it.
LEMMA DataUsed ==
  ASSUME DaemonInv, NEW d \in Device, devices[d].data # NoKbd
  PROVE  LET a == devices[d].data
         IN  a \in Address /\ a \in Live /\ Used(heap[a].file) /\ heap[a].file \in File
             /\ setup.rank[heap[a].file][d] # 0
<1> DEFINE a == devices[d].data
<1>1. a \in Matches(d, heap)
  BY DEF DaemonInv, Grabbed
<1>2. a \in Live /\ setup.rank[heap[a].file][d] > 0
  BY <1>1 DEF Matches, Live
<1>3. a \in Address /\ heap[a].file \in File
  BY <1>2 DEF DaemonInv, TypeOK, Live, Keyboard
<1> QED
  BY <1>2, <1>3 DEF Used

\* A timeout or a click leaves no key pending that was not.
LEMMA OtherPending ==
  ASSUME NEW s \in Worlds, Timed(s.kbd), NEW c, c \notin Code, NEW pressed \in BOOLEAN, NEW t \in Nat
  PROVE  Process(s, c, pressed, t).kbd.pending # NoCode => s.kbd.pending # NoCode
<1> DEFINE q == Decide(s, c, pressed, t)
           op == IF t >= s.kbd.due THEN "layer" ELSE "key"
<1>1. op \in {"key", "layer"}
  OBVIOUS
<1>2. q \in Worlds /\ (q.kbd.pending = NoCode \/ q = s)
  <2>1. CASE s.kbd.pending # NoCode /\ (t >= s.kbd.due \/ pressed \/ c = s.kbd.pending)
    <3>1. q \in Worlds
      BY <1>1, <2>1, DecidedKept DEF Decide, Kept
    <3>2. q.kbd.pending = NoCode
      BY <1>1, <2>1, DecidedKept DEF Decide
    <3> QED
      BY <3>1, <3>2
  <2>2. CASE ~(s.kbd.pending # NoCode /\ (t >= s.kbd.due \/ pressed \/ c = s.kbd.pending))
    BY <2>2 DEF Decide
  <2> QED
    BY <2>1, <2>2
<1> HIDE DEF q
<1>3. Strike(q, c, pressed, t) = q
  BY Zenon DEF Strike
<1>4. Process(s, c, pressed, t).kbd.pending = q.kbd.pending
  BY <1>2, <1>3 DEF Process, q, Worlds, Keyboard
<1> QED
  BY <1>2, <1>4

LEMMA EventDue ==
  ASSUME DaemonInv, KeyboardsDue, NEW a \in Live, NEW c, NEW pressed \in BOOLEAN
  PROVE  Due(Process(World(a), c, pressed, loop.stamp).kbd)
<1>1. Due(World(a).kbd)
  BY DEF KeyboardsDue, World, Live
<1> QED
  BY <1>1, WorldType, ProcessDue

LEMMA DeviceKeyAwaits ==
  ASSUME DaemonInv, AwaitInv, MiceShare, NEW d \in Device, NEW c \in Code,
         NEW pressed \in BOOLEAN, DeviceKey(d, c, pressed)
  PROVE  AwaitInv'
<1>1. loop.phase = "devices" /\ setup' = setup
  BY DEF DeviceKey
<1>2. CASE devices[d].data # NoKbd
  <2> DEFINE a == devices[d].data
             r == Process(World(a), c, pressed, loop.stamp)
  <2>1. a \in Address /\ a \in Live /\ Used(heap[a].file)
    BY <1>2, DataUsed
  <2>2. active' = a /\ Hand(a, r, "typed")
    BY <1>2 DEF DeviceKey
  <2>3. Kept(World(a), r) /\ \A u \in r.kbd.timers : u > loop.stamp
    BY <2>1, EventKept
  <2>4. Due(r.kbd)
    BY <2>1, EventDue DEF AwaitInv
  <2> HIDE DEF a, r
  <2> QED
    BY <1>1, <2>1, <2>2, <2>3, <2>4, HandAwaits
<1>3. CASE devices[d].data = NoKbd
  <2>1. Handled(Remaining, "typed") /\ UNCHANGED <<heap, active>>
    BY <1>3 DEF DeviceKey
  <2> QED
    BY <1>1, <2>1, HandledAwaits
<1> QED
  BY <1>2, <1>3

LEMMA ClickDue ==
  ASSUME DaemonInv, KeyboardsDue, NEW a \in Live
  PROVE  LET t == loop.stamp
             r == Process(Process(World(a), Click, TRUE, t), Click, FALSE, t)
         IN  Due(r.kbd) /\ (r.kbd.pending # NoCode => heap[a].pending # NoCode)
<1> DEFINE t == loop.stamp
           q == Process(World(a), Click, TRUE, t)
           r == Process(q, Click, FALSE, t)
<1>1. Kept(World(a), q) /\ Due(q.kbd)
  BY EventKept, EventDue
<1>2. Click \notin Code
  BY NameAssumption
<1>3. q.kbd.pending # NoCode => heap[a].pending # NoCode
  BY <1>2, WorldType, OtherPending DEF World
<1> HIDE DEF q
<1>4. q \in Worlds /\ q.kbd.file \in File /\ Timed(q.kbd)
  BY <1>1, WorldType DEF Kept
<1>5. Due(r.kbd)
  BY <1>1, <1>4, WorldType, ProcessDue
<1>6. r.kbd.pending # NoCode => q.kbd.pending # NoCode
  BY <1>2, <1>4, WorldType, OtherPending
<1> QED
  BY <1>3, <1>5, <1>6 DEF q

LEMMA DeviceClickAwaits ==
  ASSUME DaemonInv, AwaitInv, MiceShare, NEW d \in Device, DeviceClick(d)
  PROVE  AwaitInv'
<1>1. /\ loop.phase \in {"devices", "typed"} /\ setup' = setup
      /\ active' = IF devices[d].data # NoKbd THEN devices[d].data ELSE active
  BY DEF DeviceClick, Ready, Reading
<1>2. active \in Address \cup {NoKbd}
  BY DEF DaemonInv, TypeOK
<1>3. CASE active' # NoKbd
  <2> DEFINE r(b) == Process(Process(World(b), Click, TRUE, loop.stamp), Click, FALSE, loop.stamp)
  <2>1. PICK a \in Address : a = active'
    BY <1>1, <1>2, <1>3, DataUsed
  <2>2. a # active => a \in Live /\ Used(heap[a].file)
    BY <1>1, <2>1, DataUsed
  <2>3. Hand(a, r(a), loop.phase)
    BY <1>3, <2>1 DEF DeviceClick
  <2>4. a \in Live => /\ Kept(World(a), r(a)) /\ Due(r(a).kbd)
                      /\ \A u \in r(a).kbd.timers : u > loop.stamp
                      /\ r(a).kbd.pending # NoCode => heap[a].pending # NoCode
    BY ClickKept, ClickDue DEF AwaitInv
  <2> HIDE DEF r
  <2> QED
    BY <1>1, <2>1, <2>2, <2>3, <2>4, HandAwaits
<1>4. CASE active' = NoKbd
  <2>1. Handled(Remaining, loop.phase) /\ heap' = heap
    BY <1>4 DEF DeviceClick
  <2>2. active' = active
    BY <1>1, <1>4
  <2> QED
    BY <1>1, <2>1, <2>2, HandledAwaits
<1> QED
  BY <1>3, <1>4

LEMMA DeviceMoveAwaits ==
  ASSUME DaemonInv, AwaitInv, MiceShare, NEW d \in Device, DeviceMove(d)
  PROVE  AwaitInv'
<1>1. /\ loop.phase \in {"devices", "typed"} /\ UNCHANGED <<setup, heap>> /\ d \in Mouse
      /\ active' = IF devices[d].data # NoKbd THEN devices[d].data ELSE active
      /\ Handled(Remaining, loop.phase)
  BY DEF DeviceMove, Ready, Reading
<1>2. active' = active
      \/ /\ active' \in Live /\ Used(heap[active'].file)
         /\ \E f \in File, e \in Mouse : setup.rank[f][e] # 0
  BY <1>1, DataUsed
<1> QED
  BY <1>1, <1>2, HandledAwaits

LEMMA PlugAwaits ==
  ASSUME DaemonInv, AwaitInv, MiceShare, NEW d \in Device, Plug(d)
  PROVE  AwaitInv'
BY HandledAwaits DEF Plug

LEMMA UnplugAwaits ==
  ASSUME DaemonInv, AwaitInv, MiceShare, NEW d \in Device, Unplug(d)
  PROVE  AwaitInv'
<1>1. /\ loop.phase \in {"devices", "typed"} /\ UNCHANGED <<setup, heap, active>>
      /\ Handled(Remaining, loop.phase)
  BY DEF Unplug, Ready, Reading
<1> QED
  BY <1>1, HandledAwaits

\* A file has one keyboard at most.
LEMMA LoadedDistinct ==
  ASSUME NEW parsed \in SUBSET File, NEW at, NEW a \in Address, NEW b \in Address,
         Loaded(parsed, at)[a].file # NoFile,
         Loaded(parsed, at)[a].file = Loaded(parsed, at)[b].file
  PROVE  a = b
<1>1. ASSUME NEW c \in Address, Loaded(parsed, at)[c].file # NoFile
      PROVE  c = at[Loaded(parsed, at)[c].file]
  <2>1. CASE \E f \in parsed : at[f] = c
    <3> DEFINE g == CHOOSE f \in parsed : at[f] = c
    <3>1. at[g] = c
      BY <2>1
    <3>2. Loaded(parsed, at)[c] = NewKeyboard(g)
      BY <2>1 DEF Loaded
    <3> HIDE DEF g
    <3> QED
      BY <3>1, <3>2 DEF NewKeyboard
  <2>2. CASE ~ \E f \in parsed : at[f] = c
    <3>1. Loaded(parsed, at)[c] = NewKeyboard(NoFile)
      BY <2>2 DEF Loaded, Freed
    <3> QED
      BY <1>1, <3>1 DEF NewKeyboard
  <2> QED
    BY <2>1, <2>2
<1> QED
  BY <1>1

\* Nothing waits where the keyboards are new.
LEMMA LoadedAwaits ==
  ASSUME NEW parsed \in SUBSET File, NEW at, heap = Loaded(parsed, at), active \in Address \cup {NoKbd}
  PROVE  AwaitInv
<1>1. \A a \in Address : heap[a].pending = NoCode
  BY LoadedType
<1>2. Live \subseteq Address
  BY DEF Live
<1>3. Distinct
  BY LoadedDistinct DEF Distinct, Live
<1> QED
  BY <1>1, <1>2, <1>3 DEF AwaitInv, KeyboardsDue, Due, Sole, Waiting

LEMMA ReloadAwaits ==
  ASSUME DaemonInv, Reload
  PROVE  AwaitInv'
<1>1. PICK parsed \in SUBSET File : \E at \in Placements(parsed) : heap' = Loaded(parsed, at)
  BY DEF Reload
<1>2. \A a \in Address : heap'[a].pending = NoCode
  BY <1>1, LoadedType
<1>3. Live' \subseteq Address
  BY DEF Live
<1>4. Distinct'
  BY <1>1, LoadedDistinct, ZenonT(60) DEF Distinct, Live
<1> QED
  BY <1>2, <1>3, <1>4 DEF AwaitInv, KeyboardsDue, Due, Sole, Waiting

\* Only evloop moves on, and its timeout with the clock.
LEMMA LoopAwaits ==
  ASSUME AwaitInv, UNCHANGED <<setup, heap, active, timeout, last>>, Waiting'
  PROVE  AwaitInv'
BY DEF AwaitInv, KeyboardsDue, Distinct, Sole, Live, Used

LEMMA PollReturnsAwaits ==
  ASSUME DaemonInv, AwaitInv, NEW t \in Times, PollReturns(t)
  PROVE  AwaitInv'
<1>1. t \in Nat /\ loop \in Loop /\ last \in Int /\ timeout \in Nat
  BY BoundAssumption DEF Times, DaemonInv, TypeOK
<1> DEFINE w == IF t - loop.start < loop.wait THEN loop.wait - (t - loop.start) ELSE 0
           p == IF Expiring(t) THEN "expired" ELSE "devices"
<1>2. /\ loop.phase = "poll" /\ t >= loop.start
      /\ loop' = [loop EXCEPT !.stamp = t, !.phase = p, !.wait = w]
      /\ UNCHANGED <<setup, heap, active, timeout, last>>
  BY <1>1 DEF PollReturns, Loop
<1> HIDE DEF w, p
<1>3. loop'.stamp = t /\ loop'.phase = p /\ loop'.wait = w
  BY <1>1, <1>2 DEF Loop
<1>4. Waiting'
  <2> SUFFICES ASSUME active \in Live, heap[active].pending # NoCode, p # "expired"
               PROVE  w > 0 /\ t + w = last + timeout /\ last <= t
                      /\ last + timeout <= heap[active].due
    BY <1>2, <1>3 DEF Waiting, Since, Live, p
  <2>1. /\ loop.wait > 0 /\ loop.start + loop.wait = last + timeout
        /\ last <= loop.start /\ last + timeout <= heap[active].due
    BY <1>2 DEF AwaitInv, Waiting, Since
  <2>2. ~(t - loop.start >= loop.wait)
    BY <2>1 DEF Expiring, p
  <2>3. loop.start \in Nat /\ loop.wait \in Nat
    BY <1>1 DEF Loop
  <2> QED
    BY <1>1, <1>2, <2>1, <2>2, <2>3 DEF w
<1> QED
  BY <1>2, <1>4, LoopAwaits

LEMMA PollAwaits ==
  ASSUME DaemonInv, AwaitInv, Slip = 0, NEW slip \in 0 .. Slip, Poll(slip)
  PROVE  AwaitInv'
<1>1. /\ loop \in Loop /\ slip = 0 /\ loop.phase \notin {"poll", "expired"}
      /\ loop' = [loop EXCEPT !.phase = "poll", !.start = loop.stamp + slip]
      /\ UNCHANGED <<setup, heap, active, timeout, last>>
  BY DEF DaemonInv, TypeOK, Poll
<1>2. loop'.phase = "poll" /\ loop'.start = loop.stamp /\ loop'.wait = loop.wait
  BY <1>1 DEF Loop
<1>3. Waiting'
  BY <1>1, <1>2 DEF AwaitInv, Waiting, Since, Live
<1> QED
  BY <1>1, <1>3, LoopAwaits

LEMMA TimeoutEventAwaits ==
  ASSUME DaemonInv, AwaitInv, MiceShare, TimeoutEvent
  PROVE  AwaitInv'
<1>1. active' = active /\ setup' = setup /\ active \in Address \cup {NoKbd}
  BY DEF DaemonInv, TypeOK, TimeoutEvent
<1>2. CASE active = NoKbd
  <2>1. heap' = heap
    BY <1>2 DEF TimeoutEvent
  <2>2. NoKbd \notin Address
    BY NameAssumption
  <2> QED
    BY <1>1, <1>2, <2>1, <2>2 DEF AwaitInv, KeyboardsDue, Distinct, Sole, Waiting, Live, Used
<1>3. CASE active # NoKbd
  <2> DEFINE r == Process(World(active), NoCode, FALSE, loop.stamp)
  <2>1. Hand(active, r, "devices")
    BY <1>3 DEF TimeoutEvent
  <2>2. active \in Live => Kept(World(active), r) /\ \A u \in r.kbd.timers : u > loop.stamp
    BY EventKept
  <2>3. active \in Live => Due(r.kbd)
    BY EventDue DEF AwaitInv
  <2>4. active \in Live /\ r.kbd.pending # NoCode => heap[active].pending # NoCode
    BY NameAssumption, WorldType, OtherPending DEF World
  <2> HIDE DEF r
  <2> QED
    BY <1>1, <1>3, <2>1, <2>2, <2>3, <2>4, HandAwaits
<1> QED
  BY <1>2, <1>3

LEMMA AwaitInvariant ==
  ASSUME MiceShare, Slip = 0
  PROVE  Spec => []AwaitInv
<1>1. Init => AwaitInv
  <2> SUFFICES ASSUME Init PROVE AwaitInv
    OBVIOUS
  <2>1. heap = Loaded(File, CHOOSE at \in Placements(File) : TRUE) /\ active = NoKbd
    BY DEF Init
  <2> QED
    BY <2>1, LoadedAwaits
<1>2. ASSUME DaemonInv, AwaitInv, [Next]_vars PROVE AwaitInv'
  <2>1. ASSUME NEW d \in Device, NEW c \in Code, NEW pressed \in BOOLEAN,
               DeviceKey(d, c, pressed)
        PROVE  AwaitInv'
    BY <1>2, <2>1, DeviceKeyAwaits
  <2>2. ASSUME NEW d \in Device, DeviceClick(d) \/ DeviceMove(d) \/ Plug(d) \/ Unplug(d)
        PROVE  AwaitInv'
    BY <1>2, <2>2, DeviceClickAwaits, DeviceMoveAwaits, PlugAwaits, UnplugAwaits
  <2>3. CASE Reload
    BY <1>2, <2>3, ReloadAwaits
  <2>4. ASSUME NEW t \in Times, PollReturns(t)
        PROVE  AwaitInv'
    BY <1>2, <2>4, PollReturnsAwaits
  <2>5. ASSUME NEW slip \in 0 .. Slip, Poll(slip)
        PROVE  AwaitInv'
    BY <1>2, <2>5, PollAwaits
  <2>6. CASE TimeoutEvent
    BY <1>2, <2>6, TimeoutEventAwaits
  <2>7. CASE UNCHANGED vars
    BY <1>2, <2>7 DEF vars, AwaitInv, KeyboardsDue, Distinct, Sole, Waiting, Since, Live, Used
  <2> QED
    BY <1>2, <2>1, <2>2, <2>3, <2>4, <2>5, <2>6, <2>7 DEF Next
<1> QED
  BY <1>1, <1>2, DaemonInvariant, PTL DEF Spec

-----------------------------------------------------------------------------
(* The theorems.                                                           *)

\* Every handler leaves a table of devices, keyboards and timeouts of the types they
\* have: in particular no timeout is negative, whatever the clock and stray timestamps.
THEOREM DaemonTypeCorrect == Spec => []TypeOK
BY DaemonInvariant, PTL DEF DaemonInv

\* However devices come and go, grabs fail and configs are reloaded, a device is grabbed
\* just when a live keyboard of a config that matches it best is the one it feeds.
THEOREM GrabbedCorrect == Spec => []Grabbed
BY DaemonInvariant, PTL DEF DaemonInv

\* However keys are held across reloads, removals and timeouts, whatever is down on the
\* virtual keyboard is there because some live keyboard holds it, and will release it.
THEOREM MirroredCorrect == Spec => []Mirrored
BY DaemonInvariant, PTL DEF DaemonInv

\* Whatever is plugged, moved or reloaded in between, and whoever is heard by no
\* keyboard, evloop does not wait past the moment the keyboard used last is due, where
\* no time passes between an event and the next poll and mice have no keyboard of
\* their own beside another.
THEOREM ActiveAwaitedCorrect ==
  ASSUME MiceShare, Slip = 0
  PROVE  Spec => []ActiveAwaited
<1>1. DaemonInv /\ AwaitInv => ActiveAwaited
  BY DEF AwaitInv, Waiting, Since, ActiveAwaited, AwaitedAt, DaemonInv, TypeOK
<1> QED
  BY <1>1, AwaitInvariant, DaemonInvariant, PTL
=============================================================================
