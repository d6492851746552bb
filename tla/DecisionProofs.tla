-------------------------- MODULE DecisionProofs --------------------------
(***************************************************************************)
(* Theorems about Pipeline, when chords and keys are decided: a chord      *)
(* fires for keys struck close together (WithinInterval), its code is on   *)
(* its way once (ActivatedAtOnce), and the event loop knows by when it     *)
(* must come back (Awaited).                                               *)
(***************************************************************************)
EXTENDS PipelineProofs

-----------------------------------------------------------------------------
(* WithinInterval: where a keymap has chords, the frames are the event loop's *)
(* and those of a chord, and while one is pending its deadline is awaited. *)

\* The frame of an event that the event loop hands in, ...
Pristine(f, t) ==
  /\ f.kind = "loop" /\ f.timer = 0
  /\ Len(f.events) = 1 /\ f.events[1].at = t

\* ... or has handed in, ...
Taking(f) == f.kind = "loop" /\ f.events = <<>>

\* ... the frames above it, ...
Upper(f) == f.kind = "chord" \/ (f.kind = "code" /\ f.events = <<>>)

\* ... and that of the code of a chord, before it is processed.
Calling(f) ==
  /\ f.kind = "code" /\ f.timer = 0
  /\ Len(f.events) = 1 /\ f.events[1].code \in Slot

Under(s) ==
  /\ s # <<>>
  /\ \A n \in DOMAIN s : IF n = Len(s) THEN Taking(s[n]) ELSE Upper(s[n])

Layered(s, t) ==
  \/ s = <<>> \/ Under(s)
  \/ Len(s) = 1 /\ Pristine(Head(s), t)
  \/ Calling(Head(s)) /\ Under(Tail(s))

\* The first n events of q are no further apart, one from the next, than g.
Near(q, n, g) ==
  \A i \in 1 .. n - 1 : q[i].at <= q[i + 1].at + g /\ q[i + 1].at <= q[i].at + g

Spaced(k) ==
  LET c == k.chord
  IN  /\ c.state = "pending" =>
           /\ c.queue # <<>> /\ c.queue[Len(c.queue)].at = c.last
           /\ Near(c.queue, Len(c.queue), k.config.interkey)
      /\ c.state \in {"hold", "resolving"} /\ c.match # NoChord =>
           Near(c.queue, Cardinality(ChordKeys[c.match]), k.config.interkey)

Lapse(k) == k.chord.last + k.config.interkey

\* The event loop learns of the moment a pending chord lapses, and comes back by then.
InTime(k, s, w, t) ==
  k.chord.state = "pending" =>
    /\ k.chord.last <= t /\ Lapse(k) \in k.timers
    /\ s = <<>> => w # 0 /\ w <= Lapse(k)
    /\ s # <<>> /\ Head(s).events = <<>> =>
         Len(s) = 1 /\ Head(s).timer # 0 /\ Head(s).timer <= Lapse(k)
    /\ s # <<>> /\ Head(s).events # <<>> /\ Head(Head(s).events).code # NoCode =>
         Head(Head(s).events).at < Lapse(k)

Punctual ==
  /\ Spaced(kbd)
  /\ ~kbd.aborted /\ ~Chordless(kbd.config) =>
       Layered(stack, now) /\ InTime(kbd, stack, wake, now)

\* One frame more above the others.
LEMMA UnderPush ==
  ASSUME NEW f \in Frame, Upper(f), NEW s \in Seq(Frame), Under(s)
  PROVE  Under(<<f>> \o s)
<1> DEFINE r == <<f>> \o s
<1>1. /\ Len(s) \in Nat \ {0} /\ DOMAIN s = 1 .. Len(s) /\ Len(r) = Len(s) + 1
      /\ DOMAIN r = 1 .. Len(s) + 1 /\ r[1] = f /\ \A n \in 1 .. Len(s) : r[n + 1] = s[n]
      /\ r # <<>>
  <2>1. Len(s) \in Nat /\ (Len(s) = 0 => s = <<>>) /\ s # <<>>
    BY DEF Under
  <2> QED BY <2>1
<1> HIDE DEF r
<1>2. ASSUME NEW n \in DOMAIN r
      PROVE  IF n = Len(r) THEN Taking(r[n]) ELSE Upper(r[n])
  <2>1. CASE n = 1
    BY <1>1, <2>1
  <2>2. CASE n # 1
    <3>1. n - 1 \in DOMAIN s /\ r[n] = s[n - 1] /\ (n = Len(r) <=> n - 1 = Len(s))
      BY <1>1, <2>2
    <3> QED BY <3>1 DEF Under
  <2> QED BY <2>1, <2>2
<1> QED BY <1>1, <1>2 DEF Under, r

LEMMA UnderOne ==
  ASSUME NEW f \in Frame, Taking(f)
  PROVE  Under(<<f>>) /\ Under(<<f>> \o <<>>)
<1>1. <<f>> \o <<>> = <<f>> /\ <<f>> # <<>> /\ DOMAIN <<f>> = {1} /\ Len(<<f>>) = 1 /\ <<f>>[1] = f
  OBVIOUS
<1> QED BY <1>1 DEF Under

\* The topmost frame, and what is below it.
LEMMA UnderTop ==
  ASSUME NEW s \in Seq(Frame), Under(s)
  PROVE  /\ Tail(s) = <<>> => Taking(Head(s)) /\ Len(s) = 1
         /\ Tail(s) # <<>> => Upper(Head(s)) /\ Under(Tail(s)) /\ Len(s) # 1
<1>1. s # <<>>
  BY DEF Under
<1>2. /\ Len(s) \in Nat \ {0} /\ DOMAIN s = 1 .. Len(s) /\ Head(s) = s[1]
      /\ DOMAIN Tail(s) = 1 .. Len(s) - 1 /\ Tail(s) \in Seq(Frame)
      /\ \A i \in 1 .. Len(s) - 1 : Tail(s)[i] = s[i + 1]
  BY <1>1, ListFacts, Zenon
<1> DEFINE r == Tail(s)
<1>3. Len(r) = Len(s) - 1 /\ (r = <<>> <=> Len(s) = 1)
  BY <1>1, <1>2
<1> HIDE DEF r
<1>4. CASE Len(s) = 1
  BY <1>2, <1>3, <1>4 DEF Under, r
<1>5. CASE Len(s) # 1
  <2>1. Upper(Head(s))
    BY <1>2, <1>5 DEF Under
  <2>2. ASSUME NEW n \in DOMAIN r
        PROVE  IF n = Len(r) THEN Taking(r[n]) ELSE Upper(r[n])
    <3>1. n + 1 \in DOMAIN s /\ r[n] = s[n + 1] /\ (n = Len(r) <=> n + 1 = Len(s))
      BY <1>2, <1>3 DEF r
    <3> QED BY <3>1 DEF Under
  <2> QED BY <1>3, <1>5, <2>1, <2>2 DEF Under, r
<1> QED BY <1>4, <1>5

LEMMA LenOne ==
  ASSUME NEW E, NEW s \in Seq(E), Len(s) = 1
  PROVE  /\ Head(s) = s[1] /\ Tail(s) = <<>> /\ s # <<>> /\ s[1] \in E
<1>1. s # <<>>
  BY EmptySeq
<1>2. Head(s) \in E /\ Head(s) = s[1] /\ Tail(s) \in Seq(E) /\ DOMAIN Tail(s) = 1 .. Len(s) - 1
  BY <1>1, ListFacts, Zenon
<1> DEFINE r == Tail(s)
<1>3. r \in Seq(E) /\ DOMAIN r = 1 .. 0
  BY <1>2
<1> HIDE DEF r
<1>4. r = <<>>
  BY <1>3
<1> QED BY <1>1, <1>2, <1>4 DEF r

\* Whichever it is, the frame of an event that is processed has frames beneath it that
\* await it, and is one of these when it calls another.
LEMMA FrameTaken ==
  ASSUME Processing, Layered(stack, now)
  PROVE  /\ \/ Pristine(Top, now) /\ Tail(stack) = <<>> /\ Taken.events = <<>>
            \/ Calling(Top) \/ Top.kind = "chord"
         /\ \A f \in Frame : f.kind = Top.kind /\ f.events = Taken.events => Under(<<f>> \o Tail(stack))
<1>1. stack \in Seq(Frame) /\ stack # <<>> /\ Top.events # <<>> /\ Top \in Frame /\ Taken \in Frame
      /\ Tail(stack) \in Seq(Frame) /\ Top = Head(stack)
  BY UpcomingOK DEF Processing, TypeInv, TypeOK, Top
<1>2. Top.events \in Seq(Event)
  BY <1>1 DEF Frame
<1>3. ASSUME Len(Top.events) = 1, Top.timer = 0
      PROVE  Taken.events = <<>>
  <2>1. Tail(Top.events) = <<>>
    BY <1>2, <1>3, LenOne
  <2> QED BY <1>1, <1>3, <2>1 DEF Taken, TimeoutDue, Frame
<1>4. CASE Len(stack) = 1 /\ Pristine(Head(stack), now)
  <2>1. Tail(stack) = <<>> /\ Pristine(Top, now)
    BY <1>1, <1>4, LenOne
  <2>2. Taken.events = <<>> /\ Top.kind = "loop"
    BY <1>3, <2>1 DEF Pristine
  <2>3. \A f \in Frame : f.kind = Top.kind /\ f.events = Taken.events => Taking(f)
    BY <2>2 DEF Taking
  <2> QED BY <2>1, <2>2, <2>3, UnderOne
<1>5. ASSUME Upper(Top) \/ Calling(Top), Under(Tail(stack)),
             \A f \in Frame : f.kind = Top.kind /\ f.events = Taken.events => Upper(f)
      PROVE  \A f \in Frame : f.kind = Top.kind /\ f.events = Taken.events => Under(<<f>> \o Tail(stack))
  BY <1>1, <1>5, UnderPush
<1>6. CASE Under(stack)
  <2>1. Upper(Top) /\ Under(Tail(stack)) /\ Top.kind = "chord"
    BY <1>1, <1>6, UnderTop DEF Taking, Upper
  <2>2. \A f \in Frame : f.kind = Top.kind /\ f.events = Taken.events => Upper(f)
    BY <2>1 DEF Upper
  <2> QED BY <1>5, <2>1, <2>2
<1>7. CASE Calling(Head(stack)) /\ Under(Tail(stack))
  <2>1. Calling(Top) /\ Taken.events = <<>> /\ Top.kind = "code"
    BY <1>1, <1>3, <1>7 DEF Calling
  <2>2. \A f \in Frame : f.kind = Top.kind /\ f.events = Taken.events => Upper(f)
    BY <2>1 DEF Upper
  <2> QED BY <1>5, <1>7, <2>1, <2>2
<1> QED BY <1>1, <1>4, <1>6, <1>7 DEF Layered

\* The event of a key or a timeout, as opposed to that of a chord's code, where no
\* chord is being resolved, is the event loop's.
LEMMA PristineEvent ==
  ASSUME Processing, Layered(stack, now), ChordFree(stack), Upcoming.code \notin Slot
  PROVE  /\ Tail(stack) = <<>> /\ Taken.events = <<>>
         /\ Upcoming = Head(Top.events) /\ Upcoming.at = now
<1>1. stack \in Seq(Frame) /\ stack # <<>> /\ Top.events # <<>> /\ Top \in Frame
  BY UpcomingOK DEF Processing, TypeInv, TypeOK
<1>2. Top.events \in Seq(Event)
  BY <1>1 DEF Frame
<1>3. Top.kind # "chord"
  <2>1. Top = stack[1] /\ 1 \in DOMAIN stack
    BY <1>1, ListFacts, Zenon DEF Top
  <2> QED BY <2>1 DEF ChordFree
<1>4. ASSUME Len(Top.events) = 1, Top.timer = 0
      PROVE  Upcoming = Head(Top.events) /\ Upcoming = Top.events[1]
  <2>1. Head(Top.events) = Top.events[1]
    BY <1>2, <1>4, LenOne
  <2> QED BY <1>4, <2>1 DEF Upcoming, TimeoutDue
<1>5. ~Calling(Top)
  BY <1>4 DEF Calling
<1>6. Pristine(Top, now) /\ Tail(stack) = <<>> /\ Taken.events = <<>>
  BY <1>3, <1>5, FrameTaken
<1> QED BY <1>4, <1>6 DEF Pristine

LEMMA ExitLayered ==
  ASSUME Processing, Layered(stack, now), NEW k \in Keyboard, Exit(k)
  PROVE  Layered(stack', now')
<1> DEFINE f == [Taken EXCEPT !.timer = Deadline(k, Upcoming.at)]
<1>1. k.timers \in SUBSET Nat /\ Upcoming.at \in Nat /\ Taken \in Frame
  BY UpcomingOK DEF Keyboard, Event
<1>2. Deadline(k, Upcoming.at) \in Nat
  BY <1>1, DeadlineType
<1>3. f \in Frame /\ f.events = Taken.events /\ f.kind = Top.kind
  BY <1>1, <1>2, TakenKind DEF Frame
<1>4. stack' = <<f>> \o Tail(stack) /\ UNCHANGED <<wake, now>>
  BY DEF Exit
<1> HIDE DEF f
<1> QED BY <1>3, <1>4, FrameTaken DEF Layered

LEMMA CallLayered ==
  ASSUME Processing, Layered(stack, now), NEW k
  PROVE  /\ \A f \in Frame : f.kind = "chord" /\ Call(k, <<f>>) => Layered(stack', now')
         /\ \A f \in Frame : Calling(f) /\ Call(k, <<f>>) => Layered(stack', now')
         /\ \A f \in Frame : \A g \in Frame :
              Calling(f) /\ g.kind = "chord" /\ Call(k, <<f, g>>) => Layered(stack', now')
<1>1. Taken \in Frame /\ Tail(stack) \in Seq(Frame) /\ Taken.kind = Top.kind
  BY UpcomingOK, TakenKind
<1> DEFINE s == <<Taken>> \o Tail(stack)
<1>2. s \in Seq(Frame) /\ Under(s)
  <2>1. Under(s)
    BY <1>1, FrameTaken
  <2> QED BY <1>1, <2>1
<1>3. \A f \in Frame : Call(k, <<f>>) => stack' = <<f>> \o s
  BY <1>1 DEF Call
<1>4. ASSUME NEW f \in Frame, NEW g \in Frame, Call(k, <<f, g>>)
      PROVE  stack' = <<f>> \o (<<g>> \o s)
  <2>1. stack' = <<f, g>> \o <<Taken>> \o Tail(stack)
    BY <1>4 DEF Call
  <2> QED BY <1>1, <2>1, TwoOnTop
<1> HIDE DEF s
<1>5. \A g \in Frame : <<g>> \o s \in Seq(Frame)
  BY <1>2
<1>6. \A g \in Frame : g.kind = "chord" => Under(<<g>> \o s)
  BY <1>2, UnderPush DEF Upper
<1>7. \A f \in Frame : \A r \in Seq(Frame) : Head(<<f>> \o r) = f /\ Tail(<<f>> \o r) = r
  OBVIOUS
<1>8. ASSUME NEW f \in Frame, f.kind = "chord", Call(k, <<f>>)
      PROVE  Layered(stack', now')
  BY <1>3, <1>6, <1>8 DEF Layered
<1>9. ASSUME NEW f \in Frame, Calling(f), NEW r \in Seq(Frame), Under(r), stack' = <<f>> \o r
      PROVE  Layered(stack', now')
  BY <1>7, <1>9 DEF Layered
<1>10. ASSUME NEW f \in Frame, Calling(f), Call(k, <<f>>)
       PROVE  Layered(stack', now')
  BY <1>2, <1>3, <1>9, <1>10
<1>11. ASSUME NEW f \in Frame, NEW g \in Frame, Calling(f), g.kind = "chord", Call(k, <<f, g>>)
       PROVE  Layered(stack', now')
  BY <1>4, <1>5, <1>6, <1>9, <1>11
<1> QED BY <1>8, <1>10, <1>11

-----------------------------------------------------------------------------
\* The next deadline is no later than one that is yet to come.
LEMMA HeldDeadline ==
  ASSUME NEW k, k.timers \in SUBSET Nat, NEW t \in Nat, NEW d \in k.timers, t < d
  PROVE  d \in Later(k, t) /\ Deadline(k, t) # 0 /\ Deadline(k, t) <= d
<1>1. d \in Later(k, t) /\ Later(k, t) # {} /\ Later(k, t) \in SUBSET Nat
  BY DEF Later
<1> DEFINE u == Least(Later(k, t))
<1>2. u \in Later(k, t) /\ \A v \in Later(k, t) : u <= v
  <2>1. \E w \in Later(k, t) : \A v \in Later(k, t) : w <= v
    BY <1>1, HasLeast
  <2> QED BY <2>1 DEF Least
<1>3. Deadline(k, t) = u /\ u # 0
  BY <1>1, <1>2 DEF Deadline, Later
<1> HIDE DEF u
<1> QED BY <1>1, <1>2, <1>3

\* A timed key that is decided adds to the deadlines, if anything.
LEMMA PressTimers ==
  ASSUME NEW k \in Keyboard, NEW c, NEW d, NEW t
  PROVE  k.timers \subseteq Press(k, c, d, t).timers
BY DEF Press, Schedule, ActivateLayer, Keyboard

LEMMA ReleaseTimers ==
  ASSUME NEW k \in Keyboard, NEW d, NEW t
  PROVE  Release(k, d, t).timers = k.timers
BY DEF Release, DeactivateLayer, Keyboard

LEMMA DecideTimers ==
  ASSUME NEW k, KeyboardOK(k), NEW e \in Event
  PROVE  k.timers \subseteq DecideTimeout(k, e).timers
<1> DEFINE p == k.timeout
           action == IF e.at >= p.expiration THEN p.action2 ELSE p.action1
           decided == [k EXCEPT !.timeout = NoTimeout]
<1>1. k \in Keyboard
  BY DEF KeyboardOK
<1>2. CASE ~DecidesTimeout(k, e)
  BY <1>2 DEF DecideTimeout
<1>3. CASE DecidesTimeout(k, e)
  <2>1. p.code \in Codes /\ action \in Descriptor /\ e.at \in Nat
    BY <1>1, <1>3 DEF DecidesTimeout, Keyboard, PendingTimeout, Codes, Event
  <2>2. KeyboardOK(decided) /\ decided.timers = k.timers
    <3>1. NoTimeout \in PendingTimeout
      BY FreeType DEF NoTimeout, PendingTimeout
    <3>2. decided \in Keyboard /\ decided.active = k.active /\ decided.recent = k.recent
          /\ decided.timers = k.timers
      BY <1>1, <3>1 DEF Keyboard
    <3> QED BY <3>2, OtherFieldsOK
  <2>0. DecideTimeout(k, e) =
          IF p.spontaneous THEN Release(Press(decided, p.code, action, e.at), action, e.at)
          ELSE Press(CacheSet(decided, p.code, action), p.code, action, e.at)
    BY <1>3, Zenon DEF DecideTimeout
  <2> HIDE DEF action, decided
  <2> DEFINE i == Press(decided, p.code, action, e.at)
             j == CacheSet(decided, p.code, action)
  <2>3. KeyboardOK(i) /\ decided.timers \subseteq i.timers
    BY <2>1, <2>2, PressOK, PressTimers DEF KeyboardOK
  <2>4. KeyboardOK(j) /\ j.timers = decided.timers
    <3>1. j.timers = decided.timers
      BY <2>2 DEF CacheSet, KeyboardOK, Keyboard
    <3> QED BY <2>1, <2>2, <3>1, CacheSetOK
  <2>5. j.timers \subseteq Press(j, p.code, action, e.at).timers
    BY <2>4, PressTimers DEF KeyboardOK
  <2> HIDE DEF i, j
  <2>6. Release(i, action, e.at).timers = i.timers
    BY <2>3, ReleaseTimers DEF KeyboardOK
  <2> QED BY <2>0, <2>2, <2>3, <2>4, <2>5, <2>6 DEF i, j
<1> QED BY <1>2, <1>3

\* Events that are near go on being so when another comes.
LEMMA NearLonger ==
  ASSUME NEW q \in Seq(Event), NEW e \in Event, NEW g \in Nat, NEW n \in Nat
  PROVE  /\ n <= Len(q) /\ Near(q, n, g) => Near(Append(q, e), n, g)
         /\ n <= Len(q) /\ Near(q, Len(q), g) => Near(q, n, g)
<1>1. Len(q) \in Nat /\ \A i \in 1 .. Len(q) : Append(q, e)[i] = q[i]
  OBVIOUS
<1> DEFINE r == Append(q, e)
<1> HIDE DEF r
<1>2. \A i \in 1 .. Len(q) : r[i] = q[i]
  BY <1>1 DEF r
<1>3. n <= Len(q) /\ Near(q, n, g) => Near(r, n, g)
  <2>1. SUFFICES ASSUME n <= Len(q), Near(q, n, g), NEW i \in 1 .. n - 1
                 PROVE  r[i].at <= r[i + 1].at + g /\ r[i + 1].at <= r[i].at + g
    BY DEF Near
  <2>2. r[i] = q[i] /\ r[i + 1] = q[i + 1]
    BY <1>1, <1>2, <2>1
  <2> QED BY <2>1, <2>2 DEF Near
<1>4. n <= Len(q) /\ Near(q, Len(q), g) => Near(q, n, g)
  BY <1>1 DEF Near
<1> QED BY <1>3, <1>4 DEF r

LEMMA NearAppend ==
  ASSUME NEW q \in Seq(Event), q # <<>>, NEW e \in Event, NEW g \in Nat, Near(q, Len(q), g),
         q[Len(q)].at <= e.at, e.at <= q[Len(q)].at + g
  PROVE  Near(Append(q, e), Len(Append(q, e)), g)
<1> DEFINE r == Append(q, e)
<1>1. /\ Len(q) \in Nat \ {0} /\ Len(r) = Len(q) + 1 /\ r[Len(q) + 1] = e
      /\ \A i \in 1 .. Len(q) : r[i] = q[i] /\ q[i] \in Event
  OBVIOUS
<1> HIDE DEF r
<1>2. e.at \in Nat /\ q[Len(q)].at \in Nat
  BY <1>1 DEF Event
<1>3. ASSUME NEW i \in 1 .. Len(r) - 1
      PROVE  r[i].at <= r[i + 1].at + g /\ r[i + 1].at <= r[i].at + g
  <2>1. CASE i = Len(q)
    <3>1. r[i] = q[Len(q)] /\ r[i + 1] = e
      BY <1>1, <2>1
    <3> QED BY <1>2, <3>1
  <2>2. CASE i # Len(q)
    <3>1. i \in 1 .. Len(q) - 1 /\ r[i] = q[i] /\ r[i + 1] = q[i + 1]
      BY <1>1, <2>2
    <3> QED BY <3>1 DEF Near
  <2> QED BY <2>1, <2>2
<1> QED BY <1>3 DEF Near, r

Met == Spaced(kbd) /\ (~kbd.aborted => Layered(stack, now) /\ InTime(kbd, stack, wake, now))

LEMMA SpacedAlike ==
  ASSUME NEW k, NEW j, j.chord = k.chord, j.config = k.config, Spaced(k)
  PROVE  Spaced(j) /\ Lapse(j) = Lapse(k)
BY DEF Spaced, Lapse

\* A handler that ends, and the deadline that its frame then knows.
LEMMA ExitMet ==
  ASSUME Processing, Layered(stack, now), NEW k \in Keyboard, Exit(k), Spaced(k),
         k.chord.state = "pending" =>
           /\ Tail(stack) = <<>> /\ Taken.events = <<>>
           /\ k.chord.last <= now /\ Lapse(k) \in k.timers /\ Upcoming.at < Lapse(k)
  PROVE  Met'
<1> DEFINE j == [k EXCEPT !.timers = Later(k, Upcoming.at)]
           f == [Taken EXCEPT !.timer = Deadline(k, Upcoming.at)]
<1>1. k.timers \in SUBSET Nat /\ Upcoming.at \in Nat /\ Taken \in Frame
  BY UpcomingOK DEF Keyboard, Event
<1>2. Deadline(k, Upcoming.at) \in Nat /\ Later(k, Upcoming.at) \in SUBSET Nat
  BY <1>1, DeadlineType
<1>3. f \in Frame /\ f.events = Taken.events /\ f.timer = Deadline(k, Upcoming.at)
  BY <1>1, <1>2 DEF Frame
<1>4. j.chord = k.chord /\ j.config = k.config /\ j.timers = Later(k, Upcoming.at)
  BY <1>2 DEF Keyboard
<1>5. kbd' = j /\ stack' = <<f>> \o Tail(stack) /\ UNCHANGED <<wake, now>>
  BY DEF Exit
<1> HIDE DEF j, f
<1>6. Layered(stack', now')
  BY ExitLayered
<1>7. Spaced(j) /\ Lapse(j) = Lapse(k)
  BY <1>4, SpacedAlike
<1>8. ASSUME j.chord.state = "pending"
      PROVE  InTime(j, stack', wake', now')
  <2>1. /\ Tail(stack) = <<>> /\ Taken.events = <<>> /\ k.chord.last <= now
        /\ Lapse(k) \in k.timers /\ Upcoming.at < Lapse(k)
    BY <1>4, <1>8
  <2>2. Lapse(k) \in Later(k, Upcoming.at) /\ f.timer # 0 /\ f.timer <= Lapse(k)
    BY <1>1, <1>3, <2>1, HeldDeadline
  <2>3. stack' = <<f>> /\ Len(stack') = 1 /\ Head(stack') = f /\ stack' # <<>>
    <3>1. <<f>> \o <<>> = <<f>> /\ Len(<<f>>) = 1 /\ Head(<<f>>) = f /\ <<f>> # <<>>
      OBVIOUS
    <3> QED BY <1>5, <2>1, <3>1
  <2> QED BY <1>3, <1>4, <1>5, <1>7, <2>1, <2>2, <2>3 DEF InTime
<1>9. InTime(j, stack', wake', now')
  BY <1>8 DEF InTime
<1> QED BY <1>5, <1>6, <1>7, <1>9 DEF Met

\* A chord that is resolved does not await a deadline.
LEMMA ResolveMet ==
  ASSUME Processing, Layered(stack, now), NEW k \in Keyboard, Spaced(k), NEW q \in Seq(Event),
         NEW match \in Chord \cup {NoChord},
         match # NoChord => Near(q, Cardinality(ChordKeys[match]), k.config.interkey),
         Resolve(k, q, match)
  PROVE  Met'
<1> DEFINE free == {s \in Slot : ~k.slots[s].on}
           slot == Least(free)
           press == [code |-> slot, pressed |-> TRUE, at |-> k.chord.last]
           rest == CallFrame("chord", Rest(q, match))
           code == CallFrame("code", <<press>>)
           r == Resolving(k, q, match)
           started == Started(k, q, match, slot)
<1>1. /\ r.chord.state = "resolving" /\ r.chord.queue = q /\ r.chord.match = match
      /\ r.config = k.config
  BY DEF Resolving, Keyboard, Chording
<1>2. /\ started.chord = r.chord /\ started.config = r.config
  BY DEF Started, Resolving, Keyboard
<1>3. rest \in Frame /\ rest.kind = "chord"
  <2>1. Rest(q, match) \in Seq(Event)
    BY SizeType DEF Rest
  <2> QED BY <2>1 DEF CallFrame, Frame
<1> HIDE DEF r
<1>4. Spaced(r) /\ Spaced(started) /\ \A s, w, t : InTime(r, s, w, t) /\ InTime(started, s, w, t)
  <2> HIDE DEF started
  <2> QED BY <1>1, <1>2 DEF Spaced, InTime
<1>5. CASE match = NoChord
  <2>1. Call(r, <<rest>>)
    BY <1>5 DEF Resolve, Resolving, r
  <2> HIDE DEF rest
  <2>2. Layered(stack', now') /\ kbd' = r
    BY <1>3, <2>1, CallLayered DEF Call
  <2> QED BY <1>4, <2>2 DEF Met
<1>6. CASE match # NoChord /\ free = {}
  <2> DEFINE j == [k EXCEPT !.aborted = TRUE]
  <2>1. Exit(j)
    BY <1>6 DEF Resolve
  <2>2. j \in Keyboard /\ j.chord = k.chord /\ j.config = k.config /\ j.aborted
    BY DEF Keyboard
  <2> HIDE DEF j
  <2>3. kbd'.chord = j.chord /\ kbd'.config = j.config /\ kbd'.aborted
    BY <2>1, <2>2 DEF Exit, Keyboard
  <2>4. Spaced(kbd')
    BY <2>2, <2>3, SpacedAlike
  <2> QED BY <2>3, <2>4 DEF Met
<1>7. CASE match # NoChord /\ free # {}
  <2>1. Call(started, <<code, rest>>)
    BY <1>7 DEF Resolve, Resolving, Started
  <2>2. slot \in Slot
    <3>1. free \in SUBSET Nat
      BY CodeAssumption DEF Slot
    <3>2. Least(free) \in free
      BY <1>7, <3>1, LeastIsMember
    <3> QED BY <3>2
  <2> HIDE DEF slot, started
  <2>3. press \in Event /\ press.code \in Slot
    BY <2>2 DEF Event, Keyboard, Chording
  <2> HIDE DEF press
  <2>4. <<press>> \in Seq(Event) /\ Len(<<press>>) = 1 /\ <<press>>[1] = press
    BY <2>3
  <2>5. code \in Frame /\ Calling(code)
    BY <2>3, <2>4 DEF CallFrame, Frame, Calling
  <2> HIDE DEF code, rest
  <2>6. Layered(stack', now') /\ kbd' = started
    BY <1>3, <2>1, <2>5, CallLayered DEF Call
  <2> QED BY <1>4, <2>6 DEF Met
<1> QED BY <1>5, <1>6, <1>7

\* A key that is struck, and may be part of a chord, awaits the next one.
LEMMA AdvanceMet ==
  ASSUME Processing, Layered(stack, now), kbd.config.interkey > 0,
         Tail(stack) = <<>>, Taken.events = <<>>, Upcoming.at = now,
         NEW q \in Seq(Event), \A i \in DOMAIN q : q[i].pressed,
         q # <<>>, q[Len(q)].at = Upcoming.at, Near(q, Len(q), kbd.config.interkey),
         NEW old \in Chord \cup {NoChord}, old # NoChord => Presented(q, old),
         Advance(q, old, Upcoming.at)
  PROVE  Met'
<1> DEFINE t == Upcoming.at
           match == Match(kbd, q, old)
           unambiguous == Full(kbd, q) # {} /\ Partial(kbd, q) = Full(kbd, q)
           c == [state |-> IF unambiguous THEN "hold" ELSE "pending",
                 queue |-> q, match |-> match, last |-> t]
           waiting == [kbd EXCEPT !.chord = c]
           g == kbd.config.interkey
<1>1. kbd \in Keyboard /\ KeyboardOK(kbd) /\ t \in Nat /\ g \in Nat /\ kbd.config.hold \in Nat
  BY CurrentOK, UpcomingOK DEF Result, Event
<1>2. match # NoChord => Presented(q, match)
  BY <1>1, MatchPresented
<1>3. match \in Chord \cup {NoChord}
  BY <1>1, MatchType
<1>4. \/ ~unambiguous /\ Exit(Schedule(waiting, t + g))
      \/ unambiguous /\ Exit(Schedule(waiting, t + kbd.config.hold))
      \/ Resolve(waiting, q, match)
  BY Zenon DEF Advance
<1> HIDE DEF match
<1>5. /\ c \in Chording /\ c.queue = q /\ c.match = match /\ c.last = t
      /\ c.state = IF unambiguous THEN "hold" ELSE "pending"
  BY <1>1, <1>3 DEF Chording
<1> HIDE DEF c
<1>6. waiting \in Keyboard /\ waiting.chord = c /\ waiting.config = kbd.config
  BY <1>1, <1>5 DEF Keyboard
<1> HIDE DEF waiting, unambiguous
<1>7. match # NoChord => Near(q, Cardinality(ChordKeys[match]), g)
  BY <1>1, <1>2, <1>3, SizeType, NearLonger DEF Presented
<1>8. Spaced(waiting) /\ Lapse(waiting) = t + g
  BY <1>5, <1>6, <1>7 DEF Spaced, Lapse
<1>9. \A n \in Nat : /\ Schedule(waiting, n) \in Keyboard /\ Schedule(waiting, n).chord = c
                     /\ Schedule(waiting, n).config = kbd.config
                     /\ n \in Schedule(waiting, n).timers
  BY <1>6 DEF Schedule, Keyboard
<1>10. \A n \in Nat : Spaced(Schedule(waiting, n)) /\ Lapse(Schedule(waiting, n)) = t + g
  BY <1>6, <1>8, <1>9, SpacedAlike
<1>11. CASE ~unambiguous /\ Exit(Schedule(waiting, t + g))
  <2> DEFINE j == Schedule(waiting, t + g)
  <2>1. t + g \in Nat /\ t < t + g
    BY <1>1
  <2>2. j \in Keyboard /\ j.chord = c /\ Spaced(j) /\ Lapse(j) = t + g /\ t + g \in j.timers /\ Exit(j)
    BY <1>9, <1>10, <1>11, <2>1
  <2> HIDE DEF j
  <2>3. now \in Nat
    BY DEF Processing, TypeInv, TypeOK
  <2>4. j.chord.last <= now
    BY <1>5, <2>2, <2>3
  <2> QED BY <2>1, <2>2, <2>4, ExitMet
<1>12. CASE unambiguous /\ Exit(Schedule(waiting, t + kbd.config.hold))
  <2> DEFINE j == Schedule(waiting, t + kbd.config.hold)
  <2>1. t + kbd.config.hold \in Nat
    BY <1>1
  <2>2. j \in Keyboard /\ j.chord.state = "hold" /\ Spaced(j) /\ Exit(j)
    BY <1>5, <1>9, <1>10, <1>12, <2>1
  <2> HIDE DEF j
  <2> QED BY <2>2, ExitMet
<1>13. CASE Resolve(waiting, q, match)
  BY <1>3, <1>6, <1>7, <1>8, <1>13, ResolveMet
<1> QED BY <1>4, <1>11, <1>12, <1>13

LEMMA AbortMet ==
  ASSUME NEW k \in Keyboard, Spaced(k), Exit([k EXCEPT !.aborted = TRUE])
  PROVE  Met'
<1> DEFINE j == [k EXCEPT !.aborted = TRUE]
<1>1. j \in Keyboard /\ j.chord = k.chord /\ j.config = k.config /\ j.aborted
  BY DEF Keyboard
<1> HIDE DEF j
<1>2. kbd'.chord = j.chord /\ kbd'.config = j.config /\ kbd'.aborted
  BY <1>1 DEF Exit, Keyboard, j
<1>3. Spaced(kbd')
  BY <1>1, <1>2, SpacedAlike
<1> QED BY <1>2, <1>3 DEF Met

\* While a chord is pending, and its codes are not concerned, the event is one that the
\* event loop hands in.
LEMMA PendingEvent ==
  ASSUME Processing, Met, ~kbd.aborted, NEW H, Accounts(kbd, stack, H),
         kbd.chord.state = "pending", Upcoming.code \notin Slot
  PROVE  /\ Tail(stack) = <<>> /\ Taken.events = <<>> /\ Upcoming.at = now
         /\ kbd.chord.last <= now /\ Lapse(kbd) \in kbd.timers
         /\ Upcoming.code # NoCode => Upcoming.at < Lapse(kbd)
<1>1. Layered(stack, now) /\ InTime(kbd, stack, wake, now)
  BY DEF Met
<1>2. ChordFree(stack)
  BY DEF Accounts, Conforms
<1>3. /\ Tail(stack) = <<>> /\ Taken.events = <<>>
      /\ Upcoming = Head(Top.events) /\ Upcoming.at = now
  BY <1>1, <1>2, PristineEvent
<1>4. stack # <<>> /\ Head(stack).events # <<>> /\ Upcoming = Head(Head(stack).events)
  BY <1>3 DEF Processing, Top
<1> QED BY <1>1, <1>3, <1>4 DEF InTime

\* The key of a chord that is released, with another chord pending or not.
LEMMA ReleaseMet ==
  ASSUME Processing, Met, ~kbd.aborted, NEW H, Accounts(kbd, stack, H), ReleaseChordKey(Upcoming)
  PROVE  Met'
<1> DEFINE e == Upcoming
           s == Least(Releasing(e))
           k == Lift(kbd, s, e.code)
           release == [code |-> s, pressed |-> FALSE, at |-> e.at]
           code == CallFrame("code", <<release>>)
<1>1. e \in Event /\ e.at \in Nat
  BY UpcomingOK DEF Event
<1>2. s \in Slot /\ e.code \in kbd.slots[s].keys
  <2>1. Releasing(e) # {} /\ Releasing(e) \in SUBSET Nat
    BY CodeAssumption DEF ReleaseChordKey, Releasing, Slot
  <2>2. s \in Releasing(e)
    BY <2>1, LeastIsMember
  <2> QED BY <2>2 DEF Releasing
<1>3. e.code \notin Slot /\ e.code # NoCode
  <2>1. e.code \in Code
    BY <1>2, CurrentOK DEF Keyboard, ActiveChord
  <2> QED BY <2>1, CodeAssumption
<1>4. Exit(k) \/ Call(k, <<code>>)
  BY DEF ReleaseChordKey
<1> HIDE DEF s
<1>5. k \in Keyboard /\ k.chord = kbd.chord /\ k.config = kbd.config /\ k.timers = kbd.timers
  <2> DEFINE a == [kbd.slots[s] EXCEPT !.keys = @ \ {e.code}, !.on = kbd.slots[s].keys # {e.code}]
             x == [kbd.slots EXCEPT ![s] = a]
  <2>1. kbd.slots \in [Slot -> ActiveChord]
    BY CurrentOK DEF Keyboard
  <2>2. a \in ActiveChord
    BY <1>2, <2>1 DEF ActiveChord
  <2>3. k = [kbd EXCEPT !.slots = x]
    BY <1>2, <2>1, CurrentOK DEF Lift, Keyboard, ActiveChord
  <2> HIDE DEF a, k
  <2> QED BY <1>2, <2>1, <2>2, <2>3, CurrentOK DEF Keyboard
<1> HIDE DEF k
<1>6. Spaced(k) /\ Lapse(k) = Lapse(kbd) /\ Layered(stack, now)
  BY <1>5, SpacedAlike DEF Met
<1>7. k.chord.state = "pending" =>
        /\ Tail(stack) = <<>> /\ Taken.events = <<>>
        /\ k.chord.last <= now /\ Lapse(k) \in k.timers /\ e.at < Lapse(k)
  BY <1>3, <1>5, <1>6, PendingEvent
<1>8. CASE Exit(k)
  BY <1>5, <1>6, <1>7, <1>8, ExitMet
<1>9. CASE Call(k, <<code>>)
  <2>1. release \in Event /\ release.code \in Slot /\ release.at = e.at
    BY <1>1, <1>2 DEF Event
  <2> HIDE DEF release
  <2>2. <<release>> \in Seq(Event) /\ Len(<<release>>) = 1 /\ <<release>>[1] = release
        /\ Head(<<release>>) = release /\ <<release>> # <<>>
    BY <2>1
  <2>3. code \in Frame /\ Calling(code) /\ code.events = <<release>>
    BY <2>1, <2>2 DEF CallFrame, Frame, Calling
  <2> HIDE DEF code
  <2>4. Layered(stack', now') /\ kbd' = k /\ UNCHANGED now
    BY <1>6, <1>9, <2>3, CallLayered DEF Call
  <2>5. Head(stack') = code /\ stack' # <<>>
    <3>1. stack' = <<code>> \o (<<Taken>> \o Tail(stack)) /\ <<Taken>> \o Tail(stack) \in Seq(Frame)
      BY <1>9, UpcomingOK DEF Call
    <3> DEFINE r == <<Taken>> \o Tail(stack)
    <3> HIDE DEF r
    <3>2. r \in Seq(Frame) => Head(<<code>> \o r) = code /\ <<code>> \o r # <<>>
      BY <2>3
    <3> QED BY <3>1, <3>2 DEF r
  <2>6. InTime(k, stack', wake', now')
    BY <1>7, <2>1, <2>2, <2>3, <2>4, <2>5 DEF InTime
  <2> QED BY <1>6, <2>4, <2>6 DEF Met
<1> QED BY <1>4, <1>8, <1>9

LEMMA BeginMet ==
  ASSUME Processing, Met, ~kbd.aborted, kbd.config.interkey > 0, NEW H, Accounts(kbd, stack, H),
         BeginChord(Upcoming)
  PROVE  Met'
<1> DEFINE e == Upcoming
           q == <<e>>
<1>1. e \in Event /\ kbd.config.interkey \in Nat
  BY UpcomingOK, CurrentOK
<1>2. kbd.chord.state = "inactive" /\ Advance(q, NoChord, e.at) /\ Partial(kbd, q) # {}
  BY DEF BeginChord
<1> HIDE DEF e
<1>3. q \in Seq(Event) /\ q # <<>> /\ Len(q) = 1 /\ q[1] = e /\ DOMAIN q = {1}
  BY <1>1
<1> HIDE DEF q
<1>4. e.pressed /\ e.code \in Code
  <2>1. PICK m \in [layer : Layer, chord : Chord] :
          Presses(q) # {} /\ \A i \in Presses(q) : q[i].code \in ChordKeys[m.chord]
    BY <1>2 DEF Partial
  <2>2. ChordKeys[m.chord] \in SUBSET Code
    BY ChordAssumption
  <2> QED BY <1>3, <2>1, <2>2 DEF Presses
<1>5. ChordFree(stack) /\ e.code \notin Slot
  BY <1>2, <1>4, CodeAssumption DEF Accounts, Conforms
<1>6. Tail(stack) = <<>> /\ Taken.events = <<>> /\ e.at = now /\ Layered(stack, now)
  BY <1>5, PristineEvent DEF Met, e
<1>7. Near(q, Len(q), kbd.config.interkey) /\ \A i \in DOMAIN q : q[i].pressed
  BY <1>3, <1>4 DEF Near
<1>8. NoChord \in Chord \cup {NoChord}
  OBVIOUS
<1> QED BY <1>2, <1>3, <1>6, <1>7, <1>8, AdvanceMet DEF e

LEMMA ExtendMet ==
  ASSUME Processing, Met, Matched(kbd.chord), ~kbd.aborted, kbd.config.interkey > 0,
         NEW H, Accounts(kbd, stack, H), ExtendChord(Upcoming)
  PROVE  Met'
<1> DEFINE e == Upcoming
           p == kbd.chord.queue
           q == Append(p, e)
           old == kbd.chord.match
           g == kbd.config.interkey
<1>1. /\ q \in Seq(Event) /\ kbd \in Keyboard /\ e \in Event /\ e.at \in Nat
      /\ old \in Chord \cup {NoChord} /\ p \in Seq(Event) /\ g \in Nat
      /\ kbd.chord.state = "pending"
  BY QueueOK, UpcomingOK, CurrentOK DEF Event, ExtendChord
<1>2. \/ Exit([kbd EXCEPT !.aborted = TRUE])
      \/ e.pressed /\ Partial(kbd, q) # {} /\ Advance(q, old, e.at)
      \/ Resolve(kbd, q, NoChord)
  BY DEF ExtendChord, Abort
<1>3. old # NoChord => Presented(q, old)
  BY <1>1, PresentedLonger DEF Matched
<1>4. e.pressed => \A i \in DOMAIN q : q[i].pressed
  <2>1. \A i \in DOMAIN p : p[i].pressed
    BY <1>1 DEF Matched
  <2> QED BY <1>1, <2>1
<1>5. q # <<>> /\ Len(q) \in DOMAIN q /\ q[Len(q)] = e
  <2> HIDE DEF p, e
  <2>1. Len(q) = Len(p) + 1 /\ Len(p) \in Nat /\ q[Len(p) + 1] = e /\ DOMAIN q = 1 .. Len(p) + 1
    BY <1>1
  <2> HIDE DEF q
  <2> QED BY <1>1, <2>1
<1>6. Spaced(kbd) /\ Layered(stack, now)
  BY DEF Met
<1>7. p # <<>> /\ p[Len(p)].at = kbd.chord.last /\ Near(p, Len(p), g)
  BY <1>1, <1>6 DEF Spaced
<1> HIDE DEF q
<1>8. CASE Exit([kbd EXCEPT !.aborted = TRUE])
  BY <1>1, <1>6, <1>8, AbortMet
<1>9. CASE e.pressed /\ Partial(kbd, q) # {} /\ Advance(q, old, e.at)
  <2>1. e.code \in Code
    <3>1. PICK m \in [layer : Layer, chord : Chord] :
            \A i \in Presses(q) : q[i].code \in ChordKeys[m.chord]
      BY <1>9 DEF Partial
    <3>2. ChordKeys[m.chord] \in SUBSET Code
      BY ChordAssumption
    <3>3. Len(q) \in Presses(q)
      BY <1>5, <1>9 DEF Presses
    <3> QED BY <1>5, <3>1, <3>2, <3>3
  <2>2. e.code \notin Slot /\ e.code # NoCode
    BY <2>1, CodeAssumption
  <2>3. Tail(stack) = <<>> /\ Taken.events = <<>> /\ e.at = now /\ kbd.chord.last <= now /\ e.at < Lapse(kbd)
    BY <1>1, <2>2, PendingEvent
  <2>4. Near(q, Len(q), g)
    <3>1. kbd.chord.last \in Nat
      BY CurrentOK DEF Chording
    <3>2. p[Len(p)].at <= e.at /\ e.at <= p[Len(p)].at + g
      BY <1>1, <1>7, <2>3, <3>1 DEF Lapse
    <3> QED BY <1>1, <1>7, <3>2, NearAppend DEF q
  <2>5. Advance(q, old, e.at) /\ \A i \in DOMAIN q : q[i].pressed
    BY <1>4, <1>9
  <2> QED BY <1>1, <1>3, <1>5, <1>6, <2>3, <2>4, <2>5, AdvanceMet
<1>10. CASE Resolve(kbd, q, NoChord)
  BY <1>1, <1>6, <1>10, ResolveMet
<1> QED BY <1>2, <1>8, <1>9, <1>10

LEMMA LapseMet ==
  ASSUME Processing, Met, Matched(kbd.chord), ~kbd.aborted, LapseChord(Upcoming)
  PROVE  Met'
<1> DEFINE k == [kbd EXCEPT !.chord.state = "hold"]
           t == Upcoming.at + (kbd.config.hold - kbd.config.interkey)
           q == kbd.chord.queue
           g == kbd.config.interkey
<1>1. /\ kbd \in Keyboard /\ kbd.chord \in Chording /\ Upcoming.at \in Nat /\ q \in Seq(Event)
      /\ kbd.chord.match \in Chord \cup {NoChord} /\ g \in Nat /\ kbd.chord.state = "pending"
  BY CurrentOK, UpcomingOK DEF Event, LapseChord
<1>2. \/ /\ kbd.chord.match # NoChord /\ kbd.config.hold > g
         /\ Exit(Schedule(k, t))
      \/ \E m \in {NoChord, kbd.chord.match} : Resolve(kbd, q, m)
  BY DEF LapseChord, Abort
<1>3. Spaced(kbd) /\ Layered(stack, now)
  BY DEF Met
<1>4. Near(q, Len(q), g) /\ (kbd.chord.match # NoChord => Presented(q, kbd.chord.match))
  BY <1>1, <1>3 DEF Spaced, Matched
<1>5. kbd.chord.match # NoChord => Near(q, Cardinality(ChordKeys[kbd.chord.match]), g)
  BY <1>1, <1>4, SizeType, NearLonger DEF Presented
<1>6. CASE kbd.chord.match # NoChord /\ kbd.config.hold > g /\ Exit(Schedule(k, t))
  <2>1. t \in Nat
    BY <1>1, <1>6, CurrentOK
  <2>2. /\ k.chord.state = "hold" /\ k.chord.queue = q /\ k.chord.match = kbd.chord.match
        /\ k.config = kbd.config
    BY <1>1 DEF Keyboard, Chording
  <2>3. k \in Keyboard
    BY ChordStateOK DEF Result, KeyboardOK
  <2> HIDE DEF k, t
  <2> DEFINE j == Schedule(k, t)
  <2>4. j \in Keyboard /\ j.chord = k.chord /\ j.config = k.config
    BY <2>1, <2>3 DEF Schedule, Keyboard
  <2>5. Exit(j)
    BY <1>6
  <2> HIDE DEF j
  <2>6. Spaced(j)
    BY <1>5, <2>2, <2>4 DEF Spaced
  <2> QED BY <1>3, <2>2, <2>4, <2>5, <2>6, ExitMet
<1>7. ASSUME NEW m \in {NoChord, kbd.chord.match}, Resolve(kbd, q, m)
      PROVE  Met'
  BY <1>1, <1>3, <1>5, <1>7, ResolveMet
<1> QED BY <1>2, <1>6, <1>7

LEMMA HoldMet ==
  ASSUME Processing, Met, Matched(kbd.chord), ~kbd.aborted, HoldChord(Upcoming)
  PROVE  Met'
<1> DEFINE p == kbd.chord.queue
           q == Append(p, Upcoming)
           c == [kbd.chord EXCEPT !.queue = q]
           j == [kbd EXCEPT !.chord = c]
           g == kbd.config.interkey
           m == kbd.chord.match
<1>1. q \in Seq(Event) /\ kbd \in Keyboard /\ Upcoming \in Event /\ kbd.chord \in Chording
      /\ p \in Seq(Event) /\ m \in Chord \cup {NoChord} /\ g \in Nat /\ kbd.chord.state = "hold"
  BY QueueOK, UpcomingOK, CurrentOK DEF HoldChord
<1>2. [kbd EXCEPT !.chord.queue = q] = j
  BY <1>1 DEF Keyboard
<1>3. \/ Exit([kbd EXCEPT !.aborted = TRUE])
      \/ Resolve(kbd, q, NoChord)
      \/ Exit(j)
  BY <1>2, Zenon DEF HoldChord, Abort
<1>4. Spaced(kbd) /\ Layered(stack, now)
  BY DEF Met
<1>5. m # NoChord => Near(q, Cardinality(ChordKeys[m]), g)
  <2>1. ASSUME m # NoChord
        PROVE  Near(q, Cardinality(ChordKeys[m]), g)
    <3>1. Cardinality(ChordKeys[m]) \in Nat /\ Cardinality(ChordKeys[m]) <= Len(p)
      BY <1>1, <2>1, SizeType DEF Matched, Presented
    <3>2. Near(p, Cardinality(ChordKeys[m]), g)
      BY <1>1, <1>4, <2>1 DEF Spaced
    <3> QED BY <1>1, <3>1, <3>2, NearLonger
  <2> QED BY <2>1
<1> HIDE DEF q
<1>6. c \in Chording /\ c.state = "hold" /\ c.queue = q /\ c.match = m
  BY <1>1 DEF Chording
<1> HIDE DEF c
<1>7. j \in Keyboard /\ j.chord = c /\ j.config = kbd.config
  BY <1>1, <1>6 DEF Keyboard
<1> HIDE DEF j
<1>8. CASE Exit(j)
  <2>1. Spaced(j)
    BY <1>5, <1>6, <1>7 DEF Spaced
  <2> QED BY <1>4, <1>6, <1>7, <1>8, <2>1, ExitMet
<1>9. CASE Exit([kbd EXCEPT !.aborted = TRUE])
  BY <1>1, <1>4, <1>9, AbortMet
<1>10. CASE Resolve(kbd, q, NoChord)
  BY <1>1, <1>4, <1>10, ResolveMet
<1> QED BY <1>3, <1>8, <1>9, <1>10

LEMMA FireMet ==
  ASSUME Processing, Met, ~kbd.aborted, FireChord(Upcoming)
  PROVE  Met'
<1>1. kbd.chord.state = "hold" /\ Resolve(kbd, kbd.chord.queue, kbd.chord.match)
  BY DEF FireChord
<1>2. Spaced(kbd) /\ Layered(stack, now)
  BY DEF Met
<1>3. kbd.chord.match # NoChord =>
        Near(kbd.chord.queue, Cardinality(ChordKeys[kbd.chord.match]), kbd.config.interkey)
  BY <1>1, <1>2 DEF Spaced
<1> QED BY <1>1, <1>2, <1>3, CurrentOK, ResolveMet

\* What passes the chords leaves a pending one, and its deadline, as they are.
LEMMA DeliverMet ==
  ASSUME Processing, Met, Paid(kbd), ~kbd.aborted, NEW H, Accounts(kbd, stack, H),
         ~Chordless(kbd.config), Deliver(Upcoming)
  PROVE  Met'
<1> DEFINE e == Upcoming
           k == DecideTimeout(kbd, e)
           j == Strike(k, e)
<1>1. e \in Event /\ (e.code \in Slot => kbd.slots[e.code].chord \in Chord)
  BY UpcomingOK
<1>2. KeyboardOK(kbd) /\ kbd \in Keyboard
  BY CurrentOK DEF Result
<1>3. /\ KeyboardOK(k) /\ Kept(k, kbd) /\ Alike(kbd, k) /\ kbd.timers \subseteq k.timers
  BY <1>1, <1>2, DecideTimeoutOK, DecideTimeoutAlike, DecideTimers
<1>4. \/ QueueFull(k, e)
      \/ Waits(k, e)
      \/ Exit(j)
  BY DEF Deliver
<1>5. PassesChord(e)
  BY DEF Deliver
<1> HIDE DEF k
<1>6. ~QueueFull(k, e) /\ ~Waits(k, e)
  <2>1. kbd.overload.code = NoCode
    BY DEF Accounts, Tidy
  <2>2. k.overload.code = NoCode
    BY <1>3, <2>1 DEF Alike
  <2> QED BY <2>2 DEF QueueFull, Waits
<1>7. Result(k)
  BY <1>3, KeptResult
<1>8. KeyboardOK(j) /\ Kept(j, k)
  <2>1. e.code \in Slot => k.slots[e.code].chord \in Chord
    BY <1>1, <1>7 DEF Result
  <2> QED BY <1>1, <1>3, <2>1, StrikeOK
<1>9. e.code = NoCode => j = k
  BY DEF Strike
<1> HIDE DEF j
<1>10. j \in Keyboard /\ j.chord = kbd.chord /\ j.config = kbd.config
  BY <1>3, <1>8 DEF KeyboardOK, Kept
<1>11. Spaced(j) /\ Lapse(j) = Lapse(kbd) /\ Layered(stack, now)
  BY <1>10, SpacedAlike DEF Met
<1>12. ASSUME kbd.chord.state = "pending"
       PROVE  /\ Tail(stack) = <<>> /\ Taken.events = <<>>
              /\ kbd.chord.last <= now /\ Lapse(kbd) \in j.timers /\ e.at < Lapse(kbd)
  <2>1. e.code = NoCode /\ ~ChordLapsed(e)
    BY <1>5, <1>12 DEF PassesChord
  <2>2. e.code \notin Slot
    BY <2>1, CodeAssumption
  <2>3. /\ Tail(stack) = <<>> /\ Taken.events = <<>>
        /\ kbd.chord.last <= now /\ Lapse(kbd) \in kbd.timers
    BY <1>12, <2>2, PendingEvent
  <2>4. e.at < Lapse(kbd)
    <3>1. e.at \in Nat /\ Lapse(kbd) \in Nat
      BY <1>1, CurrentOK DEF Event, Lapse, Chording
    <3> QED BY <2>1, <3>1 DEF ChordLapsed, Lapse
  <2> QED BY <1>3, <1>9, <2>1, <2>3, <2>4
<1> QED BY <1>4, <1>6, <1>10, <1>11, <1>12, ExitMet

\* A frame that returns: where a chord is pending, it is that of the event loop, which
\* learns of the deadline.
LEMMA ReturnMet ==
  ASSUME TypeInv, Met, ~kbd.aborted, NEW H, Accounts(kbd, stack, H), Return
  PROVE  Met'
<1> DEFINE k == Returned
           r == Tail(stack)
           caller == stack[2]
           j == [k EXCEPT !.timers = Later(k, caller.at)]
           f == [caller EXCEPT !.timer = Deadline(k, caller.at)]
<1>1. stack \in Seq(Frame) /\ stack # <<>> /\ Top.events = <<>> /\ r \in Seq(Frame) /\ kbd \in Keyboard
  BY DEF TypeInv, TypeOK, Return
<1>2. Layered(stack, now) /\ InTime(kbd, stack, wake, now) /\ Spaced(kbd)
  BY DEF Met
<1>3. Under(stack) /\ Head(stack) = Top
  <2>1. Len(Top.events) # 1
    BY <1>1, EmptySeq
  <2> QED BY <1>1, <1>2, <2>1 DEF Layered, Pristine, Calling, Top
<1>4. /\ Len(stack) = 1 => r = <<>>
      /\ r = <<>> => Len(stack) = 1
      /\ r # <<>> => Under(r)
  <2>1. /\ r = <<>> => Len(stack) = 1
        /\ r # <<>> => Under(r) /\ Len(stack) # 1
    BY <1>1, <1>3, UnderTop
  <2> HIDE DEF r
  <2> QED BY <2>1
<1>5. k \in Keyboard /\ k.config = kbd.config /\ k.chord \in {kbd.chord, Inactive}
      /\ k.timers = kbd.timers
  <2>1. Inactive \in Chording
    BY DEF Inactive, Chording
  <2> QED BY <1>1, <2>1 DEF Returned, Keyboard
<1>6. k.chord.state = "pending" =>
        /\ k.chord = kbd.chord /\ Len(stack) = 1 /\ k.chord.last <= now /\ Lapse(k) \in k.timers
        /\ Top.timer # 0 /\ Top.timer <= Lapse(k)
  <2>1. Inactive.state = "inactive"
    BY DEF Inactive
  <2>2. Lapse(k) = Lapse(kbd) <=> k.chord.last + k.config.interkey = kbd.chord.last + kbd.config.interkey
    BY DEF Lapse
  <2> HIDE DEF k
  <2> QED BY <1>1, <1>2, <1>3, <1>5, <2>1, <2>2 DEF InTime
<1>7. Spaced(k)
  <2>1. Inactive.state = "inactive"
    BY DEF Inactive
  <2> HIDE DEF k
  <2> QED BY <1>2, <1>5, <2>1 DEF Spaced
<1>8. now' = now
  BY DEF Return
<1>9. CASE Len(stack) = 1 /\ kbd' = k /\ stack' = <<>> /\ wake' = Top.timer
  <2> HIDE DEF k
  <2>1. Layered(stack', now')
    BY <1>9 DEF Layered
  <2>2. InTime(k, stack', wake', now')
    BY <1>6, <1>8, <1>9 DEF InTime
  <2> QED BY <1>7, <1>9, <2>1, <2>2 DEF Met
<1>10. CASE Len(stack) # 1 /\ kbd' = k /\ stack' = r
  <2> HIDE DEF k, r
  <2>1. Layered(stack', now')
    BY <1>4, <1>10 DEF Layered
  <2>2. InTime(k, stack', wake', now')
    BY <1>6, <1>10 DEF InTime
  <2> QED BY <1>7, <1>10, <2>1, <2>2 DEF Met
<1>11. CASE Len(stack) # 1 /\ kbd' = j /\ stack' = <<f>> \o Tail(r)
  <2>1. r # <<>> /\ Under(r)
    BY <1>4, <1>11
  <2>2. /\ DOMAIN r = 1 .. Len(stack) - 1 /\ Len(stack) \in Nat \ {0}
        /\ \A i \in 1 .. Len(stack) - 1 : r[i] = stack[i + 1]
    BY <1>1, ListFacts, Zenon
  <2>3. Head(r) = r[1] /\ Head(r) \in Frame /\ Tail(r) \in Seq(Frame)
    BY <1>1, <2>1, ListFacts, Zenon
  <2>4. Head(r) = caller /\ caller \in Frame
    BY <1>11, <2>2, <2>3
  <2>5. caller.at \in Nat /\ k.timers \in SUBSET Nat
    BY <1>5, <2>4 DEF Frame, Keyboard
  <2>6. Later(k, caller.at) \in SUBSET Nat /\ Deadline(k, caller.at) \in Nat
    BY <2>5, DeadlineType
  <2>7. f \in Frame /\ f.events = caller.events /\ f.kind = caller.kind
    BY <2>4, <2>6 DEF Frame
  <2>8. j.chord = k.chord /\ j.config = k.config
    BY <1>5 DEF Keyboard
  <2> HIDE DEF f, j, k, caller, r
  <2>9. Under(<<f>> \o Tail(r))
    <3>1. CASE Tail(r) = <<>>
      <4>1. Taking(f)
        BY <1>1, <2>1, <2>4, <2>7, <3>1, UnderTop DEF Taking
      <4> QED BY <2>7, <3>1, <4>1, UnderOne
    <3>2. CASE Tail(r) # <<>>
      <4>1. Upper(f) /\ Under(Tail(r))
        BY <1>1, <2>1, <2>4, <2>7, <3>2, UnderTop DEF Upper
      <4> QED BY <2>3, <2>7, <4>1, UnderPush
    <3> QED BY <3>1, <3>2
  <2>10. Layered(stack', now')
    BY <1>11, <2>9 DEF Layered
  <2>11. Spaced(j) /\ InTime(j, stack', wake', now')
    BY <1>6, <1>7, <1>11, <2>8, SpacedAlike DEF InTime
  <2> QED BY <1>11, <2>10, <2>11 DEF Met
<1> QED BY <1>9, <1>10, <1>11 DEF Return, Returned

\* An event that comes in comes before a pending chord lapses, or is the timeout.
LEMMA DispatchMet ==
  ASSUME TypeInv, Met, stack = <<>>, ~kbd.aborted, NEW e \in Event, Dispatch(e), kbd' = kbd,
         now <= e.at, e.code # NoCode /\ wake # 0 => e.at < wake
  PROVE  Met'
<1> DEFINE f == CallFrame("loop", <<e>>)
<1>1. f.events = <<e>> /\ f.kind = "loop" /\ f.timer = 0 /\ stack' = <<f>> /\ now' = e.at
  BY DEF CallFrame, Dispatch
<1> HIDE DEF f
<1>2. Head(<<f>>) = f /\ Len(<<f>>) = 1 /\ <<f>> # <<>>
  OBVIOUS
<1>3. Head(<<e>>) = e /\ Len(<<e>>) = 1 /\ <<e>> # <<>> /\ <<e>>[1] = e
  OBVIOUS
<1>4. Layered(stack', now')
  BY <1>1, <1>2, <1>3 DEF Layered, Pristine
<1>5. Spaced(kbd) /\ InTime(kbd, <<>>, wake, now)
  BY DEF Met
<1>6. /\ kbd.chord.last \in Nat /\ now \in Nat /\ wake \in Nat /\ e.at \in Nat
      /\ kbd.config.interkey \in Nat
  BY ConfigAssumption DEF TypeInv, TypeOK, Keyboard, Chording, Config, Event
<1>7. InTime(kbd, stack', wake', now')
  <2>1. SUFFICES ASSUME kbd.chord.state = "pending"
                 PROVE  /\ kbd.chord.last <= now' /\ Lapse(kbd) \in kbd.timers
                        /\ Head(stack').events # <<>>
                        /\ Head(Head(stack').events).code # NoCode =>
                             Head(Head(stack').events).at < Lapse(kbd)
    BY <1>1, <1>2 DEF InTime
  <2>2. kbd.chord.last <= now /\ Lapse(kbd) \in kbd.timers /\ wake # 0 /\ wake <= Lapse(kbd)
    BY <1>5, <2>1 DEF InTime
  <2>3. e.code # NoCode => e.at < Lapse(kbd)
    BY <1>6, <2>2 DEF Lapse
  <2>4. kbd.chord.last <= now'
    BY <1>1, <1>6, <2>2
  <2>5. Head(stack').events = <<e>> /\ Head(Head(stack').events) = e
    BY <1>1, <1>2, <1>3
  <2> QED BY <1>3, <2>2, <2>3, <2>4, <2>5
<1> QED BY <1>4, <1>5, <1>7 DEF Met

\* Where there are no chords, none is pending.
LEMMA ChordlessStep ==
  ASSUME Processing, Chordless(kbd.config), Spaced(kbd), NEW H, Accounts(kbd, stack, H),
         ChordStep \/ Deliver(Upcoming)
  PROVE  Spaced(kbd') /\ kbd'.config = kbd.config
<1>1. kbd.chord.state = "inactive" /\ \A s \in Slot : ~kbd.slots[s].on
  BY DEF Accounts, Tidy
<1>2. Releasing(Upcoming) = {} /\ Partial(kbd, <<Upcoming>>) = {}
  BY <1>1 DEF Releasing, Partial, Chordless
<1>3. ~ChordStep
  BY <1>1, <1>2 DEF ChordStep, ReleaseChordKey, BeginChord, ExtendChord, LapseChord, HoldChord,
     FireChord
<1>4. PICK j : Outcome(j) /\ j.chord = kbd.chord /\ j.config = kbd.config
  BY <1>3, DeliverOutcome
<1>5. kbd'.chord = j.chord /\ kbd'.config = j.config
  <2>1. CASE Exit(j)
    BY <1>4, <2>1 DEF Exit, Outcome, Result, KeyboardOK, Keyboard
  <2>2. ASSUME NEW frames, Call(j, frames)
        PROVE  kbd' = j
    BY <2>2 DEF Call
  <2> QED BY <1>4, <2>1, <2>2 DEF Outcome
<1> QED BY <1>4, <1>5, SpacedAlike

\* No configuration has a chording interval of 0.
Intervals == \A config \in Configs : config.interkey > 0

LEMMA PunctualIsMet ==
  /\ Punctual /\ ~kbd.aborted /\ ~Chordless(kbd.config) => Met
  /\ Met => Punctual
BY DEF Punctual, Met

LEMMA ProcessingPunctual ==
  ASSUME Intervals, Processing, Paid(kbd), Matched(kbd.chord), Accounted, Punctual,
         ChordStep \/ Deliver(Upcoming)
  PROVE  Punctual'
<1>1. /\ ReleaseChordKey(Upcoming) \/ BeginChord(Upcoming) \/ ExtendChord(Upcoming)
           \/ LapseChord(Upcoming) \/ HoldChord(Upcoming) \/ FireChord(Upcoming)
           \/ Deliver(Upcoming)
      /\ ~kbd.aborted
  BY DEF ChordStep, ReleaseChordKey, BeginChord, ExtendChord, LapseChord, HoldChord, FireChord,
         Deliver, Running
<1>2. Accounts(kbd, stack, HeldCodes) /\ Spaced(kbd)
  BY <1>1 DEF Accounted, Punctual
<1>3. kbd.config.interkey > 0
  BY CurrentOK DEF Intervals, Keyboard
<1>4. CASE Chordless(kbd.config)
  <2>1. Spaced(kbd') /\ kbd'.config = kbd.config
    BY <1>2, <1>4, ChordlessStep
  <2> QED BY <1>4, <2>1 DEF Punctual
<1>5. CASE ~Chordless(kbd.config)
  <2>1. Met
    BY <1>1, <1>5, PunctualIsMet
  <2>2. Met'
    BY <1>1, <1>2, <1>3, <1>5, <2>1, ReleaseMet, BeginMet, ExtendMet, LapseMet, HoldMet, FireMet,
       DeliverMet
  <2> QED BY <2>2 DEF Punctual, Met
<1> QED BY <1>4, <1>5

LEMMA KeyEventPunctual ==
  ASSUME Slip = 0, TypeInv, Punctual, NEW c \in Code, NEW pressed \in BOOLEAN,
         NEW t \in 1 .. MaxTime, KeyEvent(c, pressed, t)
  PROVE  Punctual'
<1> DEFINE e == [code |-> c, pressed |-> pressed, at |-> t]
<1>1. /\ kbd' = kbd /\ t \in Nat /\ Dispatch(e) /\ stack = <<>> /\ ~kbd.aborted /\ now <= t
      /\ wake # 0 => t < wake + Slip
  BY BoundAssumption DEF KeyEvent, Idle, TypeInv, TypeOK
<1>2. e \in Event /\ e.at = t
  BY <1>1 DEF Event
<1> HIDE DEF e
<1>3. wake # 0 => t < wake
  BY <1>1 DEF TypeInv, TypeOK
<1>4. CASE Chordless(kbd.config)
  BY <1>1, <1>4 DEF Punctual
<1>5. CASE ~Chordless(kbd.config)
  <2>1. Met'
    BY <1>1, <1>2, <1>3, <1>5, PunctualIsMet, DispatchMet
  <2> QED BY <2>1 DEF Punctual, Met
<1> QED BY <1>4, <1>5

LEMMA ExpirePunctual ==
  ASSUME TypeInv, Punctual, Expire
  PROVE  Punctual'
<1>1. now \in Nat /\ wake \in Nat /\ Late \in Nat
  BY BoundAssumption DEF TypeInv, TypeOK
<1>2. PICK t : t \in Nat /\ now <= t /\ Timeout(t)
  <2> DEFINE a == IF now > wake THEN now ELSE wake
  <2>1. a \in Nat /\ now <= a
    BY <1>1
  <2>2. PICK t \in a .. a + Late : Timeout(t)
    BY DEF Expire
  <2> HIDE DEF a
  <2> QED BY <1>1, <2>1, <2>2
<1> DEFINE e == [code |-> NoCode, pressed |-> FALSE, at |-> t]
<1>3. kbd' = kbd /\ Dispatch(e) /\ stack = <<>> /\ ~kbd.aborted
  BY <1>2 DEF Timeout, Idle
<1>4. e \in Event /\ e.at = t /\ e.code = NoCode
  BY <1>2 DEF Event
<1> HIDE DEF e
<1>5. CASE Chordless(kbd.config)
  BY <1>3, <1>5 DEF Punctual
<1>6. CASE ~Chordless(kbd.config)
  <2>1. Met'
    BY <1>2, <1>3, <1>4, <1>6, PunctualIsMet, DispatchMet
  <2> QED BY <2>1 DEF Punctual, Met
<1> QED BY <1>5, <1>6

LEMMA ReturnPunctual ==
  ASSUME TypeInv, Accounted, Punctual, Return
  PROVE  Punctual'
<1>1. ~kbd.aborted /\ kbd \in Keyboard
  BY DEF Return, TypeInv, TypeOK
<1>2. Accounts(kbd, stack, HeldCodes)
  BY <1>1 DEF Accounted
<1>3. CASE Chordless(kbd.config)
  <2>1. kbd'.chord \in {kbd.chord, Inactive} /\ kbd'.config = kbd.config
    BY <1>1 DEF Return, Keyboard
  <2>2. Spaced(kbd')
    <3>1. Inactive.state = "inactive"
      BY DEF Inactive
    <3> QED BY <2>1, <3>1 DEF Punctual, Spaced
  <2> QED BY <1>3, <2>1, <2>2 DEF Punctual
<1>4. CASE ~Chordless(kbd.config)
  <2>1. Met'
    BY <1>1, <1>2, <1>4, PunctualIsMet, ReturnMet
  <2> QED BY <2>1 DEF Punctual, Met
<1> QED BY <1>3, <1>4

LEMMA PunctualInit ==
  ASSUME Init
  PROVE  Punctual
<1>1. kbd.chord = Inactive /\ stack = <<>> /\ Inactive.state = "inactive"
  BY DEF Init, Inactive
<1> QED BY <1>1 DEF Punctual, Spaced, Layered, InTime

LEMMA PunctualStep ==
  ASSUME Intervals, Slip = 0, TypeInv, Paid(kbd), Matched(kbd.chord), Accounted, Punctual, [Next]_vars
  PROVE  Punctual'
<1>1. CASE \E c \in Code, pressed \in BOOLEAN, t \in 1 .. MaxTime : KeyEvent(c, pressed, t)
  BY <1>1, KeyEventPunctual
<1>2. CASE Expire
  BY <1>2, ExpirePunctual
<1>3. CASE ChordStep
  <2>1. Processing
    BY <1>3 DEF ChordStep, Processing
  <2> QED BY <1>3, <2>1, ProcessingPunctual
<1>4. CASE stack # <<>> /\ Top.events # <<>> /\ Deliver(Upcoming)
  BY <1>4, ProcessingPunctual DEF Processing
<1>5. CASE Return
  BY <1>5, ReturnPunctual
<1>6. CASE UNCHANGED vars
  BY <1>6 DEF vars, Punctual
<1> QED BY <1>1, <1>2, <1>3, <1>4, <1>5, <1>6 DEF Next, Step

\* A chord is activated only by keys that were struck within the chording interval, one
\* after the other (keyd.scdoc:574), however chords overlap and other keys are released in
\* between: a key that comes too late finds the pending chord resolved.  This is so on the
\* keyboards of PipelineConserved, where poll's timer does not run behind the events' time
\* and the interval is not zero, with which a pending chord would never lapse.
THEOREM PipelineWithinInterval ==
  ASSUME PlainActions, Exclusive, Devices = 1, Slip = 0, Intervals
  PROVE  Spec => []WithinInterval
<1> DEFINE I == TypeInv /\ Paid(kbd) /\ Matched(kbd.chord) /\ Accounted /\ Punctual
<1>1. I /\ TypeInv' /\ [Next]_vars => I'
  BY PaidStep, MatchedStep, AccountedStep, PunctualStep DEF KeptOn
<1>2. Init => I
  <2>1. Init => Matched(kbd.chord)
    BY DEF Init, Matched, Inactive
  <2> QED BY <2>1, TypeInit, PaidInit, AccountedInit, PunctualInit
<1>3. I => WithinInterval
  BY DEF Punctual, Spaced, Near, WithinInterval
<1> HIDE DEF I
<1> QED BY <1>1, <1>2, <1>3, TypeInvariant, PTL DEF Spec

-----------------------------------------------------------------------------
(* ChordsActivated: where chords fire as soon as they are struck, the code   *)
(* of a chord is on its way at most once, and nothing comes before it.       *)

SlotFree(q) == \A i \in DOMAIN q : q[i].code \notin Slot

\* Slots of chords in effect, and no others, are in the cache, except for those in S.
Agree(k, S) == \A s \in Slot \ S : Cached(k, s) <=> k.slots[s].on

\* The last event of q is what the slot of a chord has still to do.
Flight(q, k) ==
  /\ q # <<>> /\ q[Len(q)].code \in Slot
  /\ \A i \in 1 .. Len(q) - 1 : q[i].pressed /\ q[i].code \notin Slot
  /\ Agree(k, {q[Len(q)].code})
  /\ Cached(k, q[Len(q)].code) <=> ~q[Len(q)].pressed
  /\ k.slots[q[Len(q)].code].on <=> q[Len(q)].pressed

\* Nothing withheld is of a slot, ...
QueuesFree(k) ==
  /\ k.chord.state # "hold"
  /\ k.chord.state = "pending" => SlotFree(k.chord.queue)
  /\ SlotFree(k.overload.queue)

\* ... nor is anything that these frames deliver.
FramesFree(s) == \A n \in DOMAIN s : SlotFree(s[n].events)

\* What frame f, above frames s, delivers first.
Leading(k, f) ==
  \/ SlotFree(f.events) /\ Agree(k, {})
  \/ /\ Flight(f.events, k) /\ ~Chordless(k.config)
     /\ k.chord.state = "resolving" \/ (Calling(f) /\ ~f.events[1].pressed)

Activating(k, s) ==
  /\ QueuesFree(k)
  /\ s = <<>> => Agree(k, {})
  /\ s # <<>> => Leading(k, Head(s)) /\ FramesFree(Tail(s))

Acting == ~kbd.aborted => Activating(kbd, stack)

LEMMA HeadAndTail ==
  ASSUME NEW f \in Frame, NEW r \in Seq(Frame)
  PROVE  <<f>> \o r # <<>> /\ Head(<<f>> \o r) = f /\ Tail(<<f>> \o r) = r
<1> DEFINE s == <<f>> \o r
<1>1. /\ s # <<>> /\ s \in Seq(Frame) /\ Len(s) = Len(r) + 1 /\ Head(s) = f
      /\ \A i \in 1 .. Len(r) : s[i + 1] = r[i]
  OBVIOUS
<1> HIDE DEF s
<1>2. /\ Tail(s) \in Seq(Frame) /\ DOMAIN Tail(s) = 1 .. Len(s) - 1
      /\ \A i \in 1 .. Len(s) - 1 : Tail(s)[i] = s[i + 1]
  BY <1>1, ListFacts, Zenon
<1> DEFINE t == Tail(s)
<1>3. t \in Seq(Frame) /\ Len(r) \in Nat /\ DOMAIN t = 1 .. Len(r) /\ \A i \in 1 .. Len(r) : t[i] = r[i]
  BY <1>1, <1>2
<1> HIDE DEF t
<1>4. t = r
  BY <1>3
<1> QED BY <1>1, <1>4 DEF s, t

LEMMA FramesFreePush ==
  ASSUME NEW f \in Frame, NEW r \in Seq(Frame), SlotFree(f.events), FramesFree(r)
  PROVE  FramesFree(<<f>> \o r)
<1> DEFINE s == <<f>> \o r
<1>1. /\ DOMAIN s = 1 .. Len(r) + 1 /\ s[1] = f /\ \A n \in 1 .. Len(r) : s[n + 1] = r[n]
      /\ Len(r) \in Nat /\ DOMAIN r = 1 .. Len(r)
  OBVIOUS
<1> HIDE DEF s
<1>2. ASSUME NEW n \in DOMAIN s
      PROVE  SlotFree(s[n].events)
  <2>1. CASE n = 1
    BY <1>1, <2>1
  <2>2. CASE n # 1
    <3>1. n - 1 \in DOMAIN r /\ s[n] = r[n - 1]
      BY <1>1, <2>2
    <3> QED BY <3>1 DEF FramesFree
  <2> QED BY <2>1, <2>2
<1> QED BY <1>2 DEF FramesFree, s

LEMMA FramesFreeTop ==
  ASSUME NEW s \in Seq(Frame), s # <<>>, FramesFree(s)
  PROVE  SlotFree(Head(s).events) /\ FramesFree(Tail(s))
<1>1. /\ Head(s) = s[1] /\ DOMAIN s = 1 .. Len(s) /\ DOMAIN Tail(s) = 1 .. Len(s) - 1
      /\ Len(s) \in Nat \ {0} /\ \A i \in 1 .. Len(s) - 1 : Tail(s)[i] = s[i + 1]
  BY ListFacts, Zenon
<1> QED BY <1>1 DEF FramesFree

LEMMA ActivatingPush ==
  ASSUME NEW k, NEW f \in Frame, NEW r \in Seq(Frame), QueuesFree(k), Leading(k, f), FramesFree(r)
  PROVE  Activating(k, <<f>> \o r)
BY HeadAndTail, Zenon DEF Activating

\* Whatever a handler does to keyboard k, its chords are those of j.
LEMMA AgreeAlike ==
  ASSUME NEW k, NEW j, j.slots = k.slots, \A s \in Slot : Cached(j, s) <=> Cached(k, s)
  PROVE  /\ \A S : Agree(k, S) => Agree(j, S)
         /\ \A q : Flight(q, k) => Flight(q, j)
BY DEF Agree, Flight

LEMMA SlotFreeParts ==
  ASSUME NEW q \in Seq(Event), SlotFree(q)
  PROVE  /\ q # <<>> => Head(q).code \notin Slot /\ SlotFree(Tail(q))
         /\ \A e \in Event : e.code \notin Slot => SlotFree(Append(q, e))
         /\ \A m \in Chord \cup {NoChord} : SlotFree(Rest(q, m))
<1>1. q # <<>> => Head(q).code \notin Slot /\ SlotFree(Tail(q))
  <2> SUFFICES ASSUME q # <<>> PROVE Head(q).code \notin Slot /\ SlotFree(Tail(q))
    OBVIOUS
  <2>1. /\ Head(q) = q[1] /\ DOMAIN q = 1 .. Len(q) /\ DOMAIN Tail(q) = 1 .. Len(q) - 1
        /\ Len(q) \in Nat \ {0} /\ \A i \in 1 .. Len(q) - 1 : Tail(q)[i] = q[i + 1]
    BY ListFacts, Zenon
  <2> QED BY <2>1 DEF SlotFree
<1>2. ASSUME NEW e \in Event, e.code \notin Slot
      PROVE  SlotFree(Append(q, e))
  BY <1>2 DEF SlotFree
<1>3. ASSUME NEW m \in Chord \cup {NoChord}
      PROVE  SlotFree(Rest(q, m))
  <2>1. CASE m = NoChord
    BY <2>1 DEF Rest
  <2>2. CASE m # NoChord
    <3> DEFINE n == Cardinality(ChordKeys[m])
    <3>1. n \in Nat
      BY <1>3, <2>2, SizeType
    <3> HIDE DEF n
    <3> DEFINE r == SubSeq(q, n + 1, Len(q))
    <3>2. \A i \in DOMAIN r : i + n \in DOMAIN q /\ r[i] = q[i + n]
      BY <3>1
    <3>3. Rest(q, m) = r
      BY <2>2 DEF Rest, n
    <3> HIDE DEF r
    <3> QED BY <3>2, <3>3 DEF SlotFree
  <2> QED BY <2>1, <2>2
<1> QED BY <1>1, <1>2, <1>3

\* The event processed now is a key's, or a timeout, and nothing of a slot is on its way, ...
Quiet == /\ Upcoming.code \notin Slot /\ SlotFree(Taken.events) /\ Agree(kbd, {})

\* ... or it comes before the release of a slot's code, ...
Replaying ==
  /\ Upcoming.code \notin Slot /\ Flight(Taken.events, kbd)
  /\ kbd.chord.state = "resolving" /\ ~Chordless(kbd.config)
  /\ Upcoming.pressed \/ Upcoming.code = NoCode

\* ... or is of a slot's code.
Coded ==
  /\ Upcoming.code \in Slot /\ Taken.events = <<>> /\ ~Chordless(kbd.config)
  /\ kbd.chord.state = "resolving" \/ ~Upcoming.pressed
  /\ Agree(kbd, {Upcoming.code})
  /\ Cached(kbd, Upcoming.code) <=> ~Upcoming.pressed
  /\ kbd.slots[Upcoming.code].on <=> Upcoming.pressed

LEMMA FlightTail ==
  ASSUME NEW q \in Seq(Event), NEW k, Flight(q, k), Len(q) # 1
  PROVE  /\ Head(q).code \notin Slot /\ Head(q).pressed /\ Flight(Tail(q), k)
<1>1. q # <<>>
  BY DEF Flight
<1>2. /\ Head(q) = q[1] /\ DOMAIN q = 1 .. Len(q) /\ DOMAIN Tail(q) = 1 .. Len(q) - 1
      /\ Tail(q) \in Seq(Event)
      /\ Len(q) \in Nat \ {0} /\ \A i \in 1 .. Len(q) - 1 : Tail(q)[i] = q[i + 1]
  BY <1>1, ListFacts, Zenon
<1> DEFINE r == Tail(q)
<1>3. Len(r) = Len(q) - 1 /\ r # <<>>
  <2>1. r \in Seq(Event) /\ DOMAIN r = 1 .. Len(q) - 1 /\ Len(q) - 1 \in Nat \ {0}
    BY <1>2
  <2> HIDE DEF r
  <2>2. Len(r) = Len(q) - 1
    BY <2>1
  <2> QED BY <2>1, <2>2
<1>4. r[Len(r)] = q[Len(q)]
  BY <1>2, <1>3
<1>5. \A i \in 1 .. Len(r) - 1 : r[i] = q[i + 1] /\ i + 1 \in 1 .. Len(q) - 1
  BY <1>2, <1>3
<1>6. 1 \in 1 .. Len(q) - 1
  BY <1>2
<1> HIDE DEF r
<1>7. Flight(r, k)
  BY <1>3, <1>4, <1>5 DEF Flight
<1> QED BY <1>2, <1>6, <1>7 DEF Flight, r

LEMMA EventActing ==
  ASSUME Processing, ~kbd.aborted, Acting
  PROVE  /\ QueuesFree(kbd) /\ FramesFree(Tail(stack))
         /\ Quiet \/ Replaying \/ Coded
<1>1. stack \in Seq(Frame) /\ stack # <<>> /\ Top.events # <<>> /\ Top \in Frame /\ Top = Head(stack)
  BY UpcomingOK DEF Processing, TypeInv, TypeOK, Top
<1>2. Top.events \in Seq(Event) /\ Top.timer \in Nat
  BY <1>1 DEF Frame
<1>3. QueuesFree(kbd) /\ FramesFree(Tail(stack)) /\ Leading(kbd, Top)
  BY <1>1 DEF Acting, Activating
<1>4. Taken.events = IF TimeoutDue(Top) THEN Top.events ELSE Tail(Top.events)
  BY <1>1 DEF Taken, Frame
<1>5. TimeoutDue(Top) => Upcoming.code = NoCode /\ NoCode \notin Slot
  BY CodeAssumption DEF Upcoming
<1>6. ~TimeoutDue(Top) => Upcoming = Head(Top.events)
  BY DEF Upcoming
<1>7. CASE SlotFree(Top.events) /\ Agree(kbd, {})
  <2>1. Head(Top.events).code \notin Slot /\ SlotFree(Tail(Top.events))
    BY <1>1, <1>2, <1>7, SlotFreeParts
  <2> QED BY <1>3, <1>4, <1>5, <1>6, <1>7, <2>1 DEF Quiet
<1>8. ASSUME Flight(Top.events, kbd), ~Chordless(kbd.config), Len(Top.events) = 1, ~TimeoutDue(Top),
             kbd.chord.state = "resolving" \/ ~Top.events[1].pressed
      PROVE  Coded
  <2>1. Head(Top.events) = Top.events[1] /\ Tail(Top.events) = <<>>
    BY <1>2, <1>8, LenOne
  <2> QED BY <1>4, <1>6, <1>8, <2>1 DEF Coded, Flight
<1>9. CASE /\ Flight(Top.events, kbd) /\ ~Chordless(kbd.config)
           /\ Calling(Top) /\ ~Top.events[1].pressed
  <2>1. ~TimeoutDue(Top) /\ Len(Top.events) = 1
    BY <1>9 DEF Calling, TimeoutDue
  <2> QED BY <1>3, <1>8, <1>9, <2>1
<1>10. CASE Flight(Top.events, kbd) /\ ~Chordless(kbd.config) /\ kbd.chord.state = "resolving"
  <2>1. CASE TimeoutDue(Top)
    BY <1>3, <1>4, <1>5, <1>10, <2>1 DEF Replaying
  <2>2. CASE ~TimeoutDue(Top) /\ Len(Top.events) = 1
    BY <1>3, <1>8, <1>10, <2>2
  <2>3. CASE ~TimeoutDue(Top) /\ Len(Top.events) # 1
    <3>1. Head(Top.events).code \notin Slot /\ Head(Top.events).pressed /\ Flight(Tail(Top.events), kbd)
      BY <1>2, <1>10, <2>3, FlightTail
    <3> QED BY <1>3, <1>4, <1>6, <1>10, <2>3, <3>1 DEF Replaying
  <2> QED BY <2>1, <2>2, <2>3
<1> QED BY <1>3, <1>7, <1>9, <1>10 DEF Leading

\* A handler that ends with keyboard k.
LEMMA ExitActing ==
  ASSUME Processing, NEW k \in Keyboard, Exit(k), QueuesFree(k), FramesFree(Tail(stack)),
         \/ SlotFree(Taken.events) /\ Agree(k, {})
         \/ Flight(Taken.events, k) /\ ~Chordless(k.config) /\ k.chord.state = "resolving"
  PROVE  Acting'
<1> DEFINE j == [k EXCEPT !.timers = Later(k, Upcoming.at)]
           f == [Taken EXCEPT !.timer = Deadline(k, Upcoming.at)]
<1>1. /\ k.timers \in SUBSET Nat /\ Upcoming.at \in Nat /\ Taken \in Frame
      /\ Tail(stack) \in Seq(Frame)
  BY UpcomingOK DEF Keyboard, Event
<1>2. Deadline(k, Upcoming.at) \in Nat /\ Later(k, Upcoming.at) \in SUBSET Nat
  BY <1>1, DeadlineType
<1>3. f \in Frame /\ f.events = Taken.events
  BY <1>1, <1>2 DEF Frame
<1>4. /\ j.chord = k.chord /\ j.config = k.config /\ j.overload = k.overload /\ j.slots = k.slots
      /\ j.cache = k.cache
  BY <1>2 DEF Keyboard
<1>5. kbd' = j /\ stack' = <<f>> \o Tail(stack)
  BY DEF Exit
<1> HIDE DEF j, f
<1>6. /\ \A S : Agree(k, S) => Agree(j, S)
      /\ \A q : Flight(q, k) => Flight(q, j)
  <2>1. \A s \in Slot : Cached(j, s) <=> Cached(k, s)
    BY <1>4 DEF Cached
  <2> QED BY <1>4, <2>1, AgreeAlike
<1>7. QueuesFree(j)
  BY <1>4 DEF QueuesFree
<1>8. Leading(j, f)
  BY <1>3, <1>4, <1>6 DEF Leading
<1>9. Activating(j, <<f>> \o Tail(stack))
  BY <1>1, <1>3, <1>7, <1>8, ActivatingPush
<1> QED BY <1>5, <1>9 DEF Acting

LEMMA AbortActing ==
  ASSUME NEW k \in Keyboard, Exit([k EXCEPT !.aborted = TRUE])
  PROVE  Acting'
<1> DEFINE j == [k EXCEPT !.aborted = TRUE]
<1>1. j \in Keyboard /\ j.aborted
  BY DEF Keyboard
<1>2. Exit(j)
  OBVIOUS
<1> HIDE DEF j
<1>3. kbd'.aborted
  BY <1>1, <1>2 DEF Exit, Keyboard
<1> QED BY <1>3 DEF Acting

\* One that calls others.
LEMMA CallActing ==
  ASSUME Processing, NEW k, QueuesFree(k), FramesFree(Tail(stack)), SlotFree(Taken.events)
  PROVE  /\ \A f \in Frame : Leading(k, f) /\ Call(k, <<f>>) => Acting'
         /\ \A f \in Frame : \A g \in Frame :
              Leading(k, f) /\ SlotFree(g.events) /\ Call(k, <<f, g>>) => Acting'
<1>1. Taken \in Frame /\ Tail(stack) \in Seq(Frame)
  BY UpcomingOK
<1> DEFINE s == <<Taken>> \o Tail(stack)
<1>2. s \in Seq(Frame) /\ FramesFree(s)
  <2>1. FramesFree(s)
    BY <1>1, FramesFreePush
  <2> QED BY <1>1, <2>1
<1>3. \A f \in Frame : Call(k, <<f>>) => stack' = <<f>> \o s /\ kbd' = k
  BY <1>1 DEF Call
<1>4. ASSUME NEW f \in Frame, NEW g \in Frame, Call(k, <<f, g>>)
      PROVE  stack' = <<f>> \o (<<g>> \o s) /\ kbd' = k
  <2>1. stack' = <<f, g>> \o <<Taken>> \o Tail(stack) /\ kbd' = k
    BY <1>4 DEF Call
  <2> QED BY <1>1, <2>1, TwoOnTop
<1> HIDE DEF s
<1>5. \A g \in Frame : SlotFree(g.events) => <<g>> \o s \in Seq(Frame) /\ FramesFree(<<g>> \o s)
  <2>1. ASSUME NEW g \in Frame, SlotFree(g.events)
        PROVE  <<g>> \o s \in Seq(Frame) /\ FramesFree(<<g>> \o s)
    <3>1. FramesFree(<<g>> \o s)
      BY <1>2, <2>1, FramesFreePush
    <3> QED BY <1>2, <3>1
  <2> QED BY <2>1
<1>6. \A f \in Frame : \A r \in Seq(Frame) :
        Leading(k, f) /\ FramesFree(r) /\ stack' = <<f>> \o r /\ kbd' = k => Acting'
  BY ActivatingPush DEF Acting
<1>7. ASSUME NEW f \in Frame, Leading(k, f), Call(k, <<f>>)
      PROVE  Acting'
  BY <1>2, <1>3, <1>6, <1>7
<1>8. ASSUME NEW f \in Frame, NEW g \in Frame, Leading(k, f), SlotFree(g.events), Call(k, <<f, g>>)
      PROVE  Acting'
  BY <1>4, <1>5, <1>6, <1>8
<1> QED BY <1>7, <1>8

\* Chords, if there are any, do not have to be held.
AtOnce == Chordless(kbd.config) \/ kbd.config.hold = 0

LEMMA ResolvingFields ==
  ASSUME NEW k \in Keyboard, NEW q \in Seq(Event), NEW match \in Chord \cup {NoChord},
         NEW r, r = Resolving(k, q, match)
  PROVE  /\ r.chord.state = "resolving" /\ r.config = k.config /\ r.overload = k.overload
         /\ r.slots = k.slots /\ r.cache = k.cache /\ r \in Keyboard
<1> DEFINE c == [k.chord EXCEPT !.state = "resolving", !.queue = q, !.match = match]
<1>1. c \in Chording /\ c.state = "resolving"
  BY DEF Keyboard, Chording
<1>2. r = [k EXCEPT !.chord = c]
  BY DEF Resolving, Keyboard
<1> HIDE DEF c
<1> QED BY <1>1, <1>2 DEF Keyboard

LEMMA ResolveActing ==
  ASSUME Processing, NEW k \in Keyboard, SlotFree(k.overload.queue), Agree(k, {}),
         ~Chordless(k.config), NEW q \in Seq(Event), SlotFree(q), SlotFree(Taken.events),
         FramesFree(Tail(stack)), NEW match \in Chord \cup {NoChord}, Resolve(k, q, match)
  PROVE  Acting'
<1> DEFINE free == {s \in Slot : ~k.slots[s].on}
           slot == Least(free)
           press == [code |-> slot, pressed |-> TRUE, at |-> k.chord.last]
           rest == CallFrame("chord", Rest(q, match))
           code == CallFrame("code", <<press>>)
           r == Resolving(k, q, match)
           started == Started(k, q, match, slot)
<1>1. /\ r.chord.state = "resolving" /\ r.config = k.config /\ r.overload = k.overload
      /\ r.slots = k.slots /\ r.cache = k.cache /\ r \in Keyboard
  BY ResolvingFields
<1>2. QueuesFree(r)
  BY <1>1 DEF QueuesFree
<1>3. rest \in Frame /\ SlotFree(rest.events)
  <2>1. Rest(q, match) \in Seq(Event)
    BY SizeType DEF Rest
  <2>2. SlotFree(Rest(q, match))
    BY SlotFreeParts
  <2> QED BY <2>1, <2>2 DEF CallFrame, Frame
<1>4. CASE match = NoChord
  <2>1. Call(r, <<rest>>)
    BY <1>4 DEF Resolve, Resolving, r
  <2> HIDE DEF rest, r
  <2>2. Agree(r, {})
    BY <1>1 DEF Agree, Cached
  <2>3. Leading(r, rest)
    BY <1>3, <2>2 DEF Leading
  <2> QED BY <1>2, <1>3, <2>1, <2>3, CallActing
<1>5. CASE match # NoChord /\ free = {}
  <2>1. Exit([k EXCEPT !.aborted = TRUE])
    BY <1>5 DEF Resolve
  <2> QED BY <2>1, AbortActing
<1>6. CASE match # NoChord /\ free # {}
  <2>1. Call(started, <<code, rest>>)
    BY <1>6 DEF Resolve, Resolving, Started
  <2>2. slot \in Slot /\ ~k.slots[slot].on
    <3>1. free \in SUBSET Nat
      BY CodeAssumption DEF Slot
    <3>2. Least(free) \in free
      BY <1>6, <3>1, LeastIsMember
    <3> QED BY <3>2
  <2> HIDE DEF slot, rest, r
  <2>3. /\ started.chord = r.chord /\ started.config = r.config /\ started.overload = r.overload
        /\ started.cache = r.cache /\ started.slots[slot].on
        /\ \A s \in Slot : s # slot => started.slots[s] = r.slots[s]
    BY <1>1, <2>2 DEF Started, r, Keyboard
  <2> HIDE DEF started
  <2>4. press \in Event /\ press.code = slot /\ press.pressed
    BY <2>2 DEF Event, Keyboard, Chording
  <2> HIDE DEF press
  <2>5. <<press>> \in Seq(Event) /\ Len(<<press>>) = 1 /\ <<press>>[1] = press /\ <<press>> # <<>>
    BY <2>4
  <2>6. code \in Frame /\ code.events = <<press>>
    BY <2>4, <2>5 DEF CallFrame, Frame
  <2> HIDE DEF code
  <2>7. Agree(started, {slot}) /\ ~Cached(started, slot)
    BY <1>1, <2>2, <2>3 DEF Agree, Cached
  <2>8. Flight(<<press>>, started)
    <3> DEFINE p == <<press>>
    <3>1. p # <<>> /\ p[Len(p)] = press /\ \A i \in 1 .. Len(p) - 1 : FALSE
      BY <2>5
    <3> HIDE DEF p
    <3>2. Flight(p, started)
      BY <2>2, <2>3, <2>4, <2>7, <3>1 DEF Flight
    <3> QED BY <3>2 DEF p
  <2>9. Leading(started, code) /\ QueuesFree(started)
    BY <1>1, <1>2, <2>3, <2>6, <2>8 DEF Leading, QueuesFree
  <2> QED BY <1>3, <2>1, <2>6, <2>9, CallActing
<1> QED BY <1>4, <1>5, <1>6

\* A key of a chord is released, by an event that a key, and no chord, is the source of.
LEMMA ReleaseActing ==
  ASSUME Processing, ~kbd.aborted, Acting, NEW H, Accounts(kbd, stack, H),
         ReleaseChordKey(Upcoming)
  PROVE  Acting'
<1> DEFINE e == Upcoming
           s == Least(Releasing(e))
           k == Lift(kbd, s, e.code)
           release == [code |-> s, pressed |-> FALSE, at |-> e.at]
           code == CallFrame("code", <<release>>)
<1>1. e \in Event /\ e.at \in Nat
  BY UpcomingOK DEF Event
<1>2. s \in Slot /\ e.code \in kbd.slots[s].keys /\ kbd.slots[s].on /\ ~e.pressed
  <2>1. Releasing(e) # {} /\ Releasing(e) \in SUBSET Nat
    BY CodeAssumption DEF ReleaseChordKey, Releasing, Slot
  <2>2. s \in Releasing(e)
    BY <2>1, LeastIsMember
  <2> QED BY <2>2 DEF Releasing
<1>3. e.code \notin Slot /\ e.code # NoCode
  <2>1. e.code \in Code
    BY <1>2, CurrentOK DEF Keyboard, ActiveChord
  <2> QED BY <2>1, CodeAssumption
<1>4. \/ Exit(k) /\ k.slots[s].keys # {}
      \/ Call(k, <<code>>) /\ k.slots[s].keys = {}
  BY DEF ReleaseChordKey
<1>5. QueuesFree(kbd) /\ FramesFree(Tail(stack)) /\ SlotFree(Taken.events) /\ Agree(kbd, {})
  BY <1>2, <1>3, EventActing DEF Quiet, Replaying, Coded
<1>6. ~Chordless(kbd.config)
  BY <1>2 DEF Accounts, Tidy
<1> HIDE DEF s
<1>7. /\ k \in Keyboard /\ k.chord = kbd.chord /\ k.config = kbd.config /\ k.overload = kbd.overload
      /\ k.cache = kbd.cache /\ (k.slots[s].keys # {} <=> k.slots[s].on)
      /\ \A t \in Slot : t # s => k.slots[t] = kbd.slots[t]
  <2> DEFINE a == [kbd.slots[s] EXCEPT !.keys = @ \ {e.code}, !.on = kbd.slots[s].keys # {e.code}]
             x == [kbd.slots EXCEPT ![s] = a]
  <2>1. kbd.slots \in [Slot -> ActiveChord]
    BY CurrentOK DEF Keyboard
  <2>2. a \in ActiveChord /\ (a.keys # {} <=> a.on)
    <3> DEFINE b == kbd.slots[s]
    <3>1. b \in ActiveChord /\ e.code \in b.keys
      BY <1>2, <2>1
    <3>2. a = [b EXCEPT !.keys = b.keys \ {e.code}, !.on = b.keys # {e.code}]
      OBVIOUS
    <3> HIDE DEF a, b
    <3>3. /\ a \in ActiveChord /\ a.keys = b.keys \ {e.code}
          /\ a.on = (b.keys # {e.code})
      BY <3>1, <3>2 DEF ActiveChord
    <3>4. b.keys \ {e.code} # {} <=> b.keys # {e.code}
      BY <3>1
    <3> QED BY <3>3, <3>4
  <2>3. k = [kbd EXCEPT !.slots = x]
    BY <1>2, <2>1, CurrentOK DEF Lift, Keyboard, ActiveChord
  <2> HIDE DEF a, k
  <2> QED BY <1>2, <2>1, <2>2, <2>3, CurrentOK DEF Keyboard
<1> HIDE DEF k
<1>8. QueuesFree(k) /\ \A t \in Slot : Cached(k, t) <=> kbd.slots[t].on
  BY <1>5, <1>7 DEF QueuesFree, Agree, Cached
<1>9. CASE Exit(k) /\ k.slots[s].keys # {}
  <2>1. Agree(k, {})
    BY <1>2, <1>7, <1>8, <1>9 DEF Agree
  <2> QED BY <1>5, <1>7, <1>8, <1>9, <2>1, ExitActing
<1>10. CASE Call(k, <<code>>) /\ k.slots[s].keys = {}
  <2>1. release \in Event /\ release.code = s /\ ~release.pressed
    BY <1>1, <1>2 DEF Event
  <2> HIDE DEF release
  <2>2. <<release>> \in Seq(Event) /\ Len(<<release>>) = 1 /\ <<release>>[1] = release
        /\ <<release>> # <<>>
    BY <2>1
  <2>3. code \in Frame /\ Calling(code) /\ code.events = <<release>>
    BY <1>2, <2>1, <2>2 DEF CallFrame, Frame, Calling
  <2> HIDE DEF code
  <2>4. Agree(k, {s}) /\ Cached(k, s) /\ ~k.slots[s].on
    BY <1>2, <1>7, <1>8, <1>10 DEF Agree
  <2>5. Flight(<<release>>, k)
    BY <1>2, <2>1, <2>2, <2>4 DEF Flight
  <2>6. Leading(k, code)
    BY <1>6, <1>7, <2>1, <2>2, <2>3, <2>5 DEF Leading
  <2> QED BY <1>5, <1>8, <1>10, <2>3, <2>6, CallActing
<1> QED BY <1>4, <1>9, <1>10

LEMMA AdvanceActing ==
  ASSUME AtOnce, Processing, ~Chordless(kbd.config), SlotFree(kbd.overload.queue), Agree(kbd, {}),
         SlotFree(Taken.events), FramesFree(Tail(stack)), NEW t \in Nat,
         NEW q \in Seq(Event), SlotFree(q), NEW old \in Chord \cup {NoChord}, Advance(q, old, t)
  PROVE  Acting'
<1> DEFINE match == Match(kbd, q, old)
           unambiguous == Full(kbd, q) # {} /\ Partial(kbd, q) = Full(kbd, q)
           c == [state |-> IF unambiguous THEN "hold" ELSE "pending",
                 queue |-> q, match |-> match, last |-> t]
           waiting == [kbd EXCEPT !.chord = c]
           g == kbd.config.interkey
<1>1. /\ kbd \in Keyboard /\ KeyboardOK(kbd) /\ g \in Nat /\ kbd.config.hold = 0
  BY CurrentOK DEF Result, AtOnce, Keyboard
<1>2. match \in Chord \cup {NoChord}
  BY <1>1, MatchType
<1>3. \/ ~unambiguous /\ Exit(Schedule(waiting, t + g))
      \/ Resolve(waiting, q, match)
  BY <1>1 DEF Advance
<1> HIDE DEF match
<1>4. /\ c \in Chording /\ c.queue = q /\ c.state = IF unambiguous THEN "hold" ELSE "pending"
  BY <1>1, <1>2 DEF Chording
<1> HIDE DEF c
<1>5. /\ waiting \in Keyboard /\ waiting.chord = c /\ waiting.config = kbd.config
      /\ waiting.slots = kbd.slots /\ waiting.cache = kbd.cache /\ waiting.overload = kbd.overload
  BY <1>1, <1>4 DEF Keyboard
<1> HIDE DEF waiting, unambiguous
<1>6. Agree(waiting, {})
  BY <1>5 DEF Agree, Cached
<1>7. CASE ~unambiguous /\ Exit(Schedule(waiting, t + g))
  <2> DEFINE j == Schedule(waiting, t + g)
  <2>1. t + g \in Nat
    BY <1>1
  <2>2. j \in Keyboard /\ Alike(waiting, j)
    BY <1>5, <2>1, ScheduleAlike
  <2>3. Exit(j)
    BY <1>7
  <2> HIDE DEF j
  <2>4. QueuesFree(j)
    BY <1>4, <1>5, <1>7, <2>2 DEF Alike, QueuesFree
  <2>5. Agree(j, {})
    BY <1>6, <2>2 DEF Agree, Alike, Codes
  <2> QED BY <2>2, <2>3, <2>4, <2>5, ExitActing
<1>8. CASE Resolve(waiting, q, match)
  BY <1>2, <1>5, <1>6, <1>8, ResolveActing
<1> QED BY <1>3, <1>7, <1>8

\* The events that may begin a chord, or extend one, are presses of keys.
LEMMA PartialPressed ==
  ASSUME NEW k, NEW q \in Seq(Event), Partial(k, q) # {}
  PROVE  \A i \in DOMAIN q : q[i].pressed => q[i].code \in Code
<1>1. PICK m \in [layer : Layer, chord : Chord] : \A i \in Presses(q) : q[i].code \in ChordKeys[m.chord]
  BY DEF Partial
<1>2. ChordKeys[m.chord] \in SUBSET Code
  BY ChordAssumption
<1> QED BY <1>1, <1>2 DEF Presses

\* No chord begins or goes on while the code of another is on its way.
LEMMA ChordActs ==
  ASSUME Processing, ~kbd.aborted, Acting, kbd.chord.state # "resolving", Upcoming.code \notin Slot
  PROVE  /\ SlotFree(kbd.overload.queue) /\ Agree(kbd, {})
         /\ kbd.chord.state = "pending" => SlotFree(kbd.chord.queue)
         /\ kbd.chord.state # "hold"
         /\ SlotFree(Taken.events) /\ FramesFree(Tail(stack))
BY EventActing DEF Quiet, Replaying, Coded, QueuesFree

LEMMA BeginActing ==
  ASSUME AtOnce, Processing, ~kbd.aborted, Acting, BeginChord(Upcoming)
  PROVE  Acting'
<1> DEFINE e == Upcoming
           q == <<e>>
<1>1. e \in Event /\ e.at \in Nat
  BY UpcomingOK DEF Event
<1>2. kbd.chord.state = "inactive" /\ Advance(q, NoChord, e.at) /\ Partial(kbd, q) # {}
  BY DEF BeginChord
<1> HIDE DEF e
<1>3. q \in Seq(Event) /\ q[1] = e /\ DOMAIN q = {1}
  BY <1>1
<1> HIDE DEF q
<1>4. e.pressed /\ e.code \in Code /\ ~Chordless(kbd.config)
  <2>1. Presses(q) # {} /\ ~Chordless(kbd.config)
    BY <1>2 DEF Partial, Chordless
  <2>2. e.pressed
    BY <1>3, <2>1 DEF Presses
  <2> QED BY <1>2, <1>3, <2>1, <2>2, PartialPressed
<1>5. e.code \notin Slot
  BY <1>4, CodeAssumption
<1>6. SlotFree(q)
  BY <1>3, <1>5 DEF SlotFree
<1>7. /\ SlotFree(kbd.overload.queue) /\ Agree(kbd, {})
      /\ SlotFree(Taken.events) /\ FramesFree(Tail(stack))
  BY <1>2, <1>5, ChordActs DEF e
<1>8. NoChord \in Chord \cup {NoChord}
  OBVIOUS
<1> QED BY <1>1, <1>2, <1>3, <1>4, <1>6, <1>7, <1>8, AdvanceActing

\* An event while a chord is pending.  The release of the code of another chord, which is
\* no press, ends it, and comes behind the presses that it replays.
LEMMA ExtendActing ==
  ASSUME AtOnce, Processing, ~kbd.aborted, Acting, Matched(kbd.chord),
         NEW H, Accounts(kbd, stack, H), ExtendChord(Upcoming)
  PROVE  Acting'
<1> DEFINE e == Upcoming
           p == kbd.chord.queue
           q == Append(p, e)
           old == kbd.chord.match
<1>1. q \in Seq(Event) /\ kbd \in Keyboard /\ e \in Event /\ e.at \in Nat
      /\ old \in Chord \cup {NoChord} /\ p \in Seq(Event)
  BY QueueOK, UpcomingOK, CurrentOK DEF Event
<1>2. \/ Exit([kbd EXCEPT !.aborted = TRUE])
      \/ e.pressed /\ Advance(q, old, e.at)
      \/ Resolve(kbd, q, NoChord)
  BY DEF ExtendChord, Abort
<1>3. kbd.chord.state = "pending" /\ ~Chordless(kbd.config) /\ \A i \in DOMAIN p : p[i].pressed
  BY DEF ExtendChord, Accounts, Tidy, Matched
<1>4. /\ QueuesFree(kbd) /\ FramesFree(Tail(stack)) /\ SlotFree(Taken.events) /\ SlotFree(p)
      /\ e.code \in Slot => Coded
      /\ e.code \notin Slot => Agree(kbd, {})
  <2>1. /\ QueuesFree(kbd) /\ FramesFree(Tail(stack))
        /\ Quiet \/ Replaying \/ Coded
    BY EventActing
  <2>2. Quiet \/ Coded
    BY <1>3, <2>1 DEF Replaying
  <2>3. Coded => SlotFree(Taken.events)
    BY DEF Coded, SlotFree
  <2> QED BY <1>3, <2>1, <2>2, <2>3 DEF Quiet, Coded, QueuesFree
<1>5. /\ Len(q) = Len(p) + 1 /\ q # <<>> /\ q[Len(q)] = e /\ \A i \in 1 .. Len(q) - 1 : q[i] = p[i]
      /\ Len(p) \in Nat /\ DOMAIN p = 1 .. Len(p)
  BY <1>1
<1>6. e.code \notin Slot => SlotFree(q)
  BY <1>1, <1>4, SlotFreeParts
<1> HIDE DEF q, p, old, e
<1>7. CASE Exit([kbd EXCEPT !.aborted = TRUE])
  BY <1>1, <1>7, AbortActing
<1>8. CASE e.code \notin Slot /\ e.pressed /\ Advance(q, old, e.at)
  BY <1>1, <1>3, <1>4, <1>6, <1>8, AdvanceActing DEF QueuesFree
<1>9. NoChord \in Chord \cup {NoChord}
  OBVIOUS
<1>10. CASE e.code \notin Slot /\ Resolve(kbd, q, NoChord)
  BY <1>1, <1>3, <1>4, <1>6, <1>9, <1>10, ResolveActing DEF QueuesFree
<1>11. ASSUME e.code \in Slot PROVE ~e.pressed
  BY <1>3, <1>4, <1>11 DEF Coded, e
<1>12. CASE e.code \in Slot /\ Resolve(kbd, q, NoChord)
  <2> DEFINE r == Resolving(kbd, q, NoChord)
             rest == CallFrame("chord", q)
  <2>1. Call(r, <<rest>>)
    BY <1>12 DEF Resolve, Resolving, Rest
  <2>2. rest \in Frame /\ rest.events = q
    BY <1>1 DEF CallFrame, Frame
  <2>3. /\ r.chord.state = "resolving" /\ r.config = kbd.config /\ r.overload = kbd.overload
        /\ r.slots = kbd.slots /\ r.cache = kbd.cache
    BY <1>1, <1>9, ResolvingFields
  <2> HIDE DEF rest, r
  <2>4. QueuesFree(r)
    BY <1>4, <2>3 DEF QueuesFree
  <2>5. /\ Agree(r, {e.code}) /\ (Cached(r, e.code) <=> ~e.pressed)
        /\ (r.slots[e.code].on <=> e.pressed)
    BY <1>4, <1>12, <2>3 DEF Coded, Agree, Cached, e
  <2>6. \A i \in 1 .. Len(q) - 1 : q[i].pressed /\ q[i].code \notin Slot
    BY <1>3, <1>4, <1>5 DEF SlotFree
  <2>7. Flight(q, r)
    BY <1>5, <1>12, <2>5, <2>6 DEF Flight
  <2>8. Leading(r, rest)
    BY <1>3, <2>2, <2>3, <2>7 DEF Leading
  <2> QED BY <1>4, <2>1, <2>2, <2>4, <2>8, CallActing
<1> QED BY <1>2, <1>7, <1>8, <1>10, <1>11, <1>12

LEMMA LapseActing ==
  ASSUME AtOnce, Processing, ~kbd.aborted, Acting, NEW H, Accounts(kbd, stack, H),
         LapseChord(Upcoming)
  PROVE  Acting'
<1> DEFINE q == kbd.chord.queue
<1>1. /\ kbd \in Keyboard /\ kbd.chord.match \in Chord \cup {NoChord} /\ q \in Seq(Event)
      /\ kbd.config.interkey \in Nat
  BY CurrentOK DEF Result
<1>2. kbd.chord.state = "pending" /\ Upcoming.code = NoCode
  BY DEF LapseChord
<1>3. ~Chordless(kbd.config) /\ Upcoming.code \notin Slot
  BY <1>2, CodeAssumption DEF Accounts, Tidy
<1>4. kbd.config.hold = 0
  BY <1>1, <1>3 DEF AtOnce, Keyboard
<1>5. \E m \in Chord \cup {NoChord} : Resolve(kbd, q, m)
  BY <1>1, <1>4 DEF LapseChord, Abort
<1>6. /\ SlotFree(kbd.overload.queue) /\ Agree(kbd, {}) /\ SlotFree(q)
      /\ SlotFree(Taken.events) /\ FramesFree(Tail(stack))
  BY <1>2, <1>3, ChordActs
<1> HIDE DEF q
<1> QED BY <1>1, <1>3, <1>5, <1>6, ResolveActing

\* What is struck changes the entry of its own code only, and that of a chord's in any case.
LEMMA StrikeSlots ==
  ASSUME NEW k, KeyboardOK(k), NEW e \in Event, e.code \in Slot => k.slots[e.code].chord \in Chord,
         NEW j, j = Strike(k, e)
  PROVE  /\ \A s \in Slot : s # e.code => (Cached(j, s) <=> Cached(k, s))
         /\ e.code \in Slot => (Cached(j, e.code) <=> e.pressed)
<1>1. k \in Keyboard /\ e.at \in Nat /\ Slot \subseteq Codes
  BY DEF KeyboardOK, Event, Codes
<1>2. CASE e.code # NoCode /\ e.pressed /\ ~Cached(k, e.code)
  <2> DEFINE d == Lookup(k, e.code)
             i == CacheSet(k, e.code, d)
  <2>1. e.code \in Codes
    BY <1>2 DEF Event, Codes
  <2>2. d \in Descriptor
    BY <2>1, LookupType
  <2>3. e.code \in Slot => d.op # "none"
    BY BindingAssumption DEF Lookup
  <2>4. j = Press(i, e.code, d, e.at)
    BY <1>2 DEF Strike
  <2> HIDE DEF d
  <2>5. i \in Keyboard /\ i.cache[e.code] = d /\ \A b \in Codes : b # e.code => i.cache[b] = k.cache[b]
    BY <1>1, <2>1, <2>2, CacheEntry, CacheSetOK DEF KeyboardOK
  <2> HIDE DEF i
  <2>6. Struck(i, e.code, d, j)
    BY <2>2, <2>4, <2>5, PressFields
  <2>7. j.cache = i.cache
    BY <2>6 DEF Struck
  <2> QED BY <1>1, <1>2, <2>3, <2>5, <2>7 DEF Cached
<1>3. CASE e.code # NoCode /\ ~e.pressed /\ Cached(k, e.code)
  <2> DEFINE i == CacheSet(k, e.code, Free)
  <2>1. e.code \in Codes /\ Free \in Descriptor
    BY <1>3, FreeType DEF Event, Codes
  <2>2. k.cache[e.code] \in Descriptor
    BY <1>1, <2>1 DEF Keyboard, Codes
  <2>3. j = Release(i, k.cache[e.code], e.at)
    BY <1>3 DEF Strike
  <2>4. KeyboardOK(i) /\ i.cache[e.code] = Free
        /\ \A b \in Codes : b # e.code => i.cache[b] = k.cache[b]
    BY <1>1, <2>1, CacheEntry, CacheSetOK
  <2> HIDE DEF i
  <2>5. Alike(i, j)
    BY <2>2, <2>3, <2>4, ReleaseAlike
  <2>6. ~Cached(i, e.code)
    BY <2>4, FreeNotCached
  <2>7. \A b \in Codes : b # e.code => (Cached(i, b) <=> Cached(k, b))
    BY <2>4 DEF Cached
  <2> QED BY <1>1, <1>3, <2>1, <2>5, <2>6, <2>7 DEF Alike
<1>4. CASE ~(e.code # NoCode /\ e.pressed /\ ~Cached(k, e.code))
           /\ ~(e.code # NoCode /\ ~e.pressed /\ Cached(k, e.code))
  <2>1. j = k
    BY <1>4 DEF Strike
  <2>2. e.code \in Slot => e.code # NoCode
    BY CodeAssumption
  <2>3. e.pressed \in BOOLEAN
    BY DEF Event
  <2> QED BY <1>4, <2>1, <2>2, <2>3
<1> QED BY <1>2, <1>3, <1>4

LEMMA DeliverActing ==
  ASSUME PlainActions, Processing, Paid(kbd), ~kbd.aborted, Acting,
         NEW H, Accounts(kbd, stack, H), Deliver(Upcoming)
  PROVE  Acting'
<1> DEFINE e == Upcoming
           k == DecideTimeout(kbd, e)
<1>1. e \in Event /\ (e.code \in Slot => kbd.slots[e.code].chord \in Chord)
  BY UpcomingOK
<1>2. KeyboardOK(kbd) /\ kbd \in Keyboard
  BY CurrentOK DEF Result
<1>3. KeyboardOK(k) /\ Kept(k, kbd) /\ Keeps(kbd, k) /\ Alike(kbd, k)
  BY <1>1, <1>2, DecideTimeoutOK, DecideTimeoutKeeps, DecideTimeoutAlike
<1>4. \/ QueueFull(k, e) /\ Exit([k EXCEPT !.aborted = TRUE])
      \/ Waits(k, e) /\ Defer(k, e)
      \/ ~Waits(k, e) /\ Exit(Strike(k, e))
  BY DEF Deliver
<1> HIDE DEF k
<1>5. Result(k) /\ k \in Keyboard /\ Paid(k) /\ k.overload \in PendingOverload
  BY <1>3, KeptResult DEF KeyboardOK, Keeps, Keyboard
<1>6. Tidy(k) /\ k.chord = kbd.chord /\ k.overload = kbd.overload /\ k.config = kbd.config
      /\ k.slots = kbd.slots
  BY <1>2, <1>3, AlikeTidy DEF Alike, Accounts
<1>7. /\ \A S : Agree(kbd, S) => Agree(k, S)
      /\ \A q : Flight(q, kbd) => Flight(q, k)
      /\ \A s \in Slot : Cached(k, s) <=> Cached(kbd, s)
  <2>1. \A s \in Slot : Cached(k, s) <=> Cached(kbd, s)
    BY <1>3 DEF Alike, Codes
  <2> QED BY <1>6, <2>1, AgreeAlike
<1>8. QueuesFree(kbd) /\ FramesFree(Tail(stack)) /\ (Quiet \/ Replaying \/ Coded)
  BY EventActing
<1>9. QueuesFree(k)
  BY <1>6, <1>8 DEF QueuesFree
<1>10. CASE QueueFull(k, e) /\ Exit([k EXCEPT !.aborted = TRUE])
  BY <1>5, <1>10, AbortActing
<1>11. CASE Waits(k, e) /\ Defer(k, e)
  <2> DEFINE q == Enqueue(k.overload, e).queue
  <2>1. k.overload.code # NoCode
    BY <1>11 DEF Waits
  <2>2. Quiet
    BY <1>6, <1>8, <2>1 DEF Replaying, Coded, Tidy
  <2>3. SlotFree(k.overload.queue) /\ k.overload.queue \in Seq(Event)
    BY <1>5, <1>9 DEF QueuesFree, PendingOverload
  <2>4. SlotFree(q)
    <3>1. SlotFree(Append(k.overload.queue, e))
      BY <1>1, <2>2, <2>3, SlotFreeParts DEF Quiet
    <3> QED BY <1>5, <2>3, <3>1 DEF Enqueue, PendingOverload
  <2>5. PICK j \in Keyboard :
          /\ Tidy(j) /\ j.chord = k.chord /\ j.config = k.config /\ j.slots = k.slots
          /\ \A c \in Codes : Cached(j, c) <=> Cached(k, c)
          /\ \/ Exit(j) /\ Withheld(j) = q
             \/ \E f \in Frame : /\ Call(j, <<f>>) /\ Withheld(j) = <<>>
                                 /\ f.events = q /\ f.kind = "overload"
    BY <1>5, <1>6, <1>11, <2>1, DeferWithheld
  <2>6. k.chord.state = "inactive"
    BY <1>5, <1>6, <1>11, <2>1, DeferWithheld
  <2> HIDE DEF q
  <2>7. Withheld(j) = j.overload.queue
    BY <2>5, <2>6, WithheldIs
  <2>8. SlotFree(<<>>)
    BY DEF SlotFree
  <2>9. QueuesFree(j)
    BY <2>4, <2>5, <2>6, <2>7, <2>8 DEF QueuesFree
  <2>10. Agree(j, {}) /\ SlotFree(Taken.events)
    BY <1>7, <2>2, <2>5 DEF Quiet, Agree, Codes
  <2>11. CASE Exit(j)
    BY <1>8, <2>9, <2>10, <2>11, ExitActing
  <2>12. ASSUME NEW f \in Frame, Call(j, <<f>>), f.events = q
         PROVE  Acting'
    <3>1. Leading(j, f)
      BY <2>4, <2>10, <2>12 DEF Leading
    <3> QED BY <1>8, <2>9, <2>10, <2>12, <3>1, CallActing
  <2> QED BY <2>5, <2>11, <2>12
<1>12. CASE ~Waits(k, e) /\ Exit(Strike(k, e))
  <2> DEFINE j == Strike(k, e)
  <2>1. e.code \in Slot => k.slots[e.code].chord \in Chord
    BY <1>1, <1>5 DEF Result
  <2>2. KeyboardOK(j) /\ Kept(j, k)
    BY <1>1, <1>3, <2>1, StrikeOK
  <2>3. j \in Keyboard /\ QueuesFree(j) /\ j.slots = kbd.slots /\ j.config = kbd.config
        /\ j.chord = kbd.chord
    BY <1>6, <1>9, <2>2 DEF KeyboardOK, Kept, QueuesFree
  <2>4. /\ \A s \in Slot : s # e.code => (Cached(j, s) <=> Cached(kbd, s))
        /\ e.code \in Slot => (Cached(j, e.code) <=> e.pressed)
    BY <1>1, <1>3, <1>7, <2>1, StrikeSlots
  <2>5. Exit(j)
    BY <1>12
  <2> HIDE DEF j
  <2>6. CASE e.code \notin Slot
    <3>1. \A s \in Slot : Cached(j, s) <=> Cached(kbd, s)
      BY <2>4, <2>6
    <3>2. /\ \A S : Agree(kbd, S) => Agree(j, S)
          /\ \A q : Flight(q, kbd) => Flight(q, j)
      BY <2>3, <3>1, AgreeAlike
    <3>3. Quiet \/ Replaying
      BY <1>8, <2>6 DEF Coded
    <3>4. CASE Quiet
      BY <1>8, <2>3, <2>5, <3>2, <3>4, ExitActing DEF Quiet
    <3>5. CASE Replaying
      BY <1>8, <2>3, <2>5, <3>2, <3>5, ExitActing DEF Replaying
    <3> QED BY <3>3, <3>4, <3>5
  <2>7. CASE e.code \in Slot
    <3>1. Coded
      BY <1>8, <2>7 DEF Quiet, Replaying
    <3>2. Agree(j, {})
      BY <2>3, <2>4, <2>7, <3>1 DEF Coded, Agree
    <3>3. SlotFree(Taken.events)
      BY <3>1 DEF Coded, SlotFree
    <3> QED BY <1>8, <2>3, <2>5, <3>2, <3>3, ExitActing
  <2> QED BY <2>6, <2>7
<1> QED BY <1>4, <1>10, <1>11, <1>12

LEMMA ReturnActing ==
  ASSUME TypeInv, Acting, Return
  PROVE  Acting'
<1> DEFINE k == Returned
           r == Tail(stack)
           caller == stack[2]
           j == [k EXCEPT !.timers = Later(k, caller.at)]
           f == [caller EXCEPT !.timer = Deadline(k, caller.at)]
<1>1. /\ stack \in Seq(Frame) /\ stack # <<>> /\ Top.events = <<>> /\ r \in Seq(Frame)
      /\ kbd \in Keyboard /\ ~kbd.aborted /\ Head(stack) = Top
  BY DEF TypeInv, TypeOK, Return, Top
<1>2. QueuesFree(kbd) /\ Agree(kbd, {}) /\ FramesFree(r)
  <2>1. QueuesFree(kbd) /\ Leading(kbd, Top) /\ FramesFree(r)
    BY <1>1 DEF Acting, Activating
  <2> QED BY <1>1, <2>1 DEF Leading, Flight
<1>3. k \in Keyboard /\ k.config = kbd.config /\ k.chord \in {kbd.chord, Inactive}
      /\ k.slots = kbd.slots /\ k.cache = kbd.cache /\ k.overload = kbd.overload
  <2>1. Inactive \in Chording
    BY DEF Inactive, Chording
  <2> QED BY <1>1, <2>1 DEF Returned, Keyboard
<1>4. QueuesFree(k) /\ Agree(k, {})
  <2>1. Inactive.state = "inactive"
    BY DEF Inactive
  <2> HIDE DEF k
  <2> QED BY <1>2, <1>3, <2>1 DEF QueuesFree, Agree, Cached
<1>5. /\ Len(stack) = 1 => r = <<>>
      /\ Len(stack) # 1 => r # <<>> /\ Head(r) = caller /\ caller \in Frame /\ Tail(r) \in Seq(Frame)
  <2>1. /\ DOMAIN r = 1 .. Len(stack) - 1 /\ Len(stack) \in Nat \ {0}
        /\ \A i \in 1 .. Len(stack) - 1 : r[i] = stack[i + 1]
    BY <1>1, ListFacts, Zenon
  <2> HIDE DEF r
  <2>2. Len(stack) = 1 => r = <<>>
    BY <1>1, <2>1
  <2>3. Len(stack) # 1 => r # <<>> /\ r[1] = caller
    <3>1. Len(r) = Len(stack) - 1
      BY <1>1, <2>1
    <3> DEFINE m == Len(stack)
    <3>2. m \in Nat \ {0} /\ \A i \in 1 .. m - 1 : r[i] = stack[i + 1]
      BY <2>1
    <3> HIDE DEF m
    <3>3. m # 1 => 1 \in 1 .. m - 1
      BY <3>2
    <3>4. m # 1 => r[1] = caller
      BY <3>2, <3>3
    <3> QED BY <2>1, <3>1, <3>4 DEF m
  <2>4. r # <<>> => Head(r) = r[1] /\ Head(r) \in Frame /\ Tail(r) \in Seq(Frame)
    BY <1>1, ListFacts, Zenon
  <2> QED BY <2>2, <2>3, <2>4
<1>6. CASE Len(stack) = 1 /\ kbd' = k /\ stack' = <<>>
  BY <1>4, <1>6 DEF Acting, Activating
<1>7. CASE Len(stack) # 1 /\ kbd' = k /\ stack' = r
  <2> HIDE DEF k, r
  <2>1. SlotFree(Head(r).events) /\ FramesFree(Tail(r))
    BY <1>1, <1>2, <1>5, <1>7, FramesFreeTop
  <2> QED BY <1>4, <1>5, <1>7, <2>1 DEF Acting, Activating, Leading
<1>8. CASE Len(stack) # 1 /\ kbd' = j /\ stack' = <<f>> \o Tail(r)
  <2>1. caller.at \in Nat /\ k.timers \in SUBSET Nat
    BY <1>3, <1>5, <1>8 DEF Frame, Keyboard
  <2>2. Later(k, caller.at) \in SUBSET Nat /\ Deadline(k, caller.at) \in Nat
    BY <2>1, DeadlineType
  <2>3. f \in Frame /\ f.events = caller.events
    BY <1>5, <1>8, <2>2 DEF Frame
  <2>4. /\ j.chord = k.chord /\ j.config = k.config /\ j.overload = k.overload
        /\ j.slots = k.slots /\ j.cache = k.cache
    BY <1>3 DEF Keyboard
  <2> HIDE DEF f, j, k, caller, r
  <2>5. SlotFree(f.events) /\ FramesFree(Tail(r))
    BY <1>1, <1>2, <1>5, <1>8, <2>3, FramesFreeTop
  <2>6. QueuesFree(j) /\ Agree(j, {})
    BY <1>4, <2>4 DEF QueuesFree, Agree, Cached
  <2>7. Leading(j, f)
    BY <2>5, <2>6 DEF Leading
  <2>8. Activating(j, <<f>> \o Tail(r))
    BY <1>5, <1>8, <2>3, <2>5, <2>6, <2>7, ActivatingPush
  <2> QED BY <1>8, <2>8 DEF Acting
<1> QED BY <1>6, <1>7, <1>8 DEF Return, Returned

LEMMA DispatchActing ==
  ASSUME Acting, stack = <<>>, ~kbd.aborted, NEW e \in Event, e.code \notin Slot, Dispatch(e),
         kbd' = kbd
  PROVE  Acting'
<1> DEFINE f == CallFrame("loop", <<e>>)
<1>1. f.events = <<e>> /\ stack' = <<f>>
  BY DEF CallFrame, Dispatch
<1>2. SlotFree(<<e>>)
  BY DEF SlotFree
<1> HIDE DEF f
<1>3. Head(<<f>>) = f /\ Tail(<<f>>) = <<>> /\ <<f>> # <<>>
  OBVIOUS
<1>4. QueuesFree(kbd) /\ Agree(kbd, {})
  BY DEF Acting, Activating
<1>5. Leading(kbd, f)
  BY <1>1, <1>2, <1>4 DEF Leading
<1>6. FramesFree(<<>>)
  BY DEF FramesFree
<1> QED BY <1>1, <1>3, <1>4, <1>5, <1>6 DEF Acting, Activating

LEMMA ActingInit ==
  ASSUME Init
  PROVE  Acting
<1>1. /\ kbd.chord = Inactive /\ stack = <<>> /\ kbd.overload = NoOverload
      /\ \A s \in Slot : kbd.cache[s] = Free /\ ~kbd.slots[s].on
  BY DEF Init
<1>2. Inactive.state = "inactive" /\ NoOverload.queue = <<>>
  BY DEF Inactive, NoOverload
<1>3. QueuesFree(kbd)
  BY <1>1, <1>2 DEF QueuesFree, SlotFree
<1>4. Agree(kbd, {})
  BY <1>1, FreeNotCached DEF Agree
<1> QED BY <1>1, <1>3, <1>4 DEF Acting, Activating

LEMMA ProcessingActing ==
  ASSUME PlainActions, AtOnce, Processing, Paid(kbd), Matched(kbd.chord), Accounted, Acting,
         ChordStep \/ Deliver(Upcoming)
  PROVE  Acting'
<1>1. /\ ReleaseChordKey(Upcoming) \/ BeginChord(Upcoming) \/ ExtendChord(Upcoming)
           \/ LapseChord(Upcoming) \/ HoldChord(Upcoming) \/ FireChord(Upcoming)
           \/ Deliver(Upcoming)
      /\ ~kbd.aborted
  BY DEF ChordStep, ReleaseChordKey, BeginChord, ExtendChord, LapseChord, HoldChord, FireChord,
         Deliver, Running
<1>2. Accounts(kbd, stack, HeldCodes)
  BY <1>1 DEF Accounted
<1>3. kbd.chord.state # "hold"
  BY <1>1, EventActing DEF QueuesFree
<1>4. ~HoldChord(Upcoming) /\ ~FireChord(Upcoming)
  BY <1>3 DEF HoldChord, FireChord
<1> QED BY <1>1, <1>2, <1>4, ReleaseActing, BeginActing, ExtendActing, LapseActing, DeliverActing

LEMMA ExpireActing ==
  ASSUME TypeInv, Acting, Expire
  PROVE  Acting'
<1>1. now \in Nat /\ wake \in Nat /\ Late \in Nat
  BY BoundAssumption DEF TypeInv, TypeOK
<1>2. PICK t : t \in Nat /\ Timeout(t)
  <2> DEFINE a == IF now > wake THEN now ELSE wake
  <2>1. a \in Nat
    BY <1>1
  <2>2. PICK t \in a .. a + Late : Timeout(t)
    BY DEF Expire
  <2> HIDE DEF a
  <2> QED BY <1>1, <2>1, <2>2
<1> DEFINE e == [code |-> NoCode, pressed |-> FALSE, at |-> t]
<1>3. kbd' = kbd /\ Dispatch(e) /\ stack = <<>> /\ ~kbd.aborted
  BY <1>2 DEF Timeout, Idle
<1>4. e \in Event /\ e.code \notin Slot
  BY <1>2, CodeAssumption DEF Event
<1> HIDE DEF e
<1> QED BY <1>3, <1>4, DispatchActing

LEMMA KeyEventActing ==
  ASSUME Acting, NEW c \in Code, NEW pressed \in BOOLEAN, NEW t \in 1 .. MaxTime,
         KeyEvent(c, pressed, t)
  PROVE  Acting'
<1> DEFINE e == [code |-> c, pressed |-> pressed, at |-> t]
<1>1. kbd' = kbd /\ t \in Nat /\ Dispatch(e) /\ stack = <<>> /\ ~kbd.aborted
  BY BoundAssumption DEF KeyEvent, Idle
<1>2. e \in Event /\ e.code \notin Slot
  BY <1>1, CodeAssumption DEF Event
<1> HIDE DEF e
<1> QED BY <1>1, <1>2, DispatchActing

LEMMA ActingStep ==
  ASSUME PlainActions, AtOnce, TypeInv, Paid(kbd), Matched(kbd.chord), Accounted, Acting, [Next]_vars
  PROVE  Acting'
<1>1. CASE \E c \in Code, pressed \in BOOLEAN, t \in 1 .. MaxTime : KeyEvent(c, pressed, t)
  BY <1>1, KeyEventActing
<1>2. CASE Expire
  BY <1>2, ExpireActing
<1>3. CASE ChordStep
  <2>1. Processing
    BY <1>3 DEF ChordStep, Processing
  <2> QED BY <1>3, <2>1, ProcessingActing
<1>4. CASE stack # <<>> /\ Top.events # <<>> /\ Deliver(Upcoming)
  BY <1>4, ProcessingActing DEF Processing
<1>5. CASE Return
  BY <1>5, ReturnActing
<1>6. CASE UNCHANGED vars
  BY <1>6 DEF vars, Acting
<1> QED BY <1>1, <1>2, <1>3, <1>4, <1>5, <1>6 DEF Next, Step

\* Between two events nothing is on its way, so what is cached is in effect.
LEMMA ActingIsActivated ==
  ASSUME TypeInv, Accounted, Acting
  PROVE  ChordsActivated
<1> SUFFICES ASSUME Idle, NEW s \in Slot
             PROVE  SaysDown(s, Cached(kbd, s)) = kbd.slots[s].on
  BY DEF ChordsActivated
<1>1. ~kbd.aborted /\ stack = <<>> /\ kbd \in Keyboard
  BY DEF Idle, TypeInv, TypeOK
<1>2. QueuesFree(kbd) /\ Agree(kbd, {}) /\ Tidy(kbd) /\ kbd.chord.state # "resolving"
  BY <1>1 DEF Acting, Activating, Accounted, Accounts, Conforms, ChordOnce
<1> DEFINE a == kbd.overload.queue
           b == kbd.chord.queue
<1>3. a \in Seq(Event) /\ b \in Seq(Event) /\ kbd.slots[s].on \in BOOLEAN
      /\ kbd.chord.state \in {"inactive", "pending", "hold", "resolving"}
  BY <1>1 DEF Keyboard, PendingOverload, Chording, ActiveChord
<1>4. SlotFree(a) /\ SlotFree(b)
  BY <1>2, <1>3 DEF QueuesFree, Tidy, SlotFree
<1> HIDE DEF a, b
<1>5. \A i \in DOMAIN (a \o b) : (a \o b)[i].code # s
  BY <1>3, <1>4 DEF SlotFree
<1>6. Queued = a \o b
  BY DEF Queued, a, b
<1>7. SaysDown(s, Cached(kbd, s)) = Cached(kbd, s)
  BY <1>5, <1>6 DEF SaysDown
<1>8. Cached(kbd, s) <=> kbd.slots[s].on
  BY <1>2 DEF Agree
<1>9. Cached(kbd, s) \in BOOLEAN
  BY DEF Cached
<1> QED BY <1>3, <1>7, <1>8, <1>9

\* A keyboard keeps its config.
Configured(k) == "config" \in DOMAIN k /\ k.config = kbd.config

LEMMA ExitConfigured ==
  ASSUME NEW k, Configured(k), Exit(k) \/ Exit([k EXCEPT !.aborted = TRUE])
  PROVE  kbd'.config = kbd.config
<1> DEFINE j == [k EXCEPT !.aborted = TRUE]
<1>1. /\ \A t : [k EXCEPT !.timers = t].config = kbd.config
      /\ Configured(j)
  BY DEF Configured
<1>2. CASE Exit(k)
  <2>1. kbd' = [k EXCEPT !.timers = Later(k, Upcoming.at)]
    BY <1>2 DEF Exit
  <2> QED BY <1>1, <2>1
<1> HIDE DEF j
<1>3. CASE Exit(j)
  <2>1. kbd' = [j EXCEPT !.timers = Later(j, Upcoming.at)]
    BY <1>3 DEF Exit
  <2>2. \A t : [j EXCEPT !.timers = t].config = kbd.config
    BY <1>1 DEF Configured
  <2> QED BY <2>1, <2>2
<1> QED BY <1>2, <1>3 DEF j

LEMMA ResolveConfigured ==
  ASSUME NEW k, Configured(k), NEW q, NEW match, Resolve(k, q, match)
  PROVE  kbd'.config = kbd.config
<1> DEFINE slot == Least({s \in Slot : ~k.slots[s].on})
           r == Resolving(k, q, match)
           started == Started(k, q, match, slot)
<1>1. r.config = k.config /\ started.config = k.config
  BY DEF Resolving, Started, Configured
<1>2. kbd' = r \/ kbd' = started \/ Exit([k EXCEPT !.aborted = TRUE])
  BY DEF Resolve, Call, Resolving, Started
<1> HIDE DEF r, started
<1> QED BY <1>1, <1>2, ExitConfigured DEF Configured

LEMMA AdvanceConfigured ==
  ASSUME Processing, NEW q, NEW old, NEW t, Advance(q, old, t)
  PROVE  kbd'.config = kbd.config
<1> DEFINE match == Match(kbd, q, old)
           unambiguous == Full(kbd, q) # {} /\ Partial(kbd, q) = Full(kbd, q)
           c == [state |-> IF unambiguous THEN "hold" ELSE "pending",
                 queue |-> q, match |-> match, last |-> t]
           waiting == [kbd EXCEPT !.chord = c]
<1>1. \E n : Exit(Schedule(waiting, n)) \/ Resolve(waiting, q, match)
  BY Zenon DEF Advance
<1> HIDE DEF match, c
<1>2. Configured(waiting) /\ \A n : Configured(Schedule(waiting, n))
  BY CurrentOK DEF Configured, Schedule, Keyboard
<1> HIDE DEF waiting
<1> QED BY <1>1, <1>2, ExitConfigured, ResolveConfigured

LEMMA ConfigStays ==
  ASSUME Processing,
         \/ ReleaseChordKey(Upcoming) \/ BeginChord(Upcoming) \/ ExtendChord(Upcoming)
         \/ LapseChord(Upcoming) \/ HoldChord(Upcoming) \/ FireChord(Upcoming)
         \/ Deliver(Upcoming)
  PROVE  kbd'.config = kbd.config
<1> DEFINE e == Upcoming
<1>1. kbd \in Keyboard /\ Configured(kbd)
  BY CurrentOK DEF Configured, Keyboard
<1>2. CASE ReleaseChordKey(e)
  <2> DEFINE s == Least(Releasing(e))
             k == Lift(kbd, s, e.code)
  <2>1. Exit(k) \/ kbd' = k
    BY <1>2 DEF ReleaseChordKey, Call
  <2>2. Configured(k)
    BY <1>1 DEF Lift, Configured
  <2> HIDE DEF k
  <2> QED BY <2>1, <2>2, ExitConfigured DEF Configured
<1>3. CASE BeginChord(e) \/ ExtendChord(e)
  <2>1. \/ \E q, old : Advance(q, old, e.at)
        \/ Exit([kbd EXCEPT !.aborted = TRUE])
        \/ \E q : Resolve(kbd, q, NoChord)
    BY <1>3 DEF BeginChord, ExtendChord, Abort
  <2> QED BY <1>1, <2>1, AdvanceConfigured, ExitConfigured, ResolveConfigured
<1>4. CASE LapseChord(e)
  <2> DEFINE k == [kbd EXCEPT !.chord.state = "hold"]
  <2>1. \/ \E n : Exit(Schedule(k, n))
        \/ \E q, m : Resolve(kbd, q, m)
    BY <1>4 DEF LapseChord, Abort
  <2>2. \A n : Configured(Schedule(k, n))
    BY <1>1 DEF Configured, Schedule
  <2> HIDE DEF k
  <2> QED BY <1>1, <2>1, <2>2, ExitConfigured, ResolveConfigured
<1>5. CASE HoldChord(e) \/ FireChord(e)
  <2> DEFINE j == [kbd EXCEPT !.chord.queue = Append(kbd.chord.queue, e)]
  <2>1. \/ Exit([kbd EXCEPT !.aborted = TRUE])
        \/ \E q, m : Resolve(kbd, q, m)
        \/ Exit(j)
    BY <1>5, Zenon DEF HoldChord, FireChord, Abort
  <2>2. Configured(j)
    BY <1>1 DEF Configured
  <2> HIDE DEF j
  <2> QED BY <1>1, <2>1, <2>2, ExitConfigured, ResolveConfigured
<1>6. CASE Deliver(e)
  <2>1. PICK j : Outcome(j) /\ j.config = kbd.config
    BY <1>6, DeliverOutcome
  <2>2. j \in Keyboard /\ (Exit(j) \/ kbd' = j)
    BY <2>1 DEF Outcome, Result, KeyboardOK, Call
  <2>3. Configured(j)
    BY <2>1, <2>2 DEF Configured, Keyboard
  <2> QED BY <2>1, <2>2, <2>3, ExitConfigured
<1> QED BY <1>2, <1>3, <1>4, <1>5, <1>6

\* So whether its chords have to be held does not change.
LEMMA ConfigFixed ==
  ASSUME TypeInv, [Next]_vars
  PROVE  kbd'.config = kbd.config
<1>1. CASE \E c \in Code, pressed \in BOOLEAN, t \in 1 .. MaxTime : KeyEvent(c, pressed, t)
  BY <1>1 DEF KeyEvent
<1>2. CASE Expire
  BY <1>2 DEF Expire, Timeout
<1>3. CASE ChordStep
  <2>1. Processing
    BY <1>3 DEF ChordStep, Processing, ReleaseChordKey, BeginChord, ExtendChord, LapseChord,
                HoldChord, FireChord, Running
  <2> QED BY <1>3, <2>1, ConfigStays DEF ChordStep
<1>4. CASE stack # <<>> /\ Top.events # <<>> /\ Deliver(Upcoming)
  BY <1>4, ConfigStays DEF Processing
<1>5. CASE Return
  <2> DEFINE k == IF Top.kind = "chord" THEN [kbd EXCEPT !.chord = Inactive] ELSE kbd
  <2>1. Configured(k)
    BY DEF Configured, TypeInv, TypeOK, Keyboard
  <2>2. kbd' = k \/ \E u : kbd' = [k EXCEPT !.timers = u]
    BY <1>5 DEF Return
  <2> HIDE DEF k
  <2> QED BY <2>1, <2>2 DEF Configured
<1>6. CASE UNCHANGED vars
  BY <1>6 DEF vars
<1> QED BY <1>1, <1>2, <1>3, <1>4, <1>5, <1>6 DEF Next, Step

\* A chord that need not be held and is in effect has its code pressed, or waiting to be, and
\* one whose keys are up has not (keyd.scdoc:386): whatever is replayed before, behind or
\* around it, the code is delivered once, to a cache entry that its slot has to itself,
\* before another event can set out.  Behind a chord that is held the release of another's
\* code would wait, and by the time it is delivered the slot that it is of may be the new
\* chord's.
THEOREM PipelineActivatedAtOnce ==
  ASSUME PlainActions, Exclusive, Devices = 1
  PROVE  Spec => []ActivatedAtOnce
<1> DEFINE I == /\ TypeInv /\ Paid(kbd) /\ Matched(kbd.chord) /\ Accounted
                /\ AtOnce => Acting
<1>1. I /\ TypeInv' /\ [Next]_vars => I'
  <2> SUFFICES ASSUME I, TypeInv', [Next]_vars
               PROVE  I'
    OBVIOUS
  <2>1. Paid(kbd)' /\ Matched(kbd.chord)' /\ Accounted'
    BY PaidStep, MatchedStep, AccountedStep DEF KeptOn
  <2>2. AtOnce' => AtOnce
    BY ConfigFixed DEF AtOnce, Chordless
  <2>3. AtOnce => Acting'
    BY ActingStep
  <2> QED BY <2>1, <2>2, <2>3
<1>2. Init => I
  <2>1. Init => Matched(kbd.chord)
    BY DEF Init, Matched, Inactive
  <2> QED BY <2>1, TypeInit, PaidInit, AccountedInit, ActingInit
<1>3. I => ActivatedAtOnce
  BY ActingIsActivated DEF ActivatedAtOnce, AtOnce
<1> HIDE DEF I
<1> QED BY <1>1, <1>2, <1>3, TypeInvariant, PTL DEF Spec

-----------------------------------------------------------------------------
(* Awaited: events withheld are Gap apart, as they were struck, so that a key *)
(* whose turn comes late is still undecided when it does; and until then the  *)
(* event loop knows by when it must come back.                                *)

Deferring(d) == d.op \in {"timeout", "overloadt", "overloadt2"}

\* The times for which the keys of a keymap stay undecided.
Spans(config) ==
  {v \in Nat : \E l \in Layer, c \in Code :
     Deferring(config.keymap[l][c]) /\ config.keymap[l][c].span = v}

\* A keymap with chords has no timed keys.  Where there are several they wait for about
\* the same time: a key that was struck while another was undecided, no earlier than Gap
\* after it, is due later than the other's timeout is handled.
Even == \A config \in Configs :
  IF Chordless(config)
  THEN \A v, w \in Spans(config) : 0 < v /\ v + Late < w + Gap
  ELSE Spans(config) = {} /\ \A c \in Chord : ~Deferring(ChordDescriptor[c])

\* Key events, Gap after a and from one another, up to b.
Apart(q, a, b) ==
  /\ a <= b
  /\ \A i \in 1 .. Len(q) : /\ q[i].code \in Code /\ a + Gap <= q[i].at /\ q[i].at <= b
                            /\ \A j \in 1 .. Len(q) : i < j => q[i].at + Gap <= q[j].at

LEMMA ApartEmpty ==
  ASSUME NEW a \in Nat, NEW b \in Nat, a <= b
  PROVE  Apart(<<>>, a, b)
<1>1. Len(<<>>) = 0 /\ 1 .. 0 = {}
  OBVIOUS
<1> QED BY <1>1 DEF Apart

LEMMA ApartAppend ==
  ASSUME NEW q \in Seq(Event), NEW e \in Event, NEW a \in Nat, NEW b \in Nat,
         Apart(q, a, b), e.code \in Code, b + Gap <= e.at
  PROVE  Append(q, e) \in Seq(Event) /\ Apart(Append(q, e), a, e.at)
<1> DEFINE n == Len(q)
           r == Append(q, e)
<1>1. n \in Nat /\ r \in Seq(Event) /\ Len(r) = n + 1 /\ r[n + 1] = e /\ \A i \in 1 .. n : r[i] = q[i]
  OBVIOUS
<1>2. /\ a <= b /\ e.at \in Nat /\ \A i \in 1 .. n : q[i].at \in Nat
      /\ \A i \in 1 .. n : /\ q[i].code \in Code /\ a + Gap <= q[i].at /\ q[i].at <= b
                           /\ \A j \in 1 .. n : i < j => q[i].at + Gap <= q[j].at
  <2>1. \A i \in 1 .. n : q[i] \in Event
    BY <1>1
  <2> QED BY <2>1 DEF Apart, Event
<1> HIDE DEF n, r
<1>3. ASSUME NEW i \in 1 .. n + 1
      PROVE  /\ r[i].code \in Code /\ a + Gap <= r[i].at /\ r[i].at <= e.at
             /\ \A j \in 1 .. n + 1 : i < j => r[i].at + Gap <= r[j].at
  <2>1. CASE i \in 1 .. n
    <3>1. /\ r[i] = q[i] /\ r[i].code \in Code /\ a + Gap <= q[i].at /\ q[i].at <= b
          /\ q[i].at \in Nat
      BY <1>1, <1>2, <2>1
    <3>2. q[i].at + Gap <= e.at /\ q[i].at <= e.at
      BY <1>2, <3>1, BoundAssumption
    <3>3. ASSUME NEW j \in 1 .. n + 1, i < j PROVE r[i].at + Gap <= r[j].at
      <4>1. j \in 1 .. n \/ j = n + 1
        BY <1>1
      <4> QED BY <1>1, <1>2, <2>1, <3>1, <3>2, <3>3, <4>1
    <3> QED BY <3>1, <3>2, <3>3
  <2>2. CASE i = n + 1
    <3>1. a + Gap <= e.at
      BY <1>2, BoundAssumption
    <3> QED BY <1>1, <1>2, <2>2, <3>1
  <2> QED BY <1>1, <2>1, <2>2
<1>4. a <= e.at
  BY <1>2, BoundAssumption
<1> QED BY <1>1, <1>3, <1>4 DEF Apart, r

LEMMA ApartOne ==
  ASSUME NEW e \in Event, NEW a \in Nat, e.code \in Code, a + Gap <= e.at
  PROVE  Apart(<<e>>, a, e.at)
<1>1. Len(<<e>>) = 1 /\ <<e>>[1] = e /\ e.at \in Nat /\ 1 .. 1 = {1}
  BY DEF Event
<1> QED BY <1>1, BoundAssumption DEF Apart

LEMMA ApartTail ==
  ASSUME NEW q \in Seq(Event), q # <<>>, NEW a \in Nat, NEW b \in Nat, Apart(q, a, b)
  PROVE  /\ Head(q).code \in Code /\ Head(q).at \in Nat /\ a + Gap <= Head(q).at
         /\ Apart(Tail(q), Head(q).at, b)
<1> DEFINE n == Len(q)
<1>1. /\ Head(q) = q[1] /\ n \in Nat \ {0} /\ Len(Tail(q)) = n - 1 /\ q[1] \in Event
      /\ \A i \in 1 .. n - 1 : Tail(q)[i] = q[i + 1]
  <2>1. Len(Tail(q)) = n - 1 /\ q[1] \in Event
    OBVIOUS
  <2> QED BY <2>1, ListFacts, Zenon
<1>2. /\ a <= b
      /\ \A i \in 1 .. n : /\ q[i].code \in Code /\ a + Gap <= q[i].at /\ q[i].at <= b
                           /\ \A j \in 1 .. n : i < j => q[i].at + Gap <= q[j].at
  BY DEF Apart
<1>3. q[1].at \in Nat
  BY <1>1 DEF Event
<1> HIDE DEF n
<1>4. ASSUME NEW i \in 1 .. n - 1
      PROVE  /\ Tail(q)[i].code \in Code
             /\ q[1].at + Gap <= Tail(q)[i].at /\ Tail(q)[i].at <= b
             /\ \A j \in 1 .. n - 1 : i < j => Tail(q)[i].at + Gap <= Tail(q)[j].at
  <2>1. i + 1 \in 1 .. n /\ 1 \in 1 .. n /\ 1 < i + 1 /\ Tail(q)[i] = q[i + 1]
    BY <1>1
  <2>2. ASSUME NEW j \in 1 .. n - 1, i < j PROVE Tail(q)[i].at + Gap <= Tail(q)[j].at
    <3>1. j + 1 \in 1 .. n /\ i + 1 < j + 1 /\ Tail(q)[j] = q[j + 1]
      BY <1>1, <2>2
    <3> QED BY <1>2, <2>1, <3>1
  <2> QED BY <1>2, <2>1, <2>2
<1>5. q[1].code \in Code /\ a + Gap <= q[1].at /\ q[1].at <= b
  <2>1. 1 \in 1 .. n
    BY <1>1
  <2> QED BY <1>2, <2>1
<1> QED BY <1>1, <1>3, <1>4, <1>5 DEF Apart

Strung(s, a, b) ==
  \E d \in [1 .. Len(s) + 1 -> Nat] :
    /\ d[1] = a /\ d[Len(s) + 1] = b
    /\ \A n \in 1 .. Len(s) : Apart(s[n].events, d[n], d[n + 1])

LEMMA StrungEmpty ==
  ASSUME NEW a \in Nat, NEW b
  PROVE  Strung(<<>>, a, b) <=> a = b
<1>1. ASSUME Strung(<<>>, a, b) PROVE a = b
  BY <1>1 DEF Strung
<1>2. Strung(<<>>, a, a)
  <2> DEFINE d == [n \in 1 .. 1 |-> a]
  <2>1. Len(<<>>) = 0 /\ 1 .. 0 = {} /\ Len(<<>>) + 1 = 1
    OBVIOUS
  <2>2. d \in [1 .. 1 -> Nat] /\ d[1] = a
    OBVIOUS
  <2> HIDE DEF d
  <2> QED BY <2>1, <2>2 DEF Strung
<1> QED BY <1>1, <1>2

LEMMA StrungTail ==
  ASSUME NEW s \in Seq(Frame), s # <<>>, NEW a, NEW b, Strung(s, a, b)
  PROVE  a \in Nat /\ \E c \in Nat : Apart(Head(s).events, a, c) /\ Strung(Tail(s), c, b)
<1> DEFINE n == Len(s)
<1>1. PICK d \in [1 .. n + 1 -> Nat] :
        d[1] = a /\ d[n + 1] = b /\ \A i \in 1 .. n : Apart(s[i].events, d[i], d[i + 1])
  BY DEF Strung
<1>2. /\ n \in Nat \ {0} /\ Len(Tail(s)) = n - 1 /\ Head(s) = s[1]
      /\ \A i \in 1 .. n - 1 : Tail(s)[i] = s[i + 1]
  <2>1. Len(Tail(s)) = n - 1
    OBVIOUS
  <2> QED BY <2>1, ListFacts, Zenon
<1> HIDE DEF n
<1> DEFINE g == [i \in 1 .. n |-> d[i + 1]]
<1>3. g \in [1 .. n -> Nat] /\ \A i \in 1 .. n : g[i] = d[i + 1]
  BY <1>2
<1> HIDE DEF g
<1>4. ASSUME NEW i \in 1 .. n - 1 PROVE Apart(Tail(s)[i].events, g[i], g[i + 1])
  <2>1. i \in 1 .. n /\ i + 1 \in 1 .. n
    BY <1>2
  <2> QED BY <1>1, <1>2, <1>3, <2>1
<1>5. (n - 1) + 1 = n /\ g[1] = d[2] /\ g[n] = b /\ 1 \in 1 .. n /\ 1 + 1 = 2 /\ 2 \in 1 .. n + 1
  BY <1>1, <1>2, <1>3
<1>6. Strung(Tail(s), d[2], b)
  <2>1. Len(Tail(s)) + 1 = n
    BY <1>2, <1>5
  <2> QED BY <1>2, <1>3, <1>4, <1>5, <2>1 DEF Strung
<1>7. Apart(Head(s).events, a, d[2]) /\ d[2] \in Nat /\ a \in Nat
  <2>1. 1 \in 1 .. n + 1
    BY <1>2
  <2> QED BY <1>1, <1>2, <1>5, <2>1
<1> QED BY <1>6, <1>7

LEMMA StrungPush ==
  ASSUME NEW s \in Seq(Frame), NEW f \in Frame, NEW a \in Nat, NEW c \in Nat, NEW b,
         Apart(f.events, a, c), Strung(s, c, b)
  PROVE  Strung(<<f>> \o s, a, b)
<1> DEFINE n == Len(s)
           r == <<f>> \o s
<1>1. PICK d \in [1 .. n + 1 -> Nat] :
        d[1] = c /\ d[n + 1] = b /\ \A i \in 1 .. n : Apart(s[i].events, d[i], d[i + 1])
  BY DEF Strung
<1>2. n \in Nat /\ Len(r) = n + 1 /\ r[1] = f /\ \A i \in 2 .. n + 1 : r[i] = s[i - 1]
  OBVIOUS
<1> HIDE DEF n, r
<1> DEFINE g == [i \in 1 .. n + 2 |-> IF i = 1 THEN a ELSE d[i - 1]]
<1>3. g \in [1 .. n + 2 -> Nat] /\ g[1] = a /\ \A i \in 2 .. n + 2 : g[i] = d[i - 1]
  BY <1>2
<1> HIDE DEF g
<1>4. ASSUME NEW i \in 1 .. n + 1 PROVE Apart(r[i].events, g[i], g[i + 1])
  <2>1. CASE i = 1
    <3>1. 2 \in 2 .. n + 2 /\ 2 - 1 = 1 /\ 1 + 1 = 2
      BY <1>2
    <3>2. g[2] = c
      BY <1>1, <1>3, <3>1
    <3> QED BY <1>2, <1>3, <2>1, <3>1, <3>2
  <2>2. CASE i # 1
    <3>1. i \in 2 .. n + 1 /\ i \in 2 .. n + 2 /\ i + 1 \in 2 .. n + 2 /\ i - 1 \in 1 .. n
          /\ (i + 1) - 1 = (i - 1) + 1
      BY <1>2, <2>2
    <3>2. Apart(s[i - 1].events, d[i - 1], d[(i - 1) + 1])
      BY <1>1, <3>1
    <3>3. g[i] = d[i - 1] /\ g[i + 1] = d[(i - 1) + 1] /\ r[i] = s[i - 1]
      BY <1>2, <1>3, <3>1
    <3> QED BY <3>2, <3>3
  <2> QED BY <2>1, <2>2
<1>5. g[(n + 1) + 1] = b /\ (n + 1) + 1 = n + 2
  <2>1. n + 2 \in 2 .. n + 2 /\ (n + 2) - 1 = n + 1
    BY <1>2
  <2> QED BY <1>1, <1>2, <1>3, <2>1
<1>6. Len(r) + 1 = n + 2
  BY <1>2
<1> QED BY <1>2, <1>3, <1>4, <1>5, <1>6 DEF Strung, r

-----------------------------------------------------------------------------
Past(q, t) == \A i \in DOMAIN q : q[i].at <= t

\* The event loop has handed in an event, ...
Fresh(s, t) == Len(s) = 1 /\ Pristine(Head(s), t)

\* ... its deadline, ...
Rung(s) == s # <<>> /\ Head(s).events # <<>> /\ Head(Head(s).events).code = NoCode

\* ... or has had it taken.
Rests(s, t) ==
  \A n \in DOMAIN s : /\ s[n].kind # "chord" /\ s[n].at <= t /\ Past(s[n].events, t)
                      /\ n = Len(s) => s[n].events = <<>>

\* The event loop comes back in time for what is due at u.
Alarm(u, k, s, w, t) ==
  /\ u \in k.timers
  /\ Fresh(s, t) => t <= u + Late /\ (~Rung(s) => t < u)
  /\ ~Fresh(s, t) => /\ t < u
                     /\ s = <<>> => w # 0 /\ w <= u
                     /\ Len(s) = 1 => Head(s).timer # 0 /\ Head(s).timer <= u

LEMMA RestsPush ==
  ASSUME NEW f \in Frame, NEW s \in Seq(Frame), NEW t, f.kind # "chord", f.at <= t, Past(f.events, t),
         s # <<>> => Rests(s, t), s = <<>> => f.events = <<>>
  PROVE  Rests(<<f>> \o s, t)
<1> DEFINE r == <<f>> \o s
           n == Len(s)
<1>1. /\ n \in Nat /\ r[1] = f /\ DOMAIN r = 1 .. n + 1 /\ Len(r) = n + 1 /\ DOMAIN s = 1 .. n
      /\ (s = <<>> <=> n = 0) /\ \A i \in 2 .. n + 1 : r[i] = s[i - 1]
  OBVIOUS
<1> HIDE DEF r, n
<1>2. ASSUME NEW i \in 1 .. n + 1
      PROVE  /\ r[i].kind # "chord" /\ r[i].at <= t /\ Past(r[i].events, t)
             /\ i = n + 1 => r[i].events = <<>>
  <2>1. CASE i = 1
    BY <1>1, <2>1
  <2>2. CASE i # 1
    <3>1. i - 1 \in 1 .. n /\ i \in 2 .. n + 1 /\ (i = n + 1 => i - 1 = n) /\ s # <<>>
      BY <1>1, <2>2
    <3>2. Rests(s, t)
      BY <3>1
    <3>3. /\ s[i - 1].kind # "chord" /\ s[i - 1].at <= t /\ Past(s[i - 1].events, t)
          /\ i - 1 = n => s[i - 1].events = <<>>
      BY <1>1, <3>1, <3>2 DEF Rests, n
    <3> QED BY <1>1, <3>1, <3>3
  <2> QED BY <2>1, <2>2
<1> QED BY <1>1, <1>2 DEF Rests, r

LEMMA RestsPop ==
  ASSUME NEW s \in Seq(Frame), s # <<>>, NEW t, Rests(s, t)
  PROVE  /\ Head(s).kind # "chord" /\ Head(s).at <= t /\ Past(Head(s).events, t)
         /\ Tail(s) = <<>> => Head(s).events = <<>>
         /\ Rests(Tail(s), t)
<1> DEFINE r == Tail(s)
           n == Len(s)
<1>1. /\ n \in Nat \ {0} /\ Head(s) = s[1] /\ DOMAIN s = 1 .. n /\ Len(r) = n - 1 /\ DOMAIN r = 1 .. n - 1
      /\ (r = <<>> => n = 1) /\ \A i \in 1 .. n - 1 : r[i] = s[i + 1]
  <2>1. Len(r) = n - 1
    OBVIOUS
  <2>2. r = <<>> => Len(r) = 0
    <3> HIDE DEF r
    <3> QED OBVIOUS
  <2>3. /\ n \in Nat \ {0} /\ Head(s) = s[1] /\ DOMAIN s = 1 .. n /\ DOMAIN r = 1 .. n - 1
        /\ \A i \in 1 .. n - 1 : r[i] = s[i + 1]
    BY ListFacts, Zenon
  <2> HIDE DEF r, n
  <2> QED BY <2>1, <2>2, <2>3
<1> HIDE DEF r
<1>2. \A i \in 1 .. n : /\ s[i].kind # "chord" /\ s[i].at <= t /\ Past(s[i].events, t)
                        /\ i = n => s[i].events = <<>>
  BY <1>1 DEF Rests
<1> HIDE DEF n
<1>3. 1 \in 1 .. n /\ \A i \in 1 .. n - 1 : i + 1 \in 1 .. n /\ (i = n - 1 => i + 1 = n)
  BY <1>1
<1>4. Rests(r, t)
  BY <1>1, <1>2, <1>3 DEF Rests
<1> QED BY <1>1, <1>2, <1>3, <1>4 DEF r

LEMMA PastTail ==
  ASSUME NEW q \in Seq(Event), q # <<>>, NEW t, Past(q, t)
  PROVE  Head(q).at <= t /\ Past(Tail(q), t)
<1> DEFINE n == Len(q)
           r == Tail(q)
<1>1. /\ n \in Nat \ {0} /\ Head(q) = q[1] /\ DOMAIN q = 1 .. n /\ DOMAIN r = 1 .. n - 1
      /\ \A i \in 1 .. n - 1 : r[i] = q[i + 1]
  BY ListFacts, Zenon
<1> HIDE DEF n, r
<1>2. 1 \in 1 .. n /\ \A i \in 1 .. n - 1 : i + 1 \in 1 .. n
  BY <1>1
<1> QED BY <1>1, <1>2 DEF Past, r

\* The event that is processed, and what its frame is when it calls another.
LEMMA EventRests ==
  ASSUME Processing, Fresh(stack, now) \/ Rests(stack, now)
  PROVE  /\ Upcoming.at <= now
         /\ Fresh(stack, now) => /\ Upcoming.at = now /\ Upcoming = Head(Top.events)
                                 /\ Taken.events = <<>> /\ Tail(stack) = <<>>
                                 /\ Rung(stack) <=> Upcoming.code = NoCode
         /\ Taken.kind # "chord" /\ Taken.at <= now /\ Past(Taken.events, now)
         /\ Tail(stack) = <<>> => Taken.events = <<>> /\ Fresh(stack, now)
         /\ Tail(stack) # <<>> => Rests(Tail(stack), now)
<1>1. /\ Top \in Frame /\ Upcoming \in Event /\ Tail(stack) \in Seq(Frame) /\ stack \in Seq(Frame)
      /\ stack # <<>> /\ Top.events # <<>> /\ now \in Nat /\ Top = Head(stack)
  BY UpcomingOK DEF Processing, TypeInv, TypeOK, Top
<1>2. Top.events \in Seq(Event) /\ Top.timer \in Nat
  BY <1>1 DEF Frame
<1>3. /\ Taken.kind = Top.kind /\ Taken.at = Upcoming.at
      /\ Taken.events = IF TimeoutDue(Top) THEN Top.events ELSE Tail(Top.events)
      /\ Upcoming = IF TimeoutDue(Top) THEN [code |-> NoCode, pressed |-> FALSE, at |-> Top.timer]
                                       ELSE Head(Top.events)
  BY <1>1 DEF Taken, Upcoming, Frame
<1>4. CASE Fresh(stack, now)
  <2>1. /\ Len(stack) = 1 /\ Top.kind = "loop" /\ Top.timer = 0
        /\ Len(Top.events) = 1 /\ Top.events[1].at = now
    BY <1>1, <1>4 DEF Fresh, Pristine
  <2>2. ~TimeoutDue(Top)
    BY <2>1 DEF TimeoutDue
  <2>3. Tail(stack) = <<>>
    BY <1>1, <2>1, LenOne
  <2>4. Tail(Top.events) = <<>> /\ Head(Top.events) = Top.events[1]
    BY <1>2, <2>1, LenOne
  <2>5. Upcoming = Head(Top.events) /\ Upcoming.at = now /\ Taken.events = <<>>
    BY <1>3, <2>1, <2>2, <2>4
  <2>6. Past(Taken.events, now)
    BY <2>5 DEF Past
  <2>7. Rung(stack) <=> Upcoming.code = NoCode
    BY <1>1, <2>5 DEF Rung
  <2>8. Upcoming.at <= now /\ Taken.at <= now
    BY <1>1, <1>3, <2>5
  <2> QED BY <1>3, <1>4, <2>1, <2>3, <2>5, <2>6, <2>7, <2>8
<1>5. CASE ~Fresh(stack, now)
  <2>1. /\ Top.kind # "chord" /\ Past(Top.events, now) /\ Rests(Tail(stack), now)
        /\ Tail(stack) # <<>>
    BY <1>1, <1>5, RestsPop
  <2>2. Head(Top.events).at <= now /\ Past(Tail(Top.events), now)
    BY <1>2, <1>1, <2>1, PastTail
  <2>3. Head(Top.events) \in Event
    BY <1>1, <1>2, ListFacts, Zenon
  <2>4. Head(Top.events).at \in Nat
    BY <2>3 DEF Event
  <2>5. Upcoming.at <= now /\ Past(Taken.events, now)
    BY <1>1, <1>2, <1>3, <2>1, <2>2, <2>4 DEF TimeoutDue
  <2> QED BY <1>3, <1>5, <2>1, <2>5
<1> QED BY <1>4, <1>5

LEMMA NotFresh ==
  ASSUME NEW s \in Seq(Frame), NEW t, Rests(s, t)
  PROVE  ~Fresh(s, t)
<1>1. SUFFICES ASSUME Len(s) = 1, Pristine(Head(s), t) PROVE FALSE
  BY DEF Fresh
<1>2. s # <<>> /\ Tail(s) = <<>>
  BY <1>1, LenOne
<1>3. Head(s).events = <<>>
  BY <1>2, RestsPop
<1>4. Len(<<>>) # 1
  OBVIOUS
<1> QED BY <1>1, <1>3, <1>4 DEF Pristine

\* A handler that ends, ...
LEMMA ExitAlarm ==
  ASSUME Processing, Fresh(stack, now) \/ Rests(stack, now), NEW k \in Keyboard, Exit(k)
  PROVE  /\ Rests(stack', now') /\ stack' # <<>>
         /\ \A u \in k.timers : now < u => Alarm(u, kbd', stack', wake', now')
<1> DEFINE t == Upcoming.at
           f == [Taken EXCEPT !.timer = Deadline(k, t)]
           r == Tail(stack)
           s == <<f>> \o r
<1>1. /\ t \in Nat /\ t <= now /\ Taken \in Frame /\ r \in Seq(Frame) /\ now \in Nat
      /\ k.timers \in SUBSET Nat
  BY EventRests, UpcomingOK DEF Keyboard, Event, Processing, TypeInv, TypeOK
<1>2. /\ Taken.kind # "chord" /\ Taken.at <= now /\ Past(Taken.events, now)
      /\ r = <<>> => Taken.events = <<>>
      /\ r # <<>> => Rests(r, now)
  BY EventRests
<1>3. Deadline(k, t) \in Nat /\ Later(k, t) \in SUBSET Nat
  BY <1>1, DeadlineType
<1>4. /\ f \in Frame /\ f.events = Taken.events /\ f.kind = Taken.kind /\ f.at = Taken.at
      /\ f.timer = Deadline(k, t)
  BY <1>1, <1>3 DEF Frame
<1>5. kbd'.timers = Later(k, t) /\ stack' = s /\ wake' = wake /\ now' = now
  BY DEF Exit, Keyboard
<1>6. s \in Seq(Frame) /\ Head(s) = f /\ s # <<>>
  <2> HIDE DEF f, r
  <2> QED BY <1>1, <1>4
<1> HIDE DEF t, f, r
<1>7. Rests(s, now)
  BY <1>1, <1>2, <1>4, RestsPush
<1> HIDE DEF s
<1>8. ~Fresh(s, now)
  BY <1>6, <1>7, NotFresh
<1>9. ASSUME NEW u \in k.timers, now < u
      PROVE  Alarm(u, kbd', s, wake, now)
  <2>1. t < u
    BY <1>1, <1>9
  <2>2. u \in Later(k, t) /\ Deadline(k, t) # 0 /\ Deadline(k, t) <= u
    BY <1>1, <2>1, HeldDeadline
  <2> QED BY <1>4, <1>5, <1>6, <1>8, <1>9, <2>2 DEF Alarm
<1> QED BY <1>5, <1>6, <1>7, <1>9

\* ... calls, ...
LEMMA CallAlarm ==
  ASSUME Processing, Fresh(stack, now) \/ Rests(stack, now), NEW k \in Keyboard,
         NEW g \in Frame, g.kind # "chord", g.at <= now, Past(g.events, now), Call(k, <<g>>)
  PROVE  /\ Rests(stack', now')
         /\ \A u \in k.timers : now < u => Alarm(u, kbd', stack', wake', now')
<1> DEFINE r == Tail(stack)
           p == <<Taken>> \o r
           s == <<g>> \o p
<1>1. Taken \in Frame /\ r \in Seq(Frame)
  BY UpcomingOK
<1>2. /\ Taken.kind # "chord" /\ Taken.at <= now /\ Past(Taken.events, now)
      /\ r = <<>> => Taken.events = <<>>
      /\ r # <<>> => Rests(r, now)
  BY EventRests
<1>3. kbd' = k /\ stack' = s /\ wake' = wake /\ now' = now
  <2>1. stack' = <<g>> \o <<Taken>> \o r
    BY DEF Call
  <2>2. <<g>> \o <<Taken>> \o r = s
    <3> HIDE DEF r
    <3> QED BY <1>1
  <2> QED BY <2>1, <2>2 DEF Call
<1>4. /\ p \in Seq(Frame) /\ p # <<>> /\ s \in Seq(Frame) /\ s # <<>> /\ Len(s) # 1
  <2> HIDE DEF r
  <2> QED BY <1>1
<1> HIDE DEF r
<1>5. Rests(p, now)
  BY <1>1, <1>2, RestsPush
<1> HIDE DEF p
<1>6. Rests(s, now)
  BY <1>4, <1>5, RestsPush
<1> HIDE DEF s
<1>7. ~Fresh(s, now)
  BY <1>4, <1>6, NotFresh
<1> QED BY <1>3, <1>4, <1>6, <1>7 DEF Alarm

\* ... a frame that returns, ...
LEMMA ReturnAlarm ==
  ASSUME TypeInv, Rests(stack, now), Return
  PROVE  /\ Rests(stack', now') /\ kbd'.chord = kbd.chord /\ kbd'.config = kbd.config
         /\ kbd'.overload = kbd.overload /\ kbd'.timeout = kbd.timeout
         /\ kbd'.aborted = kbd.aborted
         /\ \A u \in Nat : Alarm(u, kbd, stack, wake, now) => Alarm(u, kbd', stack', wake', now')
<1> DEFINE r == Tail(stack)
           caller == stack[2]
           t == caller.at
           f == [caller EXCEPT !.timer = Deadline(kbd, t)]
           s == <<f>> \o Tail(r)
<1>1. /\ stack \in Seq(Frame) /\ stack # <<>> /\ Top.events = <<>> /\ r \in Seq(Frame)
      /\ kbd \in Keyboard /\ Head(stack) = Top /\ now \in Nat /\ kbd.timers \in SUBSET Nat
  BY DEF TypeInv, TypeOK, Return, Top, Keyboard
<1>2. Top.kind # "chord" /\ Rests(r, now)
  BY <1>1, RestsPop
<1>3. ~Fresh(stack, now)
  BY <1>1, NotFresh
<1>4. wake \in Nat /\ now' = now
  BY DEF Return, TypeInv, TypeOK
<1>5. CASE Len(stack) = 1
  <2>1. kbd' = kbd /\ stack' = <<>> /\ wake' = Top.timer
    BY <1>2, <1>5 DEF Return
  <2>2. Rests(<<>>, now) /\ ~Fresh(<<>>, now)
    <3>1. DOMAIN <<>> = {} /\ Len(<<>>) = 0
      OBVIOUS
    <3> QED BY <3>1 DEF Rests, Fresh
  <2>3. ASSUME NEW u \in Nat, Alarm(u, kbd, stack, wake, now)
        PROVE  Alarm(u, kbd, <<>>, Top.timer, now)
    <3>1. u \in kbd.timers /\ now < u /\ Top.timer # 0 /\ Top.timer <= u
      BY <1>1, <1>3, <1>5, <2>3 DEF Alarm
    <3>2. Len(<<>>) # 1
      OBVIOUS
    <3> QED BY <2>2, <3>1, <3>2 DEF Alarm
  <2> QED BY <1>4, <2>1, <2>2, <2>3
<1>6. CASE Len(stack) # 1
  <2>1. r # <<>> /\ Head(r) = caller /\ caller \in Frame /\ Tail(r) \in Seq(Frame)
    <3>1. Len(r) = Len(stack) - 1 /\ Len(stack) \in Nat \ {0}
      BY <1>1
    <3>2. r # <<>>
      <4>1. Len(r) # 0
        BY <1>6, <3>1
      <4> HIDE DEF r
      <4> QED BY <4>1
    <3>3. /\ Head(r) = r[1] /\ Head(r) \in Frame /\ Tail(r) \in Seq(Frame)
          /\ 1 \in 1 .. Len(stack) - 1
      <4>1. 1 \in 1 .. Len(stack) - 1
        BY <1>6, <3>1
      <4> QED BY <1>1, <3>2, <4>1, ListFacts, Zenon
    <3>4. \A i \in 1 .. Len(stack) - 1 : r[i] = stack[i + 1]
      BY <1>1, ListFacts, Zenon
    <3> QED BY <3>2, <3>3, <3>4
  <2>2. /\ caller.kind # "chord" /\ caller.at <= now /\ Past(caller.events, now)
        /\ Tail(r) = <<>> => caller.events = <<>>
        /\ Rests(Tail(r), now)
    BY <1>1, <1>2, <2>1, RestsPop
  <2>3. /\ kbd' = [kbd EXCEPT !.timers = Later(kbd, t)] /\ stack' = s /\ wake' = wake
    BY <1>2, <1>6, <2>2 DEF Return
  <2>4. t \in Nat /\ t <= now
    BY <2>1, <2>2 DEF Frame
  <2>5. Deadline(kbd, t) \in Nat /\ Later(kbd, t) \in SUBSET Nat
    BY <1>1, <2>4, DeadlineType
  <2>6. /\ f \in Frame /\ f.events = caller.events /\ f.kind = caller.kind /\ f.at = caller.at
        /\ f.timer = Deadline(kbd, t)
    BY <2>1, <2>5 DEF Frame
  <2>7. /\ kbd'.chord = kbd.chord /\ kbd'.config = kbd.config
        /\ kbd'.overload = kbd.overload /\ kbd'.timeout = kbd.timeout
        /\ kbd'.aborted = kbd.aborted /\ kbd'.timers = Later(kbd, t)
    BY <1>1, <2>3 DEF Keyboard
  <2> HIDE DEF f, r, t
  <2>8. s \in Seq(Frame) /\ s # <<>> /\ Head(s) = f
    BY <2>1, <2>6
  <2>9. Rests(s, now)
    <3> HIDE DEF caller
    <3> QED BY <2>1, <2>2, <2>6, RestsPush
  <2> HIDE DEF s
  <2>10. ~Fresh(s, now)
    BY <2>8, <2>9, NotFresh
  <2>11. ASSUME NEW u \in Nat, Alarm(u, kbd, stack, wake, now)
         PROVE  Alarm(u, kbd', s, wake, now)
    <3>1. u \in kbd.timers /\ now < u
      BY <1>3, <2>11 DEF Alarm
    <3>2. t < u
      BY <1>1, <2>4, <3>1
    <3>3. u \in Later(kbd, t) /\ Deadline(kbd, t) # 0 /\ Deadline(kbd, t) <= u
      BY <1>1, <2>4, <3>1, <3>2, HeldDeadline
    <3> QED BY <2>6, <2>7, <2>8, <2>10, <3>1, <3>3 DEF Alarm
  <2> QED BY <1>4, <2>3, <2>7, <2>9, <2>11
<1> QED BY <1>5, <1>6

\* ... and the event loop.
LEMMA DispatchAlarm ==
  ASSUME TypeInv, stack = <<>>, NEW e \in Event, Dispatch(e), kbd' = kbd, now <= e.at,
         e.code # NoCode /\ wake # 0 => e.at < wake,
         e.code = NoCode => e.at <= now + Late \/ e.at <= wake + Late
  PROVE  /\ Fresh(stack', now')
         /\ \A u \in Nat : Alarm(u, kbd, stack, wake, now) => Alarm(u, kbd', stack', wake', now')
<1> DEFINE f == CallFrame("loop", <<e>>)
<1>1. f.events = <<e>> /\ f.kind = "loop" /\ f.timer = 0 /\ stack' = <<f>> /\ now' = e.at
  BY DEF CallFrame, Dispatch
<1> HIDE DEF f
<1>2. Head(<<f>>) = f /\ Len(<<f>>) = 1 /\ <<f>> # <<>>
  OBVIOUS
<1>3. Head(<<e>>) = e /\ Len(<<e>>) = 1 /\ <<e>> # <<>> /\ <<e>>[1] = e
  OBVIOUS
<1>4. Fresh(stack', now')
  BY <1>1, <1>2, <1>3 DEF Fresh, Pristine
<1>5. Rung(stack') <=> e.code = NoCode
  BY <1>1, <1>2, <1>3 DEF Rung
<1>6. ~Fresh(<<>>, now)
  <2>1. Len(<<>>) # 1
    OBVIOUS
  <2> QED BY <2>1 DEF Fresh
<1>7. now \in Nat /\ wake \in Nat /\ e.at \in Nat /\ Late \in Nat
  BY BoundAssumption DEF TypeInv, TypeOK, Event
<1>8. ASSUME NEW u \in Nat, Alarm(u, kbd, stack, wake, now)
      PROVE  Alarm(u, kbd, stack', wake', now')
  <2>1. u \in kbd.timers /\ now < u /\ wake # 0 /\ wake <= u
    BY <1>6, <1>8 DEF Alarm
  <2>2. now' <= u + Late /\ (~Rung(stack') => now' < u)
    BY <1>1, <1>5, <1>7, <2>1
  <2> QED BY <1>4, <2>1, <2>2 DEF Alarm
<1> QED BY <1>4, <1>8

-----------------------------------------------------------------------------
(* What a handler does to what is undecided.                               *)

\* A timed key that an event does not decide is the one that was pending.
LEMMA DecidedTimeout ==
  ASSUME NEW k, KeyboardOK(k), Paid(k), NEW e \in Event, NEW j, j = DecideTimeout(k, e)
  PROVE  j.timeout.code # NoCode => j.timeout = k.timeout /\ ~DecidesTimeout(k, e)
<1> DEFINE p == k.timeout
           action == IF e.at >= p.expiration THEN p.action2 ELSE p.action1
           decided == [k EXCEPT !.timeout = NoTimeout]
<1>1. k \in Keyboard
  BY DEF KeyboardOK
<1>2. CASE ~DecidesTimeout(k, e)
  BY <1>2 DEF DecideTimeout
<1>3. CASE DecidesTimeout(k, e)
  <2>1. p.code \in Codes /\ action \in Descriptor /\ e.at \in Nat /\ action.op # "timeout"
    BY <1>1, <1>3 DEF DecidesTimeout, Keyboard, PendingTimeout, Codes, Event, Paid, TimersCached, Plain
  <2>2. /\ KeyboardOK(decided) /\ decided.timeout = NoTimeout
    <3>1. NoTimeout \in PendingTimeout
      BY FreeType DEF NoTimeout, PendingTimeout
    <3>2. /\ decided \in Keyboard /\ decided.active = k.active /\ decided.recent = k.recent
          /\ decided.timeout = NoTimeout
      BY <1>1, <3>1 DEF Keyboard
    <3> QED BY <3>2, OtherFieldsOK
  <2>3. j = IF p.spontaneous THEN Release(Press(decided, p.code, action, e.at), action, e.at)
            ELSE Press(CacheSet(decided, p.code, action), p.code, action, e.at)
    BY <1>3, Zenon DEF DecideTimeout
  <2>4. /\ NoTimeout.code = NoCode /\ [NoTimeout EXCEPT !.spontaneous = TRUE].code = NoCode
    BY DEF NoTimeout
  <2> HIDE DEF action, decided
  <2>5. CASE p.spontaneous
    <3> DEFINE i == Press(decided, p.code, action, e.at)
    <3>1. KeyboardOK(i)
      BY <2>1, <2>2, PressOK
    <3>2. j = Release(i, action, e.at) /\ i = Press(decided, p.code, action, e.at)
      BY <2>3, <2>5
    <3> HIDE DEF i
    <3>3. Struck(decided, p.code, action, i)
      BY <2>1, <2>2, <3>2, PressFields DEF KeyboardOK
    <3>4. Lifted(i, action, e.at, j)
      BY <2>1, <3>1, <3>2, ReleaseFields DEF KeyboardOK
    <3>5. /\ i.timeout = NoTimeout
          /\ j.timeout \in {i.timeout, [i.timeout EXCEPT !.spontaneous = TRUE]}
      BY <2>1, <2>2, <3>3, <3>4 DEF Struck, Lifted
    <3> QED BY <2>4, <3>5
  <2>6. CASE ~p.spontaneous
    <3> DEFINE i == CacheSet(decided, p.code, action)
    <3>1. j = Press(i, p.code, action, e.at) /\ i = CacheSet(decided, p.code, action)
      BY <2>3, <2>6
    <3>2. i \in Keyboard /\ i.timeout = NoTimeout
      <4>1. i.timeout = decided.timeout
        BY <2>2 DEF CacheSet, KeyboardOK, Keyboard
      <4> QED BY <2>1, <2>2, <4>1, CacheSetOK DEF KeyboardOK
    <3> HIDE DEF i
    <3>3. Struck(i, p.code, action, j)
      BY <2>1, <3>1, <3>2, PressFields
    <3> QED BY <2>1, <2>4, <3>2, <3>3 DEF Struck
  <2> QED BY <2>5, <2>6
<1> QED BY <1>2, <1>3

\* The deadline of a key that is struck and has to wait.
LEMMA PressTimes ==
  ASSUME NEW k \in Keyboard, NEW c, NEW d \in Descriptor, NEW t, NEW j, j = Press(k, c, d, t)
  PROVE  /\ d.op = "timeout" => j.timeout.expiration = t + d.span /\ t + d.span \in j.timers
         /\ Overloading(d) => /\ j.overload.expiration = t + d.span /\ t + d.span \in j.timers
                              /\ j.overload.queue = k.overload.queue
<1>1. CASE d.op = "timeout"
  <2> DEFINE p == [code |-> c, spontaneous |-> FALSE, expiration |-> t + d.span,
                   activation |-> t, action1 |-> Descriptors[d.act],
                   action2 |-> Descriptors[d.alt]]
  <2>1. j = Schedule([k EXCEPT !.timeout = p], t + d.span)
    BY <1>1 DEF Press
  <2>2. p.expiration = t + d.span
    OBVIOUS
  <2> HIDE DEF p
  <2> QED BY <1>1, <2>1, <2>2 DEF Schedule, Keyboard, Overloading
<1>2. CASE Overloading(d)
  <2> DEFINE p == [code |-> c, expiration |-> t + d.span,
                   interrupt |-> d.op = "overloadt2", queue |-> k.overload.queue,
                   action |-> Descriptors[d.act], layer |-> d.layer]
  <2>1. j = Schedule([k EXCEPT !.overload = p], t + d.span)
    BY <1>2 DEF Press, Keyboard, Overloading
  <2>2. p.expiration = t + d.span /\ p.queue = k.overload.queue
    OBVIOUS
  <2> HIDE DEF p
  <2> QED BY <1>2, <2>1, <2>2 DEF Schedule, Keyboard, Overloading
<1> QED BY <1>1, <1>2

\* A key starts to wait only as what it is in the keymap.
LEMMA StrikeTimes ==
  ASSUME NEW k, KeyboardOK(k), NEW e \in Event,
         e.code \in Slot => k.slots[e.code].chord \in Chord,
         NEW d, d = Lookup(k, e.code), NEW j, j = Strike(k, e)
  PROVE  /\ k.timers \subseteq j.timers
         /\ \/ j.overload = k.overload
            \/ /\ e.pressed /\ e.code # NoCode /\ Deferring(d)
               /\ j.overload.expiration = e.at + d.span /\ e.at + d.span \in j.timers
               /\ j.overload.queue = k.overload.queue
         /\ \/ j.timeout.code = k.timeout.code /\ j.timeout.expiration = k.timeout.expiration
            \/ /\ e.code # NoCode /\ Deferring(d)
               /\ j.timeout.expiration = e.at + d.span /\ e.at + d.span \in j.timers
<1>1. k \in Keyboard /\ e.code \in Codes \cup {NoCode}
  BY DEF KeyboardOK, Event, Codes
<1>2. CASE e.code # NoCode /\ e.pressed /\ ~Cached(k, e.code)
  <2> DEFINE i == CacheSet(k, e.code, d)
  <2>1. e.code \in Codes /\ d \in Descriptor
    BY <1>1, <1>2, LookupType
  <2>3. i.timers = k.timers
    BY <1>1 DEF CacheSet, Keyboard
  <2>4. j = Press(i, e.code, d, e.at) /\ i = CacheSet(k, e.code, d)
    BY <1>2 DEF Strike
  <2>2. /\ i \in Keyboard /\ i.timeout = k.timeout /\ i.overload = k.overload
    <3>1. i.timeout = k.timeout /\ i.overload = k.overload
      BY <1>1 DEF CacheSet, Keyboard
    <3> QED BY <2>1, <3>1, CacheSetOK DEF KeyboardOK
  <2> HIDE DEF i
  <2>5. Struck(i, e.code, d, j) /\ i.timers \subseteq j.timers
    BY <2>1, <2>2, <2>4, PressFields, PressTimers
  <2>6. /\ d.op = "timeout" => j.timeout.expiration = e.at + d.span /\ e.at + d.span \in j.timers
        /\ Overloading(d) => /\ j.overload.expiration = e.at + d.span /\ e.at + d.span \in j.timers
                             /\ j.overload.queue = i.overload.queue
    BY <2>1, <2>2, <2>4, PressTimes
  <2> QED BY <1>2, <2>2, <2>3, <2>5, <2>6 DEF Struck, Overloading, Deferring
<1>3. CASE e.code # NoCode /\ ~e.pressed /\ Cached(k, e.code)
  <2> DEFINE i == CacheSet(k, e.code, Free)
             x == k.cache[e.code]
  <2>1. e.code \in Codes /\ x \in Descriptor
    BY <1>1, <1>3 DEF Keyboard, Codes
  <2>3. i.timers = k.timers
    BY <1>1 DEF CacheSet, Keyboard
  <2>4. j = Release(i, x, e.at) /\ i = CacheSet(k, e.code, Free)
    BY <1>3 DEF Strike
  <2>2. /\ i \in Keyboard /\ i.timeout = k.timeout /\ i.overload = k.overload
    <3>1. i.timeout = k.timeout /\ i.overload = k.overload
      BY <1>1 DEF CacheSet, Keyboard
    <3> QED BY <2>1, <3>1, FreeType, CacheSetOK DEF KeyboardOK
  <2> HIDE DEF i, x
  <2>5. Lifted(i, x, e.at, j) /\ j.timers = i.timers
    BY <2>1, <2>2, <2>4, ReleaseFields, ReleaseTimers
  <2>6. i.timeout \in PendingTimeout
    BY <2>2 DEF Keyboard
  <2>7. j.timeout.code = i.timeout.code /\ j.timeout.expiration = i.timeout.expiration
    BY <2>5, <2>6 DEF Lifted, PendingTimeout
  <2> QED BY <2>2, <2>3, <2>5, <2>7 DEF Lifted
<1>4. CASE j = k
  BY <1>4
<1> QED BY <1>2, <1>3, <1>4 DEF Strike

LEMMA LookupSpans ==
  ASSUME NEW k, KeyboardOK(k), NEW c \in Code, Deferring(Lookup(k, c))
  PROVE  Lookup(k, c).span \in Spans(k.config)
<1> DEFINE binding == {l \in Layer : k.active[l] > 0 /\ k.config.keymap[l][c].op # "none"}
<1>1. c \notin Slot
  BY CodeAssumption
<1>2. binding # {}
  <2>1. SUFFICES ASSUME binding = {} PROVE FALSE
    OBVIOUS
  <2>2. Lookup(k, c) = [Free EXCEPT !.op = "key", !.key = SelfKey[c]]
    BY <1>1, <2>1 DEF Lookup
  <2>3. Lookup(k, c).op = "key"
    BY <2>2, FreeType DEF Descriptor
  <2> QED BY <2>3 DEF Deferring
<1>3. Latest(k, binding) \in binding
  BY <1>2, LatestIsMember DEF KeyboardOK
<1>4. Lookup(k, c) = k.config.keymap[Latest(k, binding)][c]
  BY <1>1, <1>2 DEF Lookup
<1>5. PICK l \in Layer : Lookup(k, c) = k.config.keymap[l][c]
  BY <1>3, <1>4
<1>6. k.config \in Config
  BY ConfigAssumption DEF KeyboardOK, Keyboard
<1>7. Lookup(k, c).span \in Nat
  BY <1>5, <1>6 DEF Config, Descriptor
<1> QED BY <1>5, <1>7 DEF Spans

-----------------------------------------------------------------------------
(* Keymaps without chords.                                                 *)

Lasts(V, q, t) == \A i \in 1 .. Len(q) : \A v \in V : t < q[i].at + v

\* What the frames have still to deliver is not due, had it to wait.
Enduring(V, s, t) == \A n \in DOMAIN s : Lasts(V, s[n].events, t)

\* The events behind an overloaded key, and after these those of the frames, were struck
\* after it, up to b.
Lined(k, s, t, b) ==
  \E a \in Nat, c \in Nat :
    /\ k.overload.code # NoCode => \E v \in Spans(k.config) : k.overload.expiration = a + v
    /\ Apart(k.overload.queue, a, c) /\ Strung(IF Fresh(s, t) /\ Rung(s) THEN <<>> ELSE s, c, b)

Steady(k, s, w, t, b) ==
  /\ Fresh(s, t) \/ Rests(s, t)
  /\ Past(k.overload.queue, t)
  /\ Lined(k, s, t, b)
  /\ Enduring(Spans(k.config), s, t)
  /\ k.overload.code # NoCode => Alarm(k.overload.expiration, k, s, w, t)
  /\ k.timeout.code # NoCode => Alarm(k.timeout.expiration, k, s, w, t)

LEMMA ApartWiden ==
  ASSUME NEW q \in Seq(Event), NEW a \in Nat, NEW b \in Nat, NEW c \in Nat, Apart(q, a, b), b <= c
  PROVE  Apart(q, a, c)
<1> DEFINE n == Len(q)
<1>1. \A i \in 1 .. n : q[i].at \in Nat
  <2>1. \A i \in 1 .. n : q[i] \in Event
    OBVIOUS
  <2> QED BY <2>1 DEF Event
<1>2. /\ a <= b
      /\ \A i \in 1 .. n : /\ q[i].code \in Code /\ a + Gap <= q[i].at /\ q[i].at <= b
                           /\ \A j \in 1 .. n : i < j => q[i].at + Gap <= q[j].at
  BY DEF Apart
<1> HIDE DEF n
<1>3. a <= c /\ \A i \in 1 .. n : q[i].at <= c
  BY <1>1, <1>2
<1> QED BY <1>2, <1>3 DEF Apart, n

\* A queue that has come after overload starts to wait.
LEMMA ApartLasts ==
  ASSUME NEW q \in Seq(Event), NEW a \in Nat, NEW b, Apart(q, a, b), NEW V \in SUBSET Nat,
         NEW v \in V, NEW t \in Nat, t <= (a + v) + Late,
         \A x, y \in V : 0 < x /\ x + Late < y + Gap
  PROVE  Lasts(V, q, t)
<1>1. \A i \in 1 .. Len(q) : q[i].at \in Nat
  <2>1. \A i \in 1 .. Len(q) : q[i] \in Event
    OBVIOUS
  <2> QED BY <2>1 DEF Event
<1>2. ASSUME NEW i \in 1 .. Len(q), NEW y \in V
      PROVE  t < q[i].at + y
  <2>1. a + Gap <= q[i].at /\ q[i].at \in Nat
    BY <1>1 DEF Apart
  <2>2. v + Late < y + Gap /\ v \in Nat /\ y \in Nat /\ Late \in Nat /\ Gap \in Nat
    BY BoundAssumption
  <2> QED BY <2>1, <2>2
<1> QED BY <1>2 DEF Lasts

LEMMA LastsTail ==
  ASSUME NEW q \in Seq(Event), q # <<>>, NEW V, NEW t, Lasts(V, q, t)
  PROVE  Lasts(V, Tail(q), t) /\ \A v \in V : t < Head(q).at + v
<1> DEFINE n == Len(q)
           r == Tail(q)
<1>1. /\ n \in Nat \ {0} /\ Head(q) = q[1] /\ Len(r) = n - 1 /\ \A i \in 1 .. n - 1 : r[i] = q[i + 1]
  <2>1. Len(r) = n - 1
    OBVIOUS
  <2> HIDE DEF r
  <2> QED BY <2>1, ListFacts, Zenon DEF r
<1> HIDE DEF n, r
<1>2. 1 \in 1 .. n /\ \A i \in 1 .. n - 1 : i + 1 \in 1 .. n
  BY <1>1
<1> QED BY <1>1, <1>2 DEF Lasts, n, r

LEMMA EnduringPush ==
  ASSUME NEW f \in Frame, NEW s \in Seq(Frame), NEW V, NEW t, Lasts(V, f.events, t), Enduring(V, s, t)
  PROVE  Enduring(V, <<f>> \o s, t)
<1> DEFINE r == <<f>> \o s
           n == Len(s)
<1>1. /\ n \in Nat /\ r[1] = f /\ DOMAIN r = 1 .. n + 1 /\ DOMAIN s = 1 .. n
      /\ \A i \in 2 .. n + 1 : r[i] = s[i - 1]
  OBVIOUS
<1> HIDE DEF r, n
<1>2. ASSUME NEW i \in 1 .. n + 1 PROVE Lasts(V, r[i].events, t)
  <2>1. CASE i = 1
    BY <1>1, <2>1
  <2>2. CASE i # 1
    <3>1. i - 1 \in 1 .. n /\ i \in 2 .. n + 1
      BY <1>1, <2>2
    <3> QED BY <1>1, <3>1 DEF Enduring
  <2> QED BY <2>1, <2>2
<1> QED BY <1>1, <1>2 DEF Enduring, r

LEMMA EnduringPop ==
  ASSUME NEW s \in Seq(Frame), s # <<>>, NEW V, NEW t, Enduring(V, s, t)
  PROVE  Lasts(V, Head(s).events, t) /\ Enduring(V, Tail(s), t)
<1> DEFINE r == Tail(s)
           n == Len(s)
<1>1. /\ n \in Nat \ {0} /\ Head(s) = s[1] /\ DOMAIN s = 1 .. n /\ DOMAIN r = 1 .. n - 1
      /\ \A i \in 1 .. n - 1 : r[i] = s[i + 1]
  BY ListFacts, Zenon
<1> HIDE DEF r, n
<1>2. 1 \in 1 .. n /\ \A i \in 1 .. n - 1 : i + 1 \in 1 .. n
  BY <1>1
<1> QED BY <1>1, <1>2 DEF Enduring, r

LEMMA NotRung ==
  ASSUME NEW s \in Seq(Frame), NEW a \in Nat, NEW b, Strung(s, a, b)
  PROVE  ~Rung(s)
<1>1. SUFFICES ASSUME s # <<>>, Head(s).events # <<>>, Head(Head(s).events).code = NoCode
               PROVE  FALSE
  BY DEF Rung
<1>2. PICK c \in Nat : Apart(Head(s).events, a, c)
  BY <1>1, StrungTail
<1>3. Head(s).events \in Seq(Event)
  <2>1. Head(s) \in Frame
    BY <1>1, ListFacts, Zenon
  <2> QED BY <2>1 DEF Frame
<1>4. Head(Head(s).events).code \in Code
  BY <1>1, <1>2, <1>3, ApartTail
<1> QED BY <1>1, <1>4, CodeAssumption

\* What the event that is processed comes after, and what comes after it.
Following(u) == \E m \in Nat : Apart(Taken.events, u, m) /\ Strung(Tail(stack), m, struck)

LEMMA EventLined ==
  ASSUME Processing, Fresh(stack, now) \/ Rests(stack, now), NEW c \in Nat,
         Strung(IF Fresh(stack, now) /\ Rung(stack) THEN <<>> ELSE stack, c, struck)
  PROVE  \E u \in Nat : /\ c <= u /\ Following(u)
                        /\ Upcoming.code # NoCode =>
                             Upcoming.code \in Code /\ c + Gap <= Upcoming.at /\ u = Upcoming.at
<1>1. /\ Top \in Frame /\ stack \in Seq(Frame) /\ stack # <<>> /\ Top.events # <<>>
      /\ Top = Head(stack)
  BY UpcomingOK DEF Processing, TypeInv, TypeOK, Top
<1>2. Top.events \in Seq(Event)
  BY <1>1 DEF Frame
<1>3. CASE Fresh(stack, now) /\ Rung(stack)
  <2>1. Strung(<<>>, c, struck)
    BY <1>3
  <2>2. Upcoming.code = NoCode /\ Taken.events = <<>> /\ Tail(stack) = <<>>
    BY <1>3, EventRests
  <2>3. Apart(Taken.events, c, c) /\ Strung(Tail(stack), c, struck)
    <3>1. Apart(<<>>, c, c)
      BY ApartEmpty
    <3> QED BY <2>1, <2>2, <3>1, Zenon
  <2>4. Following(c)
    BY <2>3 DEF Following
  <2> QED BY <2>2, <2>4
<1>4. CASE ~(Fresh(stack, now) /\ Rung(stack))
  <2>1. PICK m \in Nat : Apart(Top.events, c, m) /\ Strung(Tail(stack), m, struck)
    BY <1>1, <1>4, StrungTail
  <2>2. CASE TimeoutDue(Top)
    <3>1. Upcoming = [code |-> NoCode, pressed |-> FALSE, at |-> Top.timer] /\ Taken.events = Top.events
      BY <1>1, <2>2 DEF Upcoming, Taken, Frame
    <3>2. Following(c) /\ Upcoming.code = NoCode
      BY <2>1, <3>1 DEF Following
    <3> QED BY <3>2
  <2>3. CASE ~TimeoutDue(Top)
    <3>1. Upcoming = Head(Top.events) /\ Taken.events = Tail(Top.events)
      BY <1>1, <2>3 DEF Upcoming, Taken, Frame
    <3>2. /\ Upcoming.code \in Code /\ Upcoming.at \in Nat /\ c + Gap <= Upcoming.at
          /\ Apart(Taken.events, Upcoming.at, m)
      BY <1>1, <1>2, <2>1, <3>1, ApartTail
    <3>3. c <= Upcoming.at
      BY <3>2, BoundAssumption
    <3> QED BY <2>1, <3>2, <3>3 DEF Following
  <2> QED BY <2>2, <2>3
<1> QED BY <1>3, <1>4

LEMMA PastAppend ==
  ASSUME NEW q \in Seq(Event), NEW e \in Event, NEW t \in Nat, Past(q, t), e.at <= t
  PROVE  Past(Append(q, e), t)
<1>1. \A i \in DOMAIN Append(q, e) : (i \in DOMAIN q /\ Append(q, e)[i] = q[i]) \/ Append(q, e)[i] = e
  OBVIOUS
<1> QED BY <1>1 DEF Past

LEMMA PastLater ==
  ASSUME NEW q \in Seq(Event), NEW t \in Nat, NEW u \in Nat, Past(q, t), t <= u
  PROVE  Past(q, u)
<1>1. \A i \in DOMAIN q : q[i].at \in Nat
  <2>1. \A i \in DOMAIN q : q[i] \in Event
    OBVIOUS
  <2> QED BY <2>1 DEF Event
<1> QED BY <1>1 DEF Past

\* What is still undecided when an event does not decide it is not due yet.
LEMMA EventAlarm ==
  ASSUME Processing, Fresh(stack, now) \/ Rests(stack, now), NEW u \in Nat,
         Alarm(u, kbd, stack, wake, now)
  PROVE  /\ u \in kbd.timers /\ now <= u + Late
         /\ Upcoming.code # NoCode \/ Upcoming.at < u => now < u
<1>1. now \in Nat /\ Late \in Nat
  BY BoundAssumption DEF Processing, TypeInv, TypeOK
<1>2. CASE Fresh(stack, now)
  <2>1. Upcoming.at = now /\ (Rung(stack) <=> Upcoming.code = NoCode)
    BY <1>2, EventRests
  <2> QED BY <1>2, <2>1 DEF Alarm
<1>3. CASE ~Fresh(stack, now)
  BY <1>1, <1>3 DEF Alarm
<1> QED BY <1>2, <1>3

LEMMA EventLasts ==
  ASSUME Processing, NEW V, Enduring(V, stack, now)
  PROVE  /\ Lasts(V, Taken.events, now) /\ Enduring(V, Tail(stack), now)
         /\ Upcoming.code # NoCode => \A v \in V : now < Upcoming.at + v
<1>1. /\ Top \in Frame /\ stack \in Seq(Frame) /\ stack # <<>> /\ Top.events # <<>>
      /\ Top = Head(stack)
  BY UpcomingOK DEF Processing, TypeInv, TypeOK, Top
<1>2. Top.events \in Seq(Event)
  BY <1>1 DEF Frame
<1>3. Lasts(V, Top.events, now) /\ Enduring(V, Tail(stack), now)
  BY <1>1, EnduringPop
<1>4. CASE TimeoutDue(Top)
  <2>1. Upcoming = [code |-> NoCode, pressed |-> FALSE, at |-> Top.timer] /\ Taken.events = Top.events
    BY <1>1, <1>4 DEF Upcoming, Taken, Frame
  <2>2. Upcoming.code = NoCode
    BY <2>1
  <2> QED BY <1>3, <2>1, <2>2
<1>5. CASE ~TimeoutDue(Top)
  <2>1. Upcoming = Head(Top.events) /\ Taken.events = Tail(Top.events)
    BY <1>1, <1>5 DEF Upcoming, Taken, Frame
  <2> QED BY <1>1, <1>2, <1>3, <2>1, LastsTail
<1> QED BY <1>4, <1>5

\* What is on the stack when a handler ends, ...
LEMMA ExitSteady ==
  ASSUME Processing, Fresh(stack, now) \/ Rests(stack, now), NEW k \in Keyboard, Exit(k),
         NEW a \in Nat, NEW c \in Nat, Apart(k.overload.queue, a, c), Following(c),
         k.overload.code # NoCode => /\ \E v \in Spans(k.config) : k.overload.expiration = a + v
                                     /\ k.overload.expiration \in k.timers
                                     /\ now < k.overload.expiration,
         k.timeout.code # NoCode => /\ k.timeout.expiration \in k.timers
                                    /\ now < k.timeout.expiration,
         Past(k.overload.queue, now), Enduring(Spans(k.config), stack, now)
  PROVE  Steady(kbd', stack', wake', now', struck')
<1> DEFINE f == [Taken EXCEPT !.timer = Deadline(k, Upcoming.at)]
           V == Spans(k.config)
           r == Tail(stack)
<1>1. /\ Rests(stack', now') /\ stack' # <<>>
      /\ \A u \in k.timers : now < u => Alarm(u, kbd', stack', wake', now')
  BY ExitAlarm
<1>2. stack' = <<f>> \o r /\ now' = now /\ struck' = struck
  BY DEF Exit
<1>3. /\ kbd'.overload = k.overload /\ kbd'.timeout = k.timeout /\ kbd'.config = k.config
  BY DEF Exit, Keyboard
<1>4. Taken \in Frame /\ Upcoming.at \in Nat /\ k.timers \in SUBSET Nat /\ r \in Seq(Frame)
  BY UpcomingOK DEF Event, Keyboard
<1>5. Deadline(k, Upcoming.at) \in Nat
  BY <1>4, DeadlineType
<1>6. f \in Frame /\ f.events = Taken.events
  BY <1>4, <1>5 DEF Frame
<1> HIDE DEF f
<1>7. Lasts(V, Taken.events, now) /\ Enduring(V, r, now)
  BY EventLasts
<1>8. PICK m \in Nat : Apart(Taken.events, c, m) /\ Strung(r, m, struck)
  BY DEF Following
<1> HIDE DEF V, r
<1>9. Strung(stack', c, struck') /\ Enduring(V, stack', now')
  BY <1>2, <1>4, <1>6, <1>7, <1>8, StrungPush, EnduringPush
<1>10. stack' \in Seq(Frame)
  BY <1>2, <1>4, <1>6
<1> DEFINE s == stack'
           t == now'
<1>11. Rests(s, t) /\ s \in Seq(Frame)
  BY <1>1, <1>10
<1> HIDE DEF s, t
<1>12. ~Fresh(s, t)
  BY <1>11, NotFresh
<1>13. Lined(kbd', stack', now', struck')
  BY <1>3, <1>9, <1>12 DEF Lined, s, t
<1> QED BY <1>1, <1>2, <1>3, <1>9, <1>13 DEF Steady, V

\* ... and when it replays what waited behind an overloaded key.
LEMMA CallSteady ==
  ASSUME Processing, Fresh(stack, now) \/ Rests(stack, now), NEW k \in Keyboard,
         NEW g \in Frame, g.kind # "chord", g.at <= now, Past(g.events, now), Call(k, <<g>>),
         NEW a \in Nat, NEW c \in Nat, Apart(g.events, a, c), Following(c),
         Lasts(Spans(k.config), g.events, now),
         k.overload = NoOverload,
         k.timeout.code # NoCode => /\ k.timeout.expiration \in k.timers
                                    /\ now < k.timeout.expiration,
         Enduring(Spans(k.config), stack, now)
  PROVE  Steady(kbd', stack', wake', now', struck')
<1> DEFINE V == Spans(k.config)
           r == Tail(stack)
           p == <<Taken>> \o r
<1>1. /\ Rests(stack', now')
      /\ \A u \in k.timers : now < u => Alarm(u, kbd', stack', wake', now')
  BY CallAlarm
<1>2. Taken \in Frame /\ r \in Seq(Frame)
  BY UpcomingOK
<1>3. Lasts(V, Taken.events, now) /\ Enduring(V, r, now)
  BY EventLasts
<1>4. PICK m \in Nat : Apart(Taken.events, c, m) /\ Strung(r, m, struck)
  BY DEF Following
<1>5. stack' = <<g>> \o p /\ kbd' = k /\ now' = now /\ struck' = struck
  <2>1. stack' = <<g>> \o <<Taken>> \o r
    BY DEF Call
  <2>2. <<g>> \o <<Taken>> \o r = <<g>> \o p
    <3> HIDE DEF r
    <3> QED BY <1>2
  <2> QED BY <2>1, <2>2 DEF Call
<1>6. p \in Seq(Frame)
  <2> HIDE DEF r
  <2> QED BY <1>2
<1> HIDE DEF V, r
<1>7. Strung(p, c, struck) /\ Enduring(V, p, now)
  BY <1>2, <1>3, <1>4, StrungPush, EnduringPush
<1> HIDE DEF p
<1>8. Strung(stack', a, struck') /\ Enduring(V, stack', now') /\ stack' \in Seq(Frame)
  <2>1. Lasts(V, g.events, now)
    BY DEF V
  <2>2. Strung(<<g>> \o p, a, struck) /\ Enduring(V, <<g>> \o p, now)
    BY <1>6, <1>7, <2>1, StrungPush, EnduringPush
  <2>3. <<g>> \o p \in Seq(Frame)
    BY <1>6
  <2> QED BY <1>5, <2>2, <2>3
<1> DEFINE s == stack'
           t == now'
<1>9. Rests(s, t) /\ s \in Seq(Frame)
  BY <1>1, <1>8
<1> HIDE DEF s, t
<1>10. ~Fresh(s, t)
  BY <1>9, NotFresh
<1>11. NoOverload.code = NoCode /\ NoOverload.queue = <<>>
  BY DEF NoOverload
<1>12. Apart(<<>>, a, a)
  BY ApartEmpty
<1>13. Lined(kbd', stack', now', struck')
  BY <1>5, <1>8, <1>10, <1>11, <1>12 DEF Lined, s, t
<1>14. Past(kbd'.overload.queue, now')
  <2>1. DOMAIN <<>> = {}
    OBVIOUS
  <2> QED BY <1>5, <1>11, <2>1 DEF Past
<1> QED BY <1>1, <1>5, <1>8, <1>11, <1>13, <1>14 DEF Steady, V

\* What is left undecided when an overloaded key is decided.
LEMMA DeferTimes ==
  ASSUME Processing, NEW k, Result(k), Paid(k), k.overload.code # NoCode, Defer(k, Upcoming)
  PROVE  LET o == Enqueue(k.overload, Upcoming)
         IN  \/ ~Decides(o, Upcoming) /\ Exit([k EXCEPT !.overload = o])
             \/ \E j \in Keyboard :
                  /\ Call(j, <<CallFrame("overload", o.queue)>>)
                  /\ j.overload = NoOverload /\ j.timeout = k.timeout /\ j.config = k.config
                  /\ k.timers \subseteq j.timers
<1> DEFINE e == Upcoming
           o == Enqueue(k.overload, e)
           action == Decision(o, e)
           none == [k EXCEPT !.overload = NoOverload]
           decided == CacheSet(none, o.code, action)
           j == Press(decided, o.code, action, e.at)
           frame == CallFrame("overload", o.queue)
<1>1. e \in Event /\ e.at \in Nat /\ k \in Keyboard /\ KeyboardOK(k)
  BY UpcomingOK DEF Event, Result, KeyboardOK
<1>2. o \in PendingOverload /\ o.code = k.overload.code /\ o.action = k.overload.action
  BY <1>1, EnqueueOK DEF Enqueue, Keyboard, PendingOverload
<1>3. \/ Call(j, <<frame>>)
      \/ ~Decides(o, e) /\ Exit([k EXCEPT !.overload = o])
  BY Zenon DEF Defer
<1> HIDE DEF o
<1>4. action \in Descriptor /\ Plain(action)
  <2>1. Plain(o.action)
    BY <1>2 DEF Paid, TimersCached
  <2>2. Plain(action)
    BY <2>1, FreeType DEF Decision, Plain
  <2> QED BY <1>1, <1>2, <2>2, DecisionType
<1> HIDE DEF action
<1>5. /\ none \in Keyboard /\ none.overload = NoOverload /\ none.config = k.config
      /\ none.timeout = k.timeout /\ none.timers = k.timers
      /\ none.active = k.active /\ none.recent = k.recent
  <2>1. NoOverload \in PendingOverload
    BY ConfigAssumption, FreeType DEF NoOverload, PendingOverload
  <2> QED BY <1>1, <2>1 DEF Keyboard
<1> HIDE DEF none
<1>6. KeyboardOK(none) /\ o.code \in Codes
  BY <1>1, <1>2, <1>5, OtherFieldsOK DEF Keyboard, PendingOverload, Codes
<1>7. KeyboardOK(decided) /\ decided.config = k.config
  BY <1>4, <1>5, <1>6, CacheSetOK DEF Kept
<1>8. decided.overload = NoOverload /\ decided.timeout = k.timeout /\ decided.timers = k.timers
  BY <1>5 DEF CacheSet, Keyboard
<1>9. decided \in Keyboard
  BY <1>7 DEF KeyboardOK
<1> HIDE DEF decided
<1>10. j = Press(decided, o.code, action, e.at)
  OBVIOUS
<1> HIDE DEF j
<1>11. Struck(decided, o.code, action, j) /\ decided.timers \subseteq j.timers
  BY <1>4, <1>6, <1>9, <1>10, PressFields, PressTimers, <1>1
<1>12. KeyboardOK(j) /\ j.config = decided.config
  BY <1>1, <1>4, <1>6, <1>7, <1>10, PressOK DEF Kept
<1>13. j.overload = NoOverload /\ j.timeout = k.timeout
  BY <1>4, <1>8, <1>11 DEF Struck, Plain
<1>14. j \in Keyboard
  BY <1>12 DEF KeyboardOK
<1> QED BY <1>3, <1>7, <1>8, <1>11, <1>12, <1>13, <1>14 DEF o

\* An event that has to wait goes behind those that do, or all of them are due to be
\* replayed: none was struck so long ago that its own time would have passed.
LEMMA DeferSteady ==
  ASSUME Even, Processing, Chordless(kbd.config), Steady(kbd, stack, wake, now, struck),
         NEW k, Result(k), Paid(k), k.overload = kbd.overload, k.config = kbd.config,
         kbd.timers \subseteq k.timers, k.overload.code # NoCode,
         k.timeout.code # NoCode => /\ k.timeout.expiration \in k.timers
                                    /\ now < k.timeout.expiration,
         Defer(k, Upcoming)
  PROVE  Steady(kbd', stack', wake', now', struck')
<1> DEFINE e == Upcoming
           q == k.overload.queue
           x == k.overload.expiration
           V == Spans(k.config)
           o == Enqueue(k.overload, e)
<1>1. /\ e \in Event /\ e.at \in Nat /\ k \in Keyboard /\ now \in Nat /\ q \in Seq(Event) /\ x \in Nat
      /\ k.overload \in PendingOverload /\ k.config \in Configs
  BY UpcomingOK DEF Event, Result, KeyboardOK, Keyboard, PendingOverload, Processing, TypeInv, TypeOK
<1>2. /\ Fresh(stack, now) \/ Rests(stack, now)
      /\ Past(q, now) /\ Enduring(V, stack, now)
      /\ Alarm(x, kbd, stack, wake, now)
  BY DEF Steady
<1>3. PICK a \in Nat, c \in Nat :
        /\ \E v \in V : x = a + v
        /\ Apart(q, a, c) /\ Strung(IF Fresh(stack, now) /\ Rung(stack) THEN <<>> ELSE stack, c, struck)
  BY DEF Steady, Lined
<1>4. PICK u \in Nat : /\ c <= u /\ Following(u)
                       /\ e.code # NoCode => e.code \in Code /\ c + Gap <= e.at /\ u = e.at
  BY <1>2, <1>3, EventLined
<1>5. x \in k.timers /\ now <= x + Late /\ (e.code # NoCode \/ e.at < x => now < x)
  BY <1>1, <1>2, EventAlarm
<1>6. /\ o.code = k.overload.code /\ o.expiration = x
      /\ e.code = NoCode => o.queue = q
      /\ e.code # NoCode => o.queue = Append(q, e)
  BY <1>1 DEF Enqueue, PendingOverload
<1>7. o \in PendingOverload /\ o.queue \in Seq(Event)
  BY <1>1, EnqueueOK DEF PendingOverload
<1>8. \/ ~Decides(o, e) /\ Exit([k EXCEPT !.overload = o])
      \/ \E j \in Keyboard :
           /\ Call(j, <<CallFrame("overload", o.queue)>>)
           /\ j.overload = NoOverload /\ j.timeout = k.timeout /\ j.config = k.config
           /\ k.timers \subseteq j.timers
  BY DeferTimes
<1>9. e.at <= now
  BY <1>2, EventRests
<1> HIDE DEF o
<1>10. Apart(o.queue, a, u) /\ Past(o.queue, now)
  <2>1. CASE e.code = NoCode
    BY <1>1, <1>2, <1>3, <1>4, <1>6, <2>1, ApartWiden
  <2>2. CASE e.code # NoCode
    BY <1>1, <1>2, <1>3, <1>4, <1>6, <1>9, <2>2, ApartAppend, PastAppend
  <2> QED BY <2>1, <2>2
<1>11. CASE ~Decides(o, e) /\ Exit([k EXCEPT !.overload = o])
  <2> DEFINE j == [k EXCEPT !.overload = o]
  <2>1. /\ j \in Keyboard /\ j.overload = o /\ j.timeout = k.timeout /\ j.timers = k.timers
        /\ j.config = k.config
    BY <1>1, <1>7 DEF Keyboard
  <2>2. e.at < x
    BY <1>1, <1>6, <1>11 DEF Decides
  <2>3. Exit(j)
    BY <1>11
  <2> HIDE DEF j
  <2>4. now < x
    BY <1>5, <2>2
  <2>5. j.overload.code # NoCode => /\ \E v \in Spans(j.config) : j.overload.expiration = a + v
                                    /\ j.overload.expiration \in j.timers
                                    /\ now < j.overload.expiration
    BY <1>3, <1>5, <1>6, <2>1, <2>4
  <2>6. Apart(j.overload.queue, a, u) /\ Past(j.overload.queue, now) /\ Enduring(Spans(j.config), stack, now)
    BY <1>2, <1>10, <2>1
  <2> QED BY <1>2, <1>4, <2>1, <2>3, <2>5, <2>6, ExitSteady
<1>12. ASSUME NEW j \in Keyboard, Call(j, <<CallFrame("overload", o.queue)>>), j.overload = NoOverload,
              j.timeout = k.timeout, j.config = k.config, k.timers \subseteq j.timers
       PROVE  Steady(kbd', stack', wake', now', struck')
  <2> DEFINE g == CallFrame("overload", o.queue)
  <2>1. g \in Frame /\ g.events = o.queue /\ g.kind = "overload" /\ g.at = 0
    BY <1>7 DEF CallFrame, Frame
  <2>2. Call(j, <<g>>)
    BY <1>12
  <2> HIDE DEF g
  <2>3. Lasts(V, o.queue, now)
    <3>1. PICK v \in V : x = a + v
      BY <1>3
    <3>2. V \in SUBSET Nat /\ \A y, z \in V : 0 < y /\ y + Late < z + Gap
      BY <1>1 DEF Even, Spans
    <3>3. now <= (a + v) + Late
      BY <1>5, <3>1
    <3> HIDE DEF V
    <3> QED BY <1>1, <1>7, <1>10, <3>1, <3>2, <3>3, ApartLasts
  <2>4. /\ g.at <= now /\ g.kind # "chord" /\ Past(g.events, now) /\ Apart(g.events, a, u)
        /\ Lasts(Spans(j.config), g.events, now) /\ Enduring(Spans(j.config), stack, now)
    BY <1>1, <1>2, <1>10, <1>12, <2>1, <2>3
  <2>5. j.timeout.code # NoCode => j.timeout.expiration \in j.timers /\ now < j.timeout.expiration
    BY <1>12
  <2> QED BY <1>2, <1>4, <1>12, <2>1, <2>2, <2>4, <2>5, CallSteady
<1> QED BY <1>8, <1>11, <1>12

\* An event that does not wait may be a key that starts to.
LEMMA StrikeSteady ==
  ASSUME Even, Processing, Chordless(kbd.config), Tidy(kbd), Steady(kbd, stack, wake, now, struck),
         NEW k, Result(k), k.overload = kbd.overload, k.config = kbd.config,
         kbd.timers \subseteq k.timers, ~Waits(k, Upcoming),
         k.timeout.code # NoCode => /\ k.timeout.expiration \in k.timers
                                    /\ now < k.timeout.expiration,
         Exit(Strike(k, Upcoming))
  PROVE  Steady(kbd', stack', wake', now', struck')
<1> DEFINE e == Upcoming
           q == k.overload.queue
           x == k.overload.expiration
           V == Spans(k.config)
           d == Lookup(k, e.code)
           j == Strike(k, e)
<1>1. /\ e \in Event /\ e.at \in Nat /\ k \in Keyboard /\ KeyboardOK(k) /\ now \in Nat
      /\ q \in Seq(Event) /\ x \in Nat /\ k.overload \in PendingOverload /\ k.config \in Configs
  BY UpcomingOK DEF Event, Result, KeyboardOK, Keyboard, PendingOverload, Processing, TypeInv, TypeOK
<1>2. /\ Fresh(stack, now) \/ Rests(stack, now)
      /\ Past(q, now) /\ Enduring(V, stack, now)
      /\ k.overload.code # NoCode => Alarm(x, kbd, stack, wake, now)
  BY DEF Steady
<1>3. PICK a \in Nat, c \in Nat :
        /\ k.overload.code # NoCode => \E v \in V : x = a + v
        /\ Apart(q, a, c) /\ Strung(IF Fresh(stack, now) /\ Rung(stack) THEN <<>> ELSE stack, c, struck)
  BY DEF Steady, Lined
<1>4. PICK u \in Nat : /\ c <= u /\ Following(u)
                       /\ e.code # NoCode => e.code \in Code /\ c + Gap <= e.at /\ u = e.at
  BY <1>2, <1>3, EventLined
<1>5. e.code \in Slot => k.slots[e.code].chord \in Chord
  <2>1. e.code \in Slot => kbd.slots[e.code].chord \in Chord
    BY UpcomingOK
  <2> QED BY <1>4, CodeAssumption
<1>6. KeyboardOK(j) /\ Kept(j, k)
  BY <1>1, <1>5, StrikeOK
<1>7. /\ k.timers \subseteq j.timers
      /\ \/ j.overload = k.overload
         \/ /\ e.pressed /\ e.code # NoCode /\ Deferring(d)
            /\ j.overload.expiration = e.at + d.span /\ e.at + d.span \in j.timers
            /\ j.overload.queue = k.overload.queue
      /\ \/ j.timeout.code = k.timeout.code /\ j.timeout.expiration = k.timeout.expiration
         \/ /\ e.code # NoCode /\ Deferring(d)
            /\ j.timeout.expiration = e.at + d.span /\ e.at + d.span \in j.timers
  BY <1>1, <1>5, StrikeTimes
<1>8. e.code # NoCode /\ Deferring(d) => d.span \in V
  BY <1>1, <1>4, LookupSpans
<1>9. e.code # NoCode => \A v \in V : now < e.at + v
  BY <1>2, EventLasts
<1>10. j \in Keyboard /\ j.config = k.config
  BY <1>6 DEF KeyboardOK, Kept
<1>11. Exit(j)
  OBVIOUS
<1> HIDE DEF j, d
<1>12. j.timeout.code # NoCode => j.timeout.expiration \in j.timers /\ now < j.timeout.expiration
  BY <1>7, <1>8, <1>9
<1>13. CASE j.overload = k.overload
  <2>1. k.overload.code # NoCode => e.code # NoCode
    BY DEF Waits
  <2>2. k.overload.code # NoCode => x \in k.timers /\ now < x
    BY <1>1, <1>2, <2>1, EventAlarm
  <2>3. Apart(q, a, u)
    BY <1>1, <1>3, <1>4, ApartWiden
  <2>4. j.overload.code # NoCode => /\ \E v \in Spans(j.config) : j.overload.expiration = a + v
                                    /\ j.overload.expiration \in j.timers
                                    /\ now < j.overload.expiration
    BY <1>3, <1>7, <1>10, <1>13, <2>2
  <2>5. Apart(j.overload.queue, a, u) /\ Past(j.overload.queue, now) /\ Enduring(Spans(j.config), stack, now)
    BY <1>2, <1>10, <1>13, <2>3
  <2> QED BY <1>2, <1>4, <1>10, <1>11, <1>12, <2>4, <2>5, ExitSteady
<1>14. CASE /\ e.pressed /\ e.code # NoCode /\ Deferring(d)
            /\ j.overload.expiration = e.at + d.span /\ e.at + d.span \in j.timers
            /\ j.overload.queue = k.overload.queue
  <2>1. k.overload.code = NoCode
    BY <1>14 DEF Waits
  <2>2. q = <<>>
    BY <2>1 DEF Tidy
  <2>3. d.span \in V /\ now < e.at + d.span
    BY <1>8, <1>9, <1>14
  <2>4. Following(e.at)
    BY <1>4, <1>14
  <2>5. Apart(j.overload.queue, e.at, e.at)
    <3>1. Apart(<<>>, e.at, e.at)
      BY <1>1, ApartEmpty
    <3> QED BY <1>14, <2>2, <3>1
  <2>6. j.overload.code # NoCode => /\ \E v \in Spans(j.config) : j.overload.expiration = e.at + v
                                    /\ j.overload.expiration \in j.timers
                                    /\ now < j.overload.expiration
    BY <1>10, <1>14, <2>3
  <2>7. Past(j.overload.queue, now) /\ Enduring(Spans(j.config), stack, now)
    BY <1>2, <1>10, <1>14
  <2> HIDE DEF e
  <2> QED BY <1>1, <1>2, <1>10, <1>11, <1>12, <2>4, <2>5, <2>6, <2>7, ExitSteady
<1> QED BY <1>7, <1>13, <1>14

LEMMA DeliverSteady ==
  ASSUME PlainActions, Even, Processing, Paid(kbd), Chordless(kbd.config), Tidy(kbd), Deliver(Upcoming),
         Steady(kbd, stack, wake, now, struck)
  PROVE  ~kbd'.aborted => Steady(kbd', stack', wake', now', struck')
<1> DEFINE e == Upcoming
           k == DecideTimeout(kbd, e)
           p == kbd.timeout
<1>1. e \in Event /\ e.at \in Nat /\ p.expiration \in Nat /\ p.code \in Code \cup Slot \cup {NoCode}
  BY UpcomingOK, CurrentOK DEF Event, Keyboard, PendingTimeout
<1>2. KeyboardOK(kbd) /\ kbd \in Keyboard
  BY CurrentOK DEF Result
<1>3. /\ KeyboardOK(k) /\ Kept(k, kbd) /\ Keeps(kbd, k) /\ Alike(kbd, k)
      /\ kbd.timers \subseteq k.timers
      /\ k.timeout.code # NoCode => k.timeout = p /\ ~DecidesTimeout(kbd, e)
  <2>1. k = DecideTimeout(kbd, e)
    OBVIOUS
  <2>2. kbd.timers \subseteq k.timers
    BY <1>1, <1>2, DecideTimers
  <2> HIDE DEF k
  <2>3. k.timeout.code # NoCode => k.timeout = p /\ ~DecidesTimeout(kbd, e)
    BY <1>1, <1>2, <2>1, DecidedTimeout
  <2> QED BY <1>1, <1>2, <2>1, <2>2, <2>3, DecideTimeoutOK, DecideTimeoutKeeps, DecideTimeoutAlike
<1>4. \/ QueueFull(k, e) /\ Exit([k EXCEPT !.aborted = TRUE])
      \/ Waits(k, e) /\ Defer(k, e)
      \/ ~Waits(k, e) /\ Exit(Strike(k, e))
  BY DEF Deliver
<1> HIDE DEF k
<1>5. Result(k) /\ k \in Keyboard /\ Paid(k) /\ k.config = kbd.config /\ k.overload = kbd.overload
  BY <1>3, KeptResult DEF KeyboardOK, Keeps, Alike
<1>6. k.timeout.code # NoCode => k.timeout.expiration \in k.timers /\ now < k.timeout.expiration
  <2>1. SUFFICES ASSUME k.timeout.code # NoCode
                 PROVE  p.expiration \in kbd.timers /\ now < p.expiration
    BY <1>3
  <2>2. p.code # NoCode /\ ~DecidesTimeout(kbd, e)
    BY <1>3, <2>1
  <2>3. e.code = NoCode => e.at < p.expiration
    BY <1>1, <2>2 DEF DecidesTimeout
  <2>4. /\ Fresh(stack, now) \/ Rests(stack, now)
        /\ Alarm(p.expiration, kbd, stack, wake, now)
    BY <2>2 DEF Steady
  <2> QED BY <1>1, <2>3, <2>4, EventAlarm
<1>7. CASE QueueFull(k, e) /\ Exit([k EXCEPT !.aborted = TRUE])
  <2>1. kbd'.aborted = TRUE
    BY <1>5, <1>7 DEF Exit, Keyboard
  <2> QED BY <2>1
<1>8. CASE Waits(k, e) /\ Defer(k, e)
  BY <1>3, <1>5, <1>6, <1>8, DeferSteady DEF Waits
<1>9. CASE ~Waits(k, e) /\ Exit(Strike(k, e))
  BY <1>3, <1>5, <1>6, <1>9, StrikeSteady
<1> QED BY <1>4, <1>7, <1>8, <1>9

\* A frame of which only the deadline changes.
LEMMA Restacked ==
  ASSUME NEW s \in Seq(Frame), s # <<>>, NEW f \in Frame, f.events = Head(s).events,
         NEW a, NEW b, Strung(s, a, b), NEW V, NEW t, Enduring(V, s, t)
  PROVE  Strung(<<f>> \o Tail(s), a, b) /\ Enduring(V, <<f>> \o Tail(s), t)
<1>1. Tail(s) \in Seq(Frame)
  OBVIOUS
<1>2. PICK c \in Nat : Apart(Head(s).events, a, c) /\ Strung(Tail(s), c, b)
  BY StrungTail
<1>3. a \in Nat
  BY StrungTail
<1>4. Lasts(V, Head(s).events, t) /\ Enduring(V, Tail(s), t)
  BY EnduringPop
<1> DEFINE r == Tail(s)
<1>5. /\ r \in Seq(Frame) /\ Apart(f.events, a, c) /\ Strung(r, c, b)
      /\ Lasts(V, f.events, t) /\ Enduring(V, r, t)
  BY <1>1, <1>2, <1>4
<1> HIDE DEF r
<1>6. Strung(<<f>> \o r, a, b) /\ Enduring(V, <<f>> \o r, t)
  BY <1>3, <1>5, StrungPush, EnduringPush
<1> QED BY <1>6 DEF r

\* What is left when a frame returns.
LEMMA ReturnFrames ==
  ASSUME TypeInv, Return
  PROVE  /\ Tail(stack) \in Seq(Frame) /\ stack # <<>> /\ Head(stack).events = <<>>
         /\ \/ stack' = Tail(stack)
            \/ /\ Tail(stack) # <<>>
               /\ \E f \in Frame : f.events = Head(Tail(stack)).events /\ stack' = <<f>> \o Tail(Tail(stack))
<1> DEFINE r == Tail(stack)
           caller == stack[2]
<1>1. /\ stack \in Seq(Frame) /\ stack # <<>> /\ Top.events = <<>> /\ r \in Seq(Frame)
      /\ kbd \in Keyboard /\ Head(stack) = Top
  BY DEF TypeInv, TypeOK, Return, Top
<1>2. CASE Len(stack) = 1
  <2>1. stack' = <<>>
    BY <1>2 DEF Return
  <2>2. Tail(stack) = <<>>
    BY <1>1, <1>2, LenOne
  <2> QED BY <1>1, <2>1, <2>2
<1>3. CASE Len(stack) # 1
  <2>1. Len(r) = Len(stack) - 1 /\ Len(stack) \in Nat \ {0}
    BY <1>1
  <2>2. r # <<>>
    <3>1. Len(r) # 0
      BY <1>3, <2>1
    <3> HIDE DEF r
    <3> QED BY <3>1
  <2>3. /\ Head(r) = r[1] /\ Head(r) \in Frame
    BY <1>1, <2>2, ListFacts, Zenon
  <2>4. 1 \in 1 .. Len(stack) - 1
    BY <1>3, <2>1
  <2>5. \A i \in 1 .. Len(stack) - 1 : r[i] = stack[i + 1]
    BY <1>1, ListFacts, Zenon
  <2>6. Head(r) = caller /\ caller \in Frame
    BY <2>3, <2>4, <2>5
  <2>7. CASE stack' = r
    BY <1>1, <2>7
  <2>8. CASE stack' # r
    <3> DEFINE k == IF Top.kind = "chord" THEN [kbd EXCEPT !.chord = Inactive] ELSE kbd
               f == [caller EXCEPT !.timer = Deadline(k, caller.at)]
    <3>1. stack' = <<f>> \o Tail(r)
      BY <1>3, <2>8 DEF Return
    <3>2. k.timers \in SUBSET Nat /\ caller.at \in Nat
      BY <1>1, <2>6 DEF Keyboard, Frame
    <3>3. Deadline(k, caller.at) \in Nat
      BY <3>2, DeadlineType
    <3>4. f \in Frame /\ f.events = caller.events
      BY <2>6, <3>3 DEF Frame
    <3> HIDE DEF f
    <3> QED BY <1>1, <2>2, <2>6, <3>1, <3>4
  <2> QED BY <2>7, <2>8
<1> QED BY <1>2, <1>3

LEMMA FreshOrRests ==
  ASSUME TypeInv, Return, Fresh(stack, now) \/ Rests(stack, now)
  PROVE  Rests(stack, now)
<1>1. stack # <<>> /\ Head(stack).events = <<>>
  BY ReturnFrames
<1>2. Len(<<>>) # 1
  OBVIOUS
<1> QED BY <1>1, <1>2 DEF Fresh, Pristine

LEMMA ReturnSteady ==
  ASSUME TypeInv, Return, Steady(kbd, stack, wake, now, struck)
  PROVE  Steady(kbd', stack', wake', now', struck')
<1> DEFINE V == Spans(kbd.config)
           q == kbd.overload.queue
           r == Tail(stack)
<1>1. /\ stack \in Seq(Frame) /\ kbd \in Keyboard /\ q \in Seq(Event)
      /\ kbd.timeout.expiration \in Nat /\ kbd.overload.expiration \in Nat
  BY DEF TypeInv, TypeOK, Keyboard, PendingOverload, PendingTimeout
<1>2. Rests(stack, now)
  BY FreshOrRests DEF Steady
<1>3. /\ Rests(stack', now') /\ kbd'.config = kbd.config
      /\ kbd'.overload = kbd.overload /\ kbd'.timeout = kbd.timeout
      /\ \A u \in Nat : Alarm(u, kbd, stack, wake, now) => Alarm(u, kbd', stack', wake', now')
  BY <1>2, ReturnAlarm
<1>4. now' = now /\ struck' = struck
  BY DEF Return
<1>5. ~Fresh(stack, now)
  BY <1>1, <1>2, NotFresh
<1>6. PICK a \in Nat, c \in Nat :
        /\ kbd.overload.code # NoCode => \E v \in V : kbd.overload.expiration = a + v
        /\ Apart(q, a, c) /\ Strung(stack, c, struck)
  BY <1>5 DEF Steady, Lined
<1>7. /\ r \in Seq(Frame) /\ stack # <<>> /\ Head(stack).events = <<>>
      /\ \/ stack' = r
         \/ /\ r # <<>>
            /\ \E f \in Frame : f.events = Head(r).events /\ stack' = <<f>> \o Tail(r)
  BY ReturnFrames
<1>8. PICK m \in Nat : Apart(Head(stack).events, c, m) /\ Strung(r, m, struck)
  BY <1>1, <1>6, <1>7, StrungTail
<1>9. Enduring(V, r, now)
  BY <1>1, <1>7, EnduringPop DEF Steady
<1> HIDE DEF V, r
<1>10. Strung(stack', m, struck) /\ Enduring(V, stack', now) /\ stack' \in Seq(Frame)
  <2>1. CASE stack' = r
    BY <1>7, <1>8, <1>9, <2>1
  <2>2. ASSUME NEW f \in Frame, r # <<>>, f.events = Head(r).events, stack' = <<f>> \o Tail(r)
        PROVE  Strung(stack', m, struck) /\ Enduring(V, stack', now) /\ stack' \in Seq(Frame)
    <3>1. Strung(<<f>> \o Tail(r), m, struck) /\ Enduring(V, <<f>> \o Tail(r), now)
      BY <1>7, <1>8, <1>9, <2>2, Restacked
    <3>2. <<f>> \o Tail(r) \in Seq(Frame)
      BY <1>7, <2>2
    <3> QED BY <2>2, <3>1, <3>2
  <2> QED BY <1>7, <2>1, <2>2
<1>11. Apart(q, a, m)
  <2>1. c <= m
    BY <1>8 DEF Apart
  <2> QED BY <1>1, <1>6, <2>1, ApartWiden
<1> DEFINE s == stack'
           t == now'
<1>12. Rests(s, t) /\ s \in Seq(Frame)
  BY <1>3, <1>10
<1> HIDE DEF s, t
<1>13. ~Fresh(s, t)
  BY <1>12, NotFresh
<1>14. Lined(kbd', stack', now', struck')
  BY <1>3, <1>4, <1>6, <1>10, <1>11, <1>13 DEF Lined, s, t, V
<1> QED BY <1>1, <1>3, <1>4, <1>10, <1>14 DEF Steady, V

\* A key event or a deadline.
LEMMA DispatchSteady ==
  ASSUME Even, TypeInv, Chordless(kbd.config), stack = <<>>, NEW e \in Event, Dispatch(e), kbd' = kbd, now <= e.at,
         IF e.code = NoCode THEN struck' = struck
                            ELSE e.code \in Code /\ struck + Gap <= e.at /\ struck' = e.at,
         e.code # NoCode /\ wake # 0 => e.at < wake,
         e.code = NoCode => e.at <= now + Late \/ e.at <= wake + Late,
         Steady(kbd, stack, wake, now, struck)
  PROVE  Steady(kbd', stack', wake', now', struck')
<1> DEFINE f == CallFrame("loop", <<e>>)
           V == Spans(kbd.config)
           q == kbd.overload.queue
<1>1. /\ kbd \in Keyboard /\ q \in Seq(Event) /\ now \in Nat /\ e.at \in Nat /\ struck \in Nat
      /\ kbd.timeout.expiration \in Nat /\ kbd.overload.expiration \in Nat /\ kbd.config \in Configs
  BY DEF TypeInv, TypeOK, Keyboard, PendingOverload, PendingTimeout, Event
<1>2. /\ Fresh(stack', now')
      /\ \A u \in Nat : Alarm(u, kbd, stack, wake, now) => Alarm(u, kbd', stack', wake', now')
  BY DispatchAlarm
<1>3. f \in Frame /\ f.events = <<e>> /\ stack' = <<f>> /\ now' = e.at
  BY <1>1 DEF CallFrame, Frame, Dispatch
<1> HIDE DEF f
<1>4. stack' = <<f>> \o <<>> /\ <<>> \in Seq(Frame) /\ Head(stack') = f /\ stack' # <<>>
      /\ Head(<<e>>) = e /\ <<e>> # <<>>
  BY <1>3
<1>5. Rung(stack') <=> e.code = NoCode
  BY <1>3, <1>4 DEF Rung
<1>6. PICK a \in Nat, c \in Nat :
        /\ kbd.overload.code # NoCode => \E v \in V : kbd.overload.expiration = a + v
        /\ Apart(q, a, c) /\ Strung(<<>>, c, struck)
  BY DEF Steady, Lined
<1>7. Past(q, now')
  <2>1. Past(q, now)
    BY DEF Steady
  <2> QED BY <1>1, <1>3, <2>1, PastLater
<1>8. Enduring(V, stack', now')
  <2>1. \A v \in V : v \in Nat /\ 0 < v
    BY <1>1 DEF Even, Spans
  <2>2. Lasts(V, <<e>>, e.at)
    <3>1. Len(<<e>>) = 1 /\ <<e>>[1] = e /\ 1 .. 1 = {1}
      OBVIOUS
    <3>2. \A v \in V : e.at < e.at + v
      BY <1>1, <2>1
    <3> QED BY <3>1, <3>2 DEF Lasts
  <2>3. Enduring(V, <<>>, e.at)
    <3>1. DOMAIN <<>> = {}
      OBVIOUS
    <3> QED BY <3>1 DEF Enduring
  <2> HIDE DEF V
  <2> QED BY <1>3, <1>4, <2>2, <2>3, EnduringPush
<1>9. Strung(IF Fresh(stack', now') /\ Rung(stack') THEN <<>> ELSE stack', c, struck')
  <2>1. CASE e.code = NoCode
    BY <1>2, <1>5, <1>6, <2>1
  <2>2. CASE e.code # NoCode
    <3>1. c = struck
      BY <1>6, StrungEmpty
    <3>2. Apart(<<e>>, c, e.at)
      BY <1>1, <2>2, <3>1, ApartOne
    <3>3. Strung(<<>>, e.at, e.at)
      BY <1>1, StrungEmpty
    <3>4. Strung(<<f>> \o <<>>, c, e.at)
      BY <1>1, <1>3, <1>4, <3>2, <3>3, StrungPush
    <3> QED BY <1>3, <1>4, <1>5, <2>2, <3>4
  <2> QED BY <2>1, <2>2
<1>10. Lined(kbd', stack', now', struck')
  <2> HIDE DEF V
  <2> QED BY <1>6, <1>9 DEF Lined, V
<1>11. Past(kbd'.overload.queue, now') /\ Enduring(Spans(kbd'.config), stack', now')
  BY <1>7, <1>8
<1>12. /\ kbd'.overload.code # NoCode => Alarm(kbd'.overload.expiration, kbd', stack', wake', now')
       /\ kbd'.timeout.code # NoCode => Alarm(kbd'.timeout.expiration, kbd', stack', wake', now')
  BY <1>1, <1>2 DEF Steady
<1> HIDE DEF V
<1> QED BY <1>2, <1>10, <1>11, <1>12 DEF Steady

-----------------------------------------------------------------------------
(* Keymaps with chords.                                                    *)

\* u decides the chord that is pending or held.
Due(k, u) ==
  \/ k.chord.state = "pending" /\ u = Lapse(k)
  \/ /\ k.chord.state = "hold"
     /\ k.chord.last + k.config.hold <= u /\ u <= k.chord.last + k.config.hold + Late

Chiming(k, s, w, t) ==
  /\ k.timeout.code = NoCode
  /\ k.chord.state \in {"pending", "hold"} =>
       /\ Fresh(s, t) \/ Rests(s, t)
       /\ \E u \in Nat : Due(k, u) /\ Alarm(u, k, s, w, t)

LEMMA FreshEvent ==
  ASSUME Processing, Layered(stack, now), ChordFree(stack), Upcoming.code \notin Slot
  PROVE  Fresh(stack, now)
<1>1. stack \in Seq(Frame) /\ stack # <<>> /\ Top.events # <<>> /\ Top \in Frame
  BY UpcomingOK DEF Processing, TypeInv, TypeOK
<1>2. Top.events \in Seq(Event)
  BY <1>1 DEF Frame
<1>3. Top.kind # "chord"
  <2>1. Top = stack[1] /\ 1 \in DOMAIN stack
    BY <1>1, ListFacts, Zenon DEF Top
  <2> QED BY <2>1 DEF ChordFree
<1>4. ~Calling(Top)
  <2>1. SUFFICES ASSUME Len(Top.events) = 1, Top.timer = 0
                 PROVE  Upcoming = Top.events[1]
    BY DEF Calling
  <2>2. Head(Top.events) = Top.events[1]
    BY <1>2, <2>1, LenOne
  <2> QED BY <2>1, <2>2 DEF Upcoming, TimeoutDue
<1>5. Pristine(Top, now) /\ Tail(stack) = <<>>
  BY <1>3, <1>4, FrameTaken
<1>6. Len(stack) = 1
  <2> DEFINE r == Tail(stack)
             n == Len(stack)
  <2>1. Len(r) = n - 1 /\ n \in Nat
    BY <1>1
  <2>2. r = <<>>
    BY <1>5
  <2> HIDE DEF r, n
  <2>3. Len(r) = 0
    BY <2>2
  <2>4. n = 1
    BY <2>1, <2>3
  <2> QED BY <2>4 DEF n
<1> QED BY <1>5, <1>6 DEF Fresh, Top

\* The deadline of the chord that is undecided, when an event comes.
LEMMA EventDue ==
  ASSUME Processing, kbd.chord.state \in {"pending", "hold"}, Chiming(kbd, stack, wake, now)
  PROVE  /\ Fresh(stack, now) \/ Rests(stack, now)
         /\ \E u \in kbd.timers : /\ Due(kbd, u) /\ now <= u + Late
                                  /\ Upcoming.code # NoCode \/ Upcoming.at < u => now < u
<1>1. Fresh(stack, now) \/ Rests(stack, now)
  BY DEF Chiming
<1>2. PICK u \in Nat : Due(kbd, u) /\ Alarm(u, kbd, stack, wake, now)
  BY DEF Chiming
<1> QED BY <1>1, <1>2, EventAlarm

LEMMA ExitChiming ==
  ASSUME Processing, NEW k \in Keyboard, Exit(k), k.timeout.code = NoCode,
         k.chord.state \in {"pending", "hold"} =>
           /\ Fresh(stack, now) \/ Rests(stack, now)
           /\ \E u \in k.timers : Due(k, u) /\ now < u
  PROVE  Chiming(kbd', stack', wake', now')
<1>1. /\ kbd'.chord = k.chord /\ kbd'.config = k.config /\ kbd'.timeout = k.timeout
      /\ k.timers \in SUBSET Nat
  BY DEF Exit, Keyboard
<1>2. ASSUME kbd'.chord.state \in {"pending", "hold"}
      PROVE  Rests(stack', now') /\ \E u \in Nat : Due(kbd', u) /\ Alarm(u, kbd', stack', wake', now')
  <2>1. PICK u \in k.timers : Due(k, u) /\ now < u
    BY <1>1, <1>2
  <2>2. Rests(stack', now') /\ Alarm(u, kbd', stack', wake', now')
    BY <1>1, <1>2, <2>1, ExitAlarm
  <2>3. Due(kbd', u)
    BY <1>1, <2>1 DEF Due, Lapse
  <2> QED BY <1>1, <2>2, <2>3
<1> QED BY <1>1, <1>2 DEF Chiming

LEMMA CallChiming ==
  ASSUME Processing, NEW k \in Keyboard,
         NEW g \in Frame, g.kind # "chord", g.at <= now, Past(g.events, now), Call(k, <<g>>),
         k.timeout.code = NoCode,
         k.chord.state \in {"pending", "hold"} =>
           /\ Fresh(stack, now) \/ Rests(stack, now)
           /\ \E u \in k.timers : Due(k, u) /\ now < u
  PROVE  Chiming(kbd', stack', wake', now')
<1>1. kbd' = k /\ k.timers \in SUBSET Nat
  BY DEF Call, Keyboard
<1>2. ASSUME k.chord.state \in {"pending", "hold"}
      PROVE  Rests(stack', now') /\ \E u \in Nat : Due(k, u) /\ Alarm(u, kbd', stack', wake', now')
  <2>1. PICK u \in k.timers : Due(k, u) /\ now < u
    BY <1>2
  <2>2. Rests(stack', now') /\ Alarm(u, kbd', stack', wake', now')
    BY <1>2, <2>1, CallAlarm
  <2> QED BY <1>1, <2>1, <2>2
<1> QED BY <1>1, <1>2 DEF Chiming

\* A chord that is resolved awaits nothing.
LEMMA ResolveChiming ==
  ASSUME NEW k \in Keyboard, k.timeout.code = NoCode, NEW q \in Seq(Event),
         NEW match \in Chord \cup {NoChord}, Resolve(k, q, match)
  PROVE  ~kbd'.aborted => Chiming(kbd', stack', wake', now')
<1> DEFINE slot == Least({s \in Slot : ~k.slots[s].on})
           r == Resolving(k, q, match)
           started == Started(k, q, match, slot)
<1>1. r.chord.state = "resolving" /\ r.timeout = k.timeout
  BY DEF Resolving, Keyboard, Chording
<1>2. started.chord = r.chord /\ started.timeout = r.timeout
  BY DEF Started, Resolving, Keyboard
<1>3. \/ kbd' = r \/ kbd' = started \/ Exit([k EXCEPT !.aborted = TRUE])
  BY DEF Resolve, Call, Resolving, Started
<1> HIDE DEF r, started
<1>4. CASE Exit([k EXCEPT !.aborted = TRUE])
  <2>1. kbd'.aborted
    BY <1>4 DEF Exit, Keyboard
  <2> QED BY <2>1
<1>5. CASE kbd' = r \/ kbd' = started
  BY <1>1, <1>2, <1>5 DEF Chiming
<1> QED BY <1>3, <1>4, <1>5

LEMMA AbortChiming ==
  ASSUME NEW k \in Keyboard, Exit([k EXCEPT !.aborted = TRUE])
  PROVE  kbd'.aborted
BY DEF Exit, Keyboard

LEMMA AdvanceChiming ==
  ASSUME Processing, kbd.timeout.code = NoCode, kbd.config.interkey > 0,
         Fresh(stack, now), Upcoming.at = now,
         NEW q \in Seq(Event), NEW old \in Chord \cup {NoChord}, Advance(q, old, Upcoming.at)
  PROVE  ~kbd'.aborted => Chiming(kbd', stack', wake', now')
<1> DEFINE t == Upcoming.at
           match == Match(kbd, q, old)
           unambiguous == Full(kbd, q) # {} /\ Partial(kbd, q) = Full(kbd, q)
           c == [state |-> IF unambiguous THEN "hold" ELSE "pending",
                 queue |-> q, match |-> match, last |-> t]
           waiting == [kbd EXCEPT !.chord = c]
           g == kbd.config.interkey
<1>1. /\ kbd \in Keyboard /\ KeyboardOK(kbd) /\ t \in Nat /\ g \in Nat /\ kbd.config.hold \in Nat
      /\ Late \in Nat
  BY CurrentOK, UpcomingOK, BoundAssumption DEF Result, Event
<1>2. match \in Chord \cup {NoChord}
  BY <1>1, MatchType
<1>3. \/ ~unambiguous /\ Exit(Schedule(waiting, t + g))
      \/ unambiguous /\ kbd.config.hold > 0 /\ Exit(Schedule(waiting, t + kbd.config.hold))
      \/ Resolve(waiting, q, match)
  BY Zenon DEF Advance
<1> HIDE DEF match
<1>4. c \in Chording /\ c.last = t /\ c.state = IF unambiguous THEN "hold" ELSE "pending"
  BY <1>1, <1>2 DEF Chording
<1> HIDE DEF c
<1>5. /\ waiting \in Keyboard /\ waiting.chord = c /\ waiting.config = kbd.config
      /\ waiting.timeout = kbd.timeout
  BY <1>1, <1>4 DEF Keyboard
<1> HIDE DEF waiting, unambiguous
<1>6. \A n \in Nat : /\ Schedule(waiting, n) \in Keyboard /\ Schedule(waiting, n).chord = c
                     /\ Schedule(waiting, n).config = kbd.config
                     /\ Schedule(waiting, n).timeout = kbd.timeout
                     /\ n \in Schedule(waiting, n).timers
  BY <1>5 DEF Schedule, Keyboard
<1>7. CASE ~unambiguous /\ Exit(Schedule(waiting, t + g))
  <2> DEFINE j == Schedule(waiting, t + g)
  <2>1. t + g \in Nat /\ now < t + g
    BY <1>1
  <2>2. /\ j \in Keyboard /\ j.chord = c /\ j.config = kbd.config /\ j.timeout = kbd.timeout
        /\ t + g \in j.timers /\ Exit(j)
    BY <1>6, <1>7, <2>1
  <2> HIDE DEF j
  <2>3. Due(j, t + g)
    BY <1>4, <1>7, <2>2 DEF Due, Lapse
  <2> QED BY <2>1, <2>2, <2>3, ExitChiming
<1>8. CASE unambiguous /\ kbd.config.hold > 0 /\ Exit(Schedule(waiting, t + kbd.config.hold))
  <2> DEFINE j == Schedule(waiting, t + kbd.config.hold)
             u == t + kbd.config.hold
  <2>1. u \in Nat /\ now < u /\ u <= t + kbd.config.hold + Late
    BY <1>1, <1>8
  <2>2. /\ j \in Keyboard /\ j.chord = c /\ j.config = kbd.config /\ j.timeout = kbd.timeout
        /\ u \in j.timers /\ Exit(j)
    BY <1>6, <1>8, <2>1
  <2> HIDE DEF j
  <2>3. Due(j, u)
    BY <1>4, <1>8, <2>1, <2>2 DEF Due
  <2> QED BY <2>1, <2>2, <2>3, ExitChiming
<1>9. CASE Resolve(waiting, q, match)
  BY <1>2, <1>5, <1>9, ResolveChiming
<1> QED BY <1>3, <1>7, <1>8, <1>9

LEMMA ReleaseChiming ==
  ASSUME Processing, Chiming(kbd, stack, wake, now), ReleaseChordKey(Upcoming)
  PROVE  Chiming(kbd', stack', wake', now')
<1> DEFINE e == Upcoming
           s == Least(Releasing(e))
           k == Lift(kbd, s, e.code)
           release == [code |-> s, pressed |-> FALSE, at |-> e.at]
           code == CallFrame("code", <<release>>)
<1>1. e \in Event /\ e.at \in Nat /\ now \in Nat
  BY UpcomingOK DEF Event, Processing, TypeInv, TypeOK
<1>2. s \in Slot /\ e.code \in kbd.slots[s].keys
  <2>1. Releasing(e) # {} /\ Releasing(e) \in SUBSET Nat
    BY CodeAssumption DEF ReleaseChordKey, Releasing, Slot
  <2>2. s \in Releasing(e)
    BY <2>1, LeastIsMember
  <2> QED BY <2>2 DEF Releasing
<1>3. e.code # NoCode
  <2>1. e.code \in Code
    BY <1>2, CurrentOK DEF Keyboard, ActiveChord
  <2> QED BY <2>1, CodeAssumption
<1>4. Exit(k) \/ Call(k, <<code>>)
  BY DEF ReleaseChordKey
<1> HIDE DEF s
<1>5. /\ k \in Keyboard /\ k.chord = kbd.chord /\ k.config = kbd.config /\ k.timers = kbd.timers
      /\ k.timeout = kbd.timeout
  <2> DEFINE a == [kbd.slots[s] EXCEPT !.keys = @ \ {e.code}, !.on = kbd.slots[s].keys # {e.code}]
             x == [kbd.slots EXCEPT ![s] = a]
  <2>1. kbd.slots \in [Slot -> ActiveChord]
    BY CurrentOK DEF Keyboard
  <2>2. a \in ActiveChord
    BY <1>2, <2>1 DEF ActiveChord
  <2>3. k = [kbd EXCEPT !.slots = x]
    BY <1>2, <2>1, CurrentOK DEF Lift, Keyboard, ActiveChord
  <2> HIDE DEF a, k
  <2> QED BY <1>2, <2>1, <2>2, <2>3, CurrentOK DEF Keyboard
<1> HIDE DEF k
<1>6. k.timeout.code = NoCode
  BY <1>5 DEF Chiming
<1>7. k.chord.state \in {"pending", "hold"} =>
        /\ Fresh(stack, now) \/ Rests(stack, now)
        /\ \E u \in k.timers : Due(k, u) /\ now < u
  <2>1. SUFFICES ASSUME kbd.chord.state \in {"pending", "hold"}
                 PROVE  /\ Fresh(stack, now) \/ Rests(stack, now)
                        /\ \E u \in k.timers : Due(k, u) /\ now < u
    BY <1>5
  <2>2. PICK u \in kbd.timers : Due(kbd, u) /\ now < u
    BY <1>3, <2>1, EventDue
  <2>3. Due(k, u)
    BY <1>5, <2>2 DEF Due, Lapse
  <2> QED BY <1>5, <2>1, <2>2, <2>3, EventDue
<1>8. CASE Exit(k)
  BY <1>5, <1>6, <1>7, <1>8, ExitChiming
<1>9. CASE Call(k, <<code>>)
  <2>1. release \in Event /\ release.at = e.at
    BY <1>1, <1>2 DEF Event
  <2> HIDE DEF release
  <2>2. <<release>> \in Seq(Event) /\ DOMAIN <<release>> = {1} /\ <<release>>[1] = release
    BY <2>1
  <2>3. code \in Frame /\ code.kind = "code" /\ code.at = 0 /\ code.events = <<release>>
    BY <2>2 DEF CallFrame, Frame
  <2> HIDE DEF code
  <2>4. CASE k.chord.state \in {"pending", "hold"}
    <3>1. e.at <= now
      BY <1>7, <2>4, EventRests
    <3>2. Past(code.events, now) /\ code.at <= now
      BY <1>1, <2>1, <2>2, <2>3, <3>1 DEF Past
    <3> QED BY <1>5, <1>6, <1>7, <1>9, <2>3, <3>2, CallChiming
  <2>5. CASE k.chord.state \notin {"pending", "hold"}
    <3>1. kbd' = k
      BY <1>9 DEF Call
    <3> QED BY <1>6, <2>5, <3>1 DEF Chiming
  <2> QED BY <2>4, <2>5
<1> QED BY <1>4, <1>8, <1>9

LEMMA BeginChiming ==
  ASSUME Processing, Chiming(kbd, stack, wake, now), Layered(stack, now), kbd.config.interkey > 0,
         NEW H, Accounts(kbd, stack, H), BeginChord(Upcoming)
  PROVE  ~kbd'.aborted => Chiming(kbd', stack', wake', now')
<1> DEFINE e == Upcoming
           q == <<e>>
<1>1. e \in Event
  BY UpcomingOK
<1>2. kbd.chord.state = "inactive" /\ Advance(q, NoChord, e.at) /\ Partial(kbd, q) # {}
  BY DEF BeginChord
<1> HIDE DEF e
<1>3. q \in Seq(Event) /\ q[1] = e /\ DOMAIN q = {1}
  BY <1>1
<1> HIDE DEF q
<1>4. e.code \in Code
  <2>1. PICK m \in [layer : Layer, chord : Chord] :
          Presses(q) # {} /\ \A i \in Presses(q) : q[i].code \in ChordKeys[m.chord]
    BY <1>2 DEF Partial
  <2>2. ChordKeys[m.chord] \in SUBSET Code
    BY ChordAssumption
  <2> QED BY <1>3, <2>1, <2>2 DEF Presses
<1>5. ChordFree(stack) /\ e.code \notin Slot
  BY <1>2, <1>4, CodeAssumption DEF Accounts, Conforms
<1>6. e.at = now /\ Fresh(stack, now)
  BY <1>5, PristineEvent, FreshEvent DEF e
<1>7. kbd.timeout.code = NoCode
  BY DEF Chiming
<1>8. NoChord \in Chord \cup {NoChord}
  OBVIOUS
<1> QED BY <1>2, <1>3, <1>6, <1>7, <1>8, AdvanceChiming DEF e

LEMMA ExtendChiming ==
  ASSUME Processing, Chiming(kbd, stack, wake, now), Layered(stack, now), kbd.config.interkey > 0,
         NEW H, Accounts(kbd, stack, H), ExtendChord(Upcoming)
  PROVE  ~kbd'.aborted => Chiming(kbd', stack', wake', now')
<1> DEFINE e == Upcoming
           p == kbd.chord.queue
           q == Append(p, e)
           old == kbd.chord.match
<1>1. /\ q \in Seq(Event) /\ kbd \in Keyboard /\ e \in Event
      /\ old \in Chord \cup {NoChord} /\ p \in Seq(Event)
      /\ kbd.chord.state = "pending" /\ kbd.timeout.code = NoCode
  BY QueueOK, UpcomingOK, CurrentOK DEF ExtendChord, Chiming
<1>2. \/ Exit([kbd EXCEPT !.aborted = TRUE])
      \/ e.pressed /\ Partial(kbd, q) # {} /\ Advance(q, old, e.at)
      \/ Resolve(kbd, q, NoChord)
  BY DEF ExtendChord, Abort
<1>3. Len(q) \in DOMAIN q /\ q[Len(q)] = e
  <2> HIDE DEF p, e
  <2>1. Len(q) = Len(p) + 1 /\ Len(p) \in Nat /\ q[Len(p) + 1] = e /\ DOMAIN q = 1 .. Len(p) + 1
    BY <1>1
  <2> HIDE DEF q
  <2> QED BY <2>1
<1> HIDE DEF q
<1>4. CASE Exit([kbd EXCEPT !.aborted = TRUE])
  BY <1>1, <1>4, AbortChiming
<1>5. CASE e.pressed /\ Partial(kbd, q) # {} /\ Advance(q, old, e.at)
  <2>1. e.code \in Code
    <3>1. PICK m \in [layer : Layer, chord : Chord] :
            \A i \in Presses(q) : q[i].code \in ChordKeys[m.chord]
      BY <1>5 DEF Partial
    <3>2. ChordKeys[m.chord] \in SUBSET Code
      BY ChordAssumption
    <3>3. Len(q) \in Presses(q)
      BY <1>3, <1>5 DEF Presses
    <3> QED BY <1>3, <3>1, <3>2, <3>3
  <2>2. ChordFree(stack) /\ e.code \notin Slot
    BY <1>1, <2>1, CodeAssumption DEF Accounts, Conforms
  <2>3. e.at = now /\ Fresh(stack, now)
    BY <2>2, PristineEvent, FreshEvent
  <2> QED BY <1>1, <1>5, <2>3, AdvanceChiming
<1>6. CASE Resolve(kbd, q, NoChord)
  <2>1. NoChord \in Chord \cup {NoChord}
    OBVIOUS
  <2> QED BY <1>1, <1>6, <2>1, ResolveChiming
<1> QED BY <1>2, <1>4, <1>5, <1>6

\* A chord that lapses late is held as much longer.
LEMMA LapseChiming ==
  ASSUME Processing, Chiming(kbd, stack, wake, now), Layered(stack, now),
         NEW H, Accounts(kbd, stack, H), LapseChord(Upcoming)
  PROVE  ~kbd'.aborted => Chiming(kbd', stack', wake', now')
<1> DEFINE k == [kbd EXCEPT !.chord.state = "hold"]
           e == Upcoming
           hold == kbd.config.hold
           g == kbd.config.interkey
           t == e.at + (hold - g)
           last == kbd.chord.last
           q == kbd.chord.queue
<1>1. /\ kbd \in Keyboard /\ kbd.chord \in Chording /\ e.at \in Nat /\ q \in Seq(Event)
      /\ kbd.chord.match \in Chord \cup {NoChord} /\ g \in Nat /\ hold \in Nat /\ last \in Nat
      /\ kbd.chord.state = "pending" /\ e.code = NoCode /\ ChordLapsed(e)
      /\ kbd.timeout.code = NoCode /\ Late \in Nat /\ now \in Nat
  BY CurrentOK, UpcomingOK, BoundAssumption DEF Event, LapseChord, Chiming, Chording,
     Processing, TypeInv, TypeOK
<1>2. \/ hold > g /\ Exit(Schedule(k, t))
      \/ \E m \in {NoChord, kbd.chord.match} : Resolve(kbd, q, m)
  BY DEF LapseChord, Abort
<1>3. CASE hold > g /\ Exit(Schedule(k, t))
  <2>1. ChordFree(stack) /\ e.code \notin Slot
    BY <1>1, CodeAssumption DEF Accounts, Conforms
  <2>2. e.at = now /\ Fresh(stack, now)
    BY <2>1, PristineEvent, FreshEvent
  <2>3. PICK u \in kbd.timers : Due(kbd, u) /\ now <= u + Late
    BY <1>1, EventDue
  <2>4. u = last + g
    BY <1>1, <2>3 DEF Due, Lapse
  <2>5. t \in Nat /\ now < t /\ last + hold <= t /\ t <= last + hold + Late
    BY <1>1, <1>3, <2>2, <2>3, <2>4 DEF ChordLapsed
  <2>6. k.chord.state = "hold" /\ k.chord.last = last /\ k.config = kbd.config /\ k.timeout = kbd.timeout
    BY <1>1 DEF Keyboard, Chording
  <2>7. k \in Keyboard
    BY <1>1, ChordStateOK DEF Result, KeyboardOK
  <2> HIDE DEF k
  <2> DEFINE j == Schedule(k, t)
  <2>8. /\ j \in Keyboard /\ j.chord = k.chord /\ j.config = k.config /\ j.timeout = k.timeout
        /\ t \in j.timers
    <3> HIDE DEF t
    <3> QED BY <2>5, <2>7 DEF Schedule, Keyboard
  <2>9. Exit(j)
    BY <1>3
  <2> HIDE DEF j, t
  <2>10. Due(j, t)
    BY <2>5, <2>6, <2>8 DEF Due
  <2> QED BY <1>1, <2>2, <2>5, <2>6, <2>8, <2>9, <2>10, ExitChiming
<1>4. ASSUME NEW m \in {NoChord, kbd.chord.match}, Resolve(kbd, q, m)
      PROVE  ~kbd'.aborted => Chiming(kbd', stack', wake', now')
  BY <1>1, <1>4, ResolveChiming
<1> QED BY <1>2, <1>3, <1>4

LEMMA HoldChiming ==
  ASSUME Processing, Chiming(kbd, stack, wake, now), HoldChord(Upcoming)
  PROVE  ~kbd'.aborted => Chiming(kbd', stack', wake', now')
<1> DEFINE p == kbd.chord.queue
           q == Append(p, Upcoming)
           c == [kbd.chord EXCEPT !.queue = q]
           j == [kbd EXCEPT !.chord = c]
<1>1. /\ q \in Seq(Event) /\ kbd \in Keyboard /\ kbd.chord \in Chording /\ kbd.chord.state = "hold"
      /\ Upcoming.code # NoCode /\ kbd.timeout.code = NoCode
  BY QueueOK, UpcomingOK, CurrentOK DEF HoldChord, Chiming
<1>2. [kbd EXCEPT !.chord.queue = q] = j
  BY <1>1 DEF Keyboard
<1>3. \/ Exit([kbd EXCEPT !.aborted = TRUE])
      \/ Resolve(kbd, q, NoChord)
      \/ Exit(j)
  BY <1>2, Zenon DEF HoldChord, Abort
<1> HIDE DEF q
<1>4. c \in Chording /\ c.state = "hold" /\ c.last = kbd.chord.last
  BY <1>1 DEF Chording
<1> HIDE DEF c
<1>5. /\ j \in Keyboard /\ j.chord = c /\ j.config = kbd.config /\ j.timeout = kbd.timeout
      /\ j.timers = kbd.timers
  BY <1>1, <1>4 DEF Keyboard
<1> HIDE DEF j
<1>6. CASE Exit(j)
  <2>1. PICK u \in kbd.timers : Due(kbd, u) /\ now < u
    BY <1>1, EventDue
  <2>2. Due(j, u)
    BY <1>1, <1>4, <1>5, <2>1 DEF Due
  <2>3. Fresh(stack, now) \/ Rests(stack, now)
    BY <1>1, EventDue
  <2> QED BY <1>1, <1>5, <1>6, <2>1, <2>2, <2>3, ExitChiming
<1>7. CASE Exit([kbd EXCEPT !.aborted = TRUE])
  BY <1>1, <1>7, AbortChiming
<1>8. CASE Resolve(kbd, q, NoChord)
  <2>1. NoChord \in Chord \cup {NoChord}
    OBVIOUS
  <2> QED BY <1>1, <1>8, <2>1, ResolveChiming
<1> QED BY <1>3, <1>6, <1>7, <1>8

LEMMA FireChiming ==
  ASSUME Processing, Chiming(kbd, stack, wake, now), FireChord(Upcoming)
  PROVE  ~kbd'.aborted => Chiming(kbd', stack', wake', now')
<1>1. Resolve(kbd, kbd.chord.queue, kbd.chord.match) /\ kbd.timeout.code = NoCode
  BY DEF FireChord, Chiming
<1>2. /\ kbd \in Keyboard /\ kbd.chord.queue \in Seq(Event)
      /\ kbd.chord.match \in Chord \cup {NoChord}
  BY CurrentOK DEF Keyboard, Chording
<1> QED BY <1>1, <1>2, ResolveChiming

\* Nothing else is undecided on a keymap with chords.
LEMMA DeliverChiming ==
  ASSUME Even, Processing, Chiming(kbd, stack, wake, now), Tidy(kbd), ~Chordless(kbd.config),
         Deliver(Upcoming)
  PROVE  Chiming(kbd', stack', wake', now')
<1> DEFINE e == Upcoming
           d == Lookup(kbd, e.code)
           j == Strike(kbd, e)
<1>1. e \in Event /\ (e.code \in Slot => kbd.slots[e.code].chord \in Chord)
  BY UpcomingOK
<1>2. /\ KeyboardOK(kbd) /\ kbd \in Keyboard /\ kbd.config \in Configs /\ kbd.timeout.code = NoCode
      /\ kbd.chord.last \in Nat /\ kbd.config.interkey \in Nat /\ kbd.config.hold \in Nat
      /\ e.at \in Nat /\ kbd.timers \in SUBSET Nat
  BY <1>1, CurrentOK, ConfigAssumption DEF Result, Keyboard, Chording, Config, Chiming, Event
<1>3. DecideTimeout(kbd, e) = kbd
  BY <1>2 DEF DecideTimeout, DecidesTimeout
<1>4. kbd.overload.code = NoCode
  BY DEF Tidy
<1>5. Exit(j) /\ PassesChord(e)
  BY <1>3, <1>4 DEF Deliver, QueueFull, Waits
<1>6. KeyboardOK(j) /\ Kept(j, kbd)
  BY <1>1, <1>2, StrikeOK
<1>7. /\ kbd.timers \subseteq j.timers
      /\ \/ j.timeout.code = kbd.timeout.code
         \/ e.code # NoCode /\ Deferring(d)
  BY <1>1, <1>2, StrikeTimes
<1>8. e.code # NoCode => ~Deferring(d)
  <2>1. Spans(kbd.config) = {} /\ \A c \in Chord : ~Deferring(ChordDescriptor[c])
    BY <1>2 DEF Even
  <2>2. CASE e.code \in Slot
    <3>1. d = ChordDescriptor[kbd.slots[e.code].chord]
      BY <2>2 DEF Lookup
    <3> QED BY <1>1, <2>1, <2>2, <3>1
  <2>3. CASE e.code \in Code
    BY <1>2, <2>1, <2>3, LookupSpans
  <2> QED BY <1>1, <2>2, <2>3 DEF Event
<1> HIDE DEF j, d
<1>9. j \in Keyboard /\ j.chord = kbd.chord /\ j.config = kbd.config /\ j.timeout.code = NoCode
  BY <1>2, <1>6, <1>7, <1>8 DEF KeyboardOK, Kept
<1>10. ASSUME kbd.chord.state \in {"pending", "hold"}
       PROVE  /\ Fresh(stack, now) \/ Rests(stack, now)
              /\ \E u \in j.timers : Due(j, u) /\ now < u
  <2>1. PICK u \in kbd.timers : Due(kbd, u) /\ (e.code # NoCode \/ e.at < u => now < u)
    BY <1>10, EventDue
  <2>2. /\ e.code = NoCode
        /\ kbd.chord.state = "pending" => ~ChordLapsed(e)
        /\ kbd.chord.state = "hold" => ~ChordHeld(e)
    BY <1>5, <1>10 DEF PassesChord
  <2>3. e.at < u
    BY <1>2, <1>10, <2>1, <2>2 DEF ChordLapsed, ChordHeld, Due, Lapse
  <2>4. Due(j, u)
    BY <1>9, <2>1 DEF Due, Lapse
  <2> QED BY <1>7, <1>10, <2>1, <2>3, <2>4, EventDue
<1> QED BY <1>5, <1>9, <1>10, ExitChiming

LEMMA ReturnChiming ==
  ASSUME TypeInv, Return, Chiming(kbd, stack, wake, now)
  PROVE  Chiming(kbd', stack', wake', now')
<1>1. kbd \in Keyboard
  BY DEF TypeInv, TypeOK
<1>2. kbd'.chord \in {kbd.chord, Inactive} /\ kbd'.timeout = kbd.timeout
  BY <1>1 DEF Return, Keyboard
<1>3. Inactive.state = "inactive"
  BY DEF Inactive
<1>4. ASSUME kbd'.chord.state \in {"pending", "hold"}
      PROVE  Rests(stack', now') /\ \E u \in Nat : Due(kbd', u) /\ Alarm(u, kbd', stack', wake', now')
  <2>1. kbd.chord.state \in {"pending", "hold"}
    BY <1>2, <1>3, <1>4
  <2>2. PICK u \in Nat : Due(kbd, u) /\ Alarm(u, kbd, stack, wake, now)
    BY <2>1 DEF Chiming
  <2>3. Rests(stack, now)
    BY <2>1, FreshOrRests DEF Chiming
  <2>4. /\ Rests(stack', now') /\ Alarm(u, kbd', stack', wake', now')
        /\ kbd'.chord = kbd.chord /\ kbd'.config = kbd.config
    BY <2>2, <2>3, ReturnAlarm
  <2>5. Due(kbd', u)
    BY <2>2, <2>4 DEF Due, Lapse
  <2> QED BY <2>2, <2>4, <2>5
<1> QED BY <1>2, <1>4 DEF Chiming

LEMMA DispatchChiming ==
  ASSUME TypeInv, stack = <<>>, NEW e \in Event, Dispatch(e), kbd' = kbd, now <= e.at,
         e.code # NoCode /\ wake # 0 => e.at < wake,
         e.code = NoCode => e.at <= now + Late \/ e.at <= wake + Late,
         Chiming(kbd, stack, wake, now)
  PROVE  Chiming(kbd', stack', wake', now')
<1>1. /\ Fresh(stack', now')
      /\ \A u \in Nat : Alarm(u, kbd, stack, wake, now) => Alarm(u, kbd', stack', wake', now')
  BY DispatchAlarm
<1>2. ASSUME kbd.chord.state \in {"pending", "hold"}
      PROVE  \E u \in Nat : Due(kbd, u) /\ Alarm(u, kbd', stack', wake', now')
  <2>1. PICK u \in Nat : Due(kbd, u) /\ Alarm(u, kbd, stack, wake, now)
    BY <1>2 DEF Chiming
  <2> QED BY <1>1, <2>1
<1> QED BY <1>1, <1>2 DEF Chiming

-----------------------------------------------------------------------------
(* The invariant, and the theorem.                                         *)

Attended ==
  ~kbd.aborted => IF Chordless(kbd.config) THEN Steady(kbd, stack, wake, now, struck)
                                           ELSE Chiming(kbd, stack, wake, now)

LEMMA AttendedInit ==
  ASSUME Init
  PROVE  Attended
<1>1. /\ kbd.chord = Inactive /\ kbd.timeout = NoTimeout /\ kbd.overload = NoOverload
      /\ stack = <<>> /\ struck = 0
  BY DEF Init
<1>2. /\ Inactive.state = "inactive" /\ NoTimeout.code = NoCode
      /\ NoOverload.code = NoCode /\ NoOverload.queue = <<>>
  BY DEF Inactive, NoTimeout, NoOverload
<1>3. DOMAIN <<>> = {} /\ Len(<<>>) = 0
  OBVIOUS
<1>4. Rests(<<>>, now) /\ ~Fresh(<<>>, now) /\ Past(<<>>, now) /\ \A V : Enduring(V, <<>>, now)
  BY <1>3 DEF Rests, Fresh, Past, Enduring
<1>5. Apart(<<>>, 0, 0) /\ Strung(<<>>, 0, 0)
  BY ApartEmpty, StrungEmpty
<1>6. Lined(kbd, stack, now, struck)
  <2>1. Apart(kbd.overload.queue, 0, 0) /\ Strung(stack, 0, struck) /\ kbd.overload.code = NoCode
    BY <1>1, <1>2, <1>5
  <2> QED BY <1>1, <1>4, <2>1 DEF Lined
<1>7. Steady(kbd, stack, wake, now, struck)
  BY <1>1, <1>2, <1>4, <1>6 DEF Steady
<1>8. Chiming(kbd, stack, wake, now)
  BY <1>1, <1>2 DEF Chiming
<1> QED BY <1>7, <1>8 DEF Attended

LEMMA ProcessingAttended ==
  ASSUME PlainActions, Even, Intervals, Processing, Paid(kbd), Accounted, Punctual, Attended,
         ChordStep \/ Deliver(Upcoming)
  PROVE  Attended'
<1>1. /\ ReleaseChordKey(Upcoming) \/ BeginChord(Upcoming) \/ ExtendChord(Upcoming)
           \/ LapseChord(Upcoming) \/ HoldChord(Upcoming) \/ FireChord(Upcoming)
           \/ Deliver(Upcoming)
      /\ ~kbd.aborted
  BY DEF ChordStep, ReleaseChordKey, BeginChord, ExtendChord, LapseChord, HoldChord, FireChord,
         Deliver, Running
<1>2. Accounts(kbd, stack, HeldCodes) /\ Tidy(kbd)
  BY <1>1 DEF Accounted, Accounts
<1>3. CASE Chordless(kbd.config)
  <2>1. kbd'.config = kbd.config
    BY <1>2, <1>3, ChordlessStep DEF Punctual
  <2>2. Deliver(Upcoming)
    <3>1. kbd.chord.state = "inactive" /\ \A s \in Slot : ~kbd.slots[s].on
      BY <1>2, <1>3 DEF Tidy
    <3>2. Releasing(Upcoming) = {} /\ Partial(kbd, <<Upcoming>>) = {}
      BY <1>3, <3>1 DEF Releasing, Partial, Chordless
    <3> QED BY <1>1, <3>1, <3>2 DEF ReleaseChordKey, BeginChord, ExtendChord, LapseChord, HoldChord,
              FireChord
  <2>3. Steady(kbd, stack, wake, now, struck)
    BY <1>1, <1>3 DEF Attended
  <2>4. ~kbd'.aborted => Steady(kbd', stack', wake', now', struck')
    BY <1>2, <1>3, <2>2, <2>3, DeliverSteady
  <2> QED BY <1>3, <2>1, <2>4 DEF Attended
<1>4. CASE ~Chordless(kbd.config)
  <2>1. Chiming(kbd, stack, wake, now) /\ Layered(stack, now)
    BY <1>1, <1>4 DEF Attended, Punctual
  <2>2. kbd.config.interkey > 0
    BY CurrentOK DEF Intervals, Keyboard
  <2>3. ~kbd'.aborted => Chiming(kbd', stack', wake', now')
    BY <1>1, <1>2, <1>4, <2>1, <2>2, ReleaseChiming, BeginChiming, ExtendChiming, LapseChiming,
       HoldChiming, FireChiming, DeliverChiming
  <2>4. kbd'.config = kbd.config
    BY <1>1, ConfigStays
  <2> QED BY <1>4, <2>3, <2>4 DEF Attended
<1> QED BY <1>3, <1>4

LEMMA KeyEventAttended ==
  ASSUME Even, Slip = 0, TypeInv, Attended, NEW c \in Code, NEW pressed \in BOOLEAN,
         NEW t \in 1 .. MaxTime, KeyEvent(c, pressed, t)
  PROVE  Attended'
<1> DEFINE e == [code |-> c, pressed |-> pressed, at |-> t]
<1>1. kbd' = kbd /\ t \in Nat /\ Dispatch(e) /\ stack = <<>> /\ ~kbd.aborted /\ struck' = t
  BY BoundAssumption DEF KeyEvent, Idle
<1>2. e \in Event /\ e.at = t /\ e.code = c /\ c # NoCode
  BY <1>1, CodeAssumption DEF Event
<1> HIDE DEF e
<1>3. now <= e.at /\ struck + Gap <= e.at /\ (wake # 0 => e.at < wake)
  <2>1. now \in Nat /\ wake \in Nat /\ struck \in Nat /\ Gap \in Nat
    BY BoundAssumption DEF TypeInv, TypeOK
  <2>2. t >= now /\ t >= struck + Gap /\ (wake # 0 => t < wake + Slip)
    BY DEF KeyEvent
  <2> QED BY <1>1, <1>2, <2>1, <2>2
<1>4. CASE Chordless(kbd.config)
  <2>1. Steady(kbd, stack, wake, now, struck)
    BY <1>1, <1>4 DEF Attended
  <2>2. e.code # NoCode /\ e.code \in Code /\ struck' = e.at
    BY <1>1, <1>2
  <2>3. Steady(kbd', stack', wake', now', struck')
    BY <1>1, <1>2, <1>3, <1>4, <2>1, <2>2, DispatchSteady
  <2> QED BY <1>1, <1>4, <2>3 DEF Attended
<1>5. CASE ~Chordless(kbd.config)
  <2>1. Chiming(kbd, stack, wake, now)
    BY <1>1, <1>5 DEF Attended
  <2>2. Chiming(kbd', stack', wake', now')
    BY <1>1, <1>2, <1>3, <2>1, DispatchChiming
  <2> QED BY <1>1, <1>5, <2>2 DEF Attended
<1> QED BY <1>4, <1>5

LEMMA ExpireAttended ==
  ASSUME Even, TypeInv, Attended, Expire
  PROVE  Attended'
<1>1. now \in Nat /\ wake \in Nat /\ Late \in Nat
  BY BoundAssumption DEF TypeInv, TypeOK
<1>2. PICK t : /\ t \in Nat /\ now <= t /\ Timeout(t)
               /\ t <= now + Late \/ t <= wake + Late
  <2> DEFINE a == IF now > wake THEN now ELSE wake
  <2>1. a \in Nat /\ now <= a /\ (a = now \/ a = wake)
    BY <1>1
  <2>2. PICK t \in a .. a + Late : Timeout(t)
    BY DEF Expire
  <2> HIDE DEF a
  <2> QED BY <1>1, <2>1, <2>2
<1> DEFINE e == [code |-> NoCode, pressed |-> FALSE, at |-> t]
<1>3. kbd' = kbd /\ struck' = struck /\ Dispatch(e) /\ stack = <<>> /\ ~kbd.aborted
  BY <1>2 DEF Timeout, Idle
<1>4. e \in Event /\ e.at = t /\ e.code = NoCode
  BY <1>2 DEF Event
<1> HIDE DEF e
<1>5. CASE Chordless(kbd.config)
  <2>1. Steady(kbd, stack, wake, now, struck)
    BY <1>3, <1>5 DEF Attended
  <2>2. Steady(kbd', stack', wake', now', struck')
    BY <1>2, <1>3, <1>4, <1>5, <2>1, DispatchSteady
  <2> QED BY <1>3, <1>5, <2>2 DEF Attended
<1>6. CASE ~Chordless(kbd.config)
  <2>1. Chiming(kbd, stack, wake, now)
    BY <1>3, <1>6 DEF Attended
  <2>2. Chiming(kbd', stack', wake', now')
    BY <1>2, <1>3, <1>4, <2>1, DispatchChiming
  <2> QED BY <1>3, <1>6, <2>2 DEF Attended
<1> QED BY <1>5, <1>6

LEMMA ReturnAttended ==
  ASSUME TypeInv, Attended, Return
  PROVE  Attended'
<1>1. ~kbd.aborted /\ kbd'.config = kbd.config
  BY DEF Return, TypeInv, TypeOK, Keyboard
<1>2. CASE Chordless(kbd.config)
  <2>1. Steady(kbd, stack, wake, now, struck)
    BY <1>1, <1>2 DEF Attended
  <2>2. Steady(kbd', stack', wake', now', struck')
    BY <2>1, ReturnSteady
  <2> QED BY <1>1, <1>2, <2>2 DEF Attended
<1>3. CASE ~Chordless(kbd.config)
  <2>1. Chiming(kbd, stack, wake, now)
    BY <1>1, <1>3 DEF Attended
  <2>2. Chiming(kbd', stack', wake', now')
    BY <2>1, ReturnChiming
  <2> QED BY <1>1, <1>3, <2>2 DEF Attended
<1> QED BY <1>2, <1>3

LEMMA AttendedStep ==
  ASSUME PlainActions, Even, Intervals, Slip = 0, TypeInv, Paid(kbd), Accounted, Punctual, Attended,
         [Next]_vars
  PROVE  Attended'
<1>1. CASE \E c \in Code, pressed \in BOOLEAN, t \in 1 .. MaxTime : KeyEvent(c, pressed, t)
  BY <1>1, KeyEventAttended
<1>2. CASE Expire
  BY <1>2, ExpireAttended
<1>3. CASE ChordStep
  <2>1. Processing
    BY <1>3 DEF ChordStep, Processing
  <2> QED BY <1>3, <2>1, ProcessingAttended
<1>4. CASE stack # <<>> /\ Top.events # <<>> /\ Deliver(Upcoming)
  BY <1>4, ProcessingAttended DEF Processing
<1>5. CASE Return
  BY <1>5, ReturnAttended
<1>6. CASE UNCHANGED vars
  BY <1>6 DEF vars, Attended
<1> QED BY <1>1, <1>2, <1>3, <1>4, <1>5, <1>6 DEF Next, Step

\* Between calls of process_event the deadline is no later than the decision.
LEMMA AttendedIsAwaited ==
  ASSUME TypeInv, Accounted, Attended
  PROVE  Awaited
<1>1. SUFFICES ASSUME Idle, NEW t \in DecisionTimes
               PROVE  wake # 0 /\ wake <= t + Late
  BY DEF Awaited
<1>2. ~kbd.aborted /\ stack = <<>> /\ ~Fresh(stack, now)
  BY <1>1 DEF Idle, Fresh
<1>3. Tidy(kbd) /\ kbd \in Keyboard /\ wake \in Nat /\ Late \in Nat
  BY <1>2, BoundAssumption DEF Accounted, Accounts, TypeInv, TypeOK
<1>4. /\ kbd.overload.expiration \in Nat /\ kbd.timeout.expiration \in Nat
      /\ kbd.chord.last + kbd.config.interkey \in Nat
      /\ kbd.chord.last + kbd.config.hold \in Nat
  BY <1>3, ConfigAssumption DEF Config, Keyboard, PendingOverload, PendingTimeout, Chording
<1>5. \A u \in Nat : Alarm(u, kbd, stack, wake, now) => wake # 0 /\ wake <= u
  BY <1>2 DEF Alarm
<1>6. \/ kbd.chord.state = "pending" /\ t = kbd.chord.last + kbd.config.interkey
      \/ kbd.chord.state = "hold" /\ t = kbd.chord.last + kbd.config.hold
      \/ kbd.overload.code # NoCode /\ t = kbd.overload.expiration
      \/ kbd.timeout.code # NoCode /\ t = kbd.timeout.expiration
  BY <1>1 DEF DecisionTimes
<1>7. CASE Chordless(kbd.config)
  <2>1. kbd.chord.state = "inactive" /\ Steady(kbd, stack, wake, now, struck)
    BY <1>2, <1>3, <1>7 DEF Tidy, Attended
  <2>2. Alarm(t, kbd, stack, wake, now) /\ t \in Nat
    BY <1>4, <1>6, <2>1 DEF Steady
  <2> QED BY <1>3, <1>5, <2>2
<1>8. CASE ~Chordless(kbd.config)
  <2>1. kbd.overload.code = NoCode /\ Chiming(kbd, stack, wake, now)
    BY <1>2, <1>3, <1>8 DEF Tidy, Attended
  <2>2. kbd.chord.state \in {"pending", "hold"}
    BY <1>6, <2>1 DEF Chiming
  <2>3. PICK u \in Nat : Due(kbd, u) /\ Alarm(u, kbd, stack, wake, now)
    BY <2>1, <2>2 DEF Chiming
  <2>4. u <= t + Late /\ t \in Nat
    BY <1>3, <1>4, <1>6, <2>1, <2>3 DEF Due, Lapse, Chiming
  <2> QED BY <1>3, <1>5, <2>3, <2>4
<1> QED BY <1>7, <1>8

LEMMA EvenExclusive ==
  ASSUME Even
  PROVE  Exclusive
<1>1. SUFFICES ASSUME NEW config \in Configs, ~Chordless(config)
               PROVE  /\ \A l \in Layer, c \in Code : ~Overloading(config.keymap[l][c])
                      /\ \A c \in Chord : ~Overloading(ChordDescriptor[c])
  BY DEF Exclusive
<1>2. Spans(config) = {} /\ \A c \in Chord : ~Deferring(ChordDescriptor[c])
  BY <1>1 DEF Even
<1>3. ASSUME NEW l \in Layer, NEW c \in Code PROVE ~Deferring(config.keymap[l][c])
  <2>1. config.keymap[l][c].span \in Nat
    BY ConfigAssumption DEF Config, Descriptor
  <2> QED BY <1>2, <2>1 DEF Spans
<1> QED BY <1>2, <1>3 DEF Overloading, Deferring

\* process_event returns "a timeout before which the next invocation of process_event
\* must take place" (keyboard.c:1181): whenever the event loop waits and a key or chord is
\* undecided, it has been told to come back no later than the time that decides it.  This
\* is so for one device with poll's timer not behind the events' time, macros whose
\* entries are plain keys, an interval that is not zero, no timed keys where there are
\* chords, and timed keys that wait for about the same time, compared with how far apart
\* keys are struck (Even): without that a key queued behind an overloaded one can be due
\* before its turn comes.
THEOREM PipelineAwaited ==
  ASSUME PlainActions, Even, Devices = 1, Slip = 0, Intervals
  PROVE  Spec => []Awaited
<1> DEFINE I == TypeInv /\ Paid(kbd) /\ Matched(kbd.chord) /\ Accounted /\ Punctual /\ Attended
<1>1. I /\ TypeInv' /\ [Next]_vars => I'
  BY EvenExclusive, PaidStep, MatchedStep, AccountedStep, PunctualStep, AttendedStep DEF KeptOn
<1>2. Init => I
  <2>1. Init => Matched(kbd.chord)
    BY DEF Init, Matched, Inactive
  <2> QED BY <2>1, TypeInit, PaidInit, AccountedInit, PunctualInit, AttendedInit
<1>3. I => Awaited
  BY AttendedIsAwaited
<1> HIDE DEF I
<1> QED BY <1>1, <1>2, <1>3, TypeInvariant, PTL DEF Spec
=============================================================================
