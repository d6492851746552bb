------------------------------ MODULE Pipeline ------------------------------
(***************************************************************************)
(* The deferral machinery of src/src/keyboard.c: between a key event and   *)
(* the layer machine (module Layers) stand handle_chord, which withholds   *)
(* keys that may be part of a chord, handle_pending_timeout and            *)
(* handle_pending_overload, which withholds every event behind a key whose *)
(* tap or hold is undecided.  What they withheld they later replay through *)
(* kbd_process_events, which runs process_event again, so that a replayed  *)
(* event may be withheld once more.                                        *)
(*                                                                         *)
(* stack holds one frame per activation of kbd_process_events (or of       *)
(* process_event called on a chord's own code), innermost first; a Step is *)
(* one process_event up to the point where it returns or recurs.  The      *)
(* event loop hands in a key event or, when the deadline that the last     *)
(* call returned has passed, an event without a code.                      *)
(*                                                                         *)
(* Abstracted: a descriptor presses a key, activates a layer or defers;    *)
(* what else process_descriptor does is in Layers.  The cache has room for *)
(* every key.  Time is in milliseconds from 1.                             *)
(***************************************************************************)
EXTENDS Naturals, Sequences, FiniteSets, SequencesExt

CONSTANTS
  Code,              \* the physical key codes
  NoCode,            \* code 0
  NrSlots,           \* ARRAY_SIZE(active_chords): chord codes are 1 .. NrSlots
  Key,               \* output keys
  SelfKey,           \* [Code -> Key]: what an unmapped key outputs
  Layer, Main,       \* layers, and the one always active
  Action,            \* indices of config.descriptors
  Descriptors,       \* [Action -> Descriptor]
  NrChords,          \* chords are numbered 1 .. NrChords
  ChordKeys,         \* [Chord -> SUBSET Code]
  ChordDescriptor,   \* [Chord -> Descriptor]
  Configs,           \* the configs that the keyboard may run with
  QueueSize,         \* ARRAY_SIZE(chord.queue), ARRAY_SIZE(pending_overload.queue)
  Devices,           \* how many devices of this config have each key
  Gap,               \* least time between two key events
  Slip,              \* how late poll's timer may run behind the event timestamps
  Late,              \* how late a timeout may be handled
  MaxTime            \* bound: no key event is taken after it

Slot  == 1 .. NrSlots
Chord == 1 .. NrChords
NoChord == 0

Descriptor == [op    : {"none", "key", "layer", "timeout", "overloadt", "overloadt2"},
               key   : Key,
               layer : Layer,
               act   : Action,
               alt   : Action,
               span  : Nat]

Config == [keymap   : [Layer -> [Code -> Descriptor]],
           chords   : [Layer -> SUBSET Chord],
           interkey : Nat,              \* chord_interkey_timeout
           hold     : Nat]              \* chord_hold_timeout

Event == [code : Code \cup Slot \cup {NoCode}, pressed : BOOLEAN, at : Nat]

ASSUME CodeAssumption ==
  /\ NoCode \notin Code \cup Slot
  /\ Code \cap Slot = {}
  /\ NrSlots \in Nat \ {0}
  /\ IsFiniteSet(Code)
  /\ SelfKey \in [Code -> Key]

ASSUME ConfigAssumption ==
  /\ Main \in Layer
  /\ Action # {}
  /\ Configs \subseteq Config
  /\ Descriptors \in [Action -> Descriptor]
  /\ \A a \in Action : Descriptors[a].op # "none"

ASSUME ChordAssumption ==
  /\ NrChords \in Nat
  /\ ChordKeys \in [Chord -> SUBSET Code]
  /\ \A c \in Chord : IsFiniteSet(ChordKeys[c]) /\ ChordKeys[c] # {}
  /\ ChordDescriptor \in [Chord -> Descriptor]

\* A chord is in the table only with the descriptor that was parsed for it.
ASSUME BindingAssumption == \A c \in Chord : ChordDescriptor[c].op # "none"

ASSUME BoundAssumption ==
  /\ QueueSize \in Nat \ {0} /\ Devices \in Nat \ {0}
  /\ Gap \in Nat /\ Slip \in Nat /\ Late \in Nat /\ MaxTime \in Nat

VARIABLES kbd, stack, wake, now, struck, held
vars == <<kbd, stack, wake, now, struck, held>>

Free == [op |-> "none", key |-> CHOOSE o \in Key : TRUE, layer |-> Main,
         act |-> CHOOSE a \in Action : TRUE, alt |-> CHOOSE a \in Action : TRUE, span |-> 0]

NoTimeout  == [code |-> NoCode, spontaneous |-> FALSE, expiration |-> 0,
               activation |-> 0, action1 |-> Free, action2 |-> Free]
NoOverload == [code |-> NoCode, expiration |-> 0, interrupt |-> FALSE,
               queue |-> <<>>, action |-> Free, layer |-> Main]
Inactive   == [state |-> "inactive", queue |-> <<>>, match |-> NoChord, last |-> 0]

Chording == [state : {"inactive", "pending", "hold", "resolving"},
             queue : Seq(Event), match : Chord \cup {NoChord}, last : Nat]

ActiveChord == [on : BOOLEAN, chord : Chord \cup {NoChord}, keys : SUBSET Code]

PendingTimeout == [code : Code \cup Slot \cup {NoCode}, spontaneous : BOOLEAN,
                   expiration : Nat, activation : Nat,
                   action1 : Descriptor, action2 : Descriptor]

PendingOverload == [code : Code \cup Slot \cup {NoCode}, expiration : Nat,
                    interrupt : BOOLEAN, queue : Seq(Event), action : Descriptor,
                    layer : Layer]

Keyboard == [config   : Configs,
             cache    : [Code \cup Slot -> Descriptor],
             active   : [Layer -> Nat],
             recent   : Seq(Layer),               \* layers by activation_time
             down     : SUBSET Key,               \* keystate
             timers   : SUBSET Nat,               \* timeouts
             chord    : Chording,
             slots    : [Slot -> ActiveChord],
             timeout  : PendingTimeout,
             overload : PendingOverload,
             aborted  : BOOLEAN]

Frame == [kind   : {"loop", "chord", "overload", "code"},
          events : Seq(Event),
          timer  : Nat,                 \* timeout_ts, 0 when timeout is 0
          at     : Nat]                 \* time of the event being processed

TypeOK ==
  /\ kbd \in Keyboard
  /\ stack \in Seq(Frame)
  /\ wake \in Nat /\ now \in Nat /\ struck \in Nat
  /\ held \in [Code -> 0 .. Devices]

-----------------------------------------------------------------------------
(* Layers and descriptors.                                                 *)

Schedule(k, t) == [k EXCEPT !.timers = @ \cup {t}]

Rank(s, l) == CHOOSE i \in DOMAIN s : s[i] = l

\* l becomes the layer that was activated last.
Renewed(s, l) ==
  Append(IF \E i \in DOMAIN s : s[i] = l THEN RemoveAt(s, Rank(s, l)) ELSE s, l)

ActivateLayer(k, l) == [k EXCEPT !.active[l] = @ + 1, !.recent = Renewed(@, l)]

DeactivateLayer(k, l) ==
  IF k.active[l] > 0 THEN [k EXCEPT !.active[l] = @ - 1]
                     ELSE [k EXCEPT !.aborted = TRUE]

Latest(k, ls) == CHOOSE l \in ls : \A m \in ls : Rank(k.recent, m) <= Rank(k.recent, l)

\* A chord's code means the chord its slot holds, active or not.
Lookup(k, c) ==
  LET binding == {l \in Layer : k.active[l] > 0 /\ k.config.keymap[l][c].op # "none"}
  IN  IF c \in Slot THEN ChordDescriptor[k.slots[c].chord]
      ELSE IF binding # {} THEN k.config.keymap[Latest(k, binding)][c]
      ELSE [Free EXCEPT !.op = "key", !.key = SelfKey[c]]

\* process_descriptor, pressed: d becomes what c does.
Press(k, c, d, t) ==
  CASE d.op = "key"     -> [k EXCEPT !.down = @ \cup {d.key}]
    [] d.op = "layer"   -> ActivateLayer(k, d.layer)
    [] d.op = "timeout" ->
         Schedule([k EXCEPT !.timeout =
                     [code |-> c, spontaneous |-> FALSE, expiration |-> t + d.span,
                      activation |-> t, action1 |-> Descriptors[d.act],
                      action2 |-> Descriptors[d.alt]]], t + d.span)
    [] d.op \in {"overloadt", "overloadt2"} ->
         Schedule([k EXCEPT !.overload =
                     [code |-> c, expiration |-> t + d.span,
                      interrupt |-> d.op = "overloadt2", queue |-> @.queue,
                      action |-> Descriptors[d.act], layer |-> d.layer]], t + d.span)
    [] OTHER -> k

\* ... and released.  A timeout key struck and released in one instant is
\* spontaneous, as is any other that became pending in that instant.
Release(k, d, t) ==
  CASE d.op = "key"     -> [k EXCEPT !.down = @ \ {d.key}]
    [] d.op = "layer"   -> DeactivateLayer(k, d.layer)
    [] d.op = "timeout" /\ k.timeout.code # NoCode /\ t = k.timeout.activation ->
         [k EXCEPT !.timeout.spontaneous = TRUE]
    [] OTHER -> k

\* Mutant: an entry that is there already stays.
CacheKeep(k, c, d) == IF d # Free /\ k.cache[c] # Free THEN k ELSE [k EXCEPT !.cache[c] = d]
CacheSet(k, c, d) == [k EXCEPT !.cache[c] = d]
Cached(k, c) == k.cache[c].op # "none"

-----------------------------------------------------------------------------
(* The event that the innermost frame processes next: its next one, or the *)
(* timeout that falls due before it.                                       *)

Top == Head(stack)

TimeoutDue(f) == f.timer # 0 /\ f.timer <= Head(f.events).at

Upcoming == IF TimeoutDue(Top) THEN [code |-> NoCode, pressed |-> FALSE, at |-> Top.timer]
                               ELSE Head(Top.events)

Taken == [Top EXCEPT !.events = IF TimeoutDue(Top) THEN @ ELSE Tail(@),
                     !.at = Upcoming.at]

Least(ts) == CHOOSE t \in ts : \A u \in ts : t <= u
\* Mutant: a timer of the next millisecond is dropped as well.
LaterButOne(k, t) == {u \in k.timers : u > t + 1}
Later(k, t) == {u \in k.timers : u > t}

\* calculate_main_loop_timeout: deadlines that have passed are dropped.
Deadline(k, t) == IF Later(k, t) = {} THEN 0 ELSE Least(Later(k, t))

Exit(k) ==
  /\ kbd' = [k EXCEPT !.timers = Later(k, Upcoming.at)]
  /\ stack' = <<[Taken EXCEPT !.timer = Deadline(k, Upcoming.at)]>> \o Tail(stack)
  /\ UNCHANGED <<wake, now, struck, held>>

\* process_event waits for the frames it calls.
Call(k, frames) ==
  /\ kbd' = k
  /\ stack' = frames \o <<Taken>> \o Tail(stack)
  /\ UNCHANGED <<wake, now, struck, held>>

CallFrame(kind, events) == [kind |-> kind, events |-> events, timer |-> 0, at |-> 0]

Running(e) == ~kbd.aborted /\ stack # <<>> /\ Top.events # <<>> /\ e = Upcoming

-----------------------------------------------------------------------------
(* handle_chord.                                                           *)

Presses(q) == {i \in DOMAIN q : q[i].pressed}

\* The chords of active layers that the events of q may be part of, and are all of.
Partial(k, q) ==
  {m \in [layer : Layer, chord : Chord] :
     /\ k.active[m.layer] > 0 /\ m.chord \in k.config.chords[m.layer]
     /\ Presses(q) # {}
     /\ \A i \in Presses(q) : q[i].code \in ChordKeys[m.chord]}

Full(k, q) == {m \in Partial(k, q) : Cardinality(Presses(q)) = Cardinality(ChordKeys[m.chord])}

\* The chord of the layer activated last, and the last declared in it.
Best(k, ms) ==
  LET l == Latest(k, {m.layer : m \in ms})
  IN  CHOOSE c \in {m.chord : m \in {n \in ms : n.layer = l}} :
        \A m \in ms : m.layer = l => m.chord <= c

Match(k, q, old) == IF Full(k, q) = {} THEN old ELSE Best(k, Full(k, q))

\* The withheld events behind those that the matched chord stands for.  Mutant: the
\* first of them is skipped, too.
RestButOne(q, match) ==
  IF match = NoChord THEN q ELSE SubSeq(q, Cardinality(ChordKeys[match]) + 2, Len(q))
Rest(q, match) ==
  IF match = NoChord THEN q ELSE SubSeq(q, Cardinality(ChordKeys[match]) + 1, Len(q))

\* The chord whose action the queued events stand for starts; the rest is replayed.
Resolve(k, q, match) ==
  LET free == {s \in Slot : ~k.slots[s].on}
      slot == Least(free)
      resolving == [k EXCEPT !.chord.state = "resolving", !.chord.queue = q, !.chord.match = match]
      started == [resolving EXCEPT !.slots[slot] =
                    [on |-> TRUE, chord |-> match, keys |-> ChordKeys[match]]]
      press == [code |-> slot, pressed |-> TRUE, at |-> k.chord.last]
      rest == CallFrame("chord", Rest(q, match))
  IN  IF match = NoChord THEN Call(resolving, <<rest>>)
      ELSE IF free = {} THEN Exit([k EXCEPT !.aborted = TRUE])
      ELSE Call(started, <<CallFrame("code", <<press>>), rest>>)

Abort(k, q) == Resolve(k, q, NoChord)

\* q, with the event just added, matches some chord: wait, or resolve it.
Advance(q, old, t) ==
  LET match == Match(kbd, q, old)
      unambiguous == Full(kbd, q) # {} /\ Partial(kbd, q) = Full(kbd, q)
      waiting == [kbd EXCEPT !.chord = [state |-> IF unambiguous THEN "hold" ELSE "pending",
                                        queue |-> q, match |-> match, last |-> t]]
  IN  CASE ~unambiguous -> Exit(Schedule(waiting, t + kbd.config.interkey))
        [] unambiguous /\ kbd.config.hold > 0 -> Exit(Schedule(waiting, t + kbd.config.hold))
        [] OTHER -> Resolve(waiting, q, match)

\* Mutants: a timer that fires on time is too early.
ChordLapsedAfter(e) == e.at > kbd.chord.last + kbd.config.interkey
ChordHeldAfter(e)   == e.at > kbd.chord.last + kbd.config.hold
ChordLapsed(e) == e.at >= kbd.chord.last + kbd.config.interkey
ChordHeld(e)   == e.at >= kbd.chord.last + kbd.config.hold

\* The slots of the chords, in effect, that e releases a key of.
Releasing(e) == {s \in Slot : kbd.slots[s].on /\ ~e.pressed /\ e.code \in kbd.slots[s].keys}

\* Mutant: the slot of a chord that is over stays taken.
LiftOnly(k, s, c) == [k EXCEPT !.slots[s].keys = @ \ {c}]
Lift(k, s, c) == [k EXCEPT !.slots[s].keys = @ \ {c}, !.slots[s].on = k.slots[s].keys # {c}]

ReleaseChordKey(e) ==
  /\ Running(e) /\ Releasing(e) # {}
  /\ LET s == Least(Releasing(e))
         lifted == Lift(kbd, s, e.code)
         release == [code |-> s, pressed |-> FALSE, at |-> e.at]
     IN  IF lifted.slots[s].keys # {} THEN Exit(lifted)
                                     ELSE Call(lifted, <<CallFrame("code", <<release>>)>>)

BeginChord(e) ==
  /\ Running(e) /\ Releasing(e) = {}
  /\ kbd.chord.state = "inactive"
  /\ e.code # NoCode /\ Partial(kbd, <<e>>) # {}
  /\ Advance(<<e>>, NoChord, e.at)

\* assert(queue_sz < ARRAY_SIZE(queue)) of enqueue_chord_event.
Overflows(q) == Len(q) > QueueSize

ExtendChord(e) ==
  /\ Running(e) /\ Releasing(e) = {}
  /\ kbd.chord.state = "pending" /\ e.code # NoCode
  /\ LET q == Append(kbd.chord.queue, e)
     IN  IF Overflows(q) THEN Exit([kbd EXCEPT !.aborted = TRUE])
         ELSE IF e.pressed /\ Partial(kbd, q) # {}
         THEN Advance(q, kbd.chord.match, e.at)
         ELSE Abort(kbd, q)

\* Mutant: a chord that did not match is held like one that did.
LapseUnmatched(e) ==
  /\ Running(e)
  /\ kbd.chord.state = "pending" /\ e.code = NoCode /\ ChordLapsed(e)
  /\ Exit(Schedule([kbd EXCEPT !.chord.state = "hold"], e.at + kbd.config.hold))

\* No further key came in time: the chord matched so far, if any, is meant.
LapseChord(e) ==
  /\ Running(e)
  /\ kbd.chord.state = "pending" /\ e.code = NoCode /\ ChordLapsed(e)
  /\ IF kbd.chord.match = NoChord THEN Abort(kbd, kbd.chord.queue)
     ELSE IF kbd.config.hold > kbd.config.interkey
     THEN Exit(Schedule([kbd EXCEPT !.chord.state = "hold"],
                        e.at + (kbd.config.hold - kbd.config.interkey)))
     ELSE Resolve(kbd, kbd.chord.queue, kbd.chord.match)

HoldChord(e) ==
  /\ Running(e) /\ Releasing(e) = {}
  /\ kbd.chord.state = "hold" /\ e.code # NoCode
  /\ LET q == Append(kbd.chord.queue, e)
     IN  IF Overflows(q) THEN Exit([kbd EXCEPT !.aborted = TRUE])
         ELSE IF ~e.pressed /\ e.code \in ChordKeys[kbd.chord.match]
         THEN Abort(kbd, q)
         ELSE Exit([kbd EXCEPT !.chord.queue = q])

FireChord(e) ==
  /\ Running(e)
  /\ kbd.chord.state = "hold" /\ e.code = NoCode /\ ChordHeld(e)
  /\ Resolve(kbd, kbd.chord.queue, kbd.chord.match)

\* handle_chord leaves e to the handlers behind it.
PassesChord(e) ==
  /\ Releasing(e) = {}
  /\ \/ kbd.chord.state = "resolving"
     \/ kbd.chord.state = "inactive" /\ (e.code = NoCode \/ Partial(kbd, <<e>>) = {})
     \/ kbd.chord.state = "pending" /\ e.code = NoCode /\ ~ChordLapsed(e)
     \/ kbd.chord.state = "hold" /\ e.code = NoCode /\ ~ChordHeld(e)

-----------------------------------------------------------------------------
(* handle_pending_timeout, which never keeps an event to itself.           *)

DecidesTimeout(k, e) ==
  LET p == k.timeout
  IN  /\ p.code # NoCode
      /\ ~(~e.pressed /\ e.code = p.code /\ e.at = p.activation)
      /\ \/ e.at >= p.expiration
         \/ p.spontaneous /\ e.code # NoCode
         \/ e.code # NoCode /\ (e.pressed \/ e.code = p.code)

DecideTimeout(k, e) ==
  LET p == k.timeout
      action == IF e.at >= p.expiration THEN p.action2 ELSE p.action1
      decided == [k EXCEPT !.timeout = NoTimeout]
  IN  IF ~DecidesTimeout(k, e) THEN k
      ELSE IF p.spontaneous
      THEN Release(Press(decided, p.code, action, e.at), action, e.at)
      ELSE Press(CacheSet(decided, p.code, action), p.code, action, e.at)

-----------------------------------------------------------------------------
(* handle_pending_overload, and process_event's own handling.              *)

\* assert(queue_sz < ARRAY_SIZE(queue)), for any key event while one is pending.
QueueFull(k, e) == /\ k.overload.code # NoCode /\ e.code # NoCode
                   /\ Len(k.overload.queue) >= QueueSize

\* Whether e waits behind the overloaded key: not the release of a key that went
\* down before it.
Waits(k, e) ==
  /\ k.overload.code # NoCode
  /\ \/ e.code = NoCode \/ e.pressed \/ e.code = k.overload.code
     \/ \E i \in DOMAIN k.overload.queue : k.overload.queue[i].code = e.code

\* A timeout, too, is an event that is not a press.
Decides(o, e) ==
  \/ e.at >= o.expiration
  \/ e.code = o.code
  \/ o.interrupt /\ ~e.pressed

Decision(o, e) ==
  IF e.at < o.expiration /\ e.code = o.code
  THEN o.action
  ELSE [Free EXCEPT !.op = "layer", !.layer = o.layer]

\* Mutants: the event is queued in front of the others, or without its time.
EnqueueFirst(o, e) == IF e.code = NoCode THEN o ELSE [o EXCEPT !.queue = <<e>> \o @]
EnqueueUntimed(o, e) ==
  IF e.code = NoCode THEN o
  ELSE [o EXCEPT !.queue = Append(@, [code |-> e.code, pressed |-> e.pressed])]
Enqueue(o, e) == IF e.code = NoCode THEN o ELSE [o EXCEPT !.queue = Append(@, e)]

Defer(k, e) ==
  LET o == Enqueue(k.overload, e)
      action == Decision(o, e)
      decided == CacheSet([k EXCEPT !.overload = NoOverload], o.code, action)
  IN  IF Decides(o, e)
      THEN Call(Press(decided, o.code, action, e.at), <<CallFrame("overload", o.queue)>>)
      ELSE Exit([k EXCEPT !.overload = o])

\* Mutant: a key is released as what it would now be, not as what it was pressed as.
StrikeUncached(k, e) ==
  CASE e.code # NoCode /\ e.pressed /\ ~Cached(k, e.code) ->
         LET d == Lookup(k, e.code) IN Press(CacheSet(k, e.code, d), e.code, d, e.at)
    [] e.code # NoCode /\ ~e.pressed /\ Cached(k, e.code) ->
         Release(CacheSet(k, e.code, Free), Lookup(k, e.code), e.at)
    [] OTHER -> k

Strike(k, e) ==
  CASE e.code # NoCode /\ e.pressed /\ ~Cached(k, e.code) ->
         LET d == Lookup(k, e.code) IN Press(CacheSet(k, e.code, d), e.code, d, e.at)
    [] e.code # NoCode /\ ~e.pressed /\ Cached(k, e.code) ->
         Release(CacheSet(k, e.code, Free), k.cache[e.code], e.at)
    [] OTHER -> k

Deliver(e) ==
  /\ Running(e) /\ PassesChord(e)
  /\ LET k == DecideTimeout(kbd, e)
     IN  IF QueueFull(k, e) THEN Exit([k EXCEPT !.aborted = TRUE])
         ELSE IF Waits(k, e) THEN Defer(k, e)
         ELSE Exit(Strike(k, e))

\* A frame with nothing left returns to the process_event that called it.
Return ==
  /\ ~kbd.aborted /\ stack # <<>> /\ Top.events = <<>>
  /\ LET k == IF Top.kind = "chord" THEN [kbd EXCEPT !.chord = Inactive] ELSE kbd
         caller == stack[2]
     IN  IF Len(stack) = 1
         THEN kbd' = k /\ stack' = <<>> /\ wake' = Top.timer
         ELSE IF Top.kind = "code" /\ caller.kind = "chord" /\ caller.at = 0
         THEN kbd' = k /\ stack' = Tail(stack) /\ wake' = wake
         ELSE /\ kbd' = [k EXCEPT !.timers = Later(k, caller.at)]
              /\ stack' = <<[caller EXCEPT !.timer = Deadline(k, caller.at)]>>
                            \o Tail(Tail(stack))
              /\ wake' = wake
  /\ UNCHANGED <<now, struck, held>>

-----------------------------------------------------------------------------
(* The event loop.                                                         *)

Idle == ~kbd.aborted /\ stack = <<>>

Dispatch(e) == stack' = <<CallFrame("loop", <<e>>)>> /\ now' = e.at

\* A key event whose time is before the deadline, or behind it by poll's slip.
KeyEvent(c, pressed, t) ==
  /\ Idle
  /\ t >= now /\ t >= struck + Gap /\ t <= MaxTime
  /\ wake # 0 => t < wake + Slip
  /\ IF pressed THEN held[c] < Devices ELSE held[c] > 0
  /\ held' = [held EXCEPT ![c] = IF pressed THEN @ + 1 ELSE @ - 1]
  /\ Dispatch([code |-> c, pressed |-> pressed, at |-> t])
  /\ struck' = t
  /\ UNCHANGED <<kbd, wake>>

Timeout(t) ==
  /\ Idle /\ wake # 0
  /\ t >= now /\ t >= wake
  /\ Dispatch([code |-> NoCode, pressed |-> FALSE, at |-> t])
  /\ wake' = 0
  /\ UNCHANGED <<kbd, struck, held>>

Init ==
  /\ \E config \in Configs :
     kbd = [config |-> config,
            cache |-> [c \in Code \cup Slot |-> Free],
            active |-> [l \in Layer |-> IF l = Main THEN 1 ELSE 0],
            recent |-> <<Main>>,
            down |-> {},
            timers |-> {},
            chord |-> Inactive,
            slots |-> [s \in Slot |-> [on |-> FALSE, chord |-> NoChord, keys |-> {}]],
            timeout |-> NoTimeout,
            overload |-> NoOverload,
            aborted |-> FALSE]
  /\ stack = <<>> /\ wake = 0 /\ now = 1 /\ struck = 0
  /\ held = [c \in Code |-> 0]

ChordStep == IF stack = <<>> \/ Top.events = <<>> THEN FALSE ELSE
  LET e == Upcoming
  IN  ReleaseChordKey(e) \/ BeginChord(e) \/ ExtendChord(e)
        \/ LapseChord(e) \/ HoldChord(e) \/ FireChord(e)

Step == ChordStep \/ (stack # <<>> /\ Top.events # <<>> /\ Deliver(Upcoming)) \/ Return

Expire == \E t \in (IF now > wake THEN now ELSE wake) .. (IF now > wake THEN now ELSE wake) + Late :
            Timeout(t)

Next ==
  \/ \E c \in Code, pressed \in BOOLEAN, t \in 1 .. MaxTime : KeyEvent(c, pressed, t)
  \/ Expire
  \/ Step

\* The event loop returns from its handlers and waits no longer than the deadline.
Spec == Init /\ [][Next]_vars /\ WF_vars(Step) /\ WF_vars(Expire)

-----------------------------------------------------------------------------
(* Properties.                                                             *)

Queued == kbd.overload.queue \o kbd.chord.queue

\* What the last of the queued events of c says, or else the keyboard, of c.
SaysDown(c, settled) ==
  LET mine == {i \in DOMAIN Queued : Queued[i].code = c}
  IN  IF mine = {} THEN settled
      ELSE Queued[CHOOSE i \in mine : \A j \in mine : j <= i].pressed

InChord(c) == \E s \in Slot : kbd.slots[s].on /\ c \in kbd.slots[s].keys

\* Nothing is lost and nothing sticks: whatever chords or overloads withheld and
\* replayed, a key that is held is cached, waiting, or part of a chord in effect, and
\* one that is up is none of these, unless its release still waits.  Overlapping keys are
\* to be "queued until the timeout expires or the bound key is released" (keyd.scdoc:716),
\* not lost.  It is not so of chords and overloaded keys in one keymap.
Conserved == Idle =>
  \A c \in Code : SaysDown(c, Cached(kbd, c) \/ InChord(c)) = (held[c] > 0)

\* A chord's action "will be activated if all keys are struck within the chording
\* interval" (keyd.scdoc:386) and lasts until they are released: the code of a slot
\* is cached, or waits behind an overloaded key, for as long as its chord is on.
ChordsActivated == Idle =>
  \A s \in Slot : SaysDown(s, Cached(kbd, s)) = kbd.slots[s].on

\* So it is of chords that need not be held (chord_hold_timeout 0, the default): although
\* handle_chord frees a slot before the code of it is released, and what it replays comes
\* back to it, no chord is left without its action and no action without its chord.
ActivatedAtOnce == kbd.config.hold = 0 => ChordsActivated

\* No reordering: withheld events wait in the order they were struck, those behind
\* an undecided key ahead of those that may be part of a chord.
Chronological == Idle =>
  \A i, j \in DOMAIN Queued : i < j => Queued[i].at <= Queued[j].at

\* A chord about to be activated is one that the first queued events press: what
\* resolve_chord and the release check of handle_chord take for granted when they
\* use chord.match and skip chord->sz events.
HoldHasMatch == kbd.chord.state = "hold" =>
  /\ kbd.chord.match # NoChord
  /\ Len(kbd.chord.queue) >= Cardinality(ChordKeys[kbd.chord.match])
  /\ \A i \in 1 .. Cardinality(ChordKeys[kbd.chord.match]) :
       kbd.chord.queue[i].pressed /\ kbd.chord.queue[i].code \in ChordKeys[kbd.chord.match]

\* chord_timeout is "the maximum time between successive keys interpreted as part of a
\* chord" (keyd.scdoc:574): the keys of a chord being activated, in the order they are
\* queued, were struck no further apart than that.
WithinInterval ==
  (kbd.chord.state = "resolving" /\ kbd.chord.match # NoChord) =>
    \A i \in 1 .. Cardinality(ChordKeys[kbd.chord.match]) - 1 :
      LET q == kbd.chord.queue
      IN  q[i].at <= q[i + 1].at + kbd.config.interkey /\ q[i + 1].at <= q[i].at + kbd.config.interkey

\* Every activation by a held key is paired with its deactivation, although the
\* descriptor of a pending key is replaced in the cache when it is decided.
HeldLayers == /\ ~kbd.aborted
              /\ \A l \in Layer :
                   kbd.active[l] = (IF l = Main THEN 1 ELSE 0)
                     + Cardinality({c \in Code \cup Slot : /\ kbd.cache[c].op = "layer"
                                                         /\ kbd.cache[c].layer = l})

\* No stuck key: an output key is down only for a key whose release will lift it.
OwnedOutput == \A o \in kbd.down :
  \E c \in Code \cup Slot : kbd.cache[c].op = "key" /\ kbd.cache[c].key = o

Undecided == \/ kbd.chord.state \in {"pending", "hold"}
             \/ kbd.overload.code # NoCode
             \/ kbd.timeout.code # NoCode

DecisionTimes ==
  (IF kbd.chord.state = "pending" THEN {kbd.chord.last + kbd.config.interkey} ELSE {})
    \cup (IF kbd.chord.state = "hold" THEN {kbd.chord.last + kbd.config.hold} ELSE {})
    \cup (IF kbd.overload.code # NoCode THEN {kbd.overload.expiration} ELSE {})
    \cup (IF kbd.timeout.code # NoCode THEN {kbd.timeout.expiration} ELSE {})

\* process_event returns "a timeout before which the next invocation of process_event
\* must take place" (keyboard.c:1181): while a key is undecided the event loop waits no
\* longer than the time that decides it.
Awaited == Idle => \A t \in DecisionTimes : wake # 0 /\ wake <= t + Late

\* Whatever is undecided is decided in the end, even if no key is touched again.
Settles == Undecided ~> ~Undecided
=============================================================================
