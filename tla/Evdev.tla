-------------------------------- MODULE Evdev --------------------------------
(***************************************************************************)
(* Input devices: the device table of evloop (src/src/evloop.c) and what   *)
(* src/src/device.c does with the nodes of /dev/input/: how they are found,*)
(* twice if need be, grabbed once no key is held, read until there is      *)
(* nothing left, and dropped from the table.  Keys go up and down, packets *)
(* of motion arrive and nodes come and go between any two system calls.    *)
(*                                                                         *)
(* The kernel's side is external: a queue for each open file, a grab that  *)
(* one file of a node may hold and that hides the node from the rest of    *)
(* the system, and a queue that is dropped when it is full.                *)
(*                                                                         *)
(* Abstracted: what a keyboard does with its events (Daemon, Pipeline and  *)
(* Layers; here, only which keys it has been told are down), and which     *)
(* config matches a device.  The virtual device, the lights, scrolling,    *)
(* absolute axes and the panic sequence are left out.                      *)
(***************************************************************************)
EXTENDS Integers, Sequences, FiniteSets, SequencesExt

CONSTANTS
  Node,            \* what may appear as /dev/input/event*
  RawKey,          \* evdev codes
  Key,             \* the codes keyd knows
  KeyOf,           \* what device_read_event makes of an evdev code
  Unsupported,     \* ... of one that it ignores
  Emits,           \* the evdev codes a node has
  Packets,         \* the motion a node may report at once: sets of <<x, y>>
  Matches,         \* the sets of nodes that a set of configs may match
  MaxDevices,      \* MAX_DEVICES
  QueueSize,       \* the kernel's queue of an open file
  MaxChanges       \* bound: how many presses, repeats and packets of motion there are,
                   \* nodes that come or go, and reloads

ASSUME CodeAssumption ==
  /\ Unsupported \notin Key
  /\ KeyOf \in [RawKey -> Key \cup {Unsupported}]
  /\ Emits \in [Node -> SUBSET RawKey]
  /\ Packets \in [Node -> SUBSET ((Int \X Int) \ {<<0, 0>>})]
  /\ Matches # {} /\ Matches \subseteq SUBSET Node

ASSUME BoundAssumption ==
  /\ IsFiniteSet(Node)
  /\ MaxDevices \in Nat \ {0} /\ QueueSize \in Nat \ {0, 1}
  /\ MaxChanges \in Nat

VARIABLES
  present,         \* the nodes there are
  down,            \* the keys held on each
  seen,            \* ... of which the rest of the system has been told
  table,           \* device_table
  announced,       \* inotify: nodes created since devmon_create
  match,           \* the nodes some config matches
  loop,            \* where evloop is
  raced,           \* history: keys that went down just before a grab
  changes          \* how much has been pressed, moved, plugged and reloaded so far

vars == <<present, down, seen, table, announced, match, loop, raced, changes>>

\* Motion, by axis.
Vector == Int \X Int
Still == <<0, 0>>

Event ==
  [type : {"key"}, code : RawKey, value : 0 .. 2]
    \cup [type : {"rel"}, axis : {1, 2}, value : Int] \cup [type : {"syn"}]

Entry ==
  [node    : Node,
   open    : BOOLEAN,           \* fd # -1
   gone    : BOOLEAN,           \* the kernel: the node is no more
   owner   : BOOLEAN,           \* the kernel: this file holds the grab
   queue   : Seq(Event),        \* the kernel: what is to be read
   grabbed : BOOLEAN,
   data    : BOOLEAN,           \* it has a keyboard
   pending : Vector,             \* _pending_rel_x, _pending_rel_y
   heard   : SUBSET Key,        \* what its keyboard believes is down
   since   : SUBSET RawKey,     \* history: keys that went down since it has it
   owed    : Seq(Vector),        \* history: motion it has not been told of since
   sound   : SUBSET {"keys", "motion"}]    \* history: nothing of it was dropped

Loop ==
  [at      : {"start", "poll", "devices", "monitor", "aborted"},
   grab    : {"check", "grab", "drain"},   \* where device_grab is
   todo    : Seq(Nat),                     \* indices of the devices still to manage
   ready   : SUBSET Nat,                   \* devices poll found readable
   client  : BOOLEAN,                      \* ... a client that wants a reload
   found   : BOOLEAN,                      \* ... and something announced
   removed : BOOLEAN]

TypeOK ==
  /\ present \subseteq Node /\ match \in Matches
  /\ down \in [Node -> SUBSET RawKey]
  /\ seen \in [Node -> SUBSET RawKey] /\ raced \in [Node -> SUBSET RawKey]
  /\ table \in Seq(Entry) /\ Len(table) <= MaxDevices
  /\ \A i \in DOMAIN table : Len(table[i].queue) <= QueueSize
  /\ announced \in Seq(Node)
  /\ loop \in Loop /\ \A i \in Range(loop.todo) \cup loop.ready : i \in DOMAIN table
  /\ changes \in 0 .. MaxChanges

\* device_init: a node that can be opened, as the file that nothing has been read of.
Opened(n) ==
  [node |-> n, open |-> TRUE, gone |-> FALSE, owner |-> FALSE, queue |-> <<>>,
   grabbed |-> FALSE, data |-> FALSE, pending |-> Still,
   heard |-> {}, since |-> {}, owed |-> <<>>, sound |-> {}]

-----------------------------------------------------------------------------
(* The nodes: keys, motion, and nodes that come and go.  All external.     *)

Syn == [type |-> "syn"]
KeyEvent(k, v) == [type |-> "key", code |-> k, value |-> v]
RelEvent(axis, v) == [type |-> "rel", axis |-> axis, value |-> v]

\* A packet of motion has an event for each axis that moved.
Motion(p) ==
  (IF p[1] = 0 THEN <<>> ELSE <<RelEvent(1, p[1])>>)
    \o (IF p[2] = 0 THEN <<>> ELSE <<RelEvent(2, p[2])>>) \o <<Syn>>

\* A full queue is emptied of all but a SYN_DROPPED, which device_read_event takes for
\* any other SYN, and the event that did not fit.
Passed(queue, ev) ==
  IF Len(queue) < QueueSize THEN Append(queue, ev) ELSE <<Syn, ev>>

Overflows(queue, packet) == Len(queue) + Len(packet) > QueueSize

Live(n) == {i \in DOMAIN table : table[i].node = n /\ ~table[i].gone}

\* The files a node's events go to: that which holds the grab, or all of them.
Readers(n) ==
  LET owners == {i \in Live(n) : table[i].owner}
  IN  IF owners = {} THEN Live(n) ELSE owners
IsGrabbed(n) == \E i \in Live(n) : table[i].owner

Queued(queue, packet) == FoldLeft(Passed, queue, packet)

Received(entry, packet) ==
  [entry EXCEPT !.queue = Queued(@, packet),
                !.sound = IF Overflows(entry.queue, packet) THEN {} ELSE @]

Changed == changes < MaxChanges /\ changes' = changes + 1

Press(n, k) ==
  /\ n \in present /\ k \in Emits[n] \ down[n] /\ Changed
  /\ down' = [down EXCEPT ![n] = @ \cup {k}]
  /\ seen' = IF IsGrabbed(n) THEN seen ELSE [seen EXCEPT ![n] = @ \cup {k}]
  /\ raced' = IF loop.todo # <<>> /\ loop.grab = "grab" /\ table[Head(loop.todo)].node = n
              THEN [raced EXCEPT ![n] = @ \cup {k}] ELSE raced
  /\ table' = [i \in DOMAIN table |->
                 IF i \in Readers(n)
                 THEN [Received(table[i], <<KeyEvent(k, 1), Syn>>) EXCEPT
                          !.since = IF table[i].data THEN @ \cup {k} ELSE @]
                 ELSE table[i]]
  /\ UNCHANGED <<present, announced, match, loop>>

Release(n, k) ==
  /\ k \in down[n]
  /\ down' = [down EXCEPT ![n] = @ \ {k}]
  /\ seen' = IF IsGrabbed(n) THEN seen ELSE [seen EXCEPT ![n] = @ \ {k}]
  /\ table' = [i \in DOMAIN table |->
                 IF i \in Readers(n)
                 THEN [Received(table[i], <<KeyEvent(k, 0), Syn>>) EXCEPT !.since = @ \ {k}]
                 ELSE table[i]]
  /\ UNCHANGED <<present, announced, match, loop, raced, changes>>

Reported(n, packet, motion) ==
  /\ table' = [i \in DOMAIN table |->
                 IF i \in Readers(n)
                 THEN [Received(table[i], packet) EXCEPT
                          !.owed = IF table[i].data THEN @ \o motion ELSE @]
                 ELSE table[i]]
  /\ UNCHANGED <<present, down, seen, announced, match, loop, raced>>

Repeat(n, k) == k \in down[n] /\ Changed /\ Reported(n, <<KeyEvent(k, 2), Syn>>, <<>>)

Move(n, p) == n \in present /\ p \in Packets[n] /\ Changed /\ Reported(n, Motion(p), <<p>>)

Plug(n) ==
  /\ n \notin present /\ Changed
  /\ present' = present \cup {n}
  /\ announced' = Append(announced, n)
  /\ UNCHANGED <<down, seen, table, match, loop, raced>>

\* Whoever reads the node finds that it is gone, whatever was still queued.
Unplug(n) ==
  /\ n \in present /\ Changed
  /\ present' = present \ {n}
  /\ down' = [down EXCEPT ![n] = {}]
  /\ seen' = [seen EXCEPT ![n] = {}]
  /\ raced' = [raced EXCEPT ![n] = {}]
  /\ table' = [i \in DOMAIN table |->
                 IF table[i].node = n
                 THEN [table[i] EXCEPT !.gone = TRUE, !.queue = <<>>,
                                       !.since = {}, !.owed = <<>>, !.sound = {}]
                 ELSE table[i]]
  /\ UNCHANGED <<announced, match, loop>>

-----------------------------------------------------------------------------
(* Finding nodes.                                                          *)

World == <<present, down, seen, announced, match, raced, changes>>

\* device_scan: a node that appeared since devmon_create is found here, and announced
\* as well.  The devices are then added one after the other.
DeviceScan ==
  /\ loop.at = "start"
  /\ \E order \in SetToSeqs(present) :
       IF Len(order) > MaxDevices
       THEN loop' = [loop EXCEPT !.at = "aborted"] /\ UNCHANGED table
       ELSE /\ table' = [i \in DOMAIN order |-> Opened(order[i])]
            /\ loop' = [loop EXCEPT !.at = "poll", !.todo = [i \in DOMAIN order |-> i]]
  /\ UNCHANGED World

\* Mutant: room for one more is room for two.
FullIfOver == Len(table) > MaxDevices
Full == Len(table) >= MaxDevices

\* devmon_read_device: the next node that is still there.  Entries of devices removed
\* in this round still take up room.
Announced ==
  /\ loop.at = "monitor" /\ loop.todo = <<>> /\ loop.found /\ announced # <<>>
  /\ announced' = Tail(announced)
  /\ CASE Head(announced) \notin present -> UNCHANGED <<table, loop>>
       [] Head(announced) \in present /\ Full ->
            loop' = [loop EXCEPT !.at = "aborted"] /\ UNCHANGED table
       [] Head(announced) \in present /\ ~Full ->
            /\ table' = Append(table, Opened(Head(announced)))
            /\ loop' = [loop EXCEPT !.todo = <<Len(table) + 1>>]
  /\ UNCHANGED <<present, down, seen, match, raced, changes>>

-----------------------------------------------------------------------------
(* manage_device, for the first of loop.todo.                              *)

\* Mutant: a device is grabbed whatever is held on it.
NeutralAtOnce(entry) == TRUE
Neutral(entry) == down[entry.node] = {}

\* Mutant: what was queued before the grab is left to be read.
DrainedNothing(queue) == queue
Drained(queue) == <<>>

\* The device has its keyboard, a new one, from now on; or it has none.
Given(entry) ==
  [entry EXCEPT !.data = TRUE, !.grabbed = TRUE, !.heard = {}, !.since = {}, !.owed = <<>>,
                !.sound = IF entry.pending = Still THEN {"keys", "motion"} ELSE {"keys"}]
Denied(entry) == [entry EXCEPT !.data = FALSE, !.heard = {}, !.since = {}, !.owed = <<>>,
                               !.sound = {}]

Dev == table[Head(loop.todo)]
Managing == loop.todo # <<>> /\ UNCHANGED World

Becomes(entry) == /\ table' = [table EXCEPT ![Head(loop.todo)] = entry]
                  /\ loop' = [loop EXCEPT !.todo = Tail(@), !.grab = "check"]

\* No config matches: device_ungrab, which fails for a node that is gone.
Ignore ==
  /\ Managing /\ loop.grab = "check" /\ Dev.node \notin match
  /\ LET left == Denied(Dev)
     IN  Becomes(IF Dev.gone THEN left ELSE [left EXCEPT !.grabbed = FALSE, !.owner = FALSE])

Keep ==
  /\ Managing /\ loop.grab = "check" /\ Dev.node \in match /\ Dev.grabbed
  /\ Becomes(IF Dev.queue = <<>> THEN Given(Dev) ELSE [Given(Dev) EXCEPT !.sound = {}])

\* device_grab asks for the keys held over and over, until there is none.
AwaitNeutral ==
  /\ Managing /\ loop.grab = "check" /\ Dev.node \in match /\ ~Dev.grabbed
  /\ IF Dev.gone
     THEN Becomes(Denied(Dev))
     ELSE Neutral(Dev) /\ loop' = [loop EXCEPT !.grab = "grab"] /\ UNCHANGED table

Grab ==
  /\ Managing /\ loop.grab = "grab"
  /\ IF Dev.gone \/ IsGrabbed(Dev.node)
     THEN Becomes(Denied(Dev))
     ELSE /\ table' = [table EXCEPT ![Head(loop.todo)].owner = TRUE]
          /\ loop' = [loop EXCEPT !.grab = "drain"]

Drain ==
  /\ Managing /\ loop.grab = "drain"
  /\ Becomes(Given([Dev EXCEPT !.queue = Drained(@)]))

-----------------------------------------------------------------------------
(* evloop.                                                                 *)

Readable == {i \in DOMAIN table : table[i].queue # <<>> \/ table[i].gone}

\* poll returns if there is something to do.
Poll(client) ==
  /\ loop.at = "poll" /\ loop.todo = <<>>
  /\ client \/ Readable # {} \/ announced # <<>>
  /\ IF client THEN Changed ELSE UNCHANGED changes
  /\ loop' = [loop EXCEPT !.at = "devices", !.ready = Readable, !.client = client,
                         !.found = announced # <<>>]
  /\ UNCHANGED <<present, down, seen, table, announced, match, raced>>

\* A key event, as event_handler hears it.
Told(heard, k, v) ==
  IF KeyOf[k] = Unsupported THEN heard
  ELSE IF v = 1 THEN heard \cup {KeyOf[k]} ELSE heard \ {KeyOf[k]}

\* Mutant: motion is told and kept.
TakenTwice(entry) == entry
Taken(entry) == [entry EXCEPT !.pending = Still]

\* The event tells the reader of nothing: device_read_event returns NULL.
Silent(entry, ev) ==
  CASE ev.type = "key" -> ev.value = 2 \/ KeyOf[ev.code] = Unsupported
    [] ev.type = "rel" -> TRUE
    [] ev.type = "syn" -> entry.pending = Still

\* device_read_event, with the motion told taken off what is owed (history).
After(entry, ev) ==
  CASE ev.type = "key" ->
         [entry EXCEPT !.heard = IF entry.data /\ ~Silent(entry, ev)
                                 THEN Told(@, ev.code, ev.value) ELSE @]
    [] ev.type = "rel" -> [entry EXCEPT !.pending[ev.axis] = @ + ev.value]
    [] OTHER ->
         IF entry.pending = Still THEN entry
         ELSE [Taken(entry) EXCEPT !.owed = IF @ = <<>> THEN @ ELSE Tail(@)]

\* Reads of a device that poll found readable, until one returns NULL.
ReadDevice(i) ==
  /\ loop.at = "devices" /\ i \in loop.ready /\ \A j \in loop.ready : i <= j
  /\ CASE table[i].gone ->
            /\ table' = [table EXCEPT ![i].open = FALSE]
            /\ loop' = [loop EXCEPT !.ready = @ \ {i}, !.removed = TRUE]
       [] ~table[i].gone /\ table[i].queue = <<>> ->
            loop' = [loop EXCEPT !.ready = @ \ {i}] /\ UNCHANGED table
       [] ~table[i].gone /\ table[i].queue # <<>> ->
            LET ev   == Head(table[i].queue)
                read == [table[i] EXCEPT !.queue = Tail(@)]
            IN  /\ table' = [table EXCEPT ![i] = After(read, ev)]
                /\ loop' = IF Silent(read, ev) THEN [loop EXCEPT !.ready = @ \ {i}] ELSE loop
  /\ UNCHANGED World

\* When the devices are read, the clients are heard.  reload: every keyboard is new, and
\* every device is managed anew.
Client ==
  /\ loop.at = "devices" /\ loop.ready = {}
  /\ IF loop.client
     THEN /\ match' \in Matches
          /\ loop' = [loop EXCEPT !.at = "monitor", !.client = FALSE,
                                 !.todo = [i \in DOMAIN table |-> i]]
     ELSE UNCHANGED match /\ loop' = [loop EXCEPT !.at = "monitor"]
  /\ UNCHANGED <<present, down, seen, table, announced, raced, changes>>

\* Mutant: of what was removed, the wrong end is dropped.
CompactedFromFront == SubSeq(table, 1 + Len(SelectSeq(table, LAMBDA e : ~e.open)), Len(table))
Compacted ==
  LET left  == {i \in DOMAIN table : table[i].open}
      order == CHOOSE f \in [1 .. Cardinality(left) -> left] :
                 \A m, n \in DOMAIN f : m < n => f[m] < f[n]
  IN  [n \in DOMAIN order |-> table[order[n]]]

\* The end of a round: removed devices are dropped, the rest move up.
Compact ==
  /\ loop.at = "monitor" /\ loop.todo = <<>> /\ (loop.found => announced = <<>>)
  /\ table' = IF loop.removed THEN Compacted ELSE table
  /\ loop' = [loop EXCEPT !.at = "poll", !.removed = FALSE, !.found = FALSE]
  /\ UNCHANGED World

\* run_daemon has loaded the configs, and devmon_create watches /dev/input/.
Init ==
  /\ present \in SUBSET Node /\ match \in Matches
  /\ down = [n \in Node |-> {}] /\ seen = [n \in Node |-> {}] /\ raced = [n \in Node |-> {}]
  /\ table = <<>> /\ announced = <<>>
  /\ loop = [at |-> "start", grab |-> "check", todo |-> <<>>, ready |-> {},
             client |-> FALSE, found |-> FALSE, removed |-> FALSE]
  /\ changes = 0

Daemon ==
  \/ DeviceScan \/ Announced
  \/ Ignore \/ Keep \/ AwaitNeutral \/ Grab \/ Drain
  \/ \E client \in BOOLEAN : Poll(client)
  \/ \E i \in DOMAIN table : ReadDevice(i)
  \/ Client \/ Compact

Next ==
  \/ Daemon
  \/ \E n \in Node, k \in RawKey : Press(n, k) \/ Release(n, k) \/ Repeat(n, k)
  \/ \E n \in Node : \E p \in Packets[n] : Move(n, p)
  \/ \E n \in Node : Plug(n) \/ Unplug(n)

\* The daemon runs on; nobody need touch a device.
Spec == Init /\ [][Next]_vars /\ WF_vars(Daemon)

-----------------------------------------------------------------------------
(* Properties.                                                             *)

\* device_grab awaits "neutral key state to ensure any residual key up events
\* propagate" (device.c:352): of a device that is grabbed, the rest of the system
\* believes no key held, but for one that went down between the last look at the keys
\* and the grab, whose release it will never see.
Unstuck == \A n \in Node : IsGrabbed(n) => seen[n] \subseteq raced[n]

\* What a keyboard will believe is down when all that is queued has been read.
Hearing(heard, ev) ==
  IF ev.type = "key" /\ ev.value # 2 THEN Told(heard, ev.code, ev.value) ELSE heard
Believes(heard, queue) == FoldLeft(Hearing, heard, queue)

Alone(c) == \A j, k \in RawKey : KeyOf[j] = c /\ KeyOf[k] = c => j = k

\* Whatever happens around a grab or a reload, a keyboard comes to believe that a key
\* is down only if it went down on its device since and is still down; and that it is,
\* if no other code of the device is the same to keyd.  (Unless the kernel dropped
\* events of the device, or a reload came before all was read.)
Believed ==
  \A i \in DOMAIN table :
    LET e == table[i]
        believes == Believes(e.heard, e.queue)
        held     == {KeyOf[k] : k \in e.since} \ {Unsupported}
    IN  e.data /\ ~e.gone /\ "keys" \in e.sound =>
          /\ believes \subseteq held
          /\ \A c \in held \ believes : ~Alone(c)

\* What it will be told of motion.
Moved(moved, ev) ==
  CASE ev.type = "rel" -> [moved EXCEPT !.pending[ev.axis] = @ + ev.value]
    [] ev.type = "syn" /\ moved.pending # Still ->
         [pending |-> Still, told |-> Append(moved.told, moved.pending)]
    [] OTHER -> moved
Moves(pending, queue) == FoldLeft(Moved, [pending |-> pending, told |-> <<>>], queue).told

\* "Queue and emit a single event on SYN" (device.c:447): the keyboard is told of each
\* packet of motion, once, as it was, in order, though reading stops in the middle of
\* one.  (Unless, besides, a packet was half read when the device was given to it: what
\* was read of it is then added to the next.)
Grouped ==
  \A i \in DOMAIN table :
    LET e == table[i]
    IN  e.data /\ ~e.gone /\ "motion" \in e.sound => Moves(e.pending, e.queue) = e.owed

\* A node that stays is found, and what it sends is read, in the end, through whatever
\* rounds of adding, removing and moving entries; unless the only thread waits for a key
\* of some device to be let go (device.c:356).
Unheard(n) == n \in present /\ (Live(n) = {} \/ \E i \in Live(n) : table[i].queue # <<>>)
Spinning == loop.todo # <<>> /\ loop.grab = "check" /\ ~Neutral(Dev)
Heard == \A n \in Node : Unheard(n) ~> (~Unheard(n) \/ Spinning \/ loop.at = "aborted")
=============================================================================
