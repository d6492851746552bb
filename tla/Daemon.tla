------------------------------- MODULE Daemon -------------------------------
(***************************************************************************)
(* The daemon around the keyboards: evloop (src/src/evloop.c), which polls *)
(* the devices and decides when a timeout is over, and event_handler and   *)
(* reload (src/src/daemon.c), which hand events to the keyboard of a       *)
(* device's config, or to the one used last, and replace every keyboard.   *)
(*                                                                         *)
(* A keyboard is at an address: free() leaves pointers to it behind, and a *)
(* later calloc() may return it again.  An event handed to a freed         *)
(* keyboard has no defined outcome; the model stops there (broken).        *)
(*                                                                         *)
(* Abstracted: of a keyboard, only what its deadline and its output depend *)
(* on is kept: a key outputs itself, holds a layer, or is a timed key,     *)
(* timeout(key, span, layer), the simplest of those that wait (the rest is *)
(* in Layers and Pipeline).  IPC binds, macros and listeners, the          *)
(* indicator light and the virtual device's own events are left out.       *)
(***************************************************************************)
EXTENDS Integers, FiniteSets

CONSTANTS
  Device,          \* input devices, plugged in or not
  Mouse,           \* those that are mice: their keys are not those of Code
  File,            \* configuration files
  NoFile,          \* what a freed keyboard has for a file
  Address,         \* where calloc() may place a keyboard
  NoKbd,           \* NULL
  Code,            \* key codes
  NoCode,          \* code 0: a timeout
  Click,           \* the codes of scrolling and of external mouse buttons
  Setups,          \* which file matches which device, and what it binds
  Span,            \* how long a timed key is undecided
  Stray,           \* what ev.timestamp, not initialized, is when evloop starts
  Slip,            \* how long after an event's timestamp poll may start
  Late,            \* how late poll may return
  MaxChurn,        \* bound: how often a device is plugged, unplugged, or configs reloaded
  MaxTime          \* bound: devices and clients are idle after it

\* rank is what config_check_match returns: 2 for a listed id, 1 for the wildcard.
Setup == [rank : [File -> [Device -> 0 .. 2]],
          bind : [File -> [Code -> {"key", "layer", "timed"}]]]

ASSUME NameAssumption ==
  /\ Mouse \subseteq Device
  /\ NoFile \notin File /\ NoKbd \notin Address
  /\ NoCode \notin Code /\ Click \notin Code \cup {NoCode}

ASSUME SetupAssumption ==
  /\ Setups \subseteq Setup
  /\ \A s \in Setups, f \in File, d \in Mouse : s.rank[f][d] # 1

ASSUME HeapAssumption ==
  /\ IsFiniteSet(File) /\ IsFiniteSet(Address)
  /\ Cardinality(File) <= Cardinality(Address)

ASSUME StrayAssumption == Stray # {} /\ Stray \subseteq Int

ASSUME BoundAssumption ==
  /\ Span \in Nat \ {0}
  /\ Slip \in Nat /\ Late \in Nat /\ MaxTime \in Nat /\ MaxChurn \in Nat

VARIABLES
  setup,           \* the configuration directory
  heap,            \* keyboards by address; the live ones are configs
  active,          \* active_kbd
  devices,         \* device_table
  keystate,        \* keys down on the virtual keyboard
  timeout, last,   \* static timeout and last_time of event_handler
  loop,            \* where evloop is, with its own timeout
  held,            \* keys physically held, by device
  churn,           \* devices plugged and unplugged and reloads so far
  broken           \* a freed keyboard has been used

vars == <<setup, heap, active, devices, keystate, timeout, last, loop, held, churn, broken>>

Keyboard == [file    : File \cup {NoFile},
             cache   : [Code -> {"none", "key", "layer", "timed"}],
             pending : Code \cup {NoCode},
             due     : Nat,
             timers  : SUBSET Nat]

Entry == [plugged : BOOLEAN, grabbed : BOOLEAN, data : Address \cup {NoKbd}]

Loop == [phase : {"poll", "expired", "devices", "typed", "monitor"},
         stamp : Nat,                   \* ev.timestamp
         start : Nat,                   \* start_time
         wait  : Nat]                   \* timeout; 0 is no timeout

TypeOK ==
  /\ setup \in Setups
  /\ heap \in [Address -> Keyboard]
  /\ active \in Address \cup {NoKbd}
  /\ devices \in [Device -> Entry]
  /\ keystate \subseteq Code
  /\ timeout \in Nat /\ last \in Int /\ churn \in Nat
  /\ loop \in Loop
  /\ held \in [Device -> SUBSET Code]
  /\ broken \in BOOLEAN

NewKeyboard(f) == [file |-> f, cache |-> [c \in Code |-> "none"],
                   pending |-> NoCode, due |-> 0, timers |-> {}]
Freed == NewKeyboard(NoFile)
Live == {a \in Address : heap[a].file # NoFile}

-----------------------------------------------------------------------------
(* A keyboard, and the keys it sends to the virtual one: s is both.        *)

SendKey(s, c, pressed) ==
  [s EXCEPT !.out = IF pressed THEN @ \cup {c} ELSE @ \ {c}]

Perform(s, c, op, pressed) == IF op = "key" THEN SendKey(s, c, pressed) ELSE s

\* Mutant: a timeout that comes in time is too early.
DecideOverdue(s, c, pressed, t) ==
  LET p  == s.kbd.pending
      op == IF t > s.kbd.due THEN "layer" ELSE "key"
  IN  IF p # NoCode /\ (t > s.kbd.due \/ pressed \/ c = p)
      THEN Perform([s EXCEPT !.kbd.pending = NoCode, !.kbd.cache[p] = op], p, op, TRUE)
      ELSE s

\* handle_pending_timeout: a timed key is a key if any other is struck, or itself
\* comes up, before it is due, and holds its layer otherwise.
Decide(s, c, pressed, t) ==
  LET p  == s.kbd.pending
      op == IF t >= s.kbd.due THEN "layer" ELSE "key"
  IN  IF p # NoCode /\ (t >= s.kbd.due \/ pressed \/ c = p)
      THEN Perform([s EXCEPT !.kbd.pending = NoCode, !.kbd.cache[p] = op], p, op, TRUE)
      ELSE s

StrikeDown(s, c, t) ==
  LET op == setup.bind[s.kbd.file][c]
      pressed == Perform([s EXCEPT !.kbd.cache[c] = op], c, op, TRUE)
  IN  IF op = "timed"
      THEN [pressed EXCEPT !.kbd.pending = c, !.kbd.due = t + Span,
                           !.kbd.timers = @ \cup {t + Span}]
      ELSE pressed

Strike(s, c, pressed, t) ==
  CASE c \in Code /\ pressed /\ s.kbd.cache[c] = "none" -> StrikeDown(s, c, t)
    [] c \in Code /\ ~pressed /\ s.kbd.cache[c] # "none" ->
         Perform([s EXCEPT !.kbd.cache[c] = "none"], c, s.kbd.cache[c], FALSE)
    [] OTHER -> s

\* kbd_process_events with one event; the timers that are over are dropped.
Process(s, c, pressed, t) ==
  LET done == Strike(Decide(s, c, pressed, t), c, pressed, t)
  IN  [done EXCEPT !.kbd.timers = {u \in @ : u > t}]

\* ... and what it returns.
Awaits(k, t) ==
  IF k.timers = {} THEN 0 ELSE (CHOOSE u \in k.timers : \A v \in k.timers : u <= v) - t

-----------------------------------------------------------------------------
(* event_handler.                                                          *)

\* Mutants: the time that has passed is taken off without end, or an event that
\* concerns no keyboard forgets the timeout.
OverdueRemains == timeout - (loop.stamp - last)
NothingRemains == 0
Remaining == LET elapsed == loop.stamp - last
             IN  IF timeout > elapsed THEN timeout - elapsed ELSE 0

Handled(w, phase) == /\ timeout' = w /\ last' = loop.stamp
                     /\ loop' = [loop EXCEPT !.wait = w, !.phase = phase]

World(a) == [kbd |-> heap[a], out |-> keystate]

\* The keyboard at a has processed its events and left the world s.
Hand(a, s, phase) ==
  IF a \in Live
  THEN /\ heap' = [heap EXCEPT ![a] = s.kbd]
       /\ keystate' = s.out
       /\ Handled(Awaits(s.kbd, loop.stamp), phase)
       /\ UNCHANGED broken
  ELSE /\ broken' = TRUE
       /\ Handled(Remaining, phase)
       /\ UNCHANGED <<heap, keystate>>

Reading == ~broken /\ loop.phase \in {"devices", "typed"} /\ loop.stamp <= MaxTime
Ready(d) == Reading /\ devices[d].plugged

\* A key goes down or up; two key events never have one timestamp.
DeviceKey(d, c, pressed) ==
  /\ Ready(d) /\ loop.phase = "devices" /\ d \notin Mouse
  /\ (c \in held[d]) = ~pressed
  /\ held' = [held EXCEPT ![d] = IF pressed THEN @ \cup {c} ELSE @ \ {c}]
  /\ IF devices[d].data # NoKbd
     THEN /\ active' = devices[d].data
          /\ Hand(active', Process(World(active'), c, pressed, loop.stamp), "typed")
     ELSE Handled(Remaining, "typed") /\ UNCHANGED <<heap, active, keystate, broken>>
  /\ UNCHANGED <<setup, devices, churn>>

\* A mouse scrolls or is clicked: process_keypress, on the keyboard used last if the
\* mouse has none.  (A button of a managed mouse is a key like another.)
DeviceClick(d) ==
  /\ Ready(d) /\ d \in Mouse
  /\ active' = IF devices[d].data # NoKbd THEN devices[d].data ELSE active
  /\ IF active' # NoKbd
     THEN LET pressed == Process(World(active'), Click, TRUE, loop.stamp)
          IN  Hand(active', Process(pressed, Click, FALSE, loop.stamp), loop.phase)
     ELSE Handled(Remaining, loop.phase) /\ UNCHANGED <<heap, keystate, broken>>
  /\ UNCHANGED <<setup, devices, held, churn>>

\* A mouse moves: an event without a keyboard event, for all that it names one.
DeviceMove(d) ==
  /\ Ready(d) /\ d \in Mouse
  /\ active' = IF devices[d].data # NoKbd THEN devices[d].data ELSE active
  /\ Handled(Remaining, loop.phase)
  /\ UNCHANGED <<setup, heap, devices, keystate, held, churn, broken>>

\* The keyboards of the configs that match d best.
Matches(d, keyboards) ==
  LET rank(a) == setup.rank[keyboards[a].file][d]
      live == {a \in Address : keyboards[a].file # NoFile}
  IN  {a \in live : rank(a) > 0 /\ \A b \in live : rank(b) <= rank(a)}

Unplugged == [plugged |-> FALSE, grabbed |-> FALSE, data |-> NoKbd]

\* manage_device: what may become of a device that the keyboards at found match; a
\* grab may fail; giving one up does not (device.c:404).  Mutant: a device that none
\* matches any longer stays grabbed.
ManagedStill(entry, found) ==
  LET taken == {[plugged |-> TRUE, grabbed |-> TRUE, data |-> a] : a \in found}
      left  == [plugged |-> TRUE, grabbed |-> entry.grabbed, data |-> NoKbd]
  IN  IF entry.grabbed /\ taken # {} THEN taken ELSE taken \cup {left}

Managed(entry, found) ==
  LET taken == {[plugged |-> TRUE, grabbed |-> TRUE, data |-> a] : a \in found}
      left  == [plugged |-> TRUE, grabbed |-> FALSE, data |-> NoKbd]
  IN  IF entry.grabbed /\ taken # {} THEN taken ELSE taken \cup {left}

\* The tables in which each device is what it may become.
Tables(outcomes) ==
  {table \in [Device -> UNION {outcomes[d] : d \in Device}] :
     \A d \in Device : table[d] \in outcomes[d]}

Changed == churn < MaxChurn /\ churn' = churn + 1

\* device_grab waits until no key of the device is held.
Neutral(d, keyboards) == devices[d].grabbed \/ Matches(d, keyboards) = {} \/ held[d] = {}

Plug(d) ==
  /\ ~broken /\ loop.phase \notin {"poll", "expired"} /\ loop.stamp <= MaxTime
  /\ ~devices[d].plugged /\ Changed
  /\ \E entry \in Managed(Unplugged, Matches(d, heap)) : devices' = [devices EXCEPT ![d] = entry]
  /\ Handled(Remaining, "monitor")
  /\ UNCHANGED <<setup, heap, active, keystate, held, broken>>

\* The keyboard hears nothing of it: keys held on the device stay down.
Unplug(d) ==
  /\ Ready(d) /\ Changed
  /\ devices' = [devices EXCEPT ![d] = Unplugged]
  /\ held' = [held EXCEPT ![d] = {}]
  /\ Handled(Remaining, loop.phase)
  /\ UNCHANGED <<setup, heap, active, keystate, broken>>

-----------------------------------------------------------------------------
(* reload.                                                                 *)

\* free_configs and load_configs: a keyboard for each file that parses.
Loaded(parsed, at) ==
  [a \in Address |->
     IF \E f \in parsed : at[f] = a THEN NewKeyboard(CHOOSE f \in parsed : at[f] = a)
                                    ELSE Freed]

Placements(parsed) ==
  {at \in [parsed -> Address] : \A f, g \in parsed : at[f] = at[g] => f = g}

\* Mutant: the keys that the freed keyboards held stay down.
LeaveVkbd == keystate
ClearVkbd == {}

\* active_kbd and the timeout stay what they were.
Reload ==
  /\ Reading /\ Changed
  /\ \E parsed \in SUBSET File : \E at \in Placements(parsed) : heap' = Loaded(parsed, at)
  /\ \A d \in Device : devices[d].plugged => Neutral(d, heap')
  /\ LET outcomes == [d \in Device |-> IF devices[d].plugged
                                      THEN Managed(devices[d], Matches(d, heap'))
                                      ELSE {Unplugged}]
     IN  devices' \in Tables(outcomes)
  /\ keystate' = ClearVkbd
  /\ Handled(Remaining, "monitor")
  /\ UNCHANGED <<setup, active, held, broken>>

-----------------------------------------------------------------------------
(* evloop.                                                                 *)

Expiring(t) == loop.wait > 0 /\ t - loop.start >= loop.wait

\* poll returns, because of the timeout or of something to read; each time at least
\* a millisecond after the last.
PollReturns(t) ==
  /\ ~broken /\ loop.phase = "poll"
  /\ t >= loop.start /\ (loop.wait > 0 => t <= loop.start + loop.wait + Late)
  /\ Expiring(t) \/ (t > loop.stamp /\ t <= MaxTime)
  /\ loop' = [loop EXCEPT !.stamp = t,
                         !.phase = IF Expiring(t) THEN "expired" ELSE "devices",
                         !.wait  = IF t - loop.start < @ THEN @ - (t - loop.start) ELSE 0]
  /\ UNCHANGED <<setup, heap, active, devices, keystate, timeout, last, held, churn, broken>>

Poll(slip) ==
  /\ ~broken /\ loop.phase \notin {"poll", "expired"}
  /\ loop' = [loop EXCEPT !.phase = "poll", !.start = loop.stamp + slip]
  /\ UNCHANGED <<setup, heap, active, devices, keystate, timeout, last, held, churn, broken>>

\* EV_TIMEOUT: the keyboard used last is told that its time is over.
TimeoutEvent ==
  /\ ~broken /\ loop.phase = "expired"
  /\ IF active = NoKbd
     THEN /\ loop' = [loop EXCEPT !.wait = 0, !.phase = "devices"]
          /\ timeout' = Remaining /\ last' = loop.stamp
          /\ UNCHANGED <<heap, keystate, broken>>
     ELSE Hand(active, Process(World(active), NoCode, FALSE, loop.stamp), "devices")
  /\ UNCHANGED <<setup, active, devices, held, churn>>

\* run_daemon loads the configs, wherever calloc() places them; evloop adds the devices
\* it finds with a timestamp it has not set, and ignores the timeouts.
Init ==
  /\ setup \in Setups
  /\ heap = Loaded(File, CHOOSE at \in Placements(File) : TRUE)
  /\ active = NoKbd
  /\ LET outcomes == [d \in Device |-> {Unplugged} \cup Managed(Unplugged, Matches(d, heap))]
     IN  devices \in Tables(outcomes)
  /\ keystate = {}
  /\ last \in IF \E d \in Device : devices[d].plugged THEN Stray ELSE {0}
  /\ timeout = IF last < 0 THEN -last ELSE 0
  /\ churn = 0
  /\ loop = [phase |-> "poll", stamp |-> 0, start |-> 0, wait |-> 0]
  /\ held = [d \in Device |-> {}]
  /\ broken = FALSE

Times == 0 .. MaxTime + Span + Slip + Late

Expire == \E t \in Times : Expiring(t) /\ PollReturns(t)

Next ==
  \/ \E d \in Device, c \in Code, pressed \in BOOLEAN : DeviceKey(d, c, pressed)
  \/ \E d \in Device : DeviceClick(d) \/ DeviceMove(d) \/ Plug(d) \/ Unplug(d)
  \/ Reload
  \/ \E t \in Times : PollReturns(t)
  \/ \E slip \in 0 .. Slip : Poll(slip)
  \/ TimeoutEvent

\* poll does not wait past its timeout, and evloop always comes back to it.
Spec == /\ Init /\ [][Next]_vars
        /\ WF_vars(Expire) /\ WF_vars(TimeoutEvent) /\ WF_vars(\E slip \in 0 .. Slip : Poll(slip))

-----------------------------------------------------------------------------
(* Properties.                                                             *)

\* The event loop waits no longer than until a is due.
AwaitedAt(a) == heap[a].pending # NoCode =>
                  loop.wait > 0 /\ loop.start + loop.wait <= heap[a].due

\* However many devices and clients are served in between, with and without events
\* for a keyboard, the timeout of the keyboard used last is not lost.  (Unless a mouse
\* and the keys of another config are used in turn: a mouse that moves makes its
\* keyboard the one used last, with whatever timeout another left.  See Served.)
ActiveAwaited == loop.phase = "poll" /\ active \in Live => AwaitedAt(active)

\* The timeout a keyboard returned is one "before which the next invocation of
\* process_event must take place" (keyboard.c:1181), whichever keyboard it is.
Served == loop.phase = "poll" => \A a \in Live : AwaitedAt(a)

Down(a) == {c \in Code : heap[a].cache[c] = "key"}

\* Nothing is down on the virtual keyboard that no keyboard will release, and a
\* keyboard that shares it with no other agrees with it.
Mirrored == /\ keystate \subseteq UNION {Down(a) : a \in Live}
            /\ Cardinality(Live) = 1 => keystate = UNION {Down(a) : a \in Live}

\* A device is grabbed just when it has a keyboard, a live one whose config is among
\* those that match it best: no device is dead, heard twice, or feeds a freed keyboard.
Grabbed ==
  \A d \in Device :
    /\ devices[d].grabbed = (devices[d].data # NoKbd)
    /\ devices[d].grabbed => devices[d].plugged /\ devices[d].data \in Matches(d, heap)

\* A timed key is decided in the end, though no device is touched again, as long as
\* its keyboard is the one used last.
Undecided == active \in Live /\ heap[active].pending # NoCode
Settles == Undecided ~> ~Undecided
=============================================================================
