# keyd in TLA+

keyd is a key remapping daemon: it grabs input devices, maps what their keys do
through layers, oneshots, chords, overloaded keys and macros, and types the
result on a virtual keyboard. This directory holds TLA+ modules translated from
its C source, configurations that model-check them with TLC, and proofs checked
by TLAPS. `PROJECT.json` maps every definition to the lines it stands for.

## The system

| component | source | state it keeps | operations |
| --- | --- | --- | --- |
| layer machine | `keyboard.c` (`process_event`, `process_descriptor`, `kbd_eval`) | activation counts, toggles, oneshot depths and latch, activation times, cache of held keys, active macro, `keystate` | key down, key up, timeout, bind/reset |
| deferral | `keyboard.c` (`handle_chord`, `handle_pending_timeout`, `handle_pending_overload`, `kbd_process_events`) | chord queue and state, chords in effect, pending timeout, pending overload and its queue, scheduled timers | withhold, decide, replay, schedule |
| event loop | `evloop.c` | device table, auxiliary descriptors, poll timeout | timeout, device event, device added or removed, table compacted, client |
| daemon | `daemon.c` | configs with their keyboards, devices' keyboards, `active_kbd`, listeners, output `keystate` | route an event, reload, bind, listen, broadcast layer changes |
| macro executor | `macro.c`, `unicode.c` | none | parse, execute, spell a codepoint |
| configuration | `config.c`, `ini.c`, `string.c` | `struct config` | parse layers, bindings, chords, aliases; match device ids |
| devices | `device.c` | descriptor, grab and pending motion of each device | scan, open, grab, ungrab, read, set LEDs |
| virtual keyboard | `vkbd/*.c` | keys down, or the report of the USB gadget | send a key, move, scroll |
| clients | `ipc.c`, `keyd.c`, `monitor.c`, `check.c`, `scripts/` | a connection | send a request, await the answer, read layer changes |

How they interact. The event loop polls every device and calls the daemon's
handler, one event at a time: there are no threads. The handler passes a key
event to the keyboard of the device's config through `kbd_process_events`, and
the number it returns is how long the next poll may wait before it must hand in
an event without a code. Inside the keyboard an event goes down a fixed row of
handlers. The chord handler and the overload handler may keep it, and when they
have decided they call `kbd_process_events` themselves on what they kept, so
that one event's processing is suspended while others' run to completion within
it. What comes through reaches the layer machine, which calls back into the
daemon to send keys and to announce layers to listeners. An IPC client may
replace the keymap between any two events, in particular between a key's press
and release, and may type on the same virtual keyboard as the keyboards do. A
config is parsed when the daemon starts or reloads, with a first pass that makes
the layers and a second that parses each entry; a bind parses one entry more into
the tables of a live config.

What is hard about it:

- activations and deactivations of a layer are made by different handlers at
  different times and the code only asserts that they balance;
- a key is released as what it was pressed as, whatever happened to the layers,
  the keymap or its own descriptor in between;
- withheld events are replayed by re-entry into the handlers that withheld them,
  with old timestamps, while newer events wait elsewhere;
- timers are never cancelled, late ones are dropped, and nothing but the value
  returned to the event loop makes sure that an undecided key is ever decided;
- keys are pressed, and devices come and go, between the system calls by which a
  device is found, grabbed and read; reading stops at any event that means
  nothing to keyd, in the middle of a packet if need be;
- one thread serves clients that may stop, go away or not read;
- an entry that is refused half-way has already written to tables that others
  refer to by index.

What makes each component correct:

- layer machine: activations pair up; no key or modifier is stuck at the output;
  oneshots are spent by the next key; one layout at a time; the layer activated
  last occludes the others;
- deferral: no event is lost, duplicated or reordered; a chord fires only for
  keys struck close together and lasts until its keys are up; what is undecided
  is decided by its deadline, whether or not another key is touched;
- event loop and daemon: a keyboard's deadline is met whatever other devices do;
  no keyboard is used after a reload freed it; a key held when its device or
  keyboard goes away does not stay down; listeners see the layers that are on;
- devices: a grab leaves no key held for the rest of the system; a keyboard's
  idea of what is held on a device comes to be true; motion arrives whole; no
  device goes unread;
- macro executor and virtual keyboard: a macro leaves no key down that it pressed,
  and nothing stays down that `clear_vkbd` does not know of;
- clients: each request is answered; a listener's idea of the layers that are on
  is right;
- configuration: an entry is granted or refused as a whole; every index stored is
  valid; a file without warnings does what it says; ids match as documented.

`PROJECT.json` lists the hazards behind these, each at its line.

## Modules

### `Layers.tla`: the layer machine

`kbd` is `struct keyboard`, `config` the part of `kbd->config` a bind replaces.
One operator per C function or per operation and edge of `process_descriptor`
(`KeySequenceDown`, `OneshotUp`, `ToggleDown`, `SwapDown`, `SetLayout`, ...),
each from a keyboard to the keyboard it leaves, composed in the order of the
calls in the code. The actions are the ways `process_event` is entered once no
chord, timeout or overload is pending:

| action | code |
| --- | --- |
| `KeyDown(c, late, idle)` | a press that finds a free cache slot |
| `KeyUp(c, late, quick)` | the release of a cached key |
| `Ignored(late)` | a repeated press, a press with the cache full, a release that is not cached |
| `Timeout(late, due)` | code 0: the oneshot deadline, the next repetition of a macro |
| `Eval` | `kbd_eval`: a bind or a reset under the held keys |

Clocks are choices: `late` says that the oneshot deadline has passed, `quick`
that an overloaded key was tapped within `overload_tap_timeout`, `idle` what
`overloadi` compares, `due` that a macro's repetition is. `active` and `depth`
have the width of the C fields (`Width`, 256 in the code), the activation clock
is a counter, and `aborted` records a failed assertion. A macro is the set of
keys it taps. The operations on scrolling and the control tap of the modifier
guard, which is sent and taken back within one event, are left out. Of nested
actions, an overload taps an action that is not itself an overload, and
`overloadi` chooses between actions other than `overloadi`.

### `Pipeline.tla`: chords, pending timeouts, pending overloads, timers

Time is a number of milliseconds. `stack` holds one frame per activation of
`kbd_process_events` (or of `process_event` on a chord's own code), innermost
first, with the events it has still to process; a `Step` is one `process_event`
up to the point where it returns or calls. A frame interleaves the timeout that
falls due before its next event, as the loop of `kbd_process_events` does. The
event loop hands in key events (`KeyEvent`) and, once the deadline it was given
has passed, events without a code (`Timeout`).

| action | code |
| --- | --- |
| `ReleaseChordKey` | a key of a chord in effect comes up; the last one releases the chord |
| `BeginChord`, `ExtendChord` | the states inactive and pending of `handle_chord`, with a key |
| `LapseChord`, `HoldChord`, `FireChord` | the chord interval is over; a key while the chord must be held; it was held |
| `Deliver` | what the chord handler lets through: the pending timeout, the pending overload, the layer machine |
| `Return` | a frame is done: its caller goes on |
| `KeyEvent`, `Expire` | `evloop` and `event_handler` |

Of `process_descriptor` only what deferral depends on is kept: a descriptor
presses a key, activates a layer or defers; the rest is in `Layers`. The config
is chosen in the initial state, so that one run covers several keymaps.

### `Daemon.tla`: event loop, timeouts, devices, configs

`loop` is where `evloop` is, with its local `timeout`; `timeout` and `last` are
the statics of `event_handler`; `devices` is `device_table`, `heap` the keyboards
of `configs` by address, since `reload` frees them while `active_kbd` (`active`)
goes on pointing; `keystate` is what is down on the virtual keyboard and `held`
what is down on each device.

| action | code |
| --- | --- |
| `DeviceKey`, `DeviceClick`, `DeviceMove` | `EV_DEV_EVENT`: a key, a scroll or an external button, a movement |
| `Plug`, `Unplug` | `EV_DEV_ADD` with `manage_device`; `EV_DEV_REMOVE` and the compaction of the table |
| `Reload` | `reload`: any of the files may no longer parse, any free address may be used, any grab may fail |
| `PollReturns`, `Poll` | `evloop` around `poll`: the timestamp, whether it is a timeout, the time that is left |
| `TimeoutEvent` | `EV_TIMEOUT` |

A keyboard is reduced to what its deadline and its output depend on: a key
outputs itself, holds a layer, or is timed (`timeout(key, span, layer)`). A device
may be a mouse, managed or not. What has no defined outcome is handled in two
ways. When a freed keyboard is used the model stops (`broken`). The timestamp of
the events that add the devices found at start, which `evloop` never sets, is
any value of `Stray`. Left out: listeners, LEDs, IPC input and macros, the panic
sequence.

### `Evdev.tla`: devices and the device table

`table` is `device_table`, with what keyd keeps of a device and, marked so, what
the kernel keeps of its open file: the queue, whether it holds the grab, whether
the node is gone. `down` is what is held on a node and `seen` what the rest of the
system has been told of it. Keys, packets of motion, nodes that come and go happen
between any two system calls, which are the grain of the daemon's actions.

| action | code |
| --- | --- |
| `DeviceScan`, `Announced` | `device_scan` in some order; the next node that inotify announced, opened and appended |
| `Ignore`, `Keep`, `AwaitNeutral`, `Grab`, `Drain` | `manage_device` for each device in turn: left alone, grabbed already, and the three steps of `device_grab` |
| `Poll`, `ReadDevice` | `poll`; one `device_read_event`, until one returns `NULL` or the device is gone |
| `Client`, `Compact` | a reload between devices and monitor; the end of a round, where removed entries are dropped |
| `Press`, `Release`, `Repeat`, `Move`, `Plug`, `Unplug` | the nodes: external |

History variables and fields record what a property compares with (`raced`,
`since`, `owed`, `sound`); no action of the daemon depends on them.

### `Output.tla`, `Clients.tla`: what is typed, and who asks for it

`Output` has operators only: a macro parsed and executed, text typed by `input`,
`send_key`, `clear_vkbd`, and the key state of the two virtual keyboards, uinput's
and the USB gadget's report of few slots. `Clients` composes them with the socket.
`client` has both ends of each connection, `serving` the client that the only
thread is busy with, `listeners` the daemon's table; the keyboards are reduced to
how many keys hold each layer, which layout is on and what is typed.

| action | code |
| --- | --- |
| `Connect`, `Send`, `Vanish`, `ReadLine` | the client: `ipc_connect`, `ipc_exec` (all of a request or half of it), the end of its process, `layer_listen` |
| `Accept` | `EV_FD_ACTIVITY` on the socket |
| `Refuse`, `Macro`, `InputText`, `Bind`, `Reload`, `Listen` | `handle_client`, one for each kind of request |
| `Event`, `ActivateLayer`, `DeactivateLayer`, `SetLayout`, `Type` | what a device's event makes of `active_kbd`, the layers and the output |
| `AwaitNeutral` | `device_grab`, called by `reload` or for a device plugged in, finds a key of the device held and looks again and again (`awaiting`); nobody else is served |
| `Neutral` | external: the key is let go of, or the device is gone |

When the daemon exits, the output is left as it was: uinput's device goes with the
process, and the USB gadget's host is sent no empty report.

### `Bindings.tla`, `Config.tla`: the configuration

`Bindings` is what a config promises: a set of bindings, requests that are granted
or refused as a whole, a reset to what the file made. `Config` is how the code does
it: lines read with includes spliced in and a map back to where they stood
(`output`), sections, the pass that makes ids, aliases, options and layers, and the
pass that parses entries. `stack` has a frame for each activation of
`parse_descriptor`, with the arguments parsed so far; descriptors, macros and
commands that an entry needs go to tables of fixed size, and are not given back if
the entry fails. `Promised` instantiates `Bindings` with the bindings read back from
those tables (`Meaning`) and the request that the entry is (`Says`), and
`Implements` is its specification as a property. `site` is the file and line that
`config_warn` would name (`current_file`, `current_line`; `None` where it names
none): set line by line while the file is read, forgotten when `do_parse` begins and
set again for each entry of the second pass. `Depth` says how deep an
expression nests, which is what makes `parse_descriptor`, and with it `Says`,
come to an end; `made` of `Bindings` is what `reset` brings back
(`kbd->original_config`).

| action | code |
| --- | --- |
| `ReadLine`, `EndOfFile` | `read_config_file`, `ini_parse_string` |
| `ParseId`, `ParseAlias`, `ParseOption`, `AddLayer`, `EndSection`, `EndLayers` | the first pass of `do_parse` |
| `AddEntry`, `EndEntries`, `Loaded` | the second; `config_add_entry` up to the call |
| `ParseNothing` ... `ParseCall`, `ParseArgument`, `EndCall` | `parse_descriptor`, one for each way through it, and its loop over arguments |
| `Eval`, `Reset` | `kbd_eval` |

Where the code has no defined behaviour, or asserts, the model stops (`broken`).

### `MCLayers.tla`, `MCPipeline.tla`, `MCDaemon.tla`, `MCEvdev.tla`, `MCClients.tla`, `MCConfig.tla`

Values for TLC: keymaps, each binding a handful of keys to the operations whose
combination is of interest; which file lists which device (`MCDaemon`); what two
nodes emit (`MCEvdev`); macros, texts and binds that clients ask for (`MCClients`);
lines, includes and binds (`MCConfig`); and the sets of them that the `.cfg` files
choose.

### `LayersProofs.tla`, `PipelineProofs.tla`, `DecisionProofs.tla`, `DaemonProofs.tla`, `EvdevProofs.tla`, `ClientsProofs.tla`, `ConfigProofs.tla`, `FoldTheorems.tla`

Theorems about `Layers`, `Pipeline` (`DecisionProofs` continues `PipelineProofs`),
`Daemon`, `Evdev`, `Clients` with `Output`, and `Config` with `Bindings`; and about folds, which several of them need. See *What is proved*.

## What the runs check

Each specification bounds a counter (`MaxClock`, the activations; `MaxTime`, the
time of the last key event; `MaxChanges`, `MaxEvents`, what happens on devices;
`MaxLines`, the lines of a file) and models something that stops the program (a
failed assertion, the use of a freed keyboard, an exit), so deadlock is not checked.

| run | expected | what it shows |
| --- | --- | --- |
| `layers` | pass | Four keymaps (held keys, oneshots, overloads and a composite layer; toggles, macros, clears and two layouts; `oneshotk`, `overloadi`, `repeat`, commands; swaps) and binds that replace the first one under held keys. `Paired`, `NoAbort`: activation counts are what held keys, toggles and oneshots account for. `OwnedOutput`, `RestingModifiers`: nothing stuck. `LatchCoversOneshots`, `MacroHeld`, `LatestOccludes`. |
| `layers_oneshot_toggle` | violation of `RestingModifiers` | A toggle key updates the modifiers before it spends the pending oneshots: the oneshot's modifier stays down. |
| `layers_stale_bind` | violation of `NoAbort` | Binds after a reset reuse the index of a descriptor that a held `oneshotk` goes by; its release deactivates a layer that nothing activated. |
| `pipeline` | pass | Chords activated at once, chords that must be held, and overloaded and timed keys, each in a keymap of its own. `Conserved`: every held key is cached, queued or part of a chord, and no other is. `ActivatedAtOnce`: a chord that need not be held is in effect just while its code is down. `Chronological`: queues keep their order. `HoldHasMatch`: the chord about to fire is what the queue begins with. `WithinInterval`: its keys were struck close together. `HeldLayers`, `OwnedOutput`: layers and output keys belong to held keys. `Awaited`: the event loop is told of every deadline. `Settles`: whatever is undecided is decided. |
| `pipeline_stuck_key` | violation of `Conserved` | A chord that must be held and an overloaded key in one keymap: the press of a key waits behind the overloaded one and its release behind the chord; the overload, decided first, replays the press into the chord's queue, behind the release. The key is held with no release to come. |
| `pipeline_chord_reuse` | violation of `ChordsActivated` | While a chord waits for `chord_hold_timeout`, the release of an earlier chord waits in its queue though its slot is already free: the waiting chord takes that slot, its press is dropped as a repetition and the old release ends it. |
| `pipeline_lost_timer` | violation of `Awaited` | A key flushed from an overload's queue schedules a deadline that is over already; it is dropped and no timeout is returned. |
| `daemon` | pass | Two keyboards and a mouse, plugged, unplugged and reloaded at any time: one config for both keyboards, one for a keyboard and the mouse, or one for each keyboard. `ActiveAwaited`: moves, clicks, clients and other devices do not lose the timeout of the keyboard used last. `Mirrored`: nothing is down on the virtual keyboard that no keyboard will release. `Grabbed`: a device is grabbed just when a live keyboard, of a config that matches best, hears it. `Settles`: a timed key of the keyboard used last is decided. |
| `daemon_served` | violation of `Served` | With one config for each of two keyboards, a key on the second replaces the one timeout there is; the key pending on the first is not decided. |
| `config` | pass | Any file of three out of fifteen lines, four of them includes of several, then binds and resets. `Implements`: `Config` is an implementation of `Bindings`. `Valid`: every index in every table. `Complete`: a file that gave no warning binds, last entry first, what it says. `Attributed`: a warning that names a file and line names the line it is about; those of the first pass name none. `IdsHonoured`: which devices a config matches. |
| `evdev` | pass | A keyboard and a mouse that come, go, are found twice, grabbed by a reload and read, with keys and motion between any two system calls. `Unstuck`: a grab leaves no key held for the rest of the system, races aside. `Believed`: what a keyboard will believe held is held. `Grouped`: packets of motion arrive once, whole and in order. `Heard`: every node is found and read. |
| `clients` | pass | Two clients, two keyboards. `Answered`: who sends a request is answered, unless the daemon exits or waits for good, for the rest of another's request or for a key to be let go of. `Informed`: what a listener believes of layers is so. `Recoverable`: whatever is down on either virtual keyboard is known to `clear_vkbd`. `NothingLeft`: a client's macro or text leaves nothing down. |

The violations are disagreements between the code and its documentation,
comments or assertions, described under `findings` with the line each quotes.
Their configurations bind just what the behaviour needs; the passing ones leave
those combinations out, and the hazards say so. Nine more, found with the same
modules, have no run of their own: `overload(layer, macro2(...))`, tapped, repeats
its macro with no key down (`MacroHeld`); `repeat()` leaves the key it repeats down
when it is nested in `overloadi`, which caches `repeat` again over the entry of that
key (`keyboard.c:581`), or tapped in an `overload`, which releases `repeat` itself
(`OwnedOutput`); a `swap` of the layer that a `oneshotk` holds replaces its entry by
that of a layer, so that its key stays down (`OwnedOutput`); a layer that takes the
first value of `get_time`, 1, does not occlude a layout, whose activation time is
always 1 (`keyboard.c:459`, `:876`; `LatestOccludes` with `BootClock = 1`); a key that an overload flushes after its
chord interval may join a chord key struck later (`WithinInterval`, and likewise
`Chronological`, in the mixed keymap); with `chord_timeout = 0`, which `config.c:832`
accepts, the deadline of a chord begun is over when it is scheduled and is dropped
(`keyboard.c:480`), so that a key struck any time later, while the first is held,
completes the chord (`WithinInterval` with `interkey` 0); the timer of an `overloadt2` key that was tapped makes a hold of the next
one; with `Devices = 2` two presses of one key, on two devices of one config,
fire a chord of two keys (`Conserved`); and in the mixed keymap a chord that need not
be held may stay on (`Conserved` and `ChordsActivated`, with `hold` 0 and `Gap` 1): an old
release of one of its keys, which has waited behind the overloaded key, is replayed when
the key was struck again and joined the chord, and lifts it; the chord's code is then
pressed after its release.

### Bounds, and why they are enough

`Layers`: four keys and a cache of three slots, so that a press also finds the
cache full; six layers of all three types, two of them layouts and one with a
modifier; `Width` 6, more than the activations of a run, so that no counter wraps
(that is left to the hypothesis `Shallow` of the theorems); `MaxClock` 5
allows four activations, enough for a key, a oneshot, a toggle and one more
layer to overlap in every order. A violation found in any of the failing
configurations takes fewer activations than that.

`Pipeline`: four keys, two layers, chords where one is a prefix of another and
one of another layer; `NrSlots` 2; spans (3 to 6) larger than the least gap of
two key events (`Gap` 2), which in turn exceeds how late a timeout may be
handled (`Late` 1): the event loop is faster than fingers. With `Gap <= Late`
`Awaited` fails, since a key event may carry a deadline past its time. In use, spans of
50 to 200 ms leave room for many more keys than 3 to 6 with a `Gap` of 2:
`pipeline_stuck_key`, which needs more than two keys in a span, has `Gap` 1. `MaxTime`
15 leaves room for seven key events, more than a decision and what it replays
involve. `QueueSize` 8 is never reached. `Slip`, the time between the timestamp
of an event and the start of poll's timer, is 0.

`Daemon`: one key code, timed in the first file and plain in the second, since
what matters is whose timeout is kept; `Span` 2 and `MaxTime` 4, so that two timed
keys follow each other and other events come before, at and after a deadline;
`Late` 1; two files at two addresses, so that after a reload `active_kbd` points to
nothing, to the same file's new keyboard or to another's; `MaxChurn` 2, two of
plugging, unplugging and reloading in any order. A wakeup of `poll` carries at
most one key event, and any number of others. `Slip` is 0 as in `Pipeline`. This
is an assumption about the machine, and it matters: with `Slip = 1`, `Settles`
fails. `poll`'s timer then ends a millisecond after the deadline; a mouse event
within that millisecond counts the static timeout of `event_handler` down to 0,
`evloop` takes 0 for no timeout, and the pending key stays undecided until
another key is struck.

`Config`: three lines suffice since an include stands for up to ten, so that files
have two layers, aliases, ids and several entries; each table is so small that some
entries find it full (`MaxDescriptors` 3, `MaxMacros`, `MaxCommands` 1, `MaxChords`
2, `MaxConstituents` 2, `MaxIds` 3). Expressions nest three deep, which is where a
refused inner action leaves something behind.

`Evdev`: two nodes, a table of three, so that a node found twice meets a full table;
two codes that are one key; `MaxChanges` 3: a press, and two of releases (which are
free), motion, plugging, unplugging and reloads around it. `QueueSize` 6 holds three
packets: reloads and motion in between let it overflow.

`Clients`: two clients, of which one may be half-way through a request while the
other waits; one place for a listener; two lines that may be left unread; a report
of one slot, so that a second key finds none; `MaxActive` 2, as many keys on a layer;
`MaxEvents` 3, of which a wait for a key is one.

### Fairness

`Daemon` assumes weak fairness of `Expire` (`poll` does not wait past its
timeout), of `TimeoutEvent` and of `Poll` (`evloop` always comes back to it, as
no handler blocks but `device_grab`, which is a guard here, and a client that does not
go on, which is not modelled here: `Clients` has both). `Pipeline` assumes
`WF(Step)`: the handlers return, there is nothing for them to wait for; and `WF(Expire)`: `poll` does not wait past its timeout, and
`event_handler` is then called with `EV_TIMEOUT`. Nothing is assumed of key
events, which anyway end at `MaxTime`: `Settles` says that an undecided key is
decided even if nobody touches the keyboard again. `Layers` needs no fairness,
all of its properties are about single steps and reachable states. `Config` assumes
`WF(Parse)`: parsing is not interrupted. `Evdev` assumes `WF(Daemon)`, the one thread
goes on; nobody need release a key, and `Heard` excepts the wait for one
(`Spinning`). `Clients` assumes of the daemon that it accepts (`WF(Accept)`) and that
a handler whose request is there returns (`WF(Returns)`), unless it waits for a key
(`awaiting`). Of clients and of whoever holds a key nothing is assumed: what the code
makes the daemon wait for without end is excepted in `Answered`, not assumed away,
namely the rest of a request whose sender has stopped or is gone (`[]Stalled`), and a
key to be let go of (`[]awaiting`). A wait that ends is no excuse.

## What is proved

`TypeCorrect` (`LayersProofs`): `Spec => []TypeOK`, for any layers, keymaps,
binds, widths and cache sizes. Every counter stays within its C width, every
cached entry is a descriptor and every index that a handler stores is that of a
layer. `TypeOK` is inductive as it stands; there is a lemma for each operator
and they compose as the handlers do.

`PairingCorrect` (`LayersProofs`): `Spec /\ []Shallow => [](Paired /\ NoAbort)`,
the pairing that `keyboard.c:266` demands and the assertion it protects. The
assumptions, each needed:

- `SwapFree`: no `swap`. `swap` moves an activation by the layer that an entry
  last activated, which may be that of a toggle key; it then takes away an
  activation that something else accounts for.
- `StableKeys`: whatever is bound, the action nested in a `oneshotk` stays a key
  sequence. `layers_stale_bind` is what happens otherwise.
- `[]Shallow`: no layer has so many pending oneshots that its `uint8_t` counter
  is about to wrap (237 with the code's constants).

The inductive invariant `PairingInv` is `TypeOK`, `Level` (each ordinary layer's
count is its holders, its pending oneshots and its toggle, not only modulo the
width), and `Sound` (the descriptors in the cache are ones that their release
can handle: a layer they name is neither main nor a layout, what they nest does
not itself hold a layer, a repeatable action holds none). `Paired` alone is not
inductive: it does not say that the key nested in a cached `oneshotk` or the
action that `repeat` would run holds no layer of its own. Handlers change the
cache first and the counters afterwards, so between their calls neither says
what the other ought to be; `Level(k, n, b)` therefore takes the number of
holders `n` as a parameter beside the keyboard, each lemma says by how much its
operator changes what `n` must be, and `Count(kbd)` is put for `n` only where a
handler begins and ends.

`LatchCorrect`, `OccludesCorrect` (`LayersProofs`): `Spec => []LatchCoversOneshots`
for every keymap and bind, swaps included, and `BootClock > 1 => (Spec =>
LatestOccludes)`. The invariant `OrderInv` adds to the latch that a repeatable
action holds no layer. `Lawful(k, j)` is what an event may do to the stamps: it
activates at most one ordinary layer, stamps it with the clock, which every other
stamp is behind (`Stamped`), and stamps nothing else. With `BootClock = 1` the
property is false, as said above.

`MacroHeldCorrect`, `OwnedCorrect` (`LayersProofs`): `Spec => []MacroHeld` and `Spec =>
[]OwnedOutput`. There is no hypothesis on layers, toggles, clears or binds of other
keys; those there are exclude the combinations found above to fail:

- `RepeatBare`: `repeat` is bound to keys of its own, in no `overload` or `overloadi`.
- `MacroBare`, for `MacroHeld`: no `overload` taps a `macro2`.
- `FirmKeys`, for `OwnedOutput`: a bind leaves the key nested in a `oneshotk` as it
  was; otherwise its release lifts another one.
- `KeysUnswapped`, for `OwnedOutput`: there is no `swap`, or no `oneshotk`.

The hard part is `swap`, which rewrites the entry of another held key. `Undisturbed`
says of every operator that it does so only to an entry that has activated a layer,
and leaves there one of a layer; so the entry of a key sequence, which never
activates one (`KeyInv`), stays whoever else's handler runs. `Sends` says what a
press may put down and start, `Pressed` that the entry which is left in its slot,
after the rebinding of `overloadi` and `repeat`, is one whose release lifts it.

`RestingCorrect` (`LayersProofs`): `Spec /\ []Shallow => []RestingModifiers`. What
`RestingModifiers` says only of a keyboard at rest, `Restful` says of any: the
modifiers are those of the active layers, or some held key will set them right when
it is released (a key sequence, or what holds a layer), or a oneshot is pending.
`Emptied` is what `clear` and `setlayout` leave: nothing is down, and that this is
right needs `PairingInv`, by which an ordinary layer still on has its holder. Beside
the assumptions of `PairingCorrect` and `RepeatBare`, the theorem assumes

- `PlainOneshots`: no key toggles a layer, or no oneshot is of a layer with
  modifiers. `layers_oneshot_toggle` is what happens otherwise.
- `LayoutsPlain`: layouts have no modifiers, as `new_layer` of `config.c` makes them.

TLC has checked the three invariants (`MacroInv`, `KeyInv`, `RestInv`) and all these
hypotheses together on the keymaps `Holding`, `Toggling` and `Nesting1` of `MCLayers`,
each on its own: the hypotheses leave room for everything but swaps.

`PipelineTyped`, `HoldHasMatchCorrect` (`PipelineProofs`): `Spec` implies `[]TypeOK`
and `[]HoldHasMatch`, for any codes, keymaps, chords, queue sizes and timings. The
invariant `TypeInv` adds to the types that the code of a chord is withheld or
replayed only while its slot names a chord, and that a layer that is active has its
place in the order of activation; without these `Lookup` might find no binding, and
`Latest` no layer. `Matched` is `HoldHasMatch` said also of the state before, in which
the queue holds presses only and begins with the best chord so far, if there is one.

`PipelineOwned`, `PipelineHeldLayers` (`PipelineProofs`):
`PlainActions => (Spec => []OwnedOutput)` and
`PlainActions => (Spec /\ []Roomy => []HeldLayers)`. The invariant adds `TimersCached`: a
key that is not decided is in the cache as the timed key it is, so that nothing is
forgotten when deciding it replaces its entry. `Paid` and `Balanced` are stated of any
keyboard, not only the current one, since one handler hands the keyboard it has built
to the next: `DecideTimeoutKeeps`, `DeferKeeps`, `StrikeKeeps` compose to `DeliverKeeps`. The
assumptions:

- `PlainActions`: what a timed key becomes is a key or a layer. A timed key nested in
  another is pending under a code whose entry in the cache may be another one already,
  and that entry is then overwritten.
- `[]Roomy`: both queues have room for one more event, and some slot for a chord is
  free. The code asserts this (`keyboard.c:325`, `:916`, `:1117`), and `HeldLayers`
  says among other things that no assertion has failed.

`PipelineConserved`, `PipelineChronological` (`PipelineProofs`): under `PlainActions`
and the two assumptions below, `Spec => []Conserved` and `Spec => []Chronological`. Both
properties speak of an idle keyboard; the invariants say what they come from while
frames are still on the stack. `Accounted`: the events withheld lead from the keys
that are in the cache or in a chord (`DownCodes`) to some set of keys, and what each frame has
still to deliver leads on from there to the keys that are held (`Leads`, `Onward`, where
an event moves a set of keys only if it presses one outside it or releases one in it).
Whatever a handler does moves events from one place to another without changing where
they lead; a chord that fires skips the presses of its keys, which then are in the
chord. `Tidy` says what the queues and chords are like between any two steps (no key
is both in a chord and in the cache or in two chords, no release of a chord's key waits behind a
chord), and `Conforms` that a chord is being resolved just while the one frame is there
that replays its queue. `Ordered` says the same of time: what is withheld ends
before what each frame has still to deliver begins, down to `now` (`Ascends`, `Chain`);
while a chord is being resolved nothing is withheld, and this holds of the frames
beneath. The assumptions:

- `Exclusive`: a keymap has chords or overloaded keys, not both. With both, what
  `handle_pending_overload` replays `handle_chord` withholds again, behind what it
  has withheld already; the stuck key of `pipeline_stuck_key` is what happens otherwise.
- `Devices = 1`: no two devices of a config have a key in common. Otherwise two
  presses of one key may wait, as was also found above.

`PipelineWithinInterval` (`DecisionProofs`): under the same assumptions and two more,
`Spec => []WithinInterval`. The code does not compare a key's time with that of the
key before it: it relies on the event loop to come back in time to end a chord that lapses.
So the invariant (`Punctual`) is about the deadline. While a chord is pending its end
(`Lapse`) is among the timers, what is returned to the event loop is no later, and an
event about to be handled is earlier, unless it is the timeout itself (`InTime`). For that
`Layered` says that, where a keymap has chords, the frames on the stack are the event
loop's and above it those of chords and their codes: what is replayed to `handle_chord` never comes
while it is pending. `Spaced` says what it gives: the keys queued are no further apart
than the interval. The assumptions:

- `Slip = 0`: poll's timer starts at the time of the event, so that a key after the deadline
  comes after the timeout.
- `Intervals`: no `chord_timeout` is 0; what happens otherwise is told above.

`PipelineActivatedAtOnce` (`DecisionProofs`): under the assumptions of
`PipelineConserved`, `Spec => []ActivatedAtOnce`. While the keyboard is at
rest, the code of a slot is in the cache just while the slot's chord is on (`Agree`), and the
invariant (`Acting`) says in which way it may be otherwise while a step is under way:
nothing that is withheld is of a slot (`QueuesFree`), nor is anything that the frames below
the innermost deliver (`FramesFree`), and in the innermost at most the last event is,
behind presses only, with the cache and the slot just before what it will do (`Flight`,
`Leading`). The presses before it are those that a chord left pending was made
of, when the release of another chord's code ends it. `BindingAssumption` is needed where the code
is pressed: an empty descriptor would leave no trace in the cache. `Acting` is kept
where the keymap has no chords or a `chord_hold_timeout` of 0 (`AtOnce`), the default of
`config_init`, and no step changes the config (`ConfigFixed`). With another value the
release of a chord's code may wait behind a chord that is held, and then ends that one:
`pipeline_chord_reuse`.

`PipelineAwaited` (`DecisionProofs`): under `PlainActions`, `Devices = 1`, `Slip = 0`,
`Intervals` and the assumption below, `Spec => []Awaited`. Each undecided key or chord
has its time among the timers, and `calculate_main_loop_timeout` drops a timer that is
over; so the argument is that none is over when it is set or looked at. `Alarm(u, ...)`
says of a time `u` that it is among the timers and still to come, except while its own
expiry is being handled, and that what the loop has been or will be told is no later.
The invariant (`Attended`) has two halves. Where a keymap has chords (`Chiming`), only
the chord can be undecided, and its time has an alarm: a lapse, or the end of
`chord_hold_timeout`, which after a lapse counts from when that was handled, `Late` at
most behind. Where it has none (`Steady`), the events behind an overloaded key, and after
them those of the frames, were struck `Gap` apart and after that key (`Apart`,
`Strung`, `Lined`), so that a key that waits in its turn is due later than the present
(`Lasts`, `Enduring`), and its timer is set in time. The assumption:

- `Even`: a keymap with chords has no timed keys, and any two waiting times `v` and `w`
  of one keymap have `0 < v` and `v + Late < w + Gap`; with one such time this is
  `Late < Gap`, the event loop being late by less than keys are struck apart. Keymaps
  that wait for the one default of every key are of this kind. A key with a much shorter
  time behind one with a longer is over before its turn comes, which is what
  `pipeline_lost_timer` finds. `Even` implies `Exclusive`, which the lemmas it rests on assume.

`DaemonTypeCorrect`, `GrabbedCorrect`, `MirroredCorrect` (`DaemonProofs`): `Spec`
implies `[]TypeOK`, `[]Grabbed` and `[]Mirrored`, for any devices, files,
directories, spans and bounds, with `Slip` and the stray timestamps free. The
inductive invariant `DaemonInv` adds to the three that a pending key is in the
cache as the timed key it is (`Timed`): deciding it rewrites its cache entry, and
if that entry were a key already down, `Mirrored` would lose it. `Kept(s, r)`
is what one event may do to a keyboard and its output, stated for any set of keys
that others hold, so that it composes: `DecideKept`, `StrikeDownKept` and
`ReleaseKept` make up `ProcessKept`, and two of those a click. `MirroredKept` then
carries it over to all keyboards, and there is a lemma for each action. That no
timeout is negative needs that a set of timers has a least one (`HasLeast`, from
the library's well-founded orders).

`ActiveAwaitedCorrect` (`DaemonProofs`): `Spec => []ActiveAwaited`. `AwaitInv` says it
of every moment, not only of `poll`: `event_handler` keeps its timeout relative to
`last`, `evloop` its own relative to the last `poll`, and when the keyboard used last has a
key pending both run out at one time, no later than the key is due (`Waiting`), which
is among that keyboard's timers (`KeyboardsDue`). An event for no keyboard shortens both by
the time that has passed (`HandledAwaits`), one for a keyboard sets both from its
timers (`HandAwaits`), and a reload leaves nothing pending. The assumptions:

- `MiceShare`: no config lists a mouse, or one config has all the devices. A mouse that
  moves makes its keyboard the one used last, with whatever timeout another left; with
  a single config (`Distinct`) it was that one already (`Sole`). All the directories
  `daemon` runs with are of this kind.
- `Slip = 0`, as in that run: time that passes between an event and the next `poll` is
  not taken off what `poll` waits, and adds up from one event to the next.

`UnstuckCorrect` (`EvdevProofs`): `Spec => []Unstuck`, for any nodes, codes, queues
and table sizes. What `Unstuck` says of a device that is grabbed must hold before it
is: `EvdevInv` adds that between the last look at the keys and the grab only a race
adds to what the system believes held (`Racing`), and that what it believes held and
is not, it believes because of a race (`Residual`), which the look at the keys then
turns into what `Racing` says. The rest of it is that `manage_device` is under way only
while there are devices to manage, and that their indices stay valid. `Under(t)` says
that no file of a table `t` holds a grab that none held before; every step but the
grab has it, also the compaction of the table, whose entries are listed in ascending
order (`Lists`, by the least bound under which they could not be).

`EvdevTyped`, `BelievedCorrect`, `GroupedCorrect` (`EvdevProofs`): `Spec` implies
`[]TypeOK`, `[]Believed` and `[]Grouped`, under the same assumptions. A second
invariant, `KeptInv`, says of each entry of the table what its queue will make its
keyboard believe once it is read (`Keys`) and what it will have been told of the
motion (`Motions`), both folds over the queue: reading moves an event from the
queue to what was heard and leaves the fold as it is, a new event is one more step
of it (`FoldConcat`), and a queue that overflows is marked as no longer sound. That
the loop refers only to entries there are needs that `ready` is emptied before the
table is compacted.

`ClientsTyped`, `RecoverableCorrect`, `InformedCorrect`, `NothingLeftCorrect`
(`ClientsProofs`): `Spec` implies `[]TypeOK`, `[]Recoverable`, `[]Informed` and the
action property `NothingLeft`, for any clients, keyboards, layers, key tables,
macros and texts. `Good` says of the output that what is down on either virtual
keyboard is in the daemon's `keystate`, which `clear_vkbd` goes by, and that the
report shows a key once. `Left(o, o0, D)` says that since `o0` nothing has come down
but what is in `D`; a macro under way has `Left` with `D` what it holds
(`UnderWay`), and a macro that parses ends with nothing held (`AtRest`), since the
parser puts a release behind every chord. Text is a fold of the same kind. `Hears`
says what a listener will believe once it has read its lines, again a fold, of the
keyboard it has heard of; it is what `Informed` says only of a listener with no line
unread.

`ConfigTyped`, `ValidCorrect`, `AttributedCorrect`, `IdsCorrect`, `CompleteCorrect`,
`PromiseKept` (`ConfigProofs`): `Spec` implies `[]TypeOK`, `[]Valid`, `Attributed`,
`[]IdsHonoured`, `[]Complete` and `Promised!Init /\ [][Promised!Next]_Promised!vars`, that is, all
of `Implements` but that each request is answered. This holds for any words, keys,
expressions, files, includes, binds and limits of the tables, six layers at least.
The invariant `ConfigInv` has three parts beside types. `Whole(c)` is `Valid` with
what it takes to keep it: a descriptor in the table refers to earlier ones only, the
layers have different names, the six default layers stay where `config_init` put
them (a modifier's key is looked up by its layer's name, and must not find a
layout), and no chord hides a later one. `Frames` says of each activation of
`parse_descriptor` that the arguments it has parsed are indices of descriptors,
macros and layers that mean what the expression says there, and that each frame
awaits what the one above it parses; so when a call is done its descriptor means
what the call says (`CallMeans`). `Texts` says where each line and each entry comes
from. `Attributed` is about steps that warn: beside `Texts` it needs that the place
that would be named is that of the entry being parsed, and none in the first pass
(`Sited`). Tables only grow while an entry is parsed, and growing changes the meaning of
nothing (`MeaningStable`), so what a refused entry leaves behind is not seen;
setting an entry changes one layer, and its bindings are then the granted ones
(`SetEntryGrants`).

`Complete` speaks of the end of a file only, so its proof has a second invariant,
`Progress`, of how far the file is parsed. While there is no warning, `LayersMade`:
each section that the first pass has left has its layer; and `Fulfilled(config,
Turn)`: in the second pass, what the entries before `Turn` ask for, the entry that is
parsed or is next, is done. That has three parts for each layer: a key does what the
last entry before `Turn` for it says (`KeysDone`); a chord that no other entry
overlaps is there and does what its entry says (`ChordsDone`); and each chord came
from an entry before `Turn` (`ChordsFrom`), so that an entry whose chord is found in
the table, as part of a larger one maybe, does overlap another entry. `Parsed` says what a step of `parse_descriptor`
may do to an entry: it goes on with larger tables, refuses it with a warning, or sets
it; `DoneKept` and `FulfilledSets` show that the first and the last keep `Fulfilled`.

The assumptions on the constants these proofs need are stated with them in the
modules and evaluated by every run: packets of motion are pairs of integers and not
zero (`CodeAssumption` of `Evdev`); requests are of the types `ipc.c` knows, layers
are finitely many and no layouts (`ClientAssumption`); there are finitely many key
codes, none of which is that of a chord, and no chord has an empty descriptor
(`CodeAssumption`, `BindingAssumption` of `Pipeline`); the table of modifiers is a
sequence (`OutputAssumption`); the lines of files and includes are lines, the names
and aliases of the default config are words and expressions, what an expression
nests is less deep than it, `None` is none of the values it is to differ from
(`LineAssumption`, `DefaultAssumption`, `NestingAssumption`, `NoneAssumption`).

On recursion. The induction theorems of the library cannot be used, as their
parameter is an operator. `FoldTheorems` derives induction over the naturals in the
form of sets from the well-foundedness of `<` (`NatSet`), and from it what a fold
over a sequence computes: that it runs through intermediate results (`FoldRuns`),
keeps a type (`FoldType`), and folds a concatenation in two parts (`FoldConcat`).
The step is a constant of the module, for which `INSTANCE FoldTheorems WITH Op <-
...` puts an operator of the model. Recursive functions (`Says`, `Meanings`) are
handled alike: their restrictions to what is less deep than `n`, or to the first `n`
descriptors, exist and agree, hence the `CHOOSE` by which a recursive function is
defined finds one.

Not provable with these tools: liveness under fairness (`Settles`, `Heard`,
`Answered`, and that part of `Implements`) and anything about `ENABLED`. Every
invariant that a passing run checks is stated by a theorem. Keymaps that have both
chords and overloaded keys are left out by the theorems about `Pipeline` and by the
passing run: `Conserved` does not hold of them, as `pipeline_stuck_key` shows.

## Not modelled

- the characters of configuration files and command lines, key names, the unicode
  table, logging, `monitor` and `check`: data or formatting;
- of the devices, capabilities, LEDs (`layer_indicator` shows the state of the last
  layer change only; a device that is gone ends the daemon when its LED is set) and
  absolute axes (the range of an axis is divided by without a check, `device.c:487`);
- of the virtual keyboard, motion and scrolling (`daemon.c:542` sends a horizontal
  tick as a vertical one) and the driver that prints;
- the panic sequence, which ends the program;
- scrolling, the modifier guard, the time a macro takes;
- timestamps that wrap after 24.8 days of uptime;
- actions nested deeper than `Layers` states;
- the release of a grab that fails (`device.c:404`; the device stays marked as grabbed);
- in `Config`, a file that expands to no line at all, which the code parses as whatever
  its static buffer held before (`config.c:200`); what a warning about a bind names (the
  last entry of the last file, through a pointer into a source map that has gone out of
  scope); ids that are a proper prefix of a device's id (an id of the model stands for the
  device whose id it begins, which is as good for one device at a time);
- what a freed keyboard does when it is used; in `Clients`, a listener that comes
  while `active_kbd` points to one;
- the application mapper, a client like any other.

## Plan

1. `Layers`, `Pipeline`, `Daemon`, `Config` with `Bindings`, `Evdev`, `Output` with
   `Clients`, their runs, and the theorems above: done.
2. To extend: the scroll operations and the modifier guard in `Layers`; the LEDs in
   `Daemon`; `Deferral`, an abstract specification of what `Pipeline` promises (each
   event delivered once and in order).
3. To prove: that `Pipeline` implements it, where chords and overloaded keys are not
   mixed.
