------------------------------- MODULE Layers -------------------------------
(***************************************************************************)
(* The layer machine of keyd: process_event and process_descriptor of      *)
(* src/src/keyboard.c for a keyboard with no chord, pending overload or    *)
(* pending timeout in flight (those are the module Pipeline).  A key that  *)
(* goes down is looked up in the stack of active layers, its descriptor is *)
(* cached until the key comes up, and the descriptor's operation activates *)
(* layers, latches oneshots, toggles, swaps, clears, and presses the       *)
(* virtual keyboard's keys.                                                *)
(*                                                                         *)
(* kbd is struct keyboard and config the part of kbd->config that an IPC   *)
(* bind or reset replaces while keys are held.  The operators below take   *)
(* the keyboard k they start from and return the keyboard they leave, so   *)
(* that a handler's calls compose in the order the code makes them.        *)
(*                                                                         *)
(* Abstracted: clocks (a deadline that is armed may or may not have passed *)
(* at the next event), the order of output within one event (keystate is   *)
(* kept, the modifier guard's control tap is not), and a macro's content   *)
(* (the set of keys it taps; it leaves each of them up).                   *)
(***************************************************************************)
EXTENDS Naturals, FiniteSets

CONSTANTS
  Code,            \* the physical key codes
  NoCode,          \* code 0: a free cache slot, or no key
  Key,             \* output keys that are not modifiers
  Mod,             \* output modifier keys
  NoKey,           \* noop: a key sequence that outputs nothing
  SelfKey,         \* [Code -> Key]: what an unmapped key outputs
  NrLayers,        \* config.nr_layers; layer 0 is main
  LayerType,       \* [Layer -> {"normal", "layout", "composite"}]
  LayerMods,       \* [Layer -> SUBSET Mod]
  Constituents,    \* [Layer -> SUBSET Layer], for composite layers
  Action,          \* indices of config.descriptors
  Configs,         \* the configs a file, a bind or a reset can install
  BootConfigs,     \* those that may be loaded from the file
  Evals,           \* <<from, to>>: what one bind or reset does to a config
  DefaultLayout,   \* the layer named by default_layout, 0 if none
  OneshotTimeout,  \* TRUE iff oneshot_timeout is set
  TapTimeout,      \* TRUE iff overload_tap_timeout is set
  CacheSize,       \* CACHE_SIZE, 16
  Width,           \* modulus of the uint8_t counters, 256
  BootClock,       \* get_time()'s next value: other keyboards share it
  MaxClock         \* bound: no key event is taken once the clock is past it

Layer == 0 .. NrLayers - 1
Slot  == 0 .. CacheSize - 1
Out   == Key \cup Mod

\* What a binding may say.  "none" is op = 0, an unbound key.
SimpleOps == {"none", "keysequence", "layer", "layerm", "oneshot", "oneshotm",
              "toggle", "togglem", "swap", "swapm", "setlayout", "clear",
              "clearm", "macro", "macro2", "command"}
NestedOps == {"oneshotk", "repeat"}
Ops       == SimpleOps \cup NestedOps \cup {"overload", "overloadi"}

Descriptor == [op    : Ops,
               layer : Layer,              \* args[0].idx
               key   : Out \cup {NoKey},   \* args[0].code
               mods  : SUBSET Mod,         \* args[1].mods
               macro : SUBSET Out,         \* the keys of macros[...]
               act   : Action,             \* nested descriptors[...]
               alt   : Action]             \* second one, of overloadi

Config == [keymap : [Layer -> [Code -> Descriptor]],
           descriptors : [Action -> Descriptor]]

ASSUME CodeAssumption ==
  /\ NoCode \notin Code
  /\ NoKey \notin Out
  /\ Key \cap Mod = {}
  /\ SelfKey \in [Code -> Key]

ASSUME ActionAssumption == Action # {}

ASSUME LayerAssumption ==
  /\ NrLayers \in Nat \ {0}
  /\ LayerType \in [Layer -> {"normal", "layout", "composite"}]
  /\ LayerMods \in [Layer -> SUBSET Mod]
  /\ Constituents \in [Layer -> SUBSET Layer]
  /\ DefaultLayout \in Layer
  /\ DefaultLayout # 0 => LayerType[DefaultLayout] = "layout"
  /\ LayerType[0] = "normal" /\ LayerMods[0] = {}

ASSUME BoundAssumption ==
  /\ CacheSize \in Nat \ {0}
  /\ Width \in Nat /\ CacheSize + 2 <= Width
  /\ BootClock \in Nat \ {0} /\ MaxClock \in Nat
  /\ OneshotTimeout \in BOOLEAN /\ TapTimeout \in BOOLEAN

\* What parse_descriptor accepts: a layer argument is neither main nor a
\* layout, setlayout takes main or a layout, oneshotk nests a key sequence.
WellFormed(cf, d) ==
  /\ d.op \in {"layer", "layerm", "oneshot", "oneshotm", "oneshotk", "toggle",
               "togglem", "swap", "swapm", "overload"}
       => d.layer # 0 /\ LayerType[d.layer] # "layout"
  /\ d.op = "setlayout" => d.layer = 0 \/ LayerType[d.layer] = "layout"
  /\ d.op = "oneshotk" => cf.descriptors[d.act].op = "keysequence"

\* The nesting modelled, whichever config is installed when an index is used: an
\* overload taps an action that nests none but a key or a repeat, and overloadi
\* chooses between actions other than overloadi.
Nesting(d) ==
  \A cf \in Configs :
    /\ d.op = "oneshotk" => cf.descriptors[d.act].op \in SimpleOps
    /\ d.op = "overload" => cf.descriptors[d.act].op \in SimpleOps \cup NestedOps
    /\ d.op = "overloadi" => /\ cf.descriptors[d.act].op # "overloadi"
                             /\ cf.descriptors[d.alt].op # "overloadi"

ASSUME ConfigAssumption ==
  /\ Configs \subseteq Config /\ BootConfigs \subseteq Configs
  /\ Evals \subseteq Configs \X Configs
  /\ \A cf \in Configs :
       /\ \A l \in Layer, c \in Code : WellFormed(cf, cf.keymap[l][c])
                                       /\ Nesting(cf.keymap[l][c])
       /\ \A n \in Action : WellFormed(cf, cf.descriptors[n])
                            /\ Nesting(cf.descriptors[n])

VARIABLES kbd, config
vars == <<kbd, config>>

NoDescriptor == [op |-> "none", layer |-> 0, key |-> NoKey, mods |-> {},
                 macro |-> {}, act |-> CHOOSE a \in Action : TRUE,
                 alt |-> CHOOSE a \in Action : TRUE]

Entry    == [code : Code \cup {NoCode}, d : Descriptor, dl : Layer, layer : Layer]
FreeSlot == [code |-> NoCode, d |-> NoDescriptor, dl |-> 0, layer |-> 0]

Keyboard ==
  [cache     : [Slot -> Entry],
   active    : [Layer -> 0 .. Width - 1],
   toggled   : [Layer -> BOOLEAN],
   depth     : [Layer -> 0 .. Width - 1],   \* oneshot_depth
   stamp     : [Layer -> Nat],              \* activation_time
   clock     : Nat,                         \* the counter of get_time()
   latch     : BOOLEAN,                     \* oneshot_latch
   armed     : BOOLEAN,                     \* oneshot_timeout # 0
   repeating : BOOLEAN,                     \* active_macro # NULL
   macro     : SUBSET Out,                  \* the keys active_macro taps
   last      : Code \cup {NoCode},          \* last_pressed_code
   repeat    : Descriptor,                  \* last_repeatable_action
   down      : SUBSET Out,                  \* keystate
   aborted   : BOOLEAN]                     \* an assertion has failed

TypeOK == kbd \in Keyboard /\ config \in Configs

-----------------------------------------------------------------------------
(* Output: keystate and the modifiers that active layers imply.            *)

Excluding(dl) ==
  {dl} \cup (IF LayerType[dl] = "composite" THEN Constituents[dl] ELSE {})

ActiveMods(k, excluded, mods) ==
  mods \cup UNION {LayerMods[l] : l \in {m \in Layer \ excluded : k.active[m] > 0}}

UpdateMods(k, excluded, mods) ==
  [k EXCEPT !.down = (@ \ Mod) \cup ActiveMods(k, excluded, mods)]

ExecuteMacro(k, keys) == UpdateMods([k EXCEPT !.down = @ \ keys], {}, {})

-----------------------------------------------------------------------------
(* Layers: activation counts, oneshots, toggles and layouts.               *)

Increment(n) == IF n = Width - 1 THEN 0 ELSE n + 1

\* Mutant: only the first activation of a layer is timestamped.
ActivateOnceStamped(k, c, l) ==
  [k EXCEPT !.active[l] = Increment(@),
            !.stamp[l] = IF k.active[l] = 0 THEN k.clock ELSE @,
            !.clock = @ + 1,
            !.cache = [s \in Slot |->
                         IF @[s].code = c /\ c # NoCode
                         THEN [@[s] EXCEPT !.layer = l] ELSE @[s]]]

ActivateLayer(k, c, l) ==
  [k EXCEPT !.active[l] = Increment(@),
            !.stamp[l] = k.clock,
            !.clock = @ + 1,
            !.cache = [s \in Slot |->
                         IF @[s].code = c /\ c # NoCode
                         THEN [@[s] EXCEPT !.layer = l] ELSE @[s]]]

DeactivateLayer(k, l) ==
  IF k.active[l] > 0 THEN [k EXCEPT !.active[l] = @ - 1]
                     ELSE [k EXCEPT !.aborted = TRUE]

\* Mutant: the pending oneshots are forgotten without deactivating their layers.
ForgetOneshots(k) ==
  [k EXCEPT !.depth = [l \in Layer |-> 0], !.latch = FALSE, !.armed = FALSE]

\* Mutant: "if" for "while", so that one oneshot of each layer is dropped.
ClearOneOneshot(k) ==
  LET pending == {l \in Layer : k.depth[l] > 0}
  IN  [k EXCEPT !.active = [l \in Layer |-> IF l \in pending THEN @[l] - 1 ELSE @[l]],
                !.depth = [l \in Layer |-> IF l \in pending THEN @[l] - 1 ELSE @[l]],
                !.latch = FALSE,
                !.armed = FALSE]

\* One deactivation for each pending oneshot of each layer.
ClearOneshot(k) ==
  [k EXCEPT !.active = [l \in Layer |-> IF k.depth[l] <= @[l] THEN @[l] - k.depth[l] ELSE 0],
            !.aborted = @ \/ \E l \in Layer : k.depth[l] > k.active[l],
            !.depth = [l \in Layer |-> 0],
            !.latch = FALSE,
            !.armed = FALSE]

DropToggles(k) ==
  LET dropped == {l \in Layer \ {0} : LayerType[l] # "layout" /\ k.toggled[l]}
  IN  [k EXCEPT !.toggled = [l \in Layer |-> @[l] /\ l \notin dropped],
                !.active = [l \in Layer |->
                              IF l \in dropped /\ @[l] > 0 THEN @[l] - 1 ELSE @[l]],
                !.aborted = @ \/ \E l \in dropped : k.active[l] = 0]

Clear(k) == [DropToggles(ClearOneshot(k)) EXCEPT !.repeating = FALSE, !.down = {}]

SetLayout(k, l) ==
  LET cleared == [Clear(k) EXCEPT
        !.active = [m \in Layer |-> IF m # 0 /\ LayerType[m] = "layout" THEN 0 ELSE @[m]]]
  IN  IF l = 0 THEN cleared
               ELSE [cleared EXCEPT !.active[l] = 1, !.stamp[l] = 1]

-----------------------------------------------------------------------------
(* Lookup: the most recently activated layer that binds the key, unless    *)
(* a composite layer whose constituents are all active binds it.           *)

Binds(l, c) == config.keymap[l][c].op # "none"

Occluding(k, c) ==
  LET stack == {l \in Layer : k.active[l] > 0 /\ Binds(l, c)}
  IN  {l \in stack : \A m \in stack :
         k.stamp[m] < k.stamp[l] \/ (k.stamp[m] = k.stamp[l] /\ m <= l)}

Composite(k, c) ==
  LET size(l) == Cardinality(Constituents[l])
      matching == {l \in Layer : /\ LayerType[l] = "composite" /\ Binds(l, c)
                                 /\ \A m \in Constituents[l] : k.active[m] > 0}
  IN  {l \in matching : \A m \in matching :
         size(m) < size(l) \/ (size(m) = size(l) /\ l <= m)}

\* The set of the one descriptor, with its layer, that c resolves to.
Lookup(k, c) ==
  LET found == IF Composite(k, c) # {} THEN Composite(k, c) ELSE Occluding(k, c)
  IN  IF found # {}
      THEN {[d |-> config.keymap[l][c], dl |-> l] : l \in found}
      ELSE {[d |-> [NoDescriptor EXCEPT !.op = "keysequence", !.key = SelfKey[c]],
             dl |-> 0]}

-----------------------------------------------------------------------------
(* The cache of held keys.                                                 *)

Holds(k, c) == \E s \in Slot : k.cache[s].code = c

\* cache_set scans every slot and keeps the last free one.
LastFree(k, s) ==
  /\ k.cache[s].code = NoCode
  /\ \A t \in Slot : t > s => k.cache[t].code # NoCode

Rebind(k, c, d) ==
  [k EXCEPT !.cache = [s \in Slot |->
                         IF @[s].code = c THEN [@[s] EXCEPT !.d = d] ELSE @[s]]]

-----------------------------------------------------------------------------
(* process_descriptor, one operator for each operation and edge.           *)

\* Mutant: noop is sent like any other key.
KeySequenceSendsNoop(k, d, dl) ==
  LET mods == ActiveMods(k, Excluding(dl), d.mods)
  IN  ClearOneshot([k EXCEPT !.down = (@ \ Mod) \cup mods \cup {d.key},
                             !.repeat = [d EXCEPT !.mods = mods]])

KeySequenceDown(k, d, dl) ==
  LET mods    == ActiveMods(k, Excluding(dl), d.mods)
      pressed == [k EXCEPT
        !.down = ((@ \ {d.key}) \ Mod) \cup mods \cup ({d.key} \cap Out),
        !.repeat = [d EXCEPT !.mods = mods]]
  IN  ClearOneshot(pressed)

\* Mutant: the release of a key leaves the modifiers as its press set them.
KeySequenceUpOnly(k, d) == [k EXCEPT !.down = @ \ {d.key}]
KeySequenceUp(k, d) == UpdateMods([k EXCEPT !.down = @ \ {d.key}], {}, {})

LayerDown(k, c, l) == UpdateMods(ActivateLayer(k, c, l), {}, {})
LayerUp(k, l)      == UpdateMods(DeactivateLayer(k, l), {}, {})

OneshotDown(k, c, d, dl) ==
  [UpdateMods(ActivateLayer(k, c, d.layer), Excluding(dl), {}) EXCEPT !.latch = TRUE]

\* Mutant: the release deactivates the layer even as it latches it.
OneshotUpTwice(k, d) ==
  IF k.latch THEN LayerUp([k EXCEPT !.depth[d.layer] = Increment(@)], d.layer)
             ELSE LayerUp(k, d.layer)

OneshotUp(k, d) ==
  IF k.latch THEN [k EXCEPT !.depth[d.layer] = Increment(@),
                            !.armed = @ \/ OneshotTimeout]
             ELSE LayerUp(k, d.layer)

ToggleDown(k, c, d) ==
  LET flipped == [k EXCEPT !.toggled[d.layer] = ~@]
      moved   == IF flipped.toggled[d.layer]
                 THEN ActivateLayer(flipped, c, d.layer)
                 ELSE DeactivateLayer(flipped, d.layer)
  IN  ClearOneshot(UpdateMods(moved, {}, {}))

\* A toggle of dl, or else a pending oneshot of it, becomes one of l.
SwapToggle(k, dl, l) ==
  LET left == [DeactivateLayer(k, dl) EXCEPT !.toggled[dl] = FALSE]
  IN  UpdateMods([ActivateLayer(left, NoCode, l) EXCEPT !.toggled[l] = TRUE], {}, {})

SwapOneshot(k, dl, l) ==
  LET left == [DeactivateLayer(k, dl) EXCEPT !.depth[dl] = @ - 1]
  IN  UpdateMods([ActivateLayer(left, NoCode, l) EXCEPT !.depth[l] = Increment(@)], {}, {})

\* Failing those, the first cached key that activated dl comes to hold l.
ActivatedBy(k, s, dl) == k.cache[s].code # NoCode /\ k.cache[s].layer = dl

SwapHeld(k, dl, l) ==
  LET first == {s \in Slot : ActivatedBy(k, s, dl)
                             /\ \A t \in Slot : t < s => ~ActivatedBy(k, t, dl)}
      held  == [s \in Slot |->
                  IF s \in first
                  THEN [k.cache[s] EXCEPT !.layer = l,
                                          !.d = [@ EXCEPT !.op = "layer", !.layer = l]]
                  ELSE k.cache[s]]
  IN  UpdateMods(ActivateLayer([DeactivateLayer(k, dl) EXCEPT !.cache = held],
                               NoCode, l), {}, {})

SwapDown(k, d, dl) ==
  CASE k.toggled[dl] -> SwapToggle(k, dl, d.layer)
    [] ~k.toggled[dl] /\ k.depth[dl] > 0 -> SwapOneshot(k, dl, d.layer)
    [] /\ ~k.toggled[dl] /\ k.depth[dl] = 0
       /\ LayerType[dl] = "normal" /\ dl # 0
       /\ \E s \in Slot : ActivatedBy(k, s, dl) -> SwapHeld(k, dl, d.layer)
    [] OTHER -> k

MacroDown(k, d) ==
  [ExecuteMacro(ClearOneshot(k), d.macro) EXCEPT
     !.repeating = TRUE, !.macro = d.macro, !.repeat = d]

CommandDown(k) == UpdateMods(ClearOneshot(k), {}, {})

SimpleDown(k, c, d, dl) ==
  CASE d.op = "keysequence" -> KeySequenceDown(k, d, dl)
    [] d.op = "layer"       -> LayerDown(k, c, d.layer)
    [] d.op = "layerm"      -> LayerDown(ExecuteMacro(k, d.macro), c, d.layer)
    [] d.op = "oneshot"     -> OneshotDown(k, c, d, dl)
    [] d.op = "oneshotm"    -> OneshotDown(ExecuteMacro(k, d.macro), c, d, dl)
    [] d.op = "toggle"      -> ToggleDown(k, c, d)
    [] d.op = "togglem"     -> ToggleDown(ExecuteMacro(k, d.macro), c, d)
    [] d.op = "swap"        -> SwapDown(k, d, dl)
    [] d.op = "swapm"       -> ExecuteMacro(SwapDown(k, d, dl), d.macro)
    [] d.op = "setlayout"   -> SetLayout(k, d.layer)
    [] d.op = "clear"       -> Clear(k)
    [] d.op = "clearm"      -> ExecuteMacro(Clear(k), d.macro)
    [] d.op \in {"macro", "macro2"} -> MacroDown(k, d)
    [] d.op = "command"     -> CommandDown(k)
    [] OTHER                -> k

\* swapm releases its macro's key, which its press already tapped.
SimpleUp(k, d) ==
  CASE d.op = "keysequence"            -> KeySequenceUp(k, d)
    [] d.op \in {"layer", "layerm"}    -> LayerUp(k, d.layer)
    [] d.op \in {"oneshot", "oneshotm"} -> OneshotUp(k, d)
    [] d.op = "swapm" /\ Cardinality(d.macro) = 1 -> ExecuteMacro(k, d.macro)
    [] OTHER                           -> k

\* Mutant: the held key keeps the descriptor of repeat, which does nothing when
\* it is released.
RepeatUnbound(k, c, dl) == SimpleDown(k, c, k.repeat, dl)
\* repeat presses the last repeatable action and is released as it.
RepeatDown(k, c, dl) ==
  LET pressed == SimpleDown(k, c, k.repeat, dl)
  IN  Rebind(pressed, c, pressed.repeat)

NestedDown(k, c, d, dl) ==
  CASE d.op = "oneshotk" ->
         OneshotDown(SimpleDown(k, c, config.descriptors[d.act], dl), c, d, dl)
    [] d.op = "repeat" -> RepeatDown(k, c, dl)
    [] OTHER -> SimpleDown(k, c, d, dl)

\* The index d.act is resolved again: a bind may have replaced what it names.
NestedUp(k, d) ==
  IF d.op = "oneshotk"
  THEN OneshotUp(SimpleUp(k, config.descriptors[d.act]), d)
  ELSE SimpleUp(k, d)

\* The tap of an overloaded key presses and releases its action at once, save a
\* macro (a macro2 is not saved), executed without becoming the active one.
Tap(k, c, d, dl) ==
  LET action == config.descriptors[d.act]
  IN  IF action.op = "macro"
      THEN ExecuteMacro(k, action.macro)
      ELSE NestedUp(NestedDown(k, c, action, dl), action)

OverloadDown(k, c, d, dl) ==
  IF d.op = "overload" THEN LayerDown(k, c, d.layer) ELSE NestedDown(k, c, d, dl)

OverloadUp(k, c, d, dl, quick) ==
  LET released == LayerUp(k, d.layer)
  IN  IF k.last = c /\ quick THEN Tap(released, c, d, dl) ELSE released

\* idle: the last simple key was struck long enough ago.
Press(k, c, d, dl, idle) ==
  IF d.op = "overloadi"
  THEN LET action == config.descriptors[IF idle THEN d.alt ELSE d.act]
       IN  Rebind(OverloadDown(k, c, action, dl), c, action)
  ELSE OverloadDown(k, c, d, dl)

\* quick: within overload_tap_timeout of the press.
Release(k, c, d, dl, quick) ==
  IF d.op = "overload" THEN OverloadUp(k, c, d, dl, quick) ELSE NestedUp(k, d)

-----------------------------------------------------------------------------
(* process_event.                                                          *)

\* A oneshot whose deadline passed is dropped before anything else.
Expire(k, late) ==
  IF late /\ k.armed THEN UpdateMods(ClearOneshot(k), {}, {}) ELSE k

\* Mutant: key events do not stop the active macro.
ExpireOnly(k, late) == Expire(k, late)
\* ... and any key event, ignored or not, stops the active macro.
Prologue(k, late) ==
  LET expired == Expire(k, late)
  IN  IF k.repeating THEN UpdateMods([expired EXCEPT !.repeating = FALSE], {}, {})
                     ELSE expired

\* A deadline can be over only if one was set.
Lateness == IF kbd.armed THEN BOOLEAN ELSE {FALSE}
Quick == IF TapTimeout THEN BOOLEAN ELSE {TRUE}

CanRun == ~kbd.aborted /\ kbd.clock <= MaxClock

KeyDown(c, late, idle) ==
  /\ CanRun /\ ~Holds(kbd, c)
  /\ LET k == Prologue(kbd, late)
     IN  \E s \in Slot : LastFree(k, s) /\ \E b \in Lookup(k, c) :
           kbd' = [Press([k EXCEPT !.cache[s] =
                            [code |-> c, d |-> b.d, dl |-> b.dl, layer |-> 0]],
                         c, b.d, b.dl, idle) EXCEPT !.last = c]
  /\ UNCHANGED config

KeyUp(c, late, quick) ==
  /\ CanRun
  /\ \E s \in Slot :
       LET e == kbd.cache[s]
           k == [Prologue(kbd, late) EXCEPT !.cache[s] = FreeSlot]
       IN  /\ e.code = c
           /\ kbd' = Release(k, c, e.d, e.dl, quick)
  /\ UNCHANGED config

\* The press of a key already held (by a second device of the same config), a
\* press that finds the cache full, or the release of a key that is not cached:
\* whatever the cache holds, every code has one such event.
Ignored(late) ==
  /\ CanRun
  /\ kbd' = Prologue(kbd, late)
  /\ UNCHANGED config

\* process_event with code 0: the oneshot deadline or the macro's next repetition.
Timeout(late, due) ==
  /\ CanRun
  /\ late \/ due
  /\ LET k == Expire(kbd, late)
     IN  kbd' = IF due /\ kbd.repeating THEN ExecuteMacro(k, k.macro) ELSE k
  /\ UNCHANGED config

\* kbd_eval: a bind or a reset replaces the config under the held keys.
Eval ==
  /\ CanRun
  /\ \E e \in Evals : e[1] = config /\ config' = e[2]
  /\ UNCHANGED kbd

BootKeyboard ==
  [cache     |-> [s \in Slot |-> FreeSlot],
   active    |-> [l \in Layer |-> IF l \in {0, DefaultLayout} THEN 1 ELSE 0],
   toggled   |-> [l \in Layer |-> FALSE],
   depth     |-> [l \in Layer |-> 0],
   stamp     |-> [l \in Layer |-> IF l # 0 /\ l = DefaultLayout THEN 1 ELSE 0],
   clock     |-> BootClock,
   latch     |-> FALSE,
   armed     |-> FALSE,
   repeating |-> FALSE,
   macro     |-> {},
   last      |-> NoCode,
   repeat    |-> NoDescriptor,
   down      |-> {},
   aborted   |-> FALSE]

Init == kbd = BootKeyboard /\ config \in BootConfigs

Next ==
  \/ \E c \in Code, late \in Lateness, idle \in BOOLEAN : KeyDown(c, late, idle)
  \/ \E c \in Code, late \in Lateness, quick \in Quick : KeyUp(c, late, quick)
  \/ \E late \in Lateness : Ignored(late)
  \/ \E late \in Lateness, due \in BOOLEAN : Timeout(late, due)
  \/ Eval

Spec == Init /\ [][Next]_vars

-----------------------------------------------------------------------------
(* Properties.                                                             *)

Ordinary == {l \in Layer : l # 0 /\ LayerType[l] # "layout"}

HolderOps == {"layer", "layerm", "oneshot", "oneshotm", "oneshotk", "overload"}

\* The held keys whose release will deactivate l, or latch it as a oneshot.
Holders(l) == {s \in Slot : /\ kbd.cache[s].code # NoCode
                            /\ kbd.cache[s].d.op \in HolderOps
                            /\ kbd.cache[s].d.layer = l}

Reasons(l) == Cardinality(Holders(l)) + kbd.depth[l] + (IF kbd.toggled[l] THEN 1 ELSE 0)

\* "Every activation call must be paired with a corresponding deactivation call"
\* (keyboard.c:266): a layer's count is the held keys, pending oneshots and
\* toggle that will deactivate it, modulo the width of the counter.
Paired == \A l \in Ordinary :
            kbd.active[l] = Reasons(l) \/ kbd.active[l] + Width = Reasons(l)

\* assert(kbd->layer_state[idx].active > 0), keyboard.c:260, never fails.
NoAbort == ~kbd.aborted

Emits(d, o) == \/ d.op = "keysequence" /\ d.key = o
               \/ d.op = "oneshotk" /\ config.descriptors[d.act].key = o

\* No stuck key: a non-modifier that is down on the virtual keyboard belongs to
\* a held key whose release will lift it, whatever layers, clears, overloads,
\* macros and repeats came in between.
OwnedOutput == \A o \in kbd.down \cap Key :
                 \E s \in Slot : /\ kbd.cache[s].code # NoCode
                                 /\ Emits(kbd.cache[s].d, o)

AtRest == /\ \A s \in Slot : kbd.cache[s].code = NoCode
          /\ \A l \in Layer : kbd.depth[l] = 0

\* No stuck modifier: with every key up and no oneshot pending, the modifiers
\* down are those of the layers that are still on.
RestingModifiers == AtRest => kbd.down \cap Mod = ActiveMods(kbd, {}, {})

\* A oneshot stays pending only as long as the next key may still spend it.
LatchCoversOneshots == (\E l \in Layer : kbd.depth[l] > 0) => kbd.latch

\* A macro repeats only while the key that started it is held: its release, or
\* any other key, stops it.
MacroHeld == kbd.repeating =>
  \E s \in Slot : /\ kbd.cache[s].code = kbd.last
                    /\ kbd.cache[s].d.op \in {"macro", "macro2"}

\* Layers occlude in activation order: the layer that an event activates decides
\* the keys it binds, composite layers aside.
Activated(l) == /\ kbd'.active[l] > kbd.active[l]
                /\ \A m \in Ordinary \ {l} : kbd'.active[m] <= kbd.active[m]

LatestOccludes ==
  [][\A l \in Ordinary, c \in Code :
       Activated(l) /\ Binds(l, c)' /\ Composite(kbd, c)' = {}
         => Occluding(kbd, c)' = {l}]_vars
=============================================================================
