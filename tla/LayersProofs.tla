---------------------------- MODULE LayersProofs ----------------------------
(***************************************************************************)
(* Proofs about Layers: types, the pairing of activations, and what held   *)
(* keys own.                                                               *)
(*                                                                         *)
(* The pairing theorem holds as long as no layer collects so many pending  *)
(* oneshots that its counter could wrap, for any keymaps without swap      *)
(* whose binds do not replace the key nested in a oneshotk, any number of  *)
(* keys, layers and cache slots.  The holders of a layer are counted       *)
(* outside the keyboard, by n: one handler first changes the cache and     *)
(* then the counters, so that between its calls the cache alone does not   *)
(* say what a counter ought to be.                                         *)
(*                                                                         *)
(* What held keys own: a oneshot stays pending only while it is latched,   *)
(* the layer activated last occludes the others, a macro repeats only      *)
(* under its key, an output key is down only for a held key, and with      *)
(* every key up no modifier is left.  Each argument says of every          *)
(* operator, from the calls a handler makes up to the events, what it may  *)
(* do to the few fields the property speaks of; the swaps, which rewrite   *)
(* the entry of another held key, are the reason for most of the           *)
(* hypotheses.                                                             *)
(***************************************************************************)
EXTENDS Layers, FiniteSetTheorems, TLAPS

LEMMA UpdateModsType ==
  ASSUME NEW k \in Keyboard, NEW excluded, NEW mods \in SUBSET Mod
  PROVE  UpdateMods(k, excluded, mods) \in Keyboard
<1>1. ActiveMods(k, excluded, mods) \subseteq Mod
  BY LayerAssumption DEF ActiveMods, Layer
<1> QED
  BY <1>1 DEF UpdateMods, Keyboard, Out

LEMMA ActivateLayerType ==
  ASSUME NEW k \in Keyboard, NEW c, NEW l \in Layer
  PROVE  ActivateLayer(k, c, l) \in Keyboard
<1> DEFINE cache == [s \in Slot |-> IF k.cache[s].code = c /\ c # NoCode
                                    THEN [k.cache[s] EXCEPT !.layer = l] ELSE k.cache[s]]
           active == [k.active EXCEPT ![l] = Increment(@)]
           stamp  == [k.stamp EXCEPT ![l] = k.clock]
<1>1. active \in [Layer -> 0 .. Width - 1]
  BY BoundAssumption DEF Increment, Keyboard
<1>2. ASSUME NEW s \in Slot PROVE cache[s] \in Entry
  <2>1. k.cache[s] \in Entry
    BY DEF Keyboard
  <2> QED
    BY <2>1 DEF Entry
<1>3. cache \in [Slot -> Entry]
  BY <1>2
<1>4. stamp \in [Layer -> Nat] /\ k.clock + 1 \in Nat
  BY DEF Keyboard
<1>5. ActivateLayer(k, c, l) = [k EXCEPT !.active = active, !.stamp = stamp,
                                         !.clock = @ + 1, !.cache = cache]
  BY DEF ActivateLayer
<1> HIDE DEF cache, active, stamp
<1> QED
  BY <1>1, <1>3, <1>4, <1>5 DEF Keyboard

LEMMA DeactivateLayerType ==
  ASSUME NEW k \in Keyboard, NEW l \in Layer
  PROVE  DeactivateLayer(k, l) \in Keyboard
<1> DEFINE active == [k.active EXCEPT ![l] = @ - 1]
<1>1. CASE k.active[l] > 0
  <2>1. active \in [Layer -> 0 .. Width - 1]
    BY <1>1, BoundAssumption DEF Keyboard
  <2>2. DeactivateLayer(k, l) = [k EXCEPT !.active = active]
    BY <1>1 DEF DeactivateLayer
  <2> HIDE DEF active
  <2> QED
    BY <2>1, <2>2 DEF Keyboard
<1>2. CASE ~(k.active[l] > 0)
  BY <1>2 DEF DeactivateLayer, Keyboard
<1> QED
  BY <1>1, <1>2

LEMMA ClearOneshotType ==
  ASSUME NEW k \in Keyboard
  PROVE  ClearOneshot(k) \in Keyboard
<1>1. 0 \in 0 .. Width - 1
  BY BoundAssumption
<1>2. [l \in Layer |-> IF k.depth[l] <= k.active[l] THEN k.active[l] - k.depth[l] ELSE 0]
        \in [Layer -> 0 .. Width - 1]
  BY BoundAssumption DEF Keyboard
<1> QED
  BY <1>1, <1>2 DEF ClearOneshot, Keyboard

LEMMA DropTogglesType ==
  ASSUME NEW k \in Keyboard
  PROVE  DropToggles(k) \in Keyboard
<1> DEFINE dropped == {l \in Layer \ {0} : LayerType[l] # "layout" /\ k.toggled[l]}
           active  == [l \in Layer |-> IF l \in dropped /\ k.active[l] > 0
                                       THEN k.active[l] - 1 ELSE k.active[l]]
           toggled == [l \in Layer |-> k.toggled[l] /\ l \notin dropped]
           aborted == k.aborted \/ \E l \in dropped : k.active[l] = 0
<1>1. active \in [Layer -> 0 .. Width - 1]
  BY BoundAssumption DEF Keyboard
<1>2. toggled \in [Layer -> BOOLEAN] /\ aborted \in BOOLEAN
  BY DEF Keyboard
<1>3. DropToggles(k) = [k EXCEPT !.toggled = toggled, !.active = active, !.aborted = aborted]
  BY DEF DropToggles
<1> HIDE DEF active, toggled, aborted
<1> QED
  BY <1>1, <1>2, <1>3 DEF Keyboard

LEMMA ClearType ==
  ASSUME NEW k \in Keyboard
  PROVE  Clear(k) \in Keyboard
<1>1. DropToggles(ClearOneshot(k)) \in Keyboard
  BY ClearOneshotType, DropTogglesType
<1> QED
  BY <1>1 DEF Clear, Keyboard

LEMMA SetLayoutType ==
  ASSUME NEW k \in Keyboard, NEW l \in Layer
  PROVE  SetLayout(k, l) \in Keyboard
<1> DEFINE active == [m \in Layer |-> IF m # 0 /\ LayerType[m] = "layout"
                                      THEN 0 ELSE Clear(k).active[m]]
           cleared == [Clear(k) EXCEPT !.active = active]
           on == [active EXCEPT ![l] = 1]
           stamp == [Clear(k).stamp EXCEPT ![l] = 1]
<1>1. Clear(k) \in Keyboard
  BY ClearType
<1>2. active \in [Layer -> 0 .. Width - 1]
  BY <1>1, BoundAssumption DEF Keyboard
<1>3. on \in [Layer -> 0 .. Width - 1] /\ stamp \in [Layer -> Nat]
  BY <1>1, <1>2, BoundAssumption DEF Keyboard
<1>4. SetLayout(k, l) \in {cleared, [Clear(k) EXCEPT !.active = on, !.stamp = stamp]}
  BY <1>1 DEF SetLayout, Keyboard
<1> HIDE DEF active, on, stamp
<1> QED
  BY <1>1, <1>2, <1>3, <1>4 DEF Keyboard

LEMMA ExecuteMacroType ==
  ASSUME NEW k \in Keyboard, NEW keys
  PROVE  ExecuteMacro(k, keys) \in Keyboard
<1>1. [k EXCEPT !.down = @ \ keys] \in Keyboard
  BY DEF Keyboard
<1> QED
  BY <1>1, UpdateModsType DEF ExecuteMacro

LEMMA RebindType ==
  ASSUME NEW k \in Keyboard, NEW c, NEW d \in Descriptor
  PROVE  Rebind(k, c, d) \in Keyboard
<1> DEFINE cache == [s \in Slot |-> IF k.cache[s].code = c
                                    THEN [k.cache[s] EXCEPT !.d = d] ELSE k.cache[s]]
<1>1. ASSUME NEW s \in Slot PROVE cache[s] \in Entry
  <2>1. k.cache[s] \in Entry
    BY DEF Keyboard
  <2> QED
    BY <2>1 DEF Entry
<1>2. cache \in [Slot -> Entry]
  BY <1>1
<1>3. Rebind(k, c, d) = [k EXCEPT !.cache = cache]
  BY DEF Rebind
<1> HIDE DEF cache
<1> QED
  BY <1>2, <1>3 DEF Keyboard

LEMMA KeySequenceType ==
  ASSUME NEW k \in Keyboard, NEW d \in Descriptor, NEW dl \in Layer
  PROVE  /\ KeySequenceDown(k, d, dl) \in Keyboard
         /\ KeySequenceUp(k, d) \in Keyboard
<1> DEFINE mods    == ActiveMods(k, Excluding(dl), d.mods)
           down    == ((k.down \ {d.key}) \ Mod) \cup mods \cup ({d.key} \cap Out)
           repeat  == [d EXCEPT !.mods = mods]
           pressed == [k EXCEPT !.down = down, !.repeat = repeat]
<1>1. mods \subseteq Mod
  BY LayerAssumption DEF ActiveMods, Layer, Descriptor
<1>2. repeat \in Descriptor
  BY <1>1 DEF Descriptor
<1>3. down \in SUBSET Out
  BY <1>1 DEF Keyboard, Out
<1>4. KeySequenceDown(k, d, dl) = ClearOneshot(pressed)
  BY DEF KeySequenceDown
<1>5. pressed \in Keyboard
  <2> HIDE DEF down, repeat
  <2> QED
    BY <1>2, <1>3 DEF Keyboard
<1>6. KeySequenceDown(k, d, dl) \in Keyboard
  BY <1>4, <1>5, ClearOneshotType
<1>7. [k EXCEPT !.down = @ \ {d.key}] \in Keyboard
  BY DEF Keyboard
<1> QED
  BY <1>6, <1>7, UpdateModsType DEF KeySequenceUp

LEMMA LayerDownUpType ==
  ASSUME NEW k \in Keyboard, NEW c, NEW l \in Layer
  PROVE  LayerDown(k, c, l) \in Keyboard /\ LayerUp(k, l) \in Keyboard
BY ActivateLayerType, DeactivateLayerType, UpdateModsType DEF LayerDown, LayerUp

LEMMA OneshotType ==
  ASSUME NEW k \in Keyboard, NEW c, NEW d \in Descriptor, NEW dl \in Layer
  PROVE  OneshotDown(k, c, d, dl) \in Keyboard /\ OneshotUp(k, d) \in Keyboard
<1>1. d.layer \in Layer
  BY DEF Descriptor
<1>2. UpdateMods(ActivateLayer(k, c, d.layer), Excluding(dl), {}) \in Keyboard
  BY <1>1, ActivateLayerType, UpdateModsType
<1>3. OneshotDown(k, c, d, dl) \in Keyboard
  BY <1>2 DEF OneshotDown, Keyboard
<1> DEFINE depth == [k.depth EXCEPT ![d.layer] = Increment(@)]
           armed == k.armed \/ OneshotTimeout
<1>4. CASE k.latch
  <2>1. depth \in [Layer -> 0 .. Width - 1]
    BY <1>1, BoundAssumption DEF Increment, Keyboard
  <2>2. armed \in BOOLEAN
    BY BoundAssumption DEF Keyboard
  <2>3. OneshotUp(k, d) = [k EXCEPT !.depth = depth, !.armed = armed]
    BY <1>4 DEF OneshotUp
  <2> HIDE DEF depth, armed
  <2> QED
    BY <1>3, <2>1, <2>2, <2>3 DEF Keyboard
<1>5. CASE ~k.latch
  BY <1>1, <1>3, <1>5, LayerDownUpType DEF OneshotUp
<1> QED
  BY <1>4, <1>5 DEF Keyboard

LEMMA ToggleDownType ==
  ASSUME NEW k \in Keyboard, NEW c, NEW d \in Descriptor
  PROVE  ToggleDown(k, c, d) \in Keyboard
<1> DEFINE toggled == [k.toggled EXCEPT ![d.layer] = ~@]
           flipped == [k EXCEPT !.toggled = toggled]
           moved   == IF flipped.toggled[d.layer]
                      THEN ActivateLayer(flipped, c, d.layer)
                      ELSE DeactivateLayer(flipped, d.layer)
<1>1. d.layer \in Layer
  BY DEF Descriptor
<1>2. flipped \in Keyboard
  <2>1. toggled \in [Layer -> BOOLEAN]
    BY DEF Keyboard
  <2> HIDE DEF toggled
  <2> QED
    BY <2>1 DEF Keyboard
<1>3. moved \in Keyboard
  BY <1>1, <1>2, ActivateLayerType, DeactivateLayerType
<1>4. ToggleDown(k, c, d) = ClearOneshot(UpdateMods(moved, {}, {}))
  BY DEF ToggleDown
<1> QED
  BY <1>3, <1>4, UpdateModsType, ClearOneshotType

LEMMA SwapToggleType ==
  ASSUME NEW k \in Keyboard, NEW dl \in Layer, NEW l \in Layer
  PROVE  SwapToggle(k, dl, l) \in Keyboard
<1> DEFINE away     == DeactivateLayer(k, dl)
           toggled1 == [away.toggled EXCEPT ![dl] = FALSE]
           left     == [away EXCEPT !.toggled = toggled1]
           moved    == ActivateLayer(left, NoCode, l)
           toggled2 == [moved.toggled EXCEPT ![l] = TRUE]
<1>1. away \in Keyboard
  BY DeactivateLayerType
<1>2. left \in Keyboard
  <2>1. toggled1 \in [Layer -> BOOLEAN]
    BY <1>1 DEF Keyboard
  <2> HIDE DEF away, toggled1
  <2> QED
    BY <1>1, <2>1 DEF Keyboard
<1>3. moved \in Keyboard
  BY <1>2, ActivateLayerType
<1>4. SwapToggle(k, dl, l) = UpdateMods([moved EXCEPT !.toggled = toggled2], {}, {})
  BY DEF SwapToggle
<1>5. [moved EXCEPT !.toggled = toggled2] \in Keyboard
  <2>1. toggled2 \in [Layer -> BOOLEAN]
    BY <1>3 DEF Keyboard
  <2> HIDE DEF moved, toggled2
  <2> QED
    BY <1>3, <2>1 DEF Keyboard
<1> QED
  BY <1>4, <1>5, UpdateModsType

LEMMA SwapOneshotType ==
  ASSUME NEW k \in Keyboard, NEW dl \in Layer, NEW l \in Layer, k.depth[dl] > 0
  PROVE  SwapOneshot(k, dl, l) \in Keyboard
<1> DEFINE away   == DeactivateLayer(k, dl)
           depth1 == [away.depth EXCEPT ![dl] = @ - 1]
           left   == [away EXCEPT !.depth = depth1]
           moved  == ActivateLayer(left, NoCode, l)
           depth2 == [moved.depth EXCEPT ![l] = Increment(@)]
<1>1. away \in Keyboard /\ away.depth = k.depth
  BY DeactivateLayerType DEF DeactivateLayer, Keyboard
<1>2. left \in Keyboard
  <2>1. depth1 \in [Layer -> 0 .. Width - 1]
    <3> HIDE DEF away
    <3> QED
      BY <1>1, BoundAssumption DEF Keyboard
  <2> HIDE DEF away, depth1
  <2> QED
    BY <1>1, <2>1 DEF Keyboard
<1>3. moved \in Keyboard
  BY <1>2, ActivateLayerType
<1>4. SwapOneshot(k, dl, l) = UpdateMods([moved EXCEPT !.depth = depth2], {}, {})
  BY DEF SwapOneshot
<1>5. [moved EXCEPT !.depth = depth2] \in Keyboard
  <2> HIDE DEF moved
  <2>1. depth2 \in [Layer -> 0 .. Width - 1]
    BY <1>3, BoundAssumption DEF Keyboard, Increment
  <2> HIDE DEF depth2
  <2> QED
    BY <1>3, <2>1 DEF Keyboard
<1> QED
  BY <1>4, <1>5, UpdateModsType

LEMMA SwapHeldType ==
  ASSUME NEW k \in Keyboard, NEW dl \in Layer, NEW l \in Layer
  PROVE  SwapHeld(k, dl, l) \in Keyboard
<1> DEFINE first == {s \in Slot : ActivatedBy(k, s, dl)
                                  /\ \A t \in Slot : t < s => ~ActivatedBy(k, t, dl)}
           entry(s) == [k.cache[s] EXCEPT !.layer = l,
                                          !.d = [@ EXCEPT !.op = "layer", !.layer = l]]
           held == [s \in Slot |-> IF s \in first THEN entry(s) ELSE k.cache[s]]
           away == DeactivateLayer(k, dl)
           left == [away EXCEPT !.cache = held]
<1>1. ASSUME NEW s \in Slot PROVE held[s] \in Entry
  <2>1. k.cache[s] \in Entry
    BY DEF Keyboard
  <2>2. [k.cache[s].d EXCEPT !.op = "layer", !.layer = l] \in Descriptor
    BY <2>1 DEF Entry, Descriptor, Ops, SimpleOps
  <2>3. entry(s) \in Entry
    BY <2>1, <2>2 DEF Entry
  <2> QED
    BY <2>1, <2>3
<1>2. held \in [Slot -> Entry]
  BY <1>1
<1>3. left \in Keyboard
  <2>1. away \in Keyboard
    BY DeactivateLayerType
  <2> HIDE DEF held, away
  <2> QED
    BY <1>2, <2>1 DEF Keyboard
<1>4. SwapHeld(k, dl, l) = UpdateMods(ActivateLayer(left, NoCode, l), {}, {})
  BY DEF SwapHeld
<1> QED
  BY <1>3, <1>4, ActivateLayerType, UpdateModsType

LEMMA SwapDownType ==
  ASSUME NEW k \in Keyboard, NEW d \in Descriptor, NEW dl \in Layer
  PROVE  SwapDown(k, d, dl) \in Keyboard
<1>1. d.layer \in Layer
  BY DEF Descriptor
<1> QED
  BY <1>1, SwapToggleType, SwapOneshotType, SwapHeldType DEF SwapDown

LEMMA MacroDownType ==
  ASSUME NEW k \in Keyboard, NEW d \in Descriptor
  PROVE  MacroDown(k, d) \in Keyboard
<1>1. ExecuteMacro(ClearOneshot(k), d.macro) \in Keyboard
  BY ClearOneshotType, ExecuteMacroType
<1>2. d.macro \in SUBSET Out
  BY DEF Descriptor
<1> QED
  BY <1>1, <1>2 DEF MacroDown, Keyboard

LEMMA SimpleDownType ==
  ASSUME NEW k \in Keyboard, NEW c, NEW d \in Descriptor, NEW dl \in Layer
  PROVE  SimpleDown(k, c, d, dl) \in Keyboard
<1>1. d.layer \in Layer
  BY DEF Descriptor
<1> QED
  BY <1>1, KeySequenceType, LayerDownUpType, ExecuteMacroType, OneshotType, ToggleDownType,
     SwapDownType, SetLayoutType, ClearType, MacroDownType, ClearOneshotType, UpdateModsType
     DEF SimpleDown, CommandDown

LEMMA SimpleUpType ==
  ASSUME NEW k \in Keyboard, NEW d \in Descriptor
  PROVE  SimpleUp(k, d) \in Keyboard
<1>1. d.layer \in Layer
  BY DEF Descriptor
<1>2. 0 \in Layer
  BY LayerAssumption DEF Layer
<1> QED
  BY <1>1, <1>2, KeySequenceType, LayerDownUpType, OneshotType, ExecuteMacroType DEF SimpleUp

LEMMA ConfigDescriptors ==
  ASSUME config \in Configs
  PROVE  /\ \A n \in Action : config.descriptors[n] \in Descriptor
         /\ \A l \in Layer, c \in Code : config.keymap[l][c] \in Descriptor
BY ConfigAssumption DEF Config

LEMMA NestedType ==
  ASSUME config \in Configs,
         NEW k \in Keyboard, NEW c, NEW d \in Descriptor, NEW dl \in Layer
  PROVE  NestedDown(k, c, d, dl) \in Keyboard /\ NestedUp(k, d) \in Keyboard
<1>1. config.descriptors[d.act] \in Descriptor
  BY ConfigDescriptors DEF Descriptor
<1>2. RepeatDown(k, c, dl) \in Keyboard
  <2>1. k.repeat \in Descriptor
    BY DEF Keyboard
  <2>2. SimpleDown(k, c, k.repeat, dl) \in Keyboard
    BY <2>1, SimpleDownType
  <2>3. SimpleDown(k, c, k.repeat, dl).repeat \in Descriptor
    BY <2>2 DEF Keyboard
  <2> QED
    BY <2>2, <2>3, RebindType DEF RepeatDown
<1>3. NestedDown(k, c, d, dl) \in Keyboard
  BY <1>1, <1>2, SimpleDownType, OneshotType DEF NestedDown
<1>4. 0 \in Layer
  BY LayerAssumption DEF Layer
<1>5. NestedUp(k, d) \in Keyboard
  BY <1>1, <1>4, SimpleUpType, OneshotType DEF NestedUp
<1> QED
  BY <1>3, <1>5

LEMMA PressReleaseType ==
  ASSUME config \in Configs,
         NEW k \in Keyboard, NEW c, NEW d \in Descriptor, NEW dl \in Layer,
         NEW flag \in BOOLEAN
  PROVE  Press(k, c, d, dl, flag) \in Keyboard /\ Release(k, c, d, dl, flag) \in Keyboard
<1>1. ASSUME NEW e \in Descriptor PROVE OverloadDown(k, c, e, dl) \in Keyboard
  <2>1. e.layer \in Layer
    BY DEF Descriptor
  <2> QED
    BY <2>1, LayerDownUpType, NestedType DEF OverloadDown
<1>2. config.descriptors[IF flag THEN d.alt ELSE d.act] \in Descriptor
  BY ConfigDescriptors DEF Descriptor
<1>3. Press(k, c, d, dl, flag) \in Keyboard
  BY <1>1, <1>2, RebindType DEF Press
<1>4. ASSUME NEW j \in Keyboard PROVE Tap(j, c, d, dl) \in Keyboard
  <2>1. config.descriptors[d.act] \in Descriptor
    BY ConfigDescriptors DEF Descriptor
  <2>2. NestedDown(j, c, config.descriptors[d.act], dl) \in Keyboard
    BY <2>1, NestedType
  <2> QED
    BY <2>1, <2>2, NestedType, ExecuteMacroType DEF Tap
<1>5. LayerUp(k, d.layer) \in Keyboard
  BY LayerDownUpType DEF Descriptor
<1>6. Release(k, c, d, dl, flag) \in Keyboard
  BY <1>4, <1>5, NestedType DEF Release, OverloadUp
<1> QED
  BY <1>3, <1>6

LEMMA PrologueType ==
  ASSUME NEW k \in Keyboard, NEW late
  PROVE  Expire(k, late) \in Keyboard /\ Prologue(k, late) \in Keyboard
<1>1. Expire(k, late) \in Keyboard
  BY ClearOneshotType, UpdateModsType DEF Expire
<1>2. [Expire(k, late) EXCEPT !.repeating = FALSE] \in Keyboard
  BY <1>1 DEF Keyboard
<1> QED
  BY <1>1, <1>2, UpdateModsType DEF Prologue

LEMMA LookupType ==
  ASSUME config \in Configs, NEW k \in Keyboard, NEW c \in Code, NEW b \in Lookup(k, c)
  PROVE  b.d \in Descriptor /\ b.dl \in Layer
<1>1. NoDescriptor \in Descriptor
  BY ActionAssumption, LayerAssumption
     DEF NoDescriptor, Descriptor, Ops, SimpleOps, Layer
<1>2. 0 \in Layer
  BY LayerAssumption DEF Layer
<1>3. [NoDescriptor EXCEPT !.op = "keysequence", !.key = SelfKey[c]] \in Descriptor
  BY <1>1, CodeAssumption DEF Descriptor, Ops, SimpleOps, Out
<1>4. Composite(k, c) \subseteq Layer /\ Occluding(k, c) \subseteq Layer
  BY DEF Composite, Occluding
<1> QED
  BY <1>2, <1>3, <1>4, ConfigDescriptors DEF Lookup

LEMMA FreeSlotType == NoDescriptor \in Descriptor /\ FreeSlot \in Entry
<1>1. NoDescriptor \in Descriptor
  BY ActionAssumption, LayerAssumption
     DEF NoDescriptor, Descriptor, Ops, SimpleOps, Layer
<1> QED
  BY <1>1, LayerAssumption DEF FreeSlot, Entry, Layer

LEMMA SlotType ==
  ASSUME NEW k \in Keyboard, NEW s \in Slot, NEW entry \in Entry
  PROVE  [k EXCEPT !.cache[s] = entry] \in Keyboard
<1>1. [k.cache EXCEPT ![s] = entry] \in [Slot -> Entry]
  BY DEF Keyboard
<1>2. [k EXCEPT !.cache[s] = entry] = [k EXCEPT !.cache = [k.cache EXCEPT ![s] = entry]]
  OBVIOUS
<1> QED
  BY <1>1, <1>2 DEF Keyboard

LEMMA TypeInit == Init => TypeOK
<1> SUFFICES ASSUME Init PROVE TypeOK
  OBVIOUS
<1>1. /\ [l \in Layer |-> IF l \in {0, DefaultLayout} THEN 1 ELSE 0] \in [Layer -> 0 .. Width - 1]
      /\ [l \in Layer |-> 0] \in [Layer -> 0 .. Width - 1]
      /\ [l \in Layer |-> IF l # 0 /\ l = DefaultLayout THEN 1 ELSE 0] \in [Layer -> Nat]
  BY BoundAssumption
<1>2. [s \in Slot |-> FreeSlot] \in [Slot -> Entry]
  BY FreeSlotType
<1>3. BootKeyboard \in Keyboard
  BY FreeSlotType, <1>1, <1>2, BoundAssumption DEF BootKeyboard, Keyboard
<1> QED
  BY <1>3, ConfigAssumption DEF Init, TypeOK

LEMMA TypeNext == TypeOK /\ [Next]_vars => TypeOK'
<1> SUFFICES ASSUME TypeOK, [Next]_vars PROVE TypeOK'
  OBVIOUS
<1> USE DEF TypeOK
<1>1. ASSUME NEW c \in Code, NEW late \in BOOLEAN, NEW idle \in BOOLEAN, KeyDown(c, late, idle)
      PROVE  TypeOK'
  <2>1. PICK s \in Slot, b \in Lookup(Prologue(kbd, late), c) :
          kbd' = [Press([Prologue(kbd, late) EXCEPT !.cache[s] =
                           [code |-> c, d |-> b.d, dl |-> b.dl, layer |-> 0]],
                        c, b.d, b.dl, idle) EXCEPT !.last = c]
    BY <1>1 DEF KeyDown
  <2> DEFINE k == Prologue(kbd, late)
             entry == [code |-> c, d |-> b.d, dl |-> b.dl, layer |-> 0]
             put == [k EXCEPT !.cache[s] = entry]
             pressed == Press(put, c, b.d, b.dl, idle)
  <2>2. k \in Keyboard /\ b.d \in Descriptor /\ b.dl \in Layer
    BY PrologueType, LookupType
  <2>3. entry \in Entry
    BY <2>2, LayerAssumption DEF Entry, Layer
  <2>4. put \in Keyboard
    BY <2>2, <2>3, SlotType
  <2>5. pressed \in Keyboard
    BY <2>2, <2>4, PressReleaseType
  <2>6. kbd' = [pressed EXCEPT !.last = c]
    BY <2>1
  <2> HIDE DEF pressed
  <2>7. kbd' \in Keyboard
    BY <2>5, <2>6 DEF Keyboard
  <2> QED
    BY <1>1, <2>7 DEF KeyDown
<1>2. ASSUME NEW c \in Code, NEW late \in BOOLEAN, NEW quick \in Quick, KeyUp(c, late, quick)
      PROVE  TypeOK'
  <2>1. PICK s \in Slot :
          kbd' = Release([Prologue(kbd, late) EXCEPT !.cache[s] = FreeSlot],
                         c, kbd.cache[s].d, kbd.cache[s].dl, quick)
    BY <1>2 DEF KeyUp
  <2> DEFINE k == Prologue(kbd, late)
             freed == [k EXCEPT !.cache[s] = FreeSlot]
  <2>2. k \in Keyboard /\ kbd.cache[s].d \in Descriptor /\ kbd.cache[s].dl \in Layer
    BY PrologueType DEF Keyboard, Entry
  <2>3. freed \in Keyboard
    BY <2>2, FreeSlotType, SlotType
  <2>4. quick \in BOOLEAN
    BY DEF Quick
  <2> QED
    BY <1>2, <2>1, <2>2, <2>3, <2>4, PressReleaseType DEF KeyUp
<1>3. ASSUME NEW late \in BOOLEAN, Ignored(late) PROVE TypeOK'
  BY <1>3, PrologueType DEF Ignored
<1>4. ASSUME NEW late \in BOOLEAN, NEW due \in BOOLEAN, Timeout(late, due) PROVE TypeOK'
  BY <1>4, PrologueType, ExecuteMacroType DEF Timeout
<1>5. CASE Eval
  BY <1>5, ConfigAssumption DEF Eval
<1>6. CASE UNCHANGED vars
  BY <1>6 DEF vars
<1> QED
  BY <1>1, <1>2, <1>3, <1>4, <1>5, <1>6 DEF Next, Lateness

\* kbd stays a keyboard that struct keyboard can represent: every counter within
\* its width, every cached entry a descriptor.
THEOREM TypeCorrect == Spec => []TypeOK
BY TypeInit, TypeNext, PTL DEF Spec

-----------------------------------------------------------------------------
(* Pairing: the terms it is stated in.                                     *)

\* The descriptors a config binds, in a layer or nested.
BoundBy(cf) == {cf.keymap[l][c] : l \in Layer, c \in Code}
                 \cup {cf.descriptors[n] : n \in Action}

SwapFree == \A cf \in Configs : \A d \in BoundBy(cf) : d.op \notin {"swap", "swapm"}

\* Whatever config is installed, the key nested in a oneshotk remains a key.
StableKeys ==
  \A cf, cg \in Configs : \A d \in BoundBy(cf) :
    d.op = "oneshotk" => cg.descriptors[d.act].op = "keysequence"

\* No counter is about to wrap: 255 - 18 pending oneshots of one layer.
Shallow == \A l \in Layer : kbd.depth[l] + CacheSize + 2 < Width

LayerOps == {"layer", "layerm", "oneshot", "oneshotm", "oneshotk", "toggle",
             "togglem", "overload"}

Fit(d) ==
  /\ d \in Descriptor
  /\ d.op \notin {"swap", "swapm"}
  /\ d.op \in LayerOps => d.layer \in Ordinary
  /\ d.op = "setlayout" => d.layer \notin Ordinary
  /\ d.op = "oneshotk" => \A cf \in Configs : cf.descriptors[d.act].op = "keysequence"
  /\ d.op = "overload" => \A cf \in Configs : cf.descriptors[d.act].op # "overload"

Tally == [Layer -> 0 .. CacheSize]
Room(b) == b \in Nat /\ b + CacheSize + 1 < Width

\* Each ordinary layer's counter is n's holders, its oneshots (at most b) and toggle.
Level(k, n, b) ==
  /\ ~k.aborted
  /\ \A l \in Layer : k.depth[l] <= b
  /\ \A l \in Layer \ Ordinary : k.depth[l] = 0
  /\ \A l \in Ordinary :
       k.active[l] = n[l] + k.depth[l] + (IF k.toggled[l] THEN 1 ELSE 0)

More(n, l)  == [n EXCEPT ![l] = @ + 1]
Fewer(n, l) == [n EXCEPT ![l] = @ - 1]

\* What a descriptor's press adds to the tally and its release takes from it.
Gained(n, d) == IF d.op \in HolderOps THEN More(n, d.layer) ELSE n
Lost(n, d)   == IF d.op \in HolderOps THEN Fewer(n, d.layer) ELSE n

\* The state of held keys: which codes are cached, with which descriptors.
SameCache(k, j) == \A s \in Slot : /\ j.cache[s].code = k.cache[s].code
                                   /\ j.cache[s].d = k.cache[s].d

\* j's cache is k's, save that the slot of c holds the descriptor e.
Rebound(k, j, c, e) ==
  \A s \in Slot : /\ j.cache[s].code = k.cache[s].code
                  /\ j.cache[s].d = IF k.cache[s].code = c THEN e ELSE k.cache[s].d

Repeatable(k) == k.repeat.op \in {"none", "keysequence", "macro", "macro2"}

-----------------------------------------------------------------------------

LEMMA OrdinaryLayers == Ordinary \subseteq Layer
BY DEF Ordinary

LEMMA UpdateModsLevel ==
  ASSUME NEW k \in Keyboard, NEW n \in Tally, NEW b \in Nat, Level(k, n, b), NEW excluded, NEW mods
  PROVE  /\ Level(UpdateMods(k, excluded, mods), n, b)
         /\ SameCache(k, UpdateMods(k, excluded, mods))
         /\ UpdateMods(k, excluded, mods).repeat = k.repeat
BY DEF UpdateMods, Keyboard, Level, SameCache

LEMMA ExecuteMacroLevel ==
  ASSUME NEW k \in Keyboard, NEW n \in Tally, NEW b \in Nat, Level(k, n, b), NEW keys
  PROVE  /\ Level(ExecuteMacro(k, keys), n, b)
         /\ SameCache(k, ExecuteMacro(k, keys))
         /\ ExecuteMacro(k, keys).repeat = k.repeat
<1> DEFINE lifted == [k EXCEPT !.down = @ \ keys]
<1>1. lifted \in Keyboard
  BY DEF Keyboard
<1>2. Level(lifted, n, b) /\ SameCache(k, lifted) /\ lifted.repeat = k.repeat
  BY DEF Keyboard, Level, SameCache
<1>3. ExecuteMacro(k, keys) = UpdateMods(lifted, {}, {})
  BY DEF ExecuteMacro
<1> HIDE DEF lifted
<1> QED
  BY <1>1, <1>2, <1>3, UpdateModsLevel DEF SameCache

LEMMA ActivateLevel ==
  ASSUME NEW k \in Keyboard, NEW n \in Tally, NEW b \in Nat, Room(b), Level(k, n, b),
         NEW c, NEW l \in Ordinary, n[l] < CacheSize
  PROVE  /\ Level(ActivateLayer(k, c, l), More(n, l), b) /\ More(n, l) \in Tally
         /\ SameCache(k, ActivateLayer(k, c, l))
         /\ ActivateLayer(k, c, l).repeat = k.repeat
<1> DEFINE j == ActivateLayer(k, c, l)
<1>1. l \in Layer
  BY OrdinaryLayers
<1>2. /\ j.active = [k.active EXCEPT ![l] = Increment(@)]
      /\ j.depth = k.depth /\ j.toggled = k.toggled
      /\ j.aborted = k.aborted /\ j.repeat = k.repeat
  BY DEF ActivateLayer, Keyboard
<1>3. SameCache(k, j)
  <2>1. ASSUME NEW s \in Slot
        PROVE  j.cache[s] \in {k.cache[s], [k.cache[s] EXCEPT !.layer = l]}
    BY DEF ActivateLayer, Keyboard
  <2>2. ASSUME NEW s \in Slot PROVE k.cache[s] \in Entry
    BY DEF Keyboard
  <2> HIDE DEF j
  <2> QED
    BY <2>1, <2>2 DEF SameCache, Entry
<1>4. More(n, l) \in Tally
  BY <1>1, BoundAssumption DEF More, Tally
<1>5. k.active[l] < Width - 1
  BY <1>1, BoundAssumption DEF Level, Room, Tally, Keyboard
<1>6. Level(j, More(n, l), b)
  <2> HIDE DEF j
  <2> QED
    BY <1>1, <1>2, <1>5, OrdinaryLayers, BoundAssumption
       DEF Level, More, Increment, Keyboard, Tally
<1> QED
  BY <1>2, <1>3, <1>4, <1>6

LEMMA DeactivateLevel ==
  ASSUME NEW k \in Keyboard, NEW n \in Tally, NEW b \in Nat, Level(k, n, b),
         NEW l \in Ordinary, n[l] > 0
  PROVE  /\ Level(DeactivateLayer(k, l), Fewer(n, l), b) /\ Fewer(n, l) \in Tally
         /\ SameCache(k, DeactivateLayer(k, l))
         /\ DeactivateLayer(k, l).repeat = k.repeat
<1> DEFINE j == DeactivateLayer(k, l)
<1>1. l \in Layer
  BY OrdinaryLayers
<1>2. k.active[l] > 0
  BY <1>1 DEF Level, Tally, Keyboard
<1>3. /\ j.active = [k.active EXCEPT ![l] = @ - 1]
      /\ j.depth = k.depth /\ j.toggled = k.toggled /\ j.cache = k.cache
      /\ j.aborted = k.aborted /\ j.repeat = k.repeat
  BY <1>2 DEF DeactivateLayer, Keyboard
<1>4. Fewer(n, l) \in Tally
  BY <1>1, BoundAssumption DEF Fewer, Tally
<1>5. Level(j, Fewer(n, l), b)
  <2> HIDE DEF j
  <2> QED
    BY <1>1, <1>3, OrdinaryLayers, BoundAssumption DEF Level, Fewer, Keyboard, Tally
<1> QED
  BY <1>3, <1>4, <1>5 DEF SameCache

LEMMA ClearOneshotLevel ==
  ASSUME NEW k \in Keyboard, NEW n \in Tally, NEW b \in Nat, Level(k, n, b)
  PROVE  /\ Level(ClearOneshot(k), n, b)
         /\ SameCache(k, ClearOneshot(k))
         /\ ClearOneshot(k).repeat = k.repeat
<1> DEFINE j == ClearOneshot(k)
<1>1. \A l \in Layer : k.depth[l] \in Nat /\ k.active[l] \in Nat
  BY BoundAssumption DEF Keyboard
<1>2. \A l \in Layer : k.depth[l] <= k.active[l]
  BY <1>1, OrdinaryLayers DEF Level, Tally
<1>3. /\ j.active = [l \in Layer |-> k.active[l] - k.depth[l]]
      /\ j.depth = [l \in Layer |-> 0] /\ j.toggled = k.toggled /\ j.cache = k.cache
      /\ j.repeat = k.repeat
  BY <1>1, <1>2 DEF ClearOneshot, Keyboard
<1>6. ~j.aborted
  <2>1. ~ \E l \in Layer : k.depth[l] > k.active[l]
    BY <1>1, <1>2
  <2>2. j.aborted = (k.aborted \/ \E l \in Layer : k.depth[l] > k.active[l])
    BY DEF ClearOneshot, Keyboard
  <2> QED
    BY <2>1, <2>2 DEF Level
<1>4. \A l \in Layer : 0 <= b
  BY <1>1 DEF Level
<1>5. Level(j, n, b)
  <2> HIDE DEF j
  <2> QED
    BY <1>1, <1>3, <1>4, <1>6, OrdinaryLayers, BoundAssumption DEF Level, Tally, Keyboard
<1> QED
  BY <1>3, <1>5 DEF SameCache

LEMMA DropTogglesLevel ==
  ASSUME NEW k \in Keyboard, NEW n \in Tally, NEW b \in Nat, Level(k, n, b)
  PROVE  /\ Level(DropToggles(k), n, b)
         /\ SameCache(k, DropToggles(k))
         /\ DropToggles(k).repeat = k.repeat
<1> DEFINE j == DropToggles(k)
           dropped == {l \in Layer \ {0} : LayerType[l] # "layout" /\ k.toggled[l]}
<1>1. \A l \in Layer : k.depth[l] \in Nat /\ k.active[l] \in Nat
  BY BoundAssumption DEF Keyboard
<1>2. dropped = {l \in Ordinary : k.toggled[l]}
  BY DEF Ordinary
<1>3. \A l \in dropped : k.active[l] > 0
  BY <1>1, <1>2, OrdinaryLayers DEF Level, Tally
<1>4. /\ j.active = [l \in Layer |-> IF l \in dropped THEN k.active[l] - 1 ELSE k.active[l]]
      /\ j.toggled = [l \in Layer |-> k.toggled[l] /\ l \notin dropped]
      /\ j.depth = k.depth /\ j.cache = k.cache /\ j.repeat = k.repeat
  BY <1>3 DEF DropToggles, Keyboard
<1>5. ~j.aborted
  BY <1>1, <1>3 DEF DropToggles, Keyboard, Level
<1>6. Level(j, n, b)
  <2> HIDE DEF j, dropped
  <2> QED
    BY <1>1, <1>2, <1>4, <1>5, OrdinaryLayers DEF Level, Tally, Keyboard
<1> QED
  BY <1>4, <1>6 DEF SameCache

LEMMA ClearLevel ==
  ASSUME NEW k \in Keyboard, NEW n \in Tally, NEW b \in Nat, Level(k, n, b)
  PROVE  Level(Clear(k), n, b) /\ SameCache(k, Clear(k)) /\ Clear(k).repeat = k.repeat
<1> DEFINE j == DropToggles(ClearOneshot(k))
<1>1. ClearOneshot(k) \in Keyboard /\ j \in Keyboard
  BY ClearOneshotType, DropTogglesType
<1>2. Level(j, n, b) /\ SameCache(k, j) /\ j.repeat = k.repeat
  BY <1>1, ClearOneshotLevel, DropTogglesLevel DEF SameCache
<1>3. Clear(k) = [j EXCEPT !.repeating = FALSE, !.down = {}]
  BY DEF Clear
<1> HIDE DEF j
<1> QED
  BY <1>1, <1>2, <1>3 DEF Keyboard, Level, SameCache

LEMMA SetLayoutLevel ==
  ASSUME NEW k \in Keyboard, NEW n \in Tally, NEW b \in Nat, Level(k, n, b),
         NEW l \in Layer \ Ordinary
  PROVE  /\ Level(SetLayout(k, l), n, b)
         /\ SameCache(k, SetLayout(k, l))
         /\ SetLayout(k, l).repeat = k.repeat
<1> DEFINE j == Clear(k)
           r == SetLayout(k, l)
<1>1. j \in Keyboard /\ Level(j, n, b) /\ SameCache(k, j) /\ j.repeat = k.repeat
  BY ClearType, ClearLevel
<1> DEFINE active == [m \in Layer |-> IF m # 0 /\ LayerType[m] = "layout"
                                      THEN 0 ELSE j.active[m]]
<1>5. r = IF l = 0 THEN [j EXCEPT !.active = active]
                   ELSE [[j EXCEPT !.active = active] EXCEPT !.active[l] = 1, !.stamp[l] = 1]
  BY DEF SetLayout
<1>6. active \in [Layer -> Nat] /\ \A m \in Ordinary : active[m] = j.active[m]
  <2> HIDE DEF j
  <2> QED
    BY <1>1, OrdinaryLayers, BoundAssumption DEF Keyboard, Ordinary
<1>2. /\ \A m \in Ordinary : r.active[m] = j.active[m]
      /\ r.depth = j.depth /\ r.toggled = j.toggled /\ r.cache = j.cache
      /\ r.aborted = j.aborted /\ r.repeat = j.repeat
  <2> HIDE DEF j, active, r
  <2> QED
    BY <1>1, <1>5, <1>6, OrdinaryLayers DEF Keyboard
<1> HIDE DEF j, r
<1>3. Level(r, n, b)
  BY <1>1, <1>2 DEF Level
<1>4. SameCache(k, r) /\ r.repeat = k.repeat
  BY <1>1, <1>2 DEF SameCache
<1> QED
  BY <1>3, <1>4 DEF r

LEMMA KeySequenceLevel ==
  ASSUME NEW k \in Keyboard, NEW n \in Tally, NEW b \in Nat, Level(k, n, b),
         NEW d \in Descriptor, NEW dl \in Layer
  PROVE  /\ Level(KeySequenceDown(k, d, dl), n, b) /\ Level(KeySequenceUp(k, d), n, b)
         /\ SameCache(k, KeySequenceDown(k, d, dl)) /\ SameCache(k, KeySequenceUp(k, d))
         /\ KeySequenceDown(k, d, dl).repeat.op = d.op
         /\ KeySequenceUp(k, d).repeat = k.repeat
<1> DEFINE mods    == ActiveMods(k, Excluding(dl), d.mods)
           down    == ((k.down \ {d.key}) \ Mod) \cup mods \cup ({d.key} \cap Out)
           repeat  == [d EXCEPT !.mods = mods]
           pressed == [k EXCEPT !.down = down, !.repeat = repeat]
           lifted  == [k EXCEPT !.down = @ \ {d.key}]
<1>1. mods \subseteq Mod
  BY LayerAssumption DEF ActiveMods, Layer, Descriptor
<1>2. repeat \in Descriptor /\ repeat.op = d.op
  BY <1>1 DEF Descriptor
<1>3. down \in SUBSET Out
  BY <1>1 DEF Keyboard, Out
<1>4. /\ pressed \in Keyboard /\ Level(pressed, n, b) /\ SameCache(k, pressed)
      /\ pressed.repeat = repeat
  <2> HIDE DEF down, repeat
  <2> QED
    BY <1>2, <1>3 DEF Keyboard, Level, SameCache
<1>5. KeySequenceDown(k, d, dl) = ClearOneshot(pressed)
  BY DEF KeySequenceDown
<1>6. lifted \in Keyboard /\ Level(lifted, n, b) /\ SameCache(k, lifted) /\ lifted.repeat = k.repeat
  BY DEF Keyboard, Level, SameCache
<1>7. KeySequenceUp(k, d) = UpdateMods(lifted, {}, {})
  BY DEF KeySequenceUp
<1> HIDE DEF pressed, lifted, repeat
<1>8. /\ Level(KeySequenceDown(k, d, dl), n, b) /\ SameCache(k, KeySequenceDown(k, d, dl))
      /\ KeySequenceDown(k, d, dl).repeat.op = d.op
  BY <1>2, <1>4, <1>5, ClearOneshotLevel DEF SameCache
<1>9. /\ Level(KeySequenceUp(k, d), n, b) /\ SameCache(k, KeySequenceUp(k, d))
      /\ KeySequenceUp(k, d).repeat = k.repeat
  BY <1>6, <1>7, UpdateModsLevel DEF SameCache
<1> QED
  BY <1>8, <1>9

LEMMA LayerLevel ==
  ASSUME NEW k \in Keyboard, NEW n \in Tally, NEW b \in Nat, Room(b), Level(k, n, b),
         NEW c, NEW l \in Ordinary
  PROVE  /\ n[l] < CacheSize =>
              /\ Level(LayerDown(k, c, l), More(n, l), b) /\ More(n, l) \in Tally
              /\ SameCache(k, LayerDown(k, c, l)) /\ LayerDown(k, c, l).repeat = k.repeat
         /\ n[l] > 0 =>
              /\ Level(LayerUp(k, l), Fewer(n, l), b) /\ Fewer(n, l) \in Tally
              /\ SameCache(k, LayerUp(k, l)) /\ LayerUp(k, l).repeat = k.repeat
<1>1. l \in Layer
  BY OrdinaryLayers
<1>2. ActivateLayer(k, c, l) \in Keyboard /\ DeactivateLayer(k, l) \in Keyboard
  BY <1>1, ActivateLayerType, DeactivateLayerType
<1>3. ASSUME n[l] < CacheSize
      PROVE  /\ Level(LayerDown(k, c, l), More(n, l), b) /\ More(n, l) \in Tally
             /\ SameCache(k, LayerDown(k, c, l)) /\ LayerDown(k, c, l).repeat = k.repeat
  BY <1>2, <1>3, ActivateLevel, UpdateModsLevel DEF LayerDown, SameCache
<1>4. ASSUME n[l] > 0
      PROVE  /\ Level(LayerUp(k, l), Fewer(n, l), b) /\ Fewer(n, l) \in Tally
             /\ SameCache(k, LayerUp(k, l)) /\ LayerUp(k, l).repeat = k.repeat
  BY <1>2, <1>4, DeactivateLevel, UpdateModsLevel DEF LayerUp, SameCache
<1> QED
  BY <1>3, <1>4

LEMMA OneshotDownLevel ==
  ASSUME NEW k \in Keyboard, NEW n \in Tally, NEW b \in Nat, Room(b), Level(k, n, b),
         NEW c, NEW d \in Descriptor, NEW dl \in Layer,
         d.layer \in Ordinary, n[d.layer] < CacheSize
  PROVE  /\ Level(OneshotDown(k, c, d, dl), More(n, d.layer), b) /\ More(n, d.layer) \in Tally
         /\ SameCache(k, OneshotDown(k, c, d, dl))
         /\ OneshotDown(k, c, d, dl).repeat = k.repeat
<1> DEFINE j == UpdateMods(ActivateLayer(k, c, d.layer), Excluding(dl), {})
<1>1. ActivateLayer(k, c, d.layer) \in Keyboard
  BY OrdinaryLayers, ActivateLayerType
<1>2. /\ j \in Keyboard /\ Level(j, More(n, d.layer), b) /\ More(n, d.layer) \in Tally
      /\ SameCache(k, j) /\ j.repeat = k.repeat
  BY <1>1, ActivateLevel, UpdateModsLevel, UpdateModsType DEF SameCache
<1>3. OneshotDown(k, c, d, dl) = [j EXCEPT !.latch = TRUE]
  BY DEF OneshotDown
<1> HIDE DEF j
<1> QED
  BY <1>2, <1>3 DEF Level, SameCache, Keyboard

LEMMA OneshotUpLevel ==
  ASSUME NEW k \in Keyboard, NEW n \in Tally, NEW b \in Nat, Room(b), Room(b + 1),
         Level(k, n, b), NEW d \in Descriptor, d.layer \in Ordinary, n[d.layer] > 0
  PROVE  /\ Level(OneshotUp(k, d), Fewer(n, d.layer), b + 1) /\ Fewer(n, d.layer) \in Tally
         /\ SameCache(k, OneshotUp(k, d))
         /\ OneshotUp(k, d).repeat = k.repeat
<1> DEFINE l == d.layer
           j == OneshotUp(k, d)
<1>1. l \in Layer
  BY OrdinaryLayers
<1>2. CASE k.latch
  <2>1. /\ j.active = k.active /\ j.depth = [k.depth EXCEPT ![l] = Increment(@)]
        /\ j.toggled = k.toggled /\ j.cache = k.cache /\ j.aborted = k.aborted
        /\ j.repeat = k.repeat
    BY <1>2 DEF OneshotUp, Keyboard
  <2>2. k.depth[l] \in Nat /\ k.depth[l] < Width - 1
    BY <1>1, BoundAssumption DEF Level, Room, Keyboard
  <2>3. Fewer(n, l) \in Tally
    BY <1>1, BoundAssumption DEF Fewer, Tally
  <2>4. Level(j, Fewer(n, l), b + 1)
    <3> HIDE DEF j
    <3> QED
      BY <1>1, <2>1, <2>2, OrdinaryLayers, BoundAssumption
         DEF Level, Fewer, Increment, Keyboard, Tally
  <2> QED
    BY <2>1, <2>3, <2>4 DEF SameCache
<1>3. CASE ~k.latch
  <2>1. j = LayerUp(k, l)
    BY <1>3 DEF OneshotUp
  <2>2. Level(j, Fewer(n, l), b) /\ Fewer(n, l) \in Tally /\ SameCache(k, j) /\ j.repeat = k.repeat
    BY <2>1, LayerLevel
  <2>3. j \in Keyboard
    BY OneshotType, LayerAssumption DEF Layer
  <2>4. Level(j, Fewer(n, l), b + 1)
    <3> HIDE DEF j
    <3> QED
      BY <2>2, <2>3, BoundAssumption DEF Level, Keyboard
  <2> QED
    BY <2>2, <2>4
<1> QED
  BY <1>2, <1>3 DEF Keyboard

LEMMA ToggleDownLevel ==
  ASSUME NEW k \in Keyboard, NEW n \in Tally, NEW b \in Nat, Room(b), Level(k, n, b),
         NEW c, NEW d \in Descriptor, d.layer \in Ordinary
  PROVE  /\ Level(ToggleDown(k, c, d), n, b)
         /\ SameCache(k, ToggleDown(k, c, d))
         /\ ToggleDown(k, c, d).repeat = k.repeat
<1> DEFINE l == d.layer
           toggled == [k.toggled EXCEPT ![l] = ~@]
           flipped == [k EXCEPT !.toggled = toggled]
           moved == IF flipped.toggled[l] THEN ActivateLayer(flipped, c, l)
                                          ELSE DeactivateLayer(flipped, l)
<1>1. l \in Layer
  BY OrdinaryLayers
<1>2. /\ toggled \in [Layer -> BOOLEAN] /\ toggled[l] = ~k.toggled[l]
      /\ \A m \in Layer \ {l} : toggled[m] = k.toggled[m]
  BY <1>1 DEF Keyboard
<1>3. /\ flipped \in Keyboard /\ flipped.toggled = toggled /\ flipped.active = k.active
      /\ flipped.depth = k.depth /\ flipped.aborted = k.aborted /\ flipped.cache = k.cache
      /\ flipped.repeat = k.repeat
  <2> HIDE DEF toggled
  <2> QED
    BY <1>2 DEF Keyboard
<1>4. moved \in Keyboard
  <2> HIDE DEF flipped
  <2> QED
    BY <1>1, <1>3, ActivateLayerType, DeactivateLayerType
<1>5. ToggleDown(k, c, d) = ClearOneshot(UpdateMods(moved, {}, {}))
  BY DEF ToggleDown
<1>6. Level(moved, n, b) /\ SameCache(k, moved) /\ moved.repeat = k.repeat
  <2>1. CASE ~k.toggled[l]
    <3>1. moved = ActivateLayer(flipped, c, l)
      BY <1>2, <1>3, <2>1
    <3>2. /\ moved.active = [k.active EXCEPT ![l] = Increment(@)]
          /\ moved.depth = k.depth /\ moved.toggled = toggled
          /\ moved.aborted = k.aborted /\ moved.repeat = k.repeat
      <4> HIDE DEF flipped, moved
      <4> QED
        BY <1>3, <3>1 DEF ActivateLayer, Keyboard
    <3>3. SameCache(k, moved)
      <4> HIDE DEF flipped, moved
      <4>1. ASSUME NEW s \in Slot
            PROVE  moved.cache[s] \in {k.cache[s], [k.cache[s] EXCEPT !.layer = l]}
        BY <1>3, <3>1 DEF ActivateLayer, Keyboard
      <4>2. ASSUME NEW s \in Slot PROVE k.cache[s] \in Entry
        BY DEF Keyboard
      <4> QED
        BY <4>1, <4>2 DEF SameCache, Entry
    <3>4. k.active[l] < Width - 1
      BY <1>1, <2>1, BoundAssumption DEF Level, Room, Tally, Keyboard
    <3>5. Level(moved, n, b)
      <4>1. moved.active[l] = k.active[l] + 1
        BY <1>1, <3>2, <3>4 DEF Increment, Keyboard
      <4>2. \A m \in Layer \ {l} : moved.active[m] = k.active[m]
        BY <3>2 DEF Keyboard
      <4> HIDE DEF moved, flipped, toggled
      <4>3. k.active[l] = n[l] + k.depth[l] /\ n[l] \in Nat /\ k.depth[l] \in Nat
        BY <1>1, <2>1, BoundAssumption DEF Level, Tally, Keyboard
      <4>4. ASSUME NEW m \in Ordinary
            PROVE  moved.active[m] = n[m] + moved.depth[m] + (IF moved.toggled[m] THEN 1 ELSE 0)
        <5>1. CASE m = l
          BY <1>1, <1>2, <2>1, <3>2, <4>1, <4>3, <5>1
        <5>2. CASE m # l
          BY <1>2, <3>2, <4>2, <5>2, OrdinaryLayers DEF Level
        <5> QED
          BY <5>1, <5>2
      <4> QED
        BY <3>2, <4>4 DEF Level
    <3> QED
      BY <3>2, <3>3, <3>5
  <2>2. CASE k.toggled[l]
    <3>1. moved = DeactivateLayer(flipped, l)
      BY <1>2, <1>3, <2>2
    <3>2. k.active[l] > 0
      BY <1>1, <2>2, BoundAssumption DEF Level, Tally, Keyboard
    <3>3. /\ moved.active = [k.active EXCEPT ![l] = @ - 1]
          /\ moved.depth = k.depth /\ moved.toggled = toggled /\ moved.cache = k.cache
          /\ moved.aborted = k.aborted /\ moved.repeat = k.repeat
      <4> HIDE DEF flipped, moved
      <4> QED
        BY <1>3, <3>1, <3>2 DEF DeactivateLayer, Keyboard
    <3>4. Level(moved, n, b)
      <4> HIDE DEF moved, flipped
      <4> QED
        BY <1>1, <1>2, <2>2, <3>3, OrdinaryLayers, BoundAssumption DEF Level, Keyboard, Tally
    <3> QED
      BY <3>3, <3>4 DEF SameCache
  <2> QED
    BY <1>1, <2>1, <2>2 DEF Keyboard
<1> HIDE DEF moved
<1> QED
  BY <1>4, <1>5, <1>6, UpdateModsLevel, UpdateModsType, ClearOneshotLevel DEF SameCache

LEMMA MacroDownLevel ==
  ASSUME NEW k \in Keyboard, NEW n \in Tally, NEW b \in Nat, Level(k, n, b),
         NEW d \in Descriptor
  PROVE  /\ Level(MacroDown(k, d), n, b) /\ SameCache(k, MacroDown(k, d))
         /\ MacroDown(k, d).repeat = d
<1> DEFINE j == ExecuteMacro(ClearOneshot(k), d.macro)
<1>1. ClearOneshot(k) \in Keyboard
  BY ClearOneshotType
<1>2. j \in Keyboard /\ Level(j, n, b) /\ SameCache(k, j)
  BY <1>1, ClearOneshotLevel, ExecuteMacroLevel, ExecuteMacroType DEF SameCache
<1>3. MacroDown(k, d) = [j EXCEPT !.repeating = TRUE, !.macro = d.macro, !.repeat = d]
  BY DEF MacroDown
<1> HIDE DEF j
<1> QED
  BY <1>2, <1>3 DEF Level, SameCache, Keyboard

LEMMA CommandDownLevel ==
  ASSUME NEW k \in Keyboard, NEW n \in Tally, NEW b \in Nat, Level(k, n, b)
  PROVE  /\ Level(CommandDown(k), n, b) /\ SameCache(k, CommandDown(k))
         /\ CommandDown(k).repeat = k.repeat
BY ClearOneshotType, ClearOneshotLevel, UpdateModsLevel DEF CommandDown, SameCache

-----------------------------------------------------------------------------
(* Operations: a press gains what its release will lose.                   *)

LEMMA LevelWeakens ==
  ASSUME NEW k \in Keyboard, NEW n \in Tally, NEW b \in Nat, Level(k, n, b)
  PROVE  Level(k, n, b + 1)
BY DEF Level, Keyboard

LEMMA LostGained ==
  ASSUME NEW n \in Tally, NEW d \in Descriptor, d.layer \in Layer
  PROVE  Lost(Gained(n, d), d) = n
BY DEF Lost, Gained, More, Fewer, Tally

LEMMA SimpleDownLevel ==
  ASSUME NEW k \in Keyboard, NEW n \in Tally, NEW b \in Nat, Room(b), Level(k, n, b),
         NEW c, NEW d, NEW dl \in Layer, Fit(d), d.op \notin {"oneshotk", "overload"},
         n[d.layer] < CacheSize
  PROVE  /\ Level(SimpleDown(k, c, d, dl), Gained(n, d), b) /\ Gained(n, d) \in Tally
         /\ SameCache(k, SimpleDown(k, c, d, dl))
         /\ \/ SimpleDown(k, c, d, dl).repeat = k.repeat
            \/ SimpleDown(k, c, d, dl).repeat.op \in {"keysequence", "macro", "macro2"}
<1> DEFINE j == SimpleDown(k, c, d, dl)
           m == ExecuteMacro(k, d.macro)
           Goal == /\ Level(j, Gained(n, d), b) /\ Gained(n, d) \in Tally /\ SameCache(k, j)
                   /\ j.repeat = k.repeat \/ j.repeat.op \in {"keysequence", "macro", "macro2"}
<1> SUFFICES Goal
  OBVIOUS
<1>1. d \in Descriptor /\ d.layer \in Layer /\ d.op \in Ops
  BY DEF Fit, Descriptor
<1>2. m \in Keyboard /\ Level(m, n, b) /\ SameCache(k, m) /\ m.repeat = k.repeat
  BY ExecuteMacroLevel, ExecuteMacroType
<1> HIDE DEF m
<1>3. d.op \notin HolderOps => Gained(n, d) = n
  BY DEF Gained
<1>4. d.op \in HolderOps => Gained(n, d) = More(n, d.layer)
  BY DEF Gained
<1>5. CASE d.op = "keysequence"
  <2>1. j = KeySequenceDown(k, d, dl)
    BY <1>5 DEF SimpleDown
  <2> HIDE DEF j
  <2> QED
    BY <1>1, <1>3, <1>5, <2>1, KeySequenceLevel DEF HolderOps
<1>6. CASE d.op \in {"layer", "layerm"}
  <2>1. j = LayerDown(k, c, d.layer) \/ j = LayerDown(m, c, d.layer)
    BY <1>6 DEF SimpleDown, m
  <2>2. d.layer \in Ordinary /\ d.op \in HolderOps
    BY <1>6 DEF Fit, LayerOps, HolderOps
  <2> HIDE DEF j
  <2> QED
    BY <1>2, <1>4, <2>1, <2>2, LayerLevel DEF SameCache
<1>7. CASE d.op \in {"oneshot", "oneshotm"}
  <2>1. j = OneshotDown(k, c, d, dl) \/ j = OneshotDown(m, c, d, dl)
    BY <1>7 DEF SimpleDown, m
  <2>2. d.layer \in Ordinary /\ d.op \in HolderOps
    BY <1>7 DEF Fit, LayerOps, HolderOps
  <2> HIDE DEF j
  <2> QED
    BY <1>1, <1>2, <1>4, <2>1, <2>2, OneshotDownLevel DEF SameCache
<1>8. CASE d.op \in {"toggle", "togglem"}
  <2>1. j = ToggleDown(k, c, d) \/ j = ToggleDown(m, c, d)
    BY <1>8 DEF SimpleDown, m
  <2>2. d.layer \in Ordinary /\ d.op \notin HolderOps
    BY <1>8 DEF Fit, LayerOps, HolderOps
  <2> HIDE DEF j
  <2> QED
    BY <1>1, <1>2, <1>3, <2>1, <2>2, ToggleDownLevel DEF SameCache
<1>9. CASE d.op = "setlayout"
  <2>1. j = SetLayout(k, d.layer)
    BY <1>9 DEF SimpleDown
  <2>2. d.layer \in Layer \ Ordinary /\ d.op \notin HolderOps
    BY <1>1, <1>9 DEF Fit, HolderOps
  <2> HIDE DEF j
  <2> QED
    BY <1>3, <2>1, <2>2, SetLayoutLevel
<1>10. CASE d.op \in {"clear", "clearm"}
  <2>1. Clear(k) \in Keyboard /\ Level(Clear(k), n, b) /\ SameCache(k, Clear(k))
        /\ Clear(k).repeat = k.repeat
    BY ClearLevel, ClearType
  <2>2. j = Clear(k) \/ j = ExecuteMacro(Clear(k), d.macro)
    BY <1>10 DEF SimpleDown
  <2>3. d.op \notin HolderOps
    BY <1>10 DEF HolderOps
  <2> HIDE DEF j
  <2> QED
    BY <1>3, <2>1, <2>2, <2>3, ExecuteMacroLevel DEF SameCache
<1>11. CASE d.op \in {"macro", "macro2"}
  <2>1. j = MacroDown(k, d)
    BY <1>11 DEF SimpleDown
  <2>2. d.op \notin HolderOps
    BY <1>11 DEF HolderOps
  <2> HIDE DEF j
  <2> QED
    BY <1>1, <1>3, <1>11, <2>1, <2>2, MacroDownLevel
<1>12. CASE d.op = "command"
  <2>1. j = CommandDown(k)
    BY <1>12 DEF SimpleDown
  <2>2. d.op \notin HolderOps
    BY <1>12 DEF HolderOps
  <2> HIDE DEF j
  <2> QED
    BY <1>3, <2>1, <2>2, CommandDownLevel
<1>13. CASE d.op \in {"none", "repeat", "overloadi"}
  <2>1. j = k /\ d.op \notin HolderOps
    BY <1>13 DEF SimpleDown, HolderOps
  <2> HIDE DEF j
  <2> QED
    BY <1>3, <2>1 DEF SameCache
<1> HIDE DEF Goal
<1> QED
  BY <1>1, <1>5, <1>6, <1>7, <1>8, <1>9, <1>10, <1>11, <1>12, <1>13
     DEF Fit, Ops, SimpleOps, NestedOps

LEMMA SimpleUpLevel ==
  ASSUME NEW k \in Keyboard, NEW n \in Tally, NEW b \in Nat, Room(b), Room(b + 1),
         Level(k, n, b), NEW d, Fit(d), d.op \notin {"oneshotk", "overload"},
         d.op \in HolderOps => n[d.layer] > 0
  PROVE  /\ Level(SimpleUp(k, d), Lost(n, d), b + 1) /\ Lost(n, d) \in Tally
         /\ SameCache(k, SimpleUp(k, d)) /\ SimpleUp(k, d).repeat = k.repeat
<1> DEFINE j == SimpleUp(k, d)
           Goal == /\ Level(j, Lost(n, d), b + 1) /\ Lost(n, d) \in Tally
                   /\ SameCache(k, j) /\ j.repeat = k.repeat
<1> SUFFICES Goal
  OBVIOUS
<1>1. d \in Descriptor /\ d.layer \in Layer /\ 0 \in Layer
  BY LayerAssumption DEF Fit, Descriptor, Layer
<1>2. j \in Keyboard
  BY <1>1, SimpleUpType
<1>3. CASE d.op = "keysequence"
  <2>1. j = KeySequenceUp(k, d) /\ Lost(n, d) = n
    BY <1>3 DEF SimpleUp, Lost, HolderOps
  <2> HIDE DEF j
  <2> QED
    BY <1>1, <1>2, <2>1, KeySequenceLevel, LevelWeakens
<1>4. CASE d.op \in {"layer", "layerm"}
  <2>1. j = LayerUp(k, d.layer) /\ Lost(n, d) = Fewer(n, d.layer) /\ d.op \in HolderOps
    BY <1>4 DEF SimpleUp, Lost, HolderOps
  <2>2. d.layer \in Ordinary /\ n[d.layer] > 0
    BY <1>4, <2>1 DEF Fit, LayerOps
  <2> HIDE DEF j
  <2>3. /\ Level(j, Fewer(n, d.layer), b) /\ Fewer(n, d.layer) \in Tally
        /\ SameCache(k, j) /\ j.repeat = k.repeat
    BY <2>1, <2>2, LayerLevel
  <2> QED
    BY <1>2, <2>1, <2>3, LevelWeakens
<1>5. CASE d.op \in {"oneshot", "oneshotm"}
  <2>1. j = OneshotUp(k, d) /\ Lost(n, d) = Fewer(n, d.layer) /\ d.op \in HolderOps
    BY <1>5 DEF SimpleUp, Lost, HolderOps
  <2>2. d.layer \in Ordinary /\ n[d.layer] > 0
    BY <1>5, <2>1 DEF Fit, LayerOps
  <2> HIDE DEF j
  <2> QED
    BY <1>1, <2>1, <2>2, OneshotUpLevel
<1>6. CASE d.op \notin {"keysequence", "layer", "layerm", "oneshot", "oneshotm"}
  <2>1. j = k /\ Lost(n, d) = n
    BY <1>6 DEF SimpleUp, Lost, HolderOps, Fit
  <2> HIDE DEF j
  <2> QED
    BY <2>1, LevelWeakens DEF SameCache
<1> HIDE DEF Goal
<1> QED
  BY <1>3, <1>4, <1>5, <1>6

LEMMA BoundFit ==
  ASSUME SwapFree, StableKeys, NEW cf \in Configs, NEW d \in BoundBy(cf)
  PROVE  Fit(d)
<1>1. cf \in Config
  BY ConfigAssumption
<1>2. d \in Descriptor
  BY <1>1 DEF Config, BoundBy
<1>3. WellFormed(cf, d) /\ Nesting(d)
  BY ConfigAssumption DEF BoundBy
<1>4. d.layer \in Layer
  BY <1>2 DEF Descriptor
<1>5. d.op \in LayerOps => d.layer \in Ordinary
  BY <1>3, <1>4 DEF WellFormed, LayerOps, Ordinary
<1>6. d.op = "setlayout" => d.layer \notin Ordinary
  BY <1>3 DEF WellFormed, Ordinary
<1>7. d.op = "overload" => \A cg \in Configs : cg.descriptors[d.act].op # "overload"
  BY <1>3 DEF Nesting, SimpleOps, NestedOps
<1> QED
  BY <1>2, <1>5, <1>6, <1>7 DEF Fit, SwapFree, StableKeys

LEMMA NestedDownLevel ==
  ASSUME config \in Configs, SwapFree, StableKeys,
         NEW k \in Keyboard, NEW n \in Tally, NEW b \in Nat, Room(b), Level(k, n, b),
         Repeatable(k), NEW c \in Code, NEW d, NEW dl \in Layer, Fit(d), d.op # "overload",
         \A l \in Layer : n[l] < CacheSize
  PROVE  /\ Level(NestedDown(k, c, d, dl), Gained(n, d), b) /\ Gained(n, d) \in Tally
         /\ Repeatable(NestedDown(k, c, d, dl))
         /\ d.op # "repeat" => SameCache(k, NestedDown(k, c, d, dl))
         /\ d.op = "repeat" =>
              \E e : /\ Fit(e) /\ e.op \notin HolderOps
                     /\ Rebound(k, NestedDown(k, c, d, dl), c, e)
<1> DEFINE j == NestedDown(k, c, d, dl)
           Goal == /\ Level(j, Gained(n, d), b) /\ Gained(n, d) \in Tally /\ Repeatable(j)
                   /\ d.op # "repeat" => SameCache(k, j)
                   /\ d.op = "repeat" =>
                        \E e : /\ Fit(e) /\ e.op \notin HolderOps
                               /\ Rebound(k, NestedDown(k, c, d, dl), c, e)
<1> SUFFICES Goal
  OBVIOUS
<1>1. d \in Descriptor /\ d.layer \in Layer
  BY DEF Fit, Descriptor
<1>2. CASE d.op = "oneshotk"
  <2> DEFINE a == config.descriptors[d.act]
             i == SimpleDown(k, c, a, dl)
  <2>1. a \in BoundBy(config) /\ a \in Descriptor /\ a.layer \in Layer
    BY <1>1, ConfigDescriptors DEF BoundBy, Descriptor
  <2>2. Fit(a) /\ a.op = "keysequence"
    BY <1>2, <2>1, BoundFit DEF Fit
  <2>3. j = OneshotDown(i, c, d, dl)
    BY <1>2 DEF NestedDown
  <2>4. Gained(n, a) = n
    BY <2>2 DEF Gained, HolderOps
  <2> HIDE DEF a
  <2>5. /\ i \in Keyboard /\ Level(i, n, b) /\ SameCache(k, i)
        /\ i.repeat = k.repeat \/ i.repeat.op \in {"keysequence", "macro", "macro2"}
    BY <2>1, <2>2, <2>4, SimpleDownLevel, SimpleDownType
  <2>6. d.layer \in Ordinary /\ d.op \in HolderOps
    BY <1>2 DEF Fit, LayerOps, HolderOps
  <2> HIDE DEF i, j
  <2>7. Gained(n, d) = More(n, d.layer)
    BY <2>6 DEF Gained
  <2>8. /\ Level(j, More(n, d.layer), b) /\ More(n, d.layer) \in Tally /\ SameCache(i, j)
        /\ j.repeat = i.repeat
    BY <1>1, <2>3, <2>5, <2>6, OneshotDownLevel
  <2> QED
    BY <1>2, <2>5, <2>7, <2>8 DEF Repeatable, SameCache
<1>3. CASE d.op = "repeat"
  <2> DEFINE r == k.repeat
             i == SimpleDown(k, c, r, dl)
             e == i.repeat
  <2>1. r \in Descriptor /\ r.layer \in Layer
    BY DEF Keyboard, Descriptor
  <2>2. r.op \in {"none", "keysequence", "macro", "macro2"}
    BY DEF Repeatable
  <2> HIDE DEF r
  <2>3. Fit(r) /\ Gained(n, r) = n
    BY <2>1, <2>2 DEF Fit, LayerOps, Gained, HolderOps
  <2>4. /\ i \in Keyboard /\ Level(i, n, b) /\ SameCache(k, i)
        /\ e = r \/ e.op \in {"keysequence", "macro", "macro2"}
    BY <2>1, <2>2, <2>3, SimpleDownLevel, SimpleDownType DEF r
  <2>5. j = Rebind(i, c, e)
    BY <1>3 DEF NestedDown, RepeatDown, r
  <2> HIDE DEF i
  <2>6. e \in Descriptor /\ e.op \in {"none", "keysequence", "macro", "macro2"}
    BY <2>2, <2>4 DEF Keyboard
  <2> HIDE DEF e
  <2>7. Fit(e) /\ e.op \notin HolderOps
    BY <2>6 DEF Fit, LayerOps, HolderOps
  <2>8. /\ j.active = i.active /\ j.depth = i.depth /\ j.toggled = i.toggled
        /\ j.aborted = i.aborted /\ j.repeat = i.repeat
        /\ j.cache = [s \in Slot |-> IF i.cache[s].code = c
                                     THEN [i.cache[s] EXCEPT !.d = e] ELSE i.cache[s]]
    BY <2>4, <2>5 DEF Rebind, Keyboard
  <2> HIDE DEF j
  <2>9. Rebound(i, j, c, e)
    <3>1. ASSUME NEW s \in Slot
          PROVE  j.cache[s] = IF i.cache[s].code = c THEN [i.cache[s] EXCEPT !.d = e]
                                                     ELSE i.cache[s]
      BY <2>8
    <3>2. \A s \in Slot : i.cache[s] \in Entry
      BY <2>4 DEF Keyboard
    <3> QED
      BY <3>1, <3>2 DEF Rebound, Entry
  <2>10. Rebound(k, j, c, e)
    BY <2>4, <2>9 DEF Rebound, SameCache
  <2>11. Gained(n, d) = n
    BY <1>3 DEF Gained, HolderOps
  <2>12. Level(j, n, b) /\ Repeatable(j)
    BY <2>4, <2>6, <2>8 DEF Level, Repeatable, e
  <2> QED
    BY <1>3, <2>7, <2>10, <2>11, <2>12 DEF j
<1>4. CASE d.op \notin {"oneshotk", "repeat"}
  <2>1. j = SimpleDown(k, c, d, dl)
    BY <1>4 DEF NestedDown
  <2> HIDE DEF j
  <2> QED
    BY <1>1, <1>4, <2>1, SimpleDownLevel DEF Repeatable
<1> HIDE DEF Goal
<1> QED
  BY <1>2, <1>3, <1>4

LEMMA NestedUpLevel ==
  ASSUME config \in Configs, SwapFree, StableKeys,
         NEW k \in Keyboard, NEW n \in Tally, NEW b \in Nat, Room(b), Room(b + 1),
         Level(k, n, b), NEW d, Fit(d), d.op # "overload",
         d.op \in HolderOps => n[d.layer] > 0
  PROVE  /\ Level(NestedUp(k, d), Lost(n, d), b + 1) /\ Lost(n, d) \in Tally
         /\ SameCache(k, NestedUp(k, d)) /\ NestedUp(k, d).repeat = k.repeat
<1> DEFINE j == NestedUp(k, d)
           Goal == /\ Level(j, Lost(n, d), b + 1) /\ Lost(n, d) \in Tally
                   /\ SameCache(k, j) /\ j.repeat = k.repeat
<1> SUFFICES Goal
  OBVIOUS
<1>1. d \in Descriptor
  BY DEF Fit
<1>2. CASE d.op = "oneshotk"
  <2> DEFINE a == config.descriptors[d.act]
             i == SimpleUp(k, a)
  <2>1. a \in BoundBy(config) /\ a \in Descriptor
    BY <1>1, ConfigDescriptors DEF BoundBy, Descriptor
  <2>2. a.op = "keysequence"
    BY <1>2 DEF Fit
  <2>3. j = OneshotUp(i, d)
    BY <1>2 DEF NestedUp
  <2>4. i = KeySequenceUp(k, a)
    BY <2>2 DEF SimpleUp
  <2>5. 0 \in Layer
    BY LayerAssumption DEF Layer
  <2> HIDE DEF a, i, j
  <2>6. i \in Keyboard /\ Level(i, n, b) /\ SameCache(k, i) /\ i.repeat = k.repeat
    BY <2>1, <2>4, <2>5, KeySequenceLevel, KeySequenceType
  <2>7. d.layer \in Ordinary /\ d.op \in HolderOps
    BY <1>2 DEF Fit, LayerOps, HolderOps
  <2>8. Lost(n, d) = Fewer(n, d.layer)
    BY <2>7 DEF Lost
  <2> QED
    BY <1>1, <2>3, <2>6, <2>7, <2>8, OneshotUpLevel DEF SameCache
<1>3. CASE d.op # "oneshotk"
  <2>1. j = SimpleUp(k, d)
    BY <1>3 DEF NestedUp
  <2> HIDE DEF j
  <2> QED
    BY <1>3, <2>1, SimpleUpLevel
<1> HIDE DEF Goal
<1> QED
  BY <1>2, <1>3

LEMMA TapLevel ==
  ASSUME config \in Configs, SwapFree, StableKeys,
         NEW k \in Keyboard, NEW n \in Tally, NEW b \in Nat, Room(b), Room(b + 1),
         Level(k, n, b), Repeatable(k), NEW c \in Code, NEW d, NEW dl \in Layer,
         Fit(d), d.op = "overload",
         \A l \in Layer : n[l] < CacheSize, \A s \in Slot : k.cache[s].code # c
  PROVE  /\ Level(Tap(k, c, d, dl), n, b + 1) /\ SameCache(k, Tap(k, c, d, dl))
         /\ Repeatable(Tap(k, c, d, dl))
<1> DEFINE a == config.descriptors[d.act]
           i == NestedDown(k, c, a, dl)
           j == NestedUp(i, a)
<1>1. a \in BoundBy(config) /\ a \in Descriptor /\ a.layer \in Layer
  BY ConfigDescriptors DEF Fit, BoundBy, Descriptor
<1>2. Fit(a) /\ a.op # "overload"
  BY <1>1, BoundFit DEF Fit
<1>3. CASE a.op = "macro"
  <2>1. Tap(k, c, d, dl) = ExecuteMacro(k, a.macro)
    BY <1>3 DEF Tap
  <2>2. ExecuteMacro(k, a.macro) \in Keyboard
    BY ExecuteMacroType
  <2> HIDE DEF a
  <2> QED
    BY <2>1, <2>2, ExecuteMacroLevel, LevelWeakens DEF Repeatable
<1>4. CASE a.op # "macro"
  <2>1. Tap(k, c, d, dl) = j
    BY <1>4 DEF Tap
  <2> HIDE DEF a
  <2>2. /\ i \in Keyboard /\ Level(i, Gained(n, a), b) /\ Gained(n, a) \in Tally
        /\ Repeatable(i)
        /\ a.op # "repeat" => SameCache(k, i)
        /\ a.op = "repeat" => \E e : Rebound(k, i, c, e)
    BY <1>1, <1>2, NestedDownLevel, NestedType
  <2>3. SameCache(k, i)
    BY <2>2 DEF SameCache, Rebound
  <2> HIDE DEF i
  <2>4. a.op \in HolderOps => Gained(n, a)[a.layer] > 0
    BY <1>1 DEF Gained, More, Tally
  <2>5. /\ Level(j, Lost(Gained(n, a), a), b + 1) /\ SameCache(i, j)
        /\ j.repeat = i.repeat
    BY <1>2, <2>2, <2>4, NestedUpLevel
  <2> HIDE DEF j
  <2>6. Lost(Gained(n, a), a) = n
    BY <1>1, LostGained
  <2> QED
    BY <2>1, <2>2, <2>3, <2>5, <2>6 DEF SameCache, Repeatable
<1> QED
  BY <1>3, <1>4

LEMMA ReleaseLevel ==
  ASSUME config \in Configs, SwapFree, StableKeys,
         NEW k \in Keyboard, NEW n \in Tally, NEW b \in Nat, Room(b), Room(b + 1),
         Level(k, n, b), Repeatable(k), NEW c \in Code, NEW d, NEW dl \in Layer,
         NEW quick, Fit(d), d.op \in HolderOps => n[d.layer] > 0,
         \A l \in Layer : Lost(n, d)[l] < CacheSize, \A s \in Slot : k.cache[s].code # c
  PROVE  /\ Level(Release(k, c, d, dl, quick), Lost(n, d), b + 1)
         /\ SameCache(k, Release(k, c, d, dl, quick))
         /\ Repeatable(Release(k, c, d, dl, quick))
<1> DEFINE j == Release(k, c, d, dl, quick)
           i == LayerUp(k, d.layer)
<1>1. d \in Descriptor /\ d.layer \in Layer
  BY DEF Fit, Descriptor
<1>2. CASE d.op = "overload"
  <2>1. j = IF k.last = c /\ quick THEN Tap(i, c, d, dl) ELSE i
    BY <1>2 DEF Release, OverloadUp
  <2>2. d.layer \in Ordinary /\ n[d.layer] > 0 /\ Lost(n, d) = Fewer(n, d.layer)
    BY <1>2 DEF Fit, LayerOps, HolderOps, Lost
  <2>3. /\ i \in Keyboard /\ Level(i, Lost(n, d), b) /\ Lost(n, d) \in Tally
        /\ SameCache(k, i) /\ i.repeat = k.repeat
    BY <1>1, <2>2, LayerLevel, LayerDownUpType
  <2> HIDE DEF i, j
  <2>4. Repeatable(i) /\ \A s \in Slot : i.cache[s].code # c
    BY <2>3 DEF Repeatable, SameCache
  <2>5. Level(i, Lost(n, d), b + 1)
    BY <2>3, LevelWeakens
  <2>6. /\ Level(Tap(i, c, d, dl), Lost(n, d), b + 1) /\ SameCache(i, Tap(i, c, d, dl))
        /\ Repeatable(Tap(i, c, d, dl))
    BY <1>2, <2>3, <2>4, TapLevel
  <2>7. SameCache(k, Tap(i, c, d, dl))
    BY <2>3, <2>6 DEF SameCache
  <2>8. Level(j, Lost(n, d), b + 1) /\ SameCache(k, j) /\ Repeatable(j)
    BY <2>1, <2>3, <2>4, <2>5, <2>6, <2>7
  <2> QED
    BY <2>8 DEF j
<1>3. CASE d.op # "overload"
  BY <1>3, NestedUpLevel DEF Release, Repeatable
<1> QED
  BY <1>2, <1>3

LEMMA OverloadDownLevel ==
  ASSUME config \in Configs, SwapFree, StableKeys,
         NEW k \in Keyboard, NEW n \in Tally, NEW b \in Nat, Room(b), Level(k, n, b),
         Repeatable(k), NEW c \in Code, NEW d, NEW dl \in Layer, Fit(d),
         \A l \in Layer : n[l] < CacheSize
  PROVE  /\ Level(OverloadDown(k, c, d, dl), Gained(n, d), b)
         /\ Repeatable(OverloadDown(k, c, d, dl))
         /\ d.op # "repeat" => SameCache(k, OverloadDown(k, c, d, dl))
         /\ d.op = "repeat" =>
              \E e : /\ Fit(e) /\ e.op \notin HolderOps
                     /\ Rebound(k, OverloadDown(k, c, d, dl), c, e)
<1>1. CASE d.op = "overload"
  <2>1. d.layer \in Ordinary /\ d.layer \in Layer /\ Gained(n, d) = More(n, d.layer)
    BY <1>1 DEF Fit, LayerOps, HolderOps, Gained, Ordinary
  <2>2. OverloadDown(k, c, d, dl) = LayerDown(k, c, d.layer)
    BY <1>1 DEF OverloadDown
  <2> QED
    BY <1>1, <2>1, <2>2, LayerLevel DEF Repeatable
<1>2. CASE d.op # "overload"
  <2>1. OverloadDown(k, c, d, dl) = NestedDown(k, c, d, dl)
    BY <1>2 DEF OverloadDown
  <2> QED
    BY <1>2, <2>1, NestedDownLevel
<1> QED
  BY <1>1, <1>2

\* The slot of c ends up with a descriptor whose release undoes what the press did.
LEMMA PressLevel ==
  ASSUME config \in Configs, SwapFree, StableKeys,
         NEW k \in Keyboard, NEW n \in Tally, NEW b \in Nat, Room(b), Level(k, n, b),
         Repeatable(k), NEW c \in Code, NEW d, NEW dl \in Layer, Fit(d), NEW idle \in BOOLEAN,
         \A l \in Layer : n[l] < CacheSize,
         \A s \in Slot : k.cache[s].code = c => k.cache[s].d = d
  PROVE  /\ Repeatable(Press(k, c, d, dl, idle))
         /\ \E e : /\ Fit(e) /\ Level(Press(k, c, d, dl, idle), Gained(n, e), b)
                   /\ Rebound(k, Press(k, c, d, dl, idle), c, e)
<1> DEFINE j == Press(k, c, d, dl, idle)
<1>1. d \in Descriptor
  BY DEF Fit
<1>2. CASE d.op = "overloadi"
  <2> DEFINE a == config.descriptors[IF idle THEN d.alt ELSE d.act]
             i == OverloadDown(k, c, a, dl)
  <2>1. a \in BoundBy(config) /\ a \in Descriptor /\ a.layer \in Layer
    BY <1>1, ConfigDescriptors DEF BoundBy, Descriptor
  <2>2. j = Rebind(i, c, a)
    BY <1>2 DEF Press
  <2> HIDE DEF a
  <2>3. Fit(a)
    BY <2>1, BoundFit
  <2>4. i \in Keyboard
    BY <2>1, NestedType, LayerDownUpType DEF OverloadDown
  <2>5. /\ Level(i, Gained(n, a), b) /\ Repeatable(i)
        /\ SameCache(k, i) \/ \E e : Rebound(k, i, c, e)
    BY <2>3, OverloadDownLevel
  <2> HIDE DEF i, j
  <2>6. /\ j.active = i.active /\ j.depth = i.depth /\ j.toggled = i.toggled
        /\ j.aborted = i.aborted /\ j.repeat = i.repeat
        /\ j.cache = [s \in Slot |-> IF i.cache[s].code = c
                                     THEN [i.cache[s] EXCEPT !.d = a] ELSE i.cache[s]]
    BY <2>2, <2>4 DEF Rebind, Keyboard
  <2>7. Rebound(k, j, c, a)
    <3>1. ASSUME NEW s \in Slot
          PROVE  j.cache[s] = IF i.cache[s].code = c THEN [i.cache[s] EXCEPT !.d = a]
                                                     ELSE i.cache[s]
      BY <2>6
    <3>2. \A s \in Slot : i.cache[s] \in Entry
      BY <2>4 DEF Keyboard
    <3>3. Rebound(i, j, c, a)
      BY <3>1, <3>2 DEF Rebound, Entry
    <3> QED
      BY <2>5, <3>3 DEF Rebound, SameCache
  <2>8. Level(j, Gained(n, a), b) /\ Repeatable(j)
    BY <2>5, <2>6 DEF Level, Repeatable
  <2> QED
    BY <2>3, <2>7, <2>8 DEF j
<1>3. CASE d.op # "overloadi"
  <2>1. j = OverloadDown(k, c, d, dl)
    BY <1>3 DEF Press
  <2>2. CASE d.op # "repeat"
    <3>1. SameCache(k, j) /\ Level(j, Gained(n, d), b) /\ Repeatable(j)
      BY <2>1, <2>2, OverloadDownLevel
    <3>2. Rebound(k, j, c, d)
      BY <3>1 DEF Rebound, SameCache
    <3> QED
      BY <3>1, <3>2
  <2>3. CASE d.op = "repeat"
    <3>1. PICK e : Fit(e) /\ e.op \notin HolderOps /\ Rebound(k, j, c, e)
      BY <2>1, <2>3, OverloadDownLevel
    <3>2. Level(j, Gained(n, d), b) /\ Repeatable(j)
      BY <2>1, OverloadDownLevel
    <3>3. Gained(n, d) = n /\ Gained(n, e) = n
      BY <2>3, <3>1 DEF Gained, HolderOps
    <3> QED
      BY <3>1, <3>2, <3>3
  <2> QED
    BY <2>2, <2>3
<1> QED
  BY <1>2, <1>3

LEMMA PrologueLevel ==
  ASSUME NEW k \in Keyboard, NEW n \in Tally, NEW b \in Nat, Level(k, n, b), NEW late
  PROVE  /\ Level(Expire(k, late), n, b) /\ SameCache(k, Expire(k, late))
         /\ Expire(k, late).repeat = k.repeat
         /\ Level(Prologue(k, late), n, b) /\ SameCache(k, Prologue(k, late))
         /\ Prologue(k, late).repeat = k.repeat
<1> DEFINE x == Expire(k, late)
           q == [x EXCEPT !.repeating = FALSE]
<1>1. /\ x \in Keyboard /\ Level(x, n, b) /\ SameCache(k, x) /\ x.repeat = k.repeat
  BY PrologueType, ClearOneshotType, ClearOneshotLevel, UpdateModsLevel DEF Expire, SameCache
<1>2. Prologue(k, late) = IF k.repeating THEN UpdateMods(q, {}, {}) ELSE x
  BY DEF Prologue
<1> HIDE DEF x
<1>3. q \in Keyboard /\ Level(q, n, b) /\ SameCache(x, q) /\ q.repeat = x.repeat
  BY <1>1 DEF Keyboard, Level, SameCache
<1> HIDE DEF q
<1>4. /\ Level(Prologue(k, late), n, b) /\ SameCache(k, Prologue(k, late))
      /\ Prologue(k, late).repeat = k.repeat
  BY <1>1, <1>2, <1>3, UpdateModsLevel DEF SameCache
<1> QED
  BY <1>1, <1>4 DEF x

-----------------------------------------------------------------------------
(* The holders that the cache itself shows.                                *)

Holding(k, l) == {s \in Slot : /\ k.cache[s].code # NoCode
                               /\ k.cache[s].d.op \in HolderOps
                               /\ k.cache[s].d.layer = l}

Count(k) == [l \in Layer |-> Cardinality(Holding(k, l))]

LEMMA HoldingFinite ==
  ASSUME NEW k, NEW l
  PROVE  IsFiniteSet(Holding(k, l)) /\ Cardinality(Holding(k, l)) \in 0 .. CacheSize
<1>1. IsFiniteSet(Slot) /\ Cardinality(Slot) = CacheSize
  BY BoundAssumption, FS_Interval DEF Slot
<1>2. Holding(k, l) \in SUBSET Slot
  BY DEF Holding
<1> QED
  BY <1>1, <1>2, FS_Subset, FS_CardinalityType, BoundAssumption

LEMMA CountType ==
  ASSUME NEW k
  PROVE  Count(k) \in Tally
BY HoldingFinite DEF Count, Tally

LEMMA CountSame ==
  ASSUME NEW k, NEW j, SameCache(k, j)
  PROVE  Count(j) = Count(k)
<1>1. ASSUME NEW l PROVE Holding(j, l) = Holding(k, l)
  BY DEF Holding, SameCache
<1> QED
  BY <1>1 DEF Count

LEMMA CountFree ==
  ASSUME NEW k, NEW s \in Slot, k.cache[s].code = NoCode, NEW l \in Layer
  PROVE  Count(k)[l] < CacheSize
<1>1. IsFiniteSet(Slot) /\ Cardinality(Slot) = CacheSize
  BY BoundAssumption, FS_Interval DEF Slot
<1>2. IsFiniteSet(Slot \ {s}) /\ Cardinality(Slot \ {s}) = CacheSize - 1
  BY <1>1, FS_RemoveElement
<1>3. Holding(k, l) \in SUBSET (Slot \ {s})
  BY DEF Holding
<1>4. Cardinality(Holding(k, l)) <= CacheSize - 1
  BY <1>2, <1>3, FS_Subset
<1> QED
  BY <1>4, HoldingFinite, BoundAssumption DEF Count

\* A slot that takes the descriptor e adds one holder to e's layer.
LEMMA CountPut ==
  ASSUME NEW k, NEW j, NEW s \in Slot, NEW e,
         k.cache[s].code = NoCode, j.cache[s].code # NoCode, j.cache[s].d = e,
         \A t \in Slot \ {s} : /\ j.cache[t].code = k.cache[t].code
                               /\ j.cache[t].d = k.cache[t].d
  PROVE  Count(j) = Gained(Count(k), e)
<1>1. ASSUME NEW l \in Layer
      PROVE  Cardinality(Holding(j, l)) =
               Cardinality(Holding(k, l)) + (IF e.op \in HolderOps /\ e.layer = l THEN 1 ELSE 0)
  <2>1. s \notin Holding(k, l)
    BY DEF Holding
  <2>2. IsFiniteSet(Holding(k, l)) /\ Cardinality(Holding(k, l)) \in Nat
    BY HoldingFinite
  <2>3. CASE e.op \in HolderOps /\ e.layer = l
    <3>1. Holding(j, l) = Holding(k, l) \cup {s}
      BY <2>3 DEF Holding
    <3>2. Cardinality(Holding(j, l)) = Cardinality(Holding(k, l)) + 1
      BY <2>1, <2>2, <3>1, FS_AddElement
    <3> QED
      BY <2>3, <3>2
  <2>4. CASE ~(e.op \in HolderOps /\ e.layer = l)
    <3>1. Holding(j, l) = Holding(k, l)
      BY <2>1, <2>4 DEF Holding
    <3> QED
      BY <2>2, <2>4, <3>1
  <2> QED
    BY <2>3, <2>4
<1>2. \A l \in Layer : Cardinality(Holding(k, l)) \in Nat
  BY HoldingFinite
<1>3. CASE e.op \in HolderOps
  <2>1. Gained(Count(k), e) = [Count(k) EXCEPT ![e.layer] = @ + 1]
    BY <1>3 DEF Gained, More
  <2> QED
    BY <1>1, <1>2, <1>3, <2>1 DEF Count
<1>4. CASE e.op \notin HolderOps
  BY <1>1, <1>2, <1>4 DEF Count, Gained
<1> QED
  BY <1>3, <1>4

-----------------------------------------------------------------------------
(* The invariant.                                                          *)

\* No code is cached twice, and every cached descriptor is fit to be released.
Sound(k) ==
  /\ \A s, t \in Slot : k.cache[s].code # NoCode /\ k.cache[s].code = k.cache[t].code => s = t
  /\ \A s \in Slot : k.cache[s].code # NoCode => Fit(k.cache[s].d)
  /\ Repeatable(k)

PairingInv == TypeOK /\ Level(kbd, Count(kbd), Width - 1) /\ Sound(kbd)

\* The most oneshots of one layer that may be pending before a step.
Depth == Width - CacheSize - 3

LEMMA ShallowLevel ==
  ASSUME TypeOK, Shallow, NEW n \in Tally, Level(kbd, n, Width - 1)
  PROVE  Depth \in Nat /\ Room(Depth) /\ Room(Depth + 1) /\ Level(kbd, n, Depth)
<1>1. \A l \in Layer : kbd.depth[l] \in Nat
  BY BoundAssumption DEF TypeOK, Keyboard
<1>2. 0 \in Layer
  BY LayerAssumption DEF Layer
<1>3. Depth \in Nat
  BY <1>1, <1>2, BoundAssumption DEF Shallow, Depth
<1> QED
  BY <1>1, <1>3, BoundAssumption DEF Shallow, Depth, Room, Level

LEMMA LevelTop ==
  ASSUME NEW k \in Keyboard, NEW n \in Tally, NEW b, Level(k, n, b)
  PROVE  Level(k, n, Width - 1)
BY BoundAssumption DEF Level, Keyboard

LEMMA PairingInit == Init => PairingInv
<1> SUFFICES ASSUME Init PROVE PairingInv
  OBVIOUS
<1>1. TypeOK
  BY TypeInit
<1>2. \A s \in Slot : kbd.cache[s].code = NoCode
  BY DEF Init, BootKeyboard, FreeSlot
<1>3. \A l \in Layer : Count(kbd)[l] = 0
  <2>1. \A l \in Layer : Holding(kbd, l) = {}
    BY <1>2 DEF Holding
  <2> QED
    BY <2>1, FS_EmptySet DEF Count
<1>4. \A l \in Ordinary : l \in Layer /\ l # 0 /\ l # DefaultLayout
  BY LayerAssumption DEF Ordinary
<1>5. Level(kbd, Count(kbd), Width - 1)
  BY <1>3, <1>4, BoundAssumption DEF Level, Init, BootKeyboard
<1>6. Sound(kbd)
  BY <1>2 DEF Sound, Repeatable, Init, BootKeyboard, NoDescriptor
<1> QED
  BY <1>1, <1>5, <1>6 DEF PairingInv

LEMMA SoundSame ==
  ASSUME NEW k, NEW j, Sound(k), SameCache(k, j), Repeatable(j)
  PROVE  Sound(j)
BY DEF Sound, SameCache

LEMMA PairingPrologue ==
  ASSUME PairingInv, Shallow, NEW late
  PROVE  /\ Prologue(kbd, late) \in Keyboard /\ SameCache(kbd, Prologue(kbd, late))
         /\ Level(Prologue(kbd, late), Count(kbd), Depth)
         /\ Sound(Prologue(kbd, late)) /\ Count(Prologue(kbd, late)) = Count(kbd)
         /\ Expire(kbd, late) \in Keyboard /\ SameCache(kbd, Expire(kbd, late))
         /\ Level(Expire(kbd, late), Count(kbd), Depth)
         /\ Sound(Expire(kbd, late)) /\ Count(Expire(kbd, late)) = Count(kbd)
<1>1. kbd \in Keyboard /\ Sound(kbd) /\ Count(kbd) \in Tally /\ Depth \in Nat
      /\ Level(kbd, Count(kbd), Depth)
  BY CountType, ShallowLevel DEF PairingInv, TypeOK
<1>2. /\ Prologue(kbd, late) \in Keyboard /\ SameCache(kbd, Prologue(kbd, late))
      /\ Level(Prologue(kbd, late), Count(kbd), Depth)
      /\ Prologue(kbd, late).repeat = kbd.repeat
      /\ Expire(kbd, late) \in Keyboard /\ SameCache(kbd, Expire(kbd, late))
      /\ Level(Expire(kbd, late), Count(kbd), Depth)
      /\ Expire(kbd, late).repeat = kbd.repeat
  BY <1>1, PrologueLevel, PrologueType
<1>3. Repeatable(Prologue(kbd, late)) /\ Repeatable(Expire(kbd, late))
  BY <1>1, <1>2 DEF Sound, Repeatable
<1> QED
  BY <1>1, <1>2, <1>3, SoundSame, CountSame

\* A key press: the free slot takes the key, whose descriptor the press may change.
LEMMA PairingKeyDown ==
  ASSUME SwapFree, StableKeys, PairingInv, Shallow, TypeOK',
         NEW c \in Code, NEW late \in BOOLEAN, NEW idle \in BOOLEAN, KeyDown(c, late, idle)
  PROVE  PairingInv'
<1> DEFINE k == Prologue(kbd, late)
<1>1. PICK s \in Slot, b \in Lookup(k, c) :
        /\ k.cache[s].code = NoCode
        /\ kbd' = [Press([k EXCEPT !.cache[s] =
                            [code |-> c, d |-> b.d, dl |-> b.dl, layer |-> 0]],
                         c, b.d, b.dl, idle) EXCEPT !.last = c]
  BY DEF KeyDown, LastFree
<1> DEFINE entry   == [code |-> c, d |-> b.d, dl |-> b.dl, layer |-> 0]
           put     == [k EXCEPT !.cache[s] = entry]
           pressed == Press(put, c, b.d, b.dl, idle)
           n       == Count(kbd)
<1>2. config \in Configs /\ c # NoCode /\ \A t \in Slot : kbd.cache[t].code # c
  BY CodeAssumption DEF PairingInv, TypeOK, KeyDown, Holds
<1>3. /\ k \in Keyboard /\ SameCache(kbd, k) /\ Level(k, n, Depth) /\ Sound(k)
      /\ Count(k) = n
  BY PairingPrologue
<1>4. n \in Tally /\ Depth \in Nat /\ Room(Depth)
  BY CountType, ShallowLevel DEF PairingInv
<1>5. Fit(b.d) /\ b.d \in Descriptor /\ b.dl \in Layer
  <2>1. b.d \in Descriptor /\ b.dl \in Layer
    BY <1>2, <1>3, LookupType
  <2>2. b.d \in BoundBy(config) \/ b.d.op = "keysequence"
    <3>1. Composite(k, c) \subseteq Layer /\ Occluding(k, c) \subseteq Layer
      BY DEF Composite, Occluding
    <3> HIDE DEF k
    <3>2. \/ \E l \in Layer : b.d = config.keymap[l][c]
          \/ b.d = [NoDescriptor EXCEPT !.op = "keysequence", !.key = SelfKey[c]]
      BY <3>1 DEF Lookup
    <3>3. [NoDescriptor EXCEPT !.op = "keysequence", !.key = SelfKey[c]].op = "keysequence"
      BY DEF NoDescriptor
    <3>4. \A l \in Layer : config.keymap[l][c] \in BoundBy(config)
      BY DEF BoundBy
    <3> QED
      BY <3>2, <3>3, <3>4
  <2>3. CASE b.d \in BoundBy(config)
    BY <1>2, <2>1, <2>3, BoundFit
  <2>4. CASE b.d.op = "keysequence"
    BY <2>1, <2>4 DEF Fit, LayerOps
  <2> QED
    BY <2>1, <2>2, <2>3, <2>4
<1>6. entry \in Entry
  BY <1>5, LayerAssumption DEF Entry, Layer
<1> HIDE DEF k, entry
<1>7. put \in Keyboard
  BY <1>3, <1>6, SlotType
<1>8. /\ put.active = k.active /\ put.depth = k.depth /\ put.toggled = k.toggled
      /\ put.aborted = k.aborted /\ put.repeat = k.repeat
      /\ put.cache[s] = entry /\ \A t \in Slot \ {s} : put.cache[t] = k.cache[t]
  BY <1>3 DEF Keyboard
<1> HIDE DEF put
<1>9. Level(put, n, Depth) /\ Repeatable(put)
  BY <1>3, <1>8 DEF Level, Sound, Repeatable
<1>10. \A l \in Layer : n[l] < CacheSize
  BY <1>1, <1>3, CountFree
<1>11. /\ put.cache[s].code = c /\ put.cache[s].d = b.d
       /\ \A t \in Slot \ {s} : put.cache[t].code # c
  BY <1>2, <1>3, <1>8 DEF entry, SameCache
<1>12. Repeatable(pressed)
       /\ \E e : Fit(e) /\ Level(pressed, Gained(n, e), Depth) /\ Rebound(put, pressed, c, e)
  BY <1>2, <1>4, <1>5, <1>7, <1>9, <1>10, <1>11, PressLevel
<1>13. PICK e : Fit(e) /\ Level(pressed, Gained(n, e), Depth) /\ Rebound(put, pressed, c, e)
  BY <1>12
<1>14. pressed \in Keyboard
  BY <1>2, <1>5, <1>7, PressReleaseType
<1> DEFINE j == [pressed EXCEPT !.last = c]
<1>15. kbd' = j
  BY <1>1 DEF entry, put
<1> HIDE DEF pressed
<1>16. /\ j.active = pressed.active /\ j.depth = pressed.depth
       /\ j.toggled = pressed.toggled /\ j.aborted = pressed.aborted
       /\ j.repeat = pressed.repeat /\ j.cache = pressed.cache
  BY <1>14 DEF Keyboard
<1> HIDE DEF j
<1>17. /\ j.cache[s].code = c /\ j.cache[s].d = e
       /\ \A t \in Slot \ {s} : /\ j.cache[t].code = k.cache[t].code
                               /\ j.cache[t].d = k.cache[t].d
                               /\ j.cache[t].code # c
  BY <1>8, <1>11, <1>13, <1>16 DEF Rebound
<1>18. Count(j) = Gained(n, e)
  BY <1>1, <1>2, <1>3, <1>17, CountPut, SMTT(30)
<1>19. Level(j, Count(j), Depth)
  BY <1>13, <1>16, <1>18 DEF Level
<1>20. Sound(j)
  <2>1. \A t \in Slot : j.cache[t].code # NoCode => Fit(j.cache[t].d)
    BY <1>3, <1>13, <1>17 DEF Sound
  <2>2. \A t, u \in Slot : j.cache[t].code # NoCode /\ j.cache[t].code = j.cache[u].code
                           => t = u
    BY <1>3, <1>17 DEF Sound
  <2> QED
    BY <1>12, <1>16, <2>1, <2>2 DEF Sound, Repeatable
<1>21. j \in Keyboard
  BY <1>15 DEF TypeOK
<1>22. Level(j, Count(j), Width - 1)
  BY <1>19, <1>21, CountType, LevelTop
<1>23. Count(kbd)' = Count(kbd')
  BY DEF Count, Holding
<1> QED
  BY <1>15, <1>20, <1>22, <1>23 DEF PairingInv, Level, Sound, Repeatable

\* A key release: the slot is freed, and the descriptor it held is undone.
LEMMA PairingKeyUp ==
  ASSUME SwapFree, StableKeys, PairingInv, Shallow, TypeOK',
         NEW c \in Code, NEW late \in BOOLEAN, NEW quick \in BOOLEAN, KeyUp(c, late, quick)
  PROVE  PairingInv'
<1> DEFINE k == Prologue(kbd, late)
<1>1. PICK s \in Slot :
        /\ kbd.cache[s].code = c
        /\ kbd' = Release([k EXCEPT !.cache[s] = FreeSlot],
                          c, kbd.cache[s].d, kbd.cache[s].dl, quick)
  BY DEF KeyUp
<1> DEFINE d     == kbd.cache[s].d
           freed == [k EXCEPT !.cache[s] = FreeSlot]
           n     == Count(kbd)
<1>2. config \in Configs /\ c # NoCode
  BY CodeAssumption DEF PairingInv, TypeOK
<1>3. /\ k \in Keyboard /\ SameCache(kbd, k) /\ Level(k, n, Depth) /\ Sound(k)
      /\ Count(k) = n
  BY PairingPrologue
<1>4. n \in Tally /\ Depth \in Nat /\ Room(Depth) /\ Room(Depth + 1)
  BY CountType, ShallowLevel DEF PairingInv
<1>5. Fit(d) /\ d \in Descriptor /\ d.layer \in Layer /\ kbd.cache[s].dl \in Layer
  BY <1>1, <1>2 DEF PairingInv, Sound, TypeOK, Keyboard, Entry, Descriptor
<1>6. k.cache[s].code = c /\ k.cache[s].d = d
      /\ \A t \in Slot \ {s} : k.cache[t].code # c
  BY <1>1, <1>2, <1>3 DEF SameCache, Sound
<1> HIDE DEF k, d
<1>7. freed \in Keyboard
  BY <1>3, FreeSlotType, SlotType
<1>8. /\ freed.active = k.active /\ freed.depth = k.depth /\ freed.toggled = k.toggled
      /\ freed.aborted = k.aborted /\ freed.repeat = k.repeat
      /\ freed.cache[s] = FreeSlot /\ \A t \in Slot \ {s} : freed.cache[t] = k.cache[t]
  BY <1>3 DEF Keyboard
<1> HIDE DEF freed
<1>9. Level(freed, n, Depth) /\ Repeatable(freed)
  BY <1>3, <1>8 DEF Level, Sound, Repeatable
<1>10. freed.cache[s].code = NoCode /\ \A t \in Slot : freed.cache[t].code # c
  BY <1>2, <1>6, <1>8 DEF FreeSlot
<1>11. n = Gained(Count(freed), d)
  BY <1>2, <1>3, <1>6, <1>8, <1>10, CountPut
<1>12. Lost(n, d) = Count(freed)
  BY <1>5, <1>11, CountType, LostGained
<1>13. d.op \in HolderOps => n[d.layer] > 0
  <2>1. Count(freed) \in Tally
    BY CountType
  <2> QED
    BY <1>5, <1>11, <2>1, BoundAssumption DEF Gained, More, Tally
<1>14. \A l \in Layer : Lost(n, d)[l] < CacheSize
  BY <1>10, <1>12, CountFree
<1> DEFINE j == Release(freed, c, d, kbd.cache[s].dl, quick)
<1>15. Level(j, Lost(n, d), Depth + 1) /\ SameCache(freed, j) /\ Repeatable(j)
  BY <1>2, <1>4, <1>5, <1>7, <1>9, <1>10, <1>13, <1>14, ReleaseLevel
<1>16. kbd' = j
  BY <1>1 DEF d, freed
<1> HIDE DEF j
<1>17. Count(j) = Lost(n, d)
  BY <1>12, <1>15, CountSame
<1>18. Sound(freed)
  BY <1>3, <1>8, <1>9, <1>10 DEF Sound
<1>19. Sound(j)
  BY <1>15, <1>18, SoundSame
<1>20. j \in Keyboard
  BY <1>16 DEF TypeOK
<1>21. Level(j, Count(j), Width - 1)
  BY <1>15, <1>17, <1>20, CountType, LevelTop
<1>22. Count(kbd)' = Count(kbd')
  BY DEF Count, Holding
<1> QED
  BY <1>16, <1>19, <1>21, <1>22 DEF PairingInv, Level, Sound, Repeatable

LEMMA PairingNext ==
  ASSUME SwapFree, StableKeys
  PROVE  PairingInv /\ Shallow /\ [Next]_vars => PairingInv'
<1> SUFFICES ASSUME PairingInv, Shallow, [Next]_vars PROVE PairingInv'
  OBVIOUS
<1>1. TypeOK'
  BY TypeNext DEF PairingInv
<1>2. ASSUME NEW j, kbd' = j, j \in Keyboard, SameCache(kbd, j), Repeatable(j),
             Level(j, Count(kbd), Depth)
      PROVE  PairingInv'
  <2>1. Count(j) = Count(kbd)
    BY <1>2, CountSame
  <2>2. Sound(j)
    BY <1>2, SoundSame DEF PairingInv
  <2>3. Level(j, Count(j), Width - 1)
    BY <1>2, <2>1, CountType, LevelTop
  <2>4. Count(kbd)' = Count(kbd')
    BY DEF Count, Holding
  <2> QED
    BY <1>1, <1>2, <2>2, <2>3, <2>4 DEF PairingInv, Level, Sound, Repeatable
<1>3. ASSUME NEW c \in Code, NEW late \in BOOLEAN, NEW idle \in BOOLEAN, KeyDown(c, late, idle)
      PROVE  PairingInv'
  BY <1>1, <1>3, PairingKeyDown
<1>4. ASSUME NEW c \in Code, NEW late \in BOOLEAN, NEW quick \in Quick, KeyUp(c, late, quick)
      PROVE  PairingInv'
  BY <1>1, <1>4, PairingKeyUp DEF Quick
<1>5. ASSUME NEW late \in BOOLEAN, Ignored(late) PROVE PairingInv'
  BY <1>2, <1>5, PairingPrologue DEF Ignored, Sound
<1>6. ASSUME NEW late \in BOOLEAN, NEW due \in BOOLEAN, Timeout(late, due) PROVE PairingInv'
  <2> DEFINE k == Expire(kbd, late)
             j == IF due /\ kbd.repeating THEN ExecuteMacro(k, k.macro) ELSE k
  <2>1. /\ k \in Keyboard /\ SameCache(kbd, k) /\ Level(k, Count(kbd), Depth) /\ Repeatable(k)
    BY PairingPrologue DEF Sound
  <2>2. Count(kbd) \in Tally /\ Depth \in Nat
    BY CountType, ShallowLevel DEF PairingInv
  <2>3. kbd' = j
    BY <1>6 DEF Timeout
  <2> HIDE DEF k
  <2>4. /\ j \in Keyboard /\ SameCache(kbd, j) /\ Level(j, Count(kbd), Depth) /\ Repeatable(j)
    <3>1. ExecuteMacro(k, k.macro) \in Keyboard
      BY <2>1, ExecuteMacroType
    <3>2. /\ SameCache(k, ExecuteMacro(k, k.macro))
          /\ Level(ExecuteMacro(k, k.macro), Count(kbd), Depth)
          /\ ExecuteMacro(k, k.macro).repeat = k.repeat
      BY <2>1, <2>2, ExecuteMacroLevel
    <3> QED
      BY <2>1, <3>1, <3>2 DEF SameCache, Repeatable
  <2> HIDE DEF j
  <2> QED
    BY <1>2, <2>3, <2>4
<1>7. CASE UNCHANGED kbd
  BY <1>1, <1>7 DEF PairingInv, Level, Sound, Repeatable, Count, Holding
<1> QED
  BY <1>3, <1>4, <1>5, <1>6, <1>7 DEF Next, Lateness, Eval, vars

LEMMA PairingImplies == PairingInv => Paired /\ NoAbort
<1> SUFFICES ASSUME PairingInv PROVE Paired /\ NoAbort
  OBVIOUS
<1>1. NoAbort
  BY DEF PairingInv, Level, NoAbort
<1>2. ASSUME NEW l \in Ordinary
      PROVE  kbd.active[l] = Reasons(l)
  <2>1. Holders(l) = Holding(kbd, l)
    BY DEF Holders, Holding
  <2>2. Count(kbd)[l] = Cardinality(Holders(l))
    BY <2>1, OrdinaryLayers DEF Count
  <2> QED
    BY <2>2 DEF PairingInv, Level, Reasons
<1> QED
  BY <1>1, <1>2 DEF Paired

\* "Every activation call must be paired with a corresponding deactivation call"
\* (keyboard.c:266), and the assertion of deactivate_layer never fails: true of
\* every keymap without swap, whatever is bound while keys are held as long as
\* the key nested in a oneshotk stays one, until a layer has 238 oneshots pending.
THEOREM PairingCorrect ==
  ASSUME SwapFree, StableKeys
  PROVE  Spec /\ []Shallow => [](Paired /\ NoAbort)
<1>1. PairingInv /\ Shallow /\ [Next]_vars => PairingInv'
  BY PairingNext
<1> QED
  BY <1>1, PairingInit, PairingImplies, PTL DEF Spec

-----------------------------------------------------------------------------
(* Pending oneshots are latched.                                           *)

Latched(k) == (\E l \in Layer : k.depth[l] > 0) => k.latch

\* What leaves the oneshots alone.
SameOneshots(k, j) == j.depth = k.depth /\ j.latch = k.latch

LEMMA ModsSameOneshots ==
  ASSUME NEW k \in Keyboard, NEW excluded, NEW mods, NEW keys
  PROVE  /\ SameOneshots(k, UpdateMods(k, excluded, mods))
         /\ SameOneshots(k, ExecuteMacro(k, keys))
BY DEF SameOneshots, UpdateMods, ExecuteMacro, Keyboard

LEMMA LayerSameOneshots ==
  ASSUME NEW k \in Keyboard, NEW c, NEW l \in Layer
  PROVE  /\ SameOneshots(k, ActivateLayer(k, c, l)) /\ SameOneshots(k, DeactivateLayer(k, l))
         /\ SameOneshots(k, LayerDown(k, c, l)) /\ SameOneshots(k, LayerUp(k, l))
<1>1. SameOneshots(k, ActivateLayer(k, c, l)) /\ SameOneshots(k, DeactivateLayer(k, l))
  BY DEF SameOneshots, ActivateLayer, DeactivateLayer, Keyboard
<1> QED
  BY <1>1, ActivateLayerType, DeactivateLayerType, ModsSameOneshots
     DEF SameOneshots, LayerDown, LayerUp

LEMMA SameOneshotsLatched ==
  ASSUME NEW k, NEW j, SameOneshots(k, j), Latched(k)
  PROVE  Latched(j)
BY DEF SameOneshots, Latched

LEMMA ClearLatched ==
  ASSUME NEW k \in Keyboard, NEW l \in Layer
  PROVE  /\ Latched(ClearOneshot(k)) /\ Latched(Clear(k)) /\ Latched(SetLayout(k, l))
<1>1. \A i \in Layer : ClearOneshot(k).depth[i] = 0
  BY DEF ClearOneshot, Keyboard
<1>2. \A i \in Layer : Clear(k).depth[i] = 0
  BY <1>1, ClearOneshotType DEF Clear, DropToggles, Keyboard
<1>3. \A i \in Layer : SetLayout(k, l).depth[i] = 0
  BY <1>2, ClearType DEF SetLayout, Keyboard
<1> QED
  BY <1>1, <1>2, <1>3 DEF Latched

LEMMA KeySequenceLatched ==
  ASSUME NEW k \in Keyboard, NEW d \in Descriptor, NEW dl \in Layer, Latched(k)
  PROVE  Latched(KeySequenceDown(k, d, dl)) /\ Latched(KeySequenceUp(k, d))
<1> DEFINE lifted == [k EXCEPT !.down = @ \ {d.key}]
<1>1. \A i \in Layer : KeySequenceDown(k, d, dl).depth[i] = 0
  BY DEF KeySequenceDown, ClearOneshot, Keyboard
<1>2. lifted \in Keyboard /\ SameOneshots(k, lifted) /\ KeySequenceUp(k, d) = UpdateMods(lifted, {}, {})
  BY DEF Keyboard, SameOneshots, KeySequenceUp
<1> HIDE DEF lifted
<1>3. SameOneshots(k, KeySequenceUp(k, d))
  BY <1>2, ModsSameOneshots DEF SameOneshots
<1> QED
  BY <1>1, <1>3, SameOneshotsLatched DEF Latched

LEMMA OneshotLatched ==
  ASSUME NEW k \in Keyboard, NEW c, NEW d \in Descriptor, NEW dl \in Layer, Latched(k)
  PROVE  Latched(OneshotDown(k, c, d, dl)) /\ Latched(OneshotUp(k, d))
<1>1. d.layer \in Layer
  BY DEF Descriptor
<1>2. UpdateMods(ActivateLayer(k, c, d.layer), Excluding(dl), {}) \in Keyboard
  BY <1>1, ActivateLayerType, UpdateModsType
<1>3. OneshotDown(k, c, d, dl).latch
  BY <1>2 DEF OneshotDown, Keyboard
<1>4. CASE k.latch
  BY <1>3, <1>4 DEF OneshotUp, Keyboard, Latched
<1>5. CASE ~k.latch
  BY <1>1, <1>3, <1>5, LayerSameOneshots, SameOneshotsLatched DEF OneshotUp, Latched
<1> QED
  BY <1>4, <1>5

LEMMA ToggleLatched ==
  ASSUME NEW k \in Keyboard, NEW c, NEW d \in Descriptor
  PROVE  Latched(ToggleDown(k, c, d))
<1> DEFINE toggled == [k.toggled EXCEPT ![d.layer] = ~@]
           flipped == [k EXCEPT !.toggled = toggled]
           moved   == IF flipped.toggled[d.layer]
                      THEN ActivateLayer(flipped, c, d.layer)
                      ELSE DeactivateLayer(flipped, d.layer)
<1>1. d.layer \in Layer
  BY DEF Descriptor
<1>2. flipped \in Keyboard
  <2>1. toggled \in [Layer -> BOOLEAN]
    BY DEF Keyboard
  <2> HIDE DEF toggled
  <2> QED
    BY <2>1 DEF Keyboard
<1>3. moved \in Keyboard
  BY <1>1, <1>2, ActivateLayerType, DeactivateLayerType
<1>4. ToggleDown(k, c, d) = ClearOneshot(UpdateMods(moved, {}, {}))
  BY DEF ToggleDown
<1> HIDE DEF moved
<1>5. UpdateMods(moved, {}, {}) \in Keyboard
  BY <1>3, UpdateModsType
<1> QED
  BY <1>1, <1>4, <1>5, ClearLatched

LEMMA SwapLatched ==
  ASSUME NEW k \in Keyboard, NEW d \in Descriptor, NEW dl \in Layer, Latched(k)
  PROVE  Latched(SwapDown(k, d, dl))
<1> DEFINE l    == d.layer
           away == DeactivateLayer(k, dl)
<1>1. l \in Layer
  BY DEF Descriptor
<1>2. away \in Keyboard /\ SameOneshots(k, away)
  BY DeactivateLayerType, LayerSameOneshots
<1>3. ASSUME NEW j \in Keyboard, SameOneshots(k, j)
      PROVE  /\ ActivateLayer(j, NoCode, l) \in Keyboard
             /\ SameOneshots(k, ActivateLayer(j, NoCode, l))
  BY <1>1, <1>3, ActivateLayerType, LayerSameOneshots DEF SameOneshots
<1> HIDE DEF l
<1>4. SameOneshots(k, SwapToggle(k, dl, l))
  <2> DEFINE toggled1 == [away.toggled EXCEPT ![dl] = FALSE]
             left     == [away EXCEPT !.toggled = toggled1]
             moved    == ActivateLayer(left, NoCode, l)
             toggled2 == [moved.toggled EXCEPT ![l] = TRUE]
             settled  == [moved EXCEPT !.toggled = toggled2]
  <2>1. toggled1 \in [Layer -> BOOLEAN]
    BY <1>2 DEF Keyboard
  <2> HIDE DEF away, toggled1
  <2>2. left \in Keyboard /\ SameOneshots(k, left)
    BY <1>2, <2>1 DEF Keyboard, SameOneshots
  <2> HIDE DEF left
  <2>3. moved \in Keyboard /\ SameOneshots(k, moved)
    BY <1>3, <2>2
  <2>4. toggled2 \in [Layer -> BOOLEAN]
    BY <1>1, <2>3 DEF Keyboard
  <2>5. SwapToggle(k, dl, l) = UpdateMods(settled, {}, {})
    BY DEF SwapToggle, settled, moved, left, toggled2, toggled1, away
  <2> HIDE DEF moved, toggled2
  <2>6. settled \in Keyboard /\ SameOneshots(k, settled)
    BY <2>3, <2>4 DEF Keyboard, SameOneshots
  <2> HIDE DEF settled
  <2> QED
    BY <2>5, <2>6, ModsSameOneshots DEF SameOneshots
<1>5. ASSUME k.depth[dl] > 0
      PROVE  Latched(SwapOneshot(k, dl, l))
  <2> DEFINE depth1 == [away.depth EXCEPT ![dl] = @ - 1]
             left   == [away EXCEPT !.depth = depth1]
             moved  == ActivateLayer(left, NoCode, l)
             depth2 == [moved.depth EXCEPT ![l] = Increment(@)]
             settled == [moved EXCEPT !.depth = depth2]
  <2>1. depth1 \in [Layer -> 0 .. Width - 1]
    BY <1>2, <1>5, BoundAssumption DEF Keyboard, SameOneshots
  <2> HIDE DEF away, depth1
  <2>2. k.latch
    BY <1>5 DEF Latched
  <2>3. left \in Keyboard /\ left.latch
    BY <1>2, <2>1, <2>2 DEF Keyboard, SameOneshots
  <2> HIDE DEF left
  <2>4. moved \in Keyboard /\ moved.latch
    BY <1>1, <2>3, ActivateLayerType, LayerSameOneshots DEF SameOneshots
  <2>5. SwapOneshot(k, dl, l) = UpdateMods(settled, {}, {})
    BY DEF SwapOneshot, settled, depth2, moved, left, depth1, away
  <2> HIDE DEF moved
  <2>6. depth2 \in [Layer -> 0 .. Width - 1]
    BY <1>1, <2>4, BoundAssumption DEF Keyboard, Increment
  <2> HIDE DEF depth2
  <2>7. settled \in Keyboard /\ settled.latch
    BY <2>4, <2>6 DEF Keyboard
  <2> HIDE DEF settled
  <2> QED
    BY <2>5, <2>7, ModsSameOneshots DEF SameOneshots, Latched
<1>6. SameOneshots(k, SwapHeld(k, dl, l))
  <2> DEFINE first == {s \in Slot : ActivatedBy(k, s, dl)
                                    /\ \A t \in Slot : t < s => ~ActivatedBy(k, t, dl)}
             entry(s) == [k.cache[s] EXCEPT !.layer = l,
                                            !.d = [@ EXCEPT !.op = "layer", !.layer = l]]
             held == [s \in Slot |-> IF s \in first THEN entry(s) ELSE k.cache[s]]
             left == [away EXCEPT !.cache = held]
  <2>1. ASSUME NEW s \in Slot PROVE held[s] \in Entry
    <3>1. k.cache[s] \in Entry
      BY DEF Keyboard
    <3>2. [k.cache[s].d EXCEPT !.op = "layer", !.layer = l] \in Descriptor
      BY <1>1, <3>1 DEF Entry, Descriptor, Ops, SimpleOps
    <3>3. entry(s) \in Entry
      BY <1>1, <3>1, <3>2 DEF Entry
    <3> QED
      BY <3>1, <3>3
  <2>2. held \in [Slot -> Entry]
    BY <2>1
  <2>3. SwapHeld(k, dl, l) = UpdateMods(ActivateLayer(left, NoCode, l), {}, {})
    BY DEF SwapHeld
  <2> HIDE DEF held, away
  <2>4. left \in Keyboard /\ SameOneshots(k, left)
    BY <1>2, <2>2 DEF Keyboard, SameOneshots
  <2> HIDE DEF left
  <2> QED
    BY <1>3, <2>3, <2>4, ModsSameOneshots DEF SameOneshots
<1> QED
  BY <1>4, <1>5, <1>6, SameOneshotsLatched DEF SwapDown, l

-----------------------------------------------------------------------------
(* Order of activation: an event stamps at most one layer, with the clock, *)
(* which every other stamp is behind.                                      *)

\* From k to j only l has been activated, and no other ordinary layer gained a count.
Follows(k, j, l) ==
  /\ j.clock = IF l \in Layer THEN k.clock + 1 ELSE k.clock
  /\ \A m \in Layer \ {l} :
       IF m \in Ordinary THEN j.stamp[m] = k.stamp[m] /\ j.active[m] <= k.active[m]
                         ELSE j.stamp[m] \in {k.stamp[m], 1}
  /\ l \in Layer => IF l \in Ordinary THEN j.stamp[l] = k.clock
                                      ELSE j.stamp[l] \in {k.stamp[l], 1, k.clock}

NoLayer == NrLayers

Calm(k, j) == Follows(k, j, NoLayer)
Moves(k, j) == \E l \in Layer \cup {NoLayer} : Follows(k, j, l)

\* No stamp has reached the clock.
Stamped(k) == k.clock > 1 /\ \A l \in Layer : k.stamp[l] < k.clock

LEMMA NoLayerIsNone == NoLayer \notin Layer
BY LayerAssumption DEF NoLayer, Layer

LEMMA SameCalm ==
  ASSUME NEW k \in Keyboard, NEW j,
         j.clock = k.clock, j.stamp = k.stamp,
         \A l \in Layer : j.active[l] <= k.active[l]
  PROVE  Calm(k, j)
BY NoLayerIsNone DEF Calm, Follows

LEMMA CalmThen ==
  ASSUME NEW k \in Keyboard, NEW i \in Keyboard, NEW j \in Keyboard,
         NEW l \in Layer \cup {NoLayer}, Calm(k, i), Follows(i, j, l)
  PROVE  Follows(k, j, l)
<1>1. i.clock = k.clock /\ \A m \in Layer : k.active[m] \in Nat /\ i.active[m] \in Nat /\ j.active[m] \in Nat
  BY NoLayerIsNone, BoundAssumption DEF Calm, Follows, Keyboard
<1>2. \A m \in Layer : IF m \in Ordinary THEN i.stamp[m] = k.stamp[m] /\ i.active[m] <= k.active[m]
                                         ELSE i.stamp[m] \in {k.stamp[m], 1}
  BY NoLayerIsNone DEF Calm, Follows
<1> QED
  BY <1>1, <1>2 DEF Follows

LEMMA ThenCalm ==
  ASSUME NEW k \in Keyboard, NEW i \in Keyboard, NEW j \in Keyboard,
         NEW l \in Layer \cup {NoLayer}, Follows(k, i, l), Calm(i, j)
  PROVE  Follows(k, j, l)
<1>1. j.clock = i.clock /\ \A m \in Layer : k.active[m] \in Nat /\ i.active[m] \in Nat /\ j.active[m] \in Nat
  BY NoLayerIsNone, BoundAssumption DEF Calm, Follows, Keyboard
<1>2. \A m \in Layer : IF m \in Ordinary THEN j.stamp[m] = i.stamp[m] /\ j.active[m] <= i.active[m]
                                         ELSE j.stamp[m] \in {i.stamp[m], 1}
  BY NoLayerIsNone DEF Calm, Follows
<1> QED
  BY <1>1, <1>2 DEF Follows

LEMMA CalmMoves ==
  ASSUME NEW k, NEW j, Calm(k, j)
  PROVE  Moves(k, j)
BY DEF Calm, Moves

LEMMA CalmThenMoves ==
  ASSUME NEW k \in Keyboard, NEW i \in Keyboard, NEW j \in Keyboard, Calm(k, i)
  PROVE  (Calm(i, j) => Calm(k, j)) /\ (Moves(i, j) => Moves(k, j))
BY CalmThen DEF Calm, Moves

LEMMA MovesThenCalm ==
  ASSUME NEW k \in Keyboard, NEW i \in Keyboard, NEW j \in Keyboard, Moves(k, i), Calm(i, j)
  PROVE  Moves(k, j)
BY ThenCalm DEF Moves

LEMMA ModsCalm ==
  ASSUME NEW k \in Keyboard, NEW excluded, NEW mods, NEW keys
  PROVE  /\ Calm(k, UpdateMods(k, excluded, mods)) /\ Calm(k, ExecuteMacro(k, keys))
<1>1. \A l \in Layer : k.active[l] \in Nat
  BY BoundAssumption DEF Keyboard
<1>2. /\ UpdateMods(k, excluded, mods).clock = k.clock
      /\ UpdateMods(k, excluded, mods).stamp = k.stamp
      /\ UpdateMods(k, excluded, mods).active = k.active
  BY DEF UpdateMods, Keyboard
<1>3. /\ ExecuteMacro(k, keys).clock = k.clock
      /\ ExecuteMacro(k, keys).stamp = k.stamp
      /\ ExecuteMacro(k, keys).active = k.active
  BY DEF UpdateMods, ExecuteMacro, Keyboard
<1> QED
  BY <1>1, <1>2, <1>3, SameCalm

LEMMA DeactivateCalm ==
  ASSUME NEW k \in Keyboard, NEW l \in Layer
  PROVE  Calm(k, DeactivateLayer(k, l)) /\ Calm(k, LayerUp(k, l))
<1> DEFINE j == DeactivateLayer(k, l)
<1>1. \A m \in Layer : k.active[m] \in Nat
  BY BoundAssumption DEF Keyboard
<1>2. j.clock = k.clock /\ j.stamp = k.stamp /\ \A m \in Layer : j.active[m] <= k.active[m]
  BY <1>1 DEF DeactivateLayer, Keyboard
<1>3. j \in Keyboard /\ Calm(k, j)
  BY <1>2, SameCalm, DeactivateLayerType
<1>4. LayerUp(k, l) = UpdateMods(j, {}, {}) /\ LayerUp(k, l) \in Keyboard
  BY LayerDownUpType DEF LayerUp
<1> HIDE DEF j
<1>5. Calm(j, LayerUp(k, l))
  BY <1>3, <1>4, ModsCalm
<1> QED
  BY <1>3, <1>4, <1>5, CalmThenMoves DEF j

LEMMA ActivateMoves ==
  ASSUME NEW k \in Keyboard, NEW c, NEW l \in Layer
  PROVE  Moves(k, ActivateLayer(k, c, l)) /\ Moves(k, LayerDown(k, c, l))
<1> DEFINE j == ActivateLayer(k, c, l)
<1>1. \A m \in Layer : k.active[m] \in Nat
  BY BoundAssumption DEF Keyboard
<1>2. /\ j.clock = k.clock + 1 /\ j.stamp[l] = k.clock
      /\ \A m \in Layer \ {l} : j.stamp[m] = k.stamp[m] /\ j.active[m] = k.active[m]
  BY DEF ActivateLayer, Keyboard
<1>3. j \in Keyboard
  BY ActivateLayerType
<1> HIDE DEF j
<1>4. Follows(k, j, l)
  BY <1>1, <1>2 DEF Follows
<1>5. Moves(k, j)
  BY <1>4 DEF Moves
<1>6. LayerDown(k, c, l) = UpdateMods(j, {}, {}) /\ LayerDown(k, c, l) \in Keyboard
  BY LayerDownUpType DEF LayerDown, j
<1>7. Calm(j, LayerDown(k, c, l))
  BY <1>3, <1>6, ModsCalm
<1>8. Moves(k, LayerDown(k, c, l))
  BY <1>3, <1>5, <1>6, <1>7, MovesThenCalm
<1> QED
  BY <1>5, <1>8 DEF j

LEMMA ClearCalm ==
  ASSUME NEW k \in Keyboard
  PROVE  Calm(k, ClearOneshot(k)) /\ Calm(k, Clear(k))
<1>1. \A m \in Layer : k.active[m] \in Nat /\ k.depth[m] \in Nat
  BY BoundAssumption DEF Keyboard
<1> DEFINE i == ClearOneshot(k)
           j == DropToggles(i)
<1>2. i.clock = k.clock /\ i.stamp = k.stamp /\ \A m \in Layer : i.active[m] <= k.active[m]
  BY <1>1 DEF ClearOneshot, Keyboard
<1>3. i \in Keyboard /\ j \in Keyboard
  BY ClearOneshotType, DropTogglesType
<1> HIDE DEF i
<1>4. \A m \in Layer : i.active[m] \in Nat
  BY <1>3, BoundAssumption DEF Keyboard
<1>5. j.clock = i.clock /\ j.stamp = i.stamp /\ \A m \in Layer : j.active[m] <= i.active[m]
  <2>1. j.clock = i.clock /\ j.stamp = i.stamp
    BY <1>3 DEF DropToggles, Keyboard
  <2>2. \A m \in Layer : j.active[m] = i.active[m] \/ j.active[m] = i.active[m] - 1
    BY <1>3 DEF DropToggles, Keyboard
  <2> QED
    BY <1>4, <2>1, <2>2
<1> HIDE DEF j
<1>6. /\ Clear(k).clock = k.clock /\ Clear(k).stamp = k.stamp
      /\ \A m \in Layer : Clear(k).active[m] <= k.active[m]
  <2>1. \A m \in Layer : j.active[m] \in Nat
    BY <1>3, BoundAssumption DEF Keyboard
  <2>2. Clear(k) = [j EXCEPT !.repeating = FALSE, !.down = {}]
    BY DEF Clear, i, j
  <2>3. Clear(k).clock = j.clock /\ Clear(k).stamp = j.stamp /\ Clear(k).active = j.active
    BY <1>3, <2>2 DEF Keyboard
  <2> QED
    BY <1>1, <1>2, <1>4, <1>5, <2>1, <2>3
<1> QED
  BY <1>2, <1>6, SameCalm DEF i

LEMMA SetLayoutCalm ==
  ASSUME NEW k \in Keyboard, NEW l \in Layer \ Ordinary
  PROVE  Calm(k, SetLayout(k, l))
<1> DEFINE j == Clear(k)
           active == [m \in Layer |-> IF m # 0 /\ LayerType[m] = "layout" THEN 0 ELSE j.active[m]]
           cleared == [j EXCEPT !.active = active]
<1>1. j \in Keyboard /\ Calm(k, j)
  BY ClearType, ClearCalm
<1>2. \A m \in Layer : j.active[m] \in Nat
  BY <1>1, BoundAssumption DEF Keyboard
<1>3. SetLayout(k, l) = IF l = 0 THEN cleared
                                 ELSE [cleared EXCEPT !.active[l] = 1, !.stamp[l] = 1]
  BY DEF SetLayout
<1> HIDE DEF j
<1>4. /\ SetLayout(k, l).clock = j.clock
      /\ \A m \in Layer : /\ m # l => SetLayout(k, l).stamp[m] = j.stamp[m]
                          /\ SetLayout(k, l).stamp[m] \in {j.stamp[m], 1}
                          /\ m # l => SetLayout(k, l).active[m] \in {0, j.active[m]}
  BY <1>1, <1>3 DEF Keyboard
<1>5. Calm(j, SetLayout(k, l))
  BY <1>2, <1>4, NoLayerIsNone DEF Calm, Follows
<1> QED
  BY <1>1, <1>5, CalmThenMoves, SetLayoutType

LEMMA KeySequenceCalm ==
  ASSUME NEW k \in Keyboard, NEW d \in Descriptor, NEW dl \in Layer
  PROVE  /\ Calm(k, KeySequenceDown(k, d, dl)) /\ Calm(k, KeySequenceUp(k, d))
         /\ KeySequenceDown(k, d, dl).repeat.op = d.op
         /\ KeySequenceUp(k, d).repeat = k.repeat
<1> DEFINE mods    == ActiveMods(k, Excluding(dl), d.mods)
           down    == ((k.down \ {d.key}) \ Mod) \cup mods \cup ({d.key} \cap Out)
           repeat  == [d EXCEPT !.mods = mods]
           pressed == [k EXCEPT !.down = down, !.repeat = repeat]
           lifted  == [k EXCEPT !.down = @ \ {d.key}]
<1>1. mods \subseteq Mod
  BY LayerAssumption DEF ActiveMods, Layer, Descriptor
<1>2. repeat \in Descriptor /\ repeat.op = d.op
  BY <1>1 DEF Descriptor
<1>3. down \in SUBSET Out
  BY <1>1 DEF Keyboard, Out
<1>4. KeySequenceDown(k, d, dl) = ClearOneshot(pressed)
  BY DEF KeySequenceDown
<1>5. KeySequenceUp(k, d) = UpdateMods(lifted, {}, {})
  BY DEF KeySequenceUp
<1>6. \A m \in Layer : k.active[m] \in Nat
  BY BoundAssumption DEF Keyboard
<1> HIDE DEF down, repeat
<1>7. pressed \in Keyboard /\ Calm(k, pressed) /\ pressed.repeat.op = d.op
  <2>1. pressed \in Keyboard
    BY <1>2, <1>3 DEF Keyboard
  <2>2. /\ pressed.clock = k.clock /\ pressed.stamp = k.stamp /\ pressed.active = k.active
        /\ pressed.repeat = repeat
    BY DEF Keyboard
  <2> HIDE DEF pressed
  <2> QED
    BY <1>2, <1>6, <2>1, <2>2, SameCalm
<1>8. lifted \in Keyboard /\ Calm(k, lifted) /\ lifted.repeat = k.repeat
  <2>1. lifted \in Keyboard
    BY DEF Keyboard
  <2>2. /\ lifted.clock = k.clock /\ lifted.stamp = k.stamp /\ lifted.active = k.active
        /\ lifted.repeat = k.repeat
    BY DEF Keyboard
  <2> HIDE DEF lifted
  <2> QED
    BY <1>6, <2>1, <2>2, SameCalm
<1> HIDE DEF pressed, lifted
<1>9. Calm(k, KeySequenceDown(k, d, dl)) /\ KeySequenceDown(k, d, dl).repeat.op = d.op
  <2>1. ClearOneshot(pressed).repeat = pressed.repeat
    BY <1>7 DEF ClearOneshot, Keyboard
  <2> QED
    BY <1>4, <1>7, <2>1, ClearCalm, CalmThenMoves, ClearOneshotType
<1>10. Calm(k, KeySequenceUp(k, d)) /\ KeySequenceUp(k, d).repeat = k.repeat
  <2>1. UpdateMods(lifted, {}, {}).repeat = lifted.repeat
    BY <1>8 DEF UpdateMods, Keyboard
  <2> QED
    BY <1>5, <1>8, <2>1, ModsCalm, CalmThenMoves, UpdateModsType
<1> QED
  BY <1>9, <1>10

LEMMA ModsRepeatKept ==
  ASSUME NEW k \in Keyboard, NEW excluded, NEW mods, NEW keys
  PROVE  /\ UpdateMods(k, excluded, mods).repeat = k.repeat
         /\ ExecuteMacro(k, keys).repeat = k.repeat
BY DEF UpdateMods, ExecuteMacro, Keyboard

LEMMA LayerRepeatKept ==
  ASSUME NEW k \in Keyboard, NEW c, NEW l \in Layer
  PROVE  /\ ActivateLayer(k, c, l).repeat = k.repeat
         /\ DeactivateLayer(k, l).repeat = k.repeat
         /\ LayerDown(k, c, l).repeat = k.repeat
         /\ LayerUp(k, l).repeat = k.repeat
<1>1. /\ ActivateLayer(k, c, l).repeat = k.repeat
      /\ DeactivateLayer(k, l).repeat = k.repeat
  BY DEF ActivateLayer, DeactivateLayer, Keyboard
<1> QED
  BY <1>1, ActivateLayerType, DeactivateLayerType, ModsRepeatKept DEF LayerDown, LayerUp

LEMMA ClearRepeatKept ==
  ASSUME NEW k \in Keyboard, NEW l \in Layer
  PROVE  /\ ClearOneshot(k).repeat = k.repeat
         /\ Clear(k).repeat = k.repeat
         /\ SetLayout(k, l).repeat = k.repeat
<1>1. ClearOneshot(k).repeat = k.repeat
  BY DEF ClearOneshot, Keyboard
<1>2. Clear(k).repeat = k.repeat
  BY <1>1, ClearOneshotType DEF Clear, DropToggles, Keyboard
<1>3. SetLayout(k, l).repeat = k.repeat
  BY <1>2, ClearType DEF SetLayout, Keyboard
<1> QED
  BY <1>1, <1>2, <1>3

LEMMA OneshotMoves ==
  ASSUME NEW k \in Keyboard, NEW c, NEW d \in Descriptor, NEW dl \in Layer
  PROVE  /\ Moves(k, OneshotDown(k, c, d, dl)) /\ Calm(k, OneshotUp(k, d))
         /\ OneshotDown(k, c, d, dl).repeat = k.repeat /\ OneshotUp(k, d).repeat = k.repeat
<1> DEFINE i == ActivateLayer(k, c, d.layer)
           j == UpdateMods(i, Excluding(dl), {})
           r == OneshotDown(k, c, d, dl)
<1>1. d.layer \in Layer
  BY DEF Descriptor
<1>2. i \in Keyboard /\ Moves(k, i) /\ i.repeat = k.repeat
  BY <1>1, ActivateLayerType, ActivateMoves, LayerRepeatKept
<1> HIDE DEF i
<1>3. j \in Keyboard /\ Moves(k, j) /\ j.repeat = k.repeat
  BY <1>2, UpdateModsType, ModsCalm, MovesThenCalm, ModsRepeatKept
<1>4. r = [j EXCEPT !.latch = TRUE]
  BY DEF OneshotDown, i
<1>5. r \in Keyboard
  BY OneshotType
<1> HIDE DEF j, r
<1>6. r.clock = j.clock /\ r.stamp = j.stamp /\ r.active = j.active /\ r.repeat = j.repeat
  BY <1>3, <1>4 DEF Keyboard
<1>7. \A m \in Layer : j.active[m] \in Nat /\ k.active[m] \in Nat
  BY <1>3, BoundAssumption DEF Keyboard
<1>8. Calm(j, r)
  BY <1>3, <1>6, <1>7, SameCalm
<1>9. Moves(k, r) /\ r.repeat = k.repeat
  BY <1>3, <1>5, <1>6, <1>8, MovesThenCalm
<1> DEFINE u == OneshotUp(k, d)
<1>10. CASE k.latch
  <2>1. u.clock = k.clock /\ u.stamp = k.stamp /\ u.active = k.active /\ u.repeat = k.repeat
    BY <1>10 DEF OneshotUp, Keyboard
  <2> HIDE DEF u
  <2> QED
    BY <1>7, <1>9, <2>1, SameCalm DEF u, r
<1>11. CASE ~k.latch
  BY <1>1, <1>9, <1>11, DeactivateCalm, LayerRepeatKept DEF OneshotUp, r
<1> QED
  BY <1>10, <1>11

LEMMA ToggleMoves ==
  ASSUME NEW k \in Keyboard, NEW c, NEW d \in Descriptor
  PROVE  Moves(k, ToggleDown(k, c, d)) /\ ToggleDown(k, c, d).repeat = k.repeat
<1> DEFINE toggled == [k.toggled EXCEPT ![d.layer] = ~@]
           flipped == [k EXCEPT !.toggled = toggled]
           moved   == IF flipped.toggled[d.layer]
                      THEN ActivateLayer(flipped, c, d.layer)
                      ELSE DeactivateLayer(flipped, d.layer)
           i       == UpdateMods(moved, {}, {})
<1>1. d.layer \in Layer
  BY DEF Descriptor
<1>2. toggled \in [Layer -> BOOLEAN]
  BY DEF Keyboard
<1>3. \A m \in Layer : k.active[m] \in Nat
  BY BoundAssumption DEF Keyboard
<1>4. ToggleDown(k, c, d) = ClearOneshot(i)
  BY DEF ToggleDown
<1> HIDE DEF toggled
<1>5. flipped \in Keyboard /\ flipped.repeat = k.repeat
  BY <1>2 DEF Keyboard
<1>6. flipped.clock = k.clock /\ flipped.stamp = k.stamp /\ flipped.active = k.active
  BY DEF Keyboard
<1> HIDE DEF flipped
<1>7. Calm(k, flipped)
  BY <1>3, <1>6, SameCalm
<1>8. moved \in Keyboard /\ Moves(flipped, moved) /\ moved.repeat = k.repeat
  <2>1. CASE flipped.toggled[d.layer]
    BY <1>1, <1>5, <2>1, ActivateLayerType, ActivateMoves, LayerRepeatKept
  <2>2. CASE ~flipped.toggled[d.layer]
    BY <1>1, <1>5, <2>2, DeactivateLayerType, DeactivateCalm, CalmMoves, LayerRepeatKept
  <2> QED
    BY <2>1, <2>2
<1> HIDE DEF moved
<1>9. i \in Keyboard /\ Moves(k, i) /\ i.repeat = k.repeat
  <2>1. Moves(k, moved)
    BY <1>5, <1>7, <1>8, CalmThenMoves
  <2> QED
    BY <1>8, <2>1, UpdateModsType, ModsCalm, MovesThenCalm, ModsRepeatKept
<1> HIDE DEF i
<1> QED
  BY <1>1, <1>4, <1>9, ClearOneshotType, ClearCalm, MovesThenCalm, ClearRepeatKept

LEMMA SwapMoves ==
  ASSUME NEW k \in Keyboard, NEW d \in Descriptor, NEW dl \in Layer
  PROVE  Moves(k, SwapDown(k, d, dl)) /\ SwapDown(k, d, dl).repeat = k.repeat
<1> DEFINE l    == d.layer
           away == DeactivateLayer(k, dl)
           On(j) == ActivateLayer(j, NoCode, l)
<1>1. l \in Layer
  BY DEF Descriptor
<1>2. away \in Keyboard /\ Calm(k, away) /\ away.repeat = k.repeat
  BY DeactivateLayerType, DeactivateCalm, LayerRepeatKept
<1> HIDE DEF l
<1>3. ASSUME NEW left \in Keyboard, left.clock = away.clock, left.stamp = away.stamp,
             left.active = away.active, left.repeat = away.repeat
      PROVE  On(left) \in Keyboard /\ Moves(k, On(left)) /\ On(left).repeat = k.repeat
  <2>1. \A m \in Layer : away.active[m] \in Nat
    BY <1>2, BoundAssumption DEF Keyboard
  <2> HIDE DEF away
  <2>2. Calm(away, left)
    BY <1>2, <1>3, <2>1, SameCalm
  <2>3. Calm(k, left)
    BY <1>2, <2>2, CalmThenMoves
  <2> QED
    BY <1>1, <1>2, <1>3, <2>3, CalmThenMoves, ActivateLayerType, ActivateMoves, LayerRepeatKept
<1>4. ASSUME NEW j \in Keyboard, Moves(k, j), j.repeat = k.repeat,
             NEW r \in Keyboard, r.clock = j.clock, r.stamp = j.stamp, r.active = j.active,
             r.repeat = j.repeat
      PROVE  Moves(k, UpdateMods(r, {}, {})) /\ UpdateMods(r, {}, {}).repeat = k.repeat
  <2>1. \A m \in Layer : j.active[m] \in Nat
    BY BoundAssumption DEF Keyboard
  <2>2. Calm(j, r)
    BY <1>4, <2>1, SameCalm
  <2>3. Moves(k, r)
    BY <1>4, <2>2, MovesThenCalm
  <2> QED
    BY <1>4, <2>3, ModsCalm, MovesThenCalm, UpdateModsType, ModsRepeatKept
<1> DEFINE Goal(j) == Moves(k, j) /\ j.repeat = k.repeat
<1>5. Goal(SwapToggle(k, dl, l))
  <2> DEFINE toggled1 == [away.toggled EXCEPT ![dl] = FALSE]
             left     == [away EXCEPT !.toggled = toggled1]
             moved    == On(left)
             toggled2 == [moved.toggled EXCEPT ![l] = TRUE]
             settled  == [moved EXCEPT !.toggled = toggled2]
  <2>1. toggled1 \in [Layer -> BOOLEAN]
    BY <1>2 DEF Keyboard
  <2>2. SwapToggle(k, dl, l) = UpdateMods(settled, {}, {})
    BY DEF SwapToggle
  <2> HIDE DEF away, toggled1
  <2>3. /\ left \in Keyboard /\ left.clock = away.clock /\ left.stamp = away.stamp
        /\ left.active = away.active /\ left.repeat = away.repeat
    BY <1>2, <2>1 DEF Keyboard
  <2> HIDE DEF left
  <2>4. moved \in Keyboard /\ Moves(k, moved) /\ moved.repeat = k.repeat
    BY <1>3, <2>3
  <2> HIDE DEF moved
  <2>5. toggled2 \in [Layer -> BOOLEAN]
    BY <1>1, <2>4 DEF Keyboard
  <2> HIDE DEF toggled2
  <2>6. /\ settled \in Keyboard /\ settled.clock = moved.clock /\ settled.stamp = moved.stamp
        /\ settled.active = moved.active /\ settled.repeat = moved.repeat
    BY <2>4, <2>5 DEF Keyboard
  <2> HIDE DEF settled
  <2> QED
    BY <1>4, <2>2, <2>4, <2>6
<1>6. ASSUME k.depth[dl] > 0
      PROVE  Goal(SwapOneshot(k, dl, l))
  <2> DEFINE depth1 == [away.depth EXCEPT ![dl] = @ - 1]
             left   == [away EXCEPT !.depth = depth1]
             moved  == On(left)
             depth2 == [moved.depth EXCEPT ![l] = Increment(@)]
             settled == [moved EXCEPT !.depth = depth2]
  <2>1. away.depth = k.depth
    BY LayerSameOneshots DEF SameOneshots
  <2>2. depth1 \in [Layer -> 0 .. Width - 1]
    BY <1>2, <1>6, <2>1, BoundAssumption DEF Keyboard
  <2>3. SwapOneshot(k, dl, l) = UpdateMods(settled, {}, {})
    BY DEF SwapOneshot
  <2> HIDE DEF away, depth1
  <2>4. /\ left \in Keyboard /\ left.clock = away.clock /\ left.stamp = away.stamp
        /\ left.active = away.active /\ left.repeat = away.repeat
    BY <1>2, <2>2 DEF Keyboard
  <2> HIDE DEF left
  <2>5. moved \in Keyboard /\ Moves(k, moved) /\ moved.repeat = k.repeat
    BY <1>3, <2>4
  <2> HIDE DEF moved
  <2>6. depth2 \in [Layer -> 0 .. Width - 1]
    BY <1>1, <2>5, BoundAssumption DEF Keyboard, Increment
  <2> HIDE DEF depth2
  <2>7. /\ settled \in Keyboard /\ settled.clock = moved.clock /\ settled.stamp = moved.stamp
        /\ settled.active = moved.active /\ settled.repeat = moved.repeat
    BY <2>5, <2>6 DEF Keyboard
  <2> HIDE DEF settled
  <2> QED
    BY <1>4, <2>3, <2>5, <2>7
<1>7. Goal(SwapHeld(k, dl, l))
  <2> DEFINE first == {s \in Slot : ActivatedBy(k, s, dl)
                                    /\ \A t \in Slot : t < s => ~ActivatedBy(k, t, dl)}
             entry(s) == [k.cache[s] EXCEPT !.layer = l,
                                            !.d = [@ EXCEPT !.op = "layer", !.layer = l]]
             held == [s \in Slot |-> IF s \in first THEN entry(s) ELSE k.cache[s]]
             left == [away EXCEPT !.cache = held]
             moved == On(left)
  <2>1. ASSUME NEW s \in Slot PROVE held[s] \in Entry
    <3>1. k.cache[s] \in Entry
      BY DEF Keyboard
    <3>2. [k.cache[s].d EXCEPT !.op = "layer", !.layer = l] \in Descriptor
      BY <1>1, <3>1 DEF Entry, Descriptor, Ops, SimpleOps
    <3>3. entry(s) \in Entry
      BY <1>1, <3>1, <3>2 DEF Entry
    <3> QED
      BY <3>1, <3>3
  <2>2. held \in [Slot -> Entry]
    BY <2>1
  <2>3. SwapHeld(k, dl, l) = UpdateMods(moved, {}, {})
    BY DEF SwapHeld
  <2> HIDE DEF held, away
  <2>4. /\ left \in Keyboard /\ left.clock = away.clock /\ left.stamp = away.stamp
        /\ left.active = away.active /\ left.repeat = away.repeat
    BY <1>2, <2>2 DEF Keyboard
  <2> HIDE DEF left
  <2>5. moved \in Keyboard /\ Moves(k, moved) /\ moved.repeat = k.repeat
    BY <1>3, <2>4
  <2> HIDE DEF moved
  <2> QED
    BY <1>4, <2>3, <2>5
<1>8. Goal(k)
  <2>1. \A m \in Layer : k.active[m] \in Nat
    BY BoundAssumption DEF Keyboard
  <2> QED
    BY <2>1, SameCalm, CalmMoves
<1> HIDE DEF Goal
<1>9. Goal(SwapDown(k, d, dl))
  BY <1>5, <1>6, <1>7, <1>8 DEF SwapDown, l
<1> QED
  BY <1>9 DEF Goal

LEMMA MacroCalm ==
  ASSUME NEW k \in Keyboard, NEW d \in Descriptor
  PROVE  /\ Calm(k, MacroDown(k, d)) /\ MacroDown(k, d).repeat = d
         /\ Latched(MacroDown(k, d))
         /\ Calm(k, CommandDown(k)) /\ CommandDown(k).repeat = k.repeat
         /\ Latched(CommandDown(k))
<1> DEFINE i == ClearOneshot(k)
           j == ExecuteMacro(i, d.macro)
           r == MacroDown(k, d)
<1>1. 0 \in Layer
  BY LayerAssumption DEF Layer
<1>2. i \in Keyboard /\ Calm(k, i) /\ i.repeat = k.repeat /\ Latched(i)
  BY <1>1, ClearOneshotType, ClearCalm, ClearRepeatKept, ClearLatched
<1>3. r = [j EXCEPT !.repeating = TRUE, !.macro = d.macro, !.repeat = d]
  BY DEF MacroDown
<1>4. CommandDown(k) = UpdateMods(i, {}, {})
  BY DEF CommandDown
<1> HIDE DEF i
<1>5. /\ Calm(k, CommandDown(k)) /\ CommandDown(k).repeat = k.repeat
      /\ Latched(CommandDown(k))
  BY <1>2, <1>4, UpdateModsType, ModsCalm, CalmThenMoves, ModsRepeatKept, ModsSameOneshots,
     SameOneshotsLatched
<1>6. j \in Keyboard /\ Calm(k, j) /\ Latched(j)
  BY <1>1, <1>2, ExecuteMacroType, ModsCalm, CalmThenMoves, ModsSameOneshots, SameOneshotsLatched
<1>7. r \in Keyboard
  BY MacroDownType
<1> HIDE DEF j, r
<1>8. /\ r.clock = j.clock /\ r.stamp = j.stamp /\ r.active = j.active /\ r.repeat = d
      /\ SameOneshots(j, r)
  BY <1>3, <1>6 DEF Keyboard, SameOneshots
<1>9. \A m \in Layer : j.active[m] \in Nat
  BY <1>6, BoundAssumption DEF Keyboard
<1>10. Calm(j, r)
  BY <1>6, <1>8, <1>9, SameCalm
<1>11. Calm(k, r) /\ Latched(r)
  BY <1>6, <1>7, <1>8, <1>10, CalmThenMoves, SameOneshotsLatched
<1> QED
  BY <1>5, <1>8, <1>11 DEF r

-----------------------------------------------------------------------------
(* What an operation does to the stamps, the latch and the repeated action. *)

Sane(k, j) == (Latched(k) => Latched(j)) /\ (Repeatable(k) => Repeatable(j))

\* An operation that activates at most one layer, and one that activates none.
Lawful(k, j) == Moves(k, j) /\ Sane(k, j)
Tame(k, j)   == Calm(k, j) /\ Sane(k, j)

LayoutOnly(d) == d.op = "setlayout" => d.layer \notin Ordinary

LEMMA TameThen ==
  ASSUME NEW k \in Keyboard, NEW i \in Keyboard, NEW j \in Keyboard, Tame(k, i)
  PROVE  (Tame(i, j) => Tame(k, j)) /\ (Lawful(i, j) => Lawful(k, j))
BY CalmThenMoves DEF Tame, Lawful, Sane

LEMMA LawfulThen ==
  ASSUME NEW k \in Keyboard, NEW i \in Keyboard, NEW j \in Keyboard, Lawful(k, i), Tame(i, j)
  PROVE  Lawful(k, j)
BY MovesThenCalm DEF Tame, Lawful, Sane

LEMMA TameLawful ==
  ASSUME NEW k, NEW j, Tame(k, j)
  PROVE  Lawful(k, j)
BY CalmMoves DEF Tame, Lawful

LEMMA SameTame ==
  ASSUME NEW k \in Keyboard, NEW j, j.clock = k.clock, j.stamp = k.stamp,
         j.active = k.active, SameOneshots(k, j), j.repeat = k.repeat
  PROVE  Tame(k, j)
<1>1. \A m \in Layer : k.active[m] \in Nat
  BY BoundAssumption DEF Keyboard
<1>2. Calm(k, j)
  BY <1>1, SameCalm
<1> QED
  BY <1>2, SameOneshotsLatched DEF Tame, Sane, Repeatable

LEMMA SelfTame ==
  ASSUME NEW k \in Keyboard
  PROVE  Tame(k, k)
BY SameTame DEF SameOneshots

LEMMA ModsTame ==
  ASSUME NEW k \in Keyboard, NEW excluded, NEW mods, NEW keys
  PROVE  Tame(k, UpdateMods(k, excluded, mods)) /\ Tame(k, ExecuteMacro(k, keys))
BY ModsCalm, ModsRepeatKept, ModsSameOneshots, SameOneshotsLatched DEF Tame, Sane, Repeatable

LEMMA LayerLawful ==
  ASSUME NEW k \in Keyboard, NEW c, NEW l \in Layer
  PROVE  Lawful(k, LayerDown(k, c, l)) /\ Tame(k, LayerUp(k, l))
<1>1. Lawful(k, LayerDown(k, c, l))
  BY ActivateMoves, LayerRepeatKept, LayerSameOneshots, SameOneshotsLatched
     DEF Lawful, Sane, Repeatable
<1>2. Tame(k, LayerUp(k, l))
  BY DeactivateCalm, LayerRepeatKept, LayerSameOneshots, SameOneshotsLatched
     DEF Tame, Sane, Repeatable
<1> QED
  BY <1>1, <1>2

LEMMA ClearTame ==
  ASSUME NEW k \in Keyboard
  PROVE  /\ Tame(k, ClearOneshot(k)) /\ Tame(k, Clear(k))
         /\ \A l \in Layer \ Ordinary : Tame(k, SetLayout(k, l))
<1>1. 0 \in Layer
  BY LayerAssumption DEF Layer
<1>2. Tame(k, ClearOneshot(k)) /\ Tame(k, Clear(k))
  BY <1>1, ClearCalm, ClearRepeatKept, ClearLatched DEF Tame, Sane, Repeatable
<1>3. ASSUME NEW l \in Layer \ Ordinary PROVE Tame(k, SetLayout(k, l))
  BY SetLayoutCalm, ClearRepeatKept, ClearLatched DEF Tame, Sane, Repeatable
<1> QED
  BY <1>2, <1>3

LEMMA OneshotLawful ==
  ASSUME NEW k \in Keyboard, NEW c, NEW d \in Descriptor, NEW dl \in Layer
  PROVE  Lawful(k, OneshotDown(k, c, d, dl)) /\ Tame(k, OneshotUp(k, d))
BY OneshotMoves, OneshotLatched DEF Lawful, Tame, Sane, Repeatable

LEMMA ToggleLawful ==
  ASSUME NEW k \in Keyboard, NEW c, NEW d \in Descriptor
  PROVE  Lawful(k, ToggleDown(k, c, d))
BY ToggleMoves, ToggleLatched DEF Lawful, Sane, Repeatable

LEMMA SwapLawful ==
  ASSUME NEW k \in Keyboard, NEW d \in Descriptor, NEW dl \in Layer
  PROVE  Lawful(k, SwapDown(k, d, dl))
BY SwapMoves, SwapLatched DEF Lawful, Sane, Repeatable

LEMMA SimpleDownLawful ==
  ASSUME NEW k \in Keyboard, NEW c, NEW d \in Descriptor, NEW dl \in Layer, LayoutOnly(d)
  PROVE  /\ Lawful(k, SimpleDown(k, c, d, dl))
         /\ d.op \in {"none", "keysequence", "macro", "macro2"} => Tame(k, SimpleDown(k, c, d, dl))
<1> DEFINE m == ExecuteMacro(k, d.macro)
           j == SimpleDown(k, c, d, dl)
<1>1. d.layer \in Layer
  BY DEF Descriptor
<1>2. m \in Keyboard /\ Tame(k, m)
  BY ExecuteMacroType, ModsTame
<1>3. j \in Keyboard
  BY SimpleDownType
<1>4. CASE d.op = "keysequence"
  <2>1. j = KeySequenceDown(k, d, dl)
    BY <1>4 DEF SimpleDown
  <2>2. Tame(k, KeySequenceDown(k, d, dl))
    BY <1>4, KeySequenceCalm, KeySequenceLatched DEF Tame, Sane, Repeatable
  <2> QED
    BY <2>1, <2>2, TameLawful
<1>5. CASE d.op = "layer"
  BY <1>1, <1>5, LayerLawful DEF SimpleDown
<1>6. CASE d.op = "layerm"
  <2> HIDE DEF m, j
  <2>1. j = LayerDown(m, c, d.layer)
    BY <1>6 DEF SimpleDown, j, m
  <2>2. Lawful(k, j)
    BY <1>1, <1>2, <1>3, <2>1, LayerLawful, TameThen
  <2> QED
    BY <1>6, <2>2 DEF j
<1>7. CASE d.op = "oneshot"
  BY <1>7, OneshotLawful DEF SimpleDown
<1>8. CASE d.op = "oneshotm"
  <2> HIDE DEF m, j
  <2>1. j = OneshotDown(m, c, d, dl)
    BY <1>8 DEF SimpleDown, j, m
  <2>2. Lawful(k, j)
    BY <1>2, <1>3, <2>1, OneshotLawful, TameThen
  <2> QED
    BY <1>8, <2>2 DEF j
<1>9. CASE d.op = "toggle"
  BY <1>9, ToggleLawful DEF SimpleDown
<1>10. CASE d.op = "togglem"
  <2> HIDE DEF m, j
  <2>1. j = ToggleDown(m, c, d)
    BY <1>10 DEF SimpleDown, j, m
  <2>2. Lawful(k, j)
    BY <1>2, <1>3, <2>1, ToggleLawful, TameThen
  <2> QED
    BY <1>10, <2>2 DEF j
<1>11. CASE d.op = "swap"
  BY <1>11, SwapLawful DEF SimpleDown
<1>12. CASE d.op = "swapm"
  <2> DEFINE i == SwapDown(k, d, dl)
  <2>1. j = ExecuteMacro(i, d.macro) /\ i \in Keyboard /\ Lawful(k, i)
    BY <1>12, SwapLawful, SwapDownType DEF SimpleDown
  <2> HIDE DEF i, j
  <2>2. Lawful(k, j)
    BY <1>3, <2>1, ModsTame, LawfulThen
  <2> QED
    BY <1>12, <2>2 DEF j
<1>13. CASE d.op = "setlayout"
  BY <1>1, <1>13, ClearTame, TameLawful DEF SimpleDown, LayoutOnly
<1>14. CASE d.op = "clear"
  BY <1>14, ClearTame, TameLawful DEF SimpleDown
<1>15. CASE d.op = "clearm"
  <2> DEFINE i == Clear(k)
  <2>1. j = ExecuteMacro(i, d.macro) /\ i \in Keyboard /\ Tame(k, i)
    BY <1>15, ClearTame, ClearType DEF SimpleDown
  <2> HIDE DEF i, j
  <2>2. Lawful(k, j)
    BY <1>3, <2>1, ModsTame, TameThen, TameLawful
  <2> QED
    BY <1>15, <2>2 DEF j
<1>16. CASE d.op \in {"macro", "macro2"}
  <2>1. j = MacroDown(k, d)
    BY <1>16 DEF SimpleDown
  <2>2. Tame(k, MacroDown(k, d))
    BY <1>16, MacroCalm DEF Tame, Sane, Repeatable
  <2> QED
    BY <2>1, <2>2, TameLawful
<1>17. CASE d.op = "command"
  <2>1. Tame(k, CommandDown(k))
    BY MacroCalm DEF Tame, Sane, Repeatable
  <2> QED
    BY <1>17, <2>1, TameLawful DEF SimpleDown
<1>18. CASE d.op \in {"none"} \cup NestedOps \cup {"overload", "overloadi"}
  BY <1>18, SelfTame, TameLawful DEF SimpleDown, NestedOps
<1> QED
  BY <1>4, <1>5, <1>6, <1>7, <1>8, <1>9, <1>10, <1>11, <1>12, <1>13, <1>14, <1>15, <1>16,
     <1>17, <1>18 DEF Descriptor, Ops, SimpleOps

LEMMA SimpleUpTame ==
  ASSUME NEW k \in Keyboard, NEW d \in Descriptor
  PROVE  Tame(k, SimpleUp(k, d))
<1>1. d.layer \in Layer /\ 0 \in Layer
  BY LayerAssumption DEF Descriptor, Layer
<1>2. Tame(k, KeySequenceUp(k, d))
  BY <1>1, KeySequenceCalm, KeySequenceLatched DEF Tame, Sane, Repeatable
<1> QED
  BY <1>1, <1>2, LayerLawful, OneshotLawful, ModsTame, SelfTame DEF SimpleUp

LEMMA RebindTame ==
  ASSUME NEW k \in Keyboard, NEW c, NEW d
  PROVE  Tame(k, Rebind(k, c, d))
BY SameTame DEF Rebind, Keyboard, SameOneshots

LEMMA WellFormedLayout ==
  ASSUME NEW d, WellFormed(config, d)
  PROVE  LayoutOnly(d)
BY DEF WellFormed, LayoutOnly, Ordinary

LEMMA NestedDownLawful ==
  ASSUME config \in Configs, NEW k \in Keyboard, Repeatable(k),
         NEW c, NEW d \in Descriptor, NEW dl \in Layer, WellFormed(config, d)
  PROVE  Lawful(k, NestedDown(k, c, d, dl))
<1> DEFINE j == NestedDown(k, c, d, dl)
<1>1. j \in Keyboard
  BY NestedType
<1>2. CASE d.op = "oneshotk"
  <2> DEFINE e == config.descriptors[d.act]
             i == SimpleDown(k, c, e, dl)
  <2>1. e \in Descriptor /\ e.op = "keysequence"
    BY <1>2, ConfigDescriptors DEF WellFormed, Descriptor
  <2>2. i \in Keyboard /\ Tame(k, i)
    BY <2>1, SimpleDownLawful, SimpleDownType DEF LayoutOnly
  <2>3. j = OneshotDown(i, c, d, dl)
    BY <1>2 DEF NestedDown
  <2> HIDE DEF i, j
  <2> QED
    BY <1>1, <2>2, <2>3, OneshotLawful, TameThen DEF j
<1>3. CASE d.op = "repeat"
  <2> DEFINE i == SimpleDown(k, c, k.repeat, dl)
  <2>1. k.repeat \in Descriptor /\ LayoutOnly(k.repeat)
    BY DEF Keyboard, Repeatable, LayoutOnly
  <2>2. i \in Keyboard /\ Lawful(k, i)
    BY <2>1, SimpleDownLawful, SimpleDownType
  <2>3. j = Rebind(i, c, i.repeat)
    BY <1>3 DEF NestedDown, RepeatDown
  <2> HIDE DEF i, j
  <2> QED
    BY <1>1, <2>2, <2>3, RebindTame, LawfulThen DEF j
<1>4. CASE d.op \notin {"oneshotk", "repeat"}
  BY <1>4, WellFormedLayout, SimpleDownLawful DEF NestedDown
<1> QED
  BY <1>2, <1>3, <1>4

LEMMA NestedUpTame ==
  ASSUME config \in Configs, NEW k \in Keyboard, NEW d \in Descriptor
  PROVE  Tame(k, NestedUp(k, d))
<1> DEFINE e == config.descriptors[d.act]
           i == SimpleUp(k, e)
<1>1. e \in Descriptor
  BY ConfigDescriptors DEF Descriptor
<1>2. i \in Keyboard /\ Tame(k, i)
  BY <1>1, SimpleUpTame, SimpleUpType
<1>3. NestedUp(k, d) \in Keyboard
  BY NestedType, LayerAssumption DEF Layer
<1>4. 0 \in Layer
  BY LayerAssumption DEF Layer
<1>5. CASE d.op = "oneshotk"
  <2>1. NestedUp(k, d) = OneshotUp(i, d)
    BY <1>5 DEF NestedUp
  <2> HIDE DEF i
  <2> QED
    BY <1>2, <1>3, <1>4, <2>1, OneshotLawful, TameThen
<1>6. CASE d.op # "oneshotk"
  BY <1>6, SimpleUpTame DEF NestedUp
<1> QED
  BY <1>5, <1>6

LEMMA ConfigWellFormed ==
  ASSUME config \in Configs
  PROVE  /\ \A n \in Action : WellFormed(config, config.descriptors[n])
         /\ \A l \in Layer, c \in Code : WellFormed(config, config.keymap[l][c])
BY ConfigAssumption

LEMMA ReleaseLawful ==
  ASSUME config \in Configs, NEW k \in Keyboard, Repeatable(k), NEW c, NEW d \in Descriptor,
         NEW dl \in Layer, NEW quick
  PROVE  Lawful(k, Release(k, c, d, dl, quick))
<1> DEFINE i == LayerUp(k, d.layer)
           a == config.descriptors[d.act]
           m == NestedDown(i, c, a, dl)
<1>1. d.layer \in Layer /\ a \in Descriptor /\ WellFormed(config, a)
  BY ConfigDescriptors, ConfigWellFormed DEF Descriptor
<1>2. i \in Keyboard /\ Tame(k, i) /\ Repeatable(i)
  BY <1>1, LayerLawful, LayerDownUpType DEF Tame, Sane
<1> HIDE DEF i, a
<1>3. m \in Keyboard /\ Lawful(i, m)
  BY <1>1, <1>2, NestedType, NestedDownLawful
<1>4. NestedUp(m, a) \in Keyboard /\ Tame(m, NestedUp(m, a))
  <2> HIDE DEF m
  <2> QED
    BY <1>1, <1>3, NestedType, NestedUpTame
<1>5. ExecuteMacro(i, a.macro) \in Keyboard /\ Lawful(i, ExecuteMacro(i, a.macro))
  BY <1>2, ModsTame, TameLawful, ExecuteMacroType
<1>6. Tap(i, c, d, dl) \in Keyboard /\ Lawful(i, Tap(i, c, d, dl))
  <2>1. Tap(i, c, d, dl) = IF a.op = "macro" THEN ExecuteMacro(i, a.macro) ELSE NestedUp(m, a)
    BY DEF Tap, a
  <2> HIDE DEF m
  <2> QED
    BY <1>2, <1>3, <1>4, <1>5, <2>1, LawfulThen
<1>7. Lawful(k, Tap(i, c, d, dl)) /\ Lawful(k, i)
  BY <1>2, <1>6, TameThen, TameLawful
<1>8. Lawful(k, NestedUp(k, d))
  BY NestedUpTame, TameLawful
<1> QED
  BY <1>7, <1>8 DEF Release, OverloadUp, i

LEMMA PressLawful ==
  ASSUME config \in Configs, NEW k \in Keyboard, Repeatable(k), NEW c, NEW d \in Descriptor,
         NEW dl \in Layer, NEW idle, WellFormed(config, d)
  PROVE  Lawful(k, Press(k, c, d, dl, idle))
<1>1. ASSUME NEW e \in Descriptor, WellFormed(config, e)
      PROVE  OverloadDown(k, c, e, dl) \in Keyboard /\ Lawful(k, OverloadDown(k, c, e, dl))
  <2>1. e.layer \in Layer
    BY DEF Descriptor
  <2> QED
    BY <1>1, <2>1, LayerLawful, LayerDownUpType, NestedType, NestedDownLawful DEF OverloadDown
<1> DEFINE a == config.descriptors[IF idle THEN d.alt ELSE d.act]
           i == OverloadDown(k, c, a, dl)
<1>2. a \in Descriptor /\ WellFormed(config, a)
  BY ConfigDescriptors, ConfigWellFormed DEF Descriptor
<1>3. i \in Keyboard /\ Lawful(k, i)
  BY <1>1, <1>2
<1>4. CASE d.op = "overloadi"
  <2>1. Press(k, c, d, dl, idle) = Rebind(i, c, a)
    BY <1>4 DEF Press
  <2> HIDE DEF i, a
  <2> QED
    BY <1>2, <1>3, <2>1, RebindTame, RebindType, LawfulThen
<1>5. CASE d.op # "overloadi"
  BY <1>1, <1>5 DEF Press
<1> QED
  BY <1>4, <1>5

LEMMA PrologueTame ==
  ASSUME NEW k \in Keyboard, NEW late
  PROVE  Tame(k, Expire(k, late)) /\ Tame(k, Prologue(k, late))
<1> DEFINE e == Expire(k, late)
           r == [e EXCEPT !.repeating = FALSE]
<1>1. Tame(k, UpdateMods(ClearOneshot(k), {}, {}))
  BY ClearTame, ClearOneshotType, ModsTame, UpdateModsType, TameThen
<1>2. e \in Keyboard /\ Tame(k, e)
  BY <1>1, SelfTame, PrologueType DEF Expire
<1>3. Prologue(k, late) = IF k.repeating THEN UpdateMods(r, {}, {}) ELSE e
  BY DEF Prologue
<1> HIDE DEF e
<1>4. r \in Keyboard
  BY <1>2 DEF Keyboard
<1>5. Tame(e, r)
  BY <1>2, SameTame DEF Keyboard, SameOneshots
<1> HIDE DEF r
<1>6. UpdateMods(r, {}, {}) \in Keyboard /\ Tame(k, UpdateMods(r, {}, {}))
  BY <1>2, <1>4, <1>5, ModsTame, UpdateModsType, TameThen
<1> QED
  BY <1>2, <1>3, <1>6 DEF e

LEMMA LookupWellFormed ==
  ASSUME config \in Configs, NEW k \in Keyboard, NEW c \in Code, NEW b \in Lookup(k, c)
  PROVE  WellFormed(config, b.d)
<1>1. Composite(k, c) \subseteq Layer /\ Occluding(k, c) \subseteq Layer
  BY DEF Composite, Occluding
<1>2. WellFormed(config, [NoDescriptor EXCEPT !.op = "keysequence", !.key = SelfKey[c]])
  BY DEF WellFormed, NoDescriptor
<1> QED
  BY <1>1, <1>2, ConfigWellFormed DEF Lookup

-----------------------------------------------------------------------------
(* The steps.                                                              *)

OrderInv == TypeOK /\ Latched(kbd) /\ Repeatable(kbd)

LEMMA KeyDownLawful ==
  ASSUME OrderInv, NEW c \in Code, NEW late \in BOOLEAN, NEW idle \in BOOLEAN,
         KeyDown(c, late, idle)
  PROVE  Lawful(kbd, kbd')
<1> DEFINE k == Prologue(kbd, late)
<1>1. PICK s \in Slot, b \in Lookup(k, c) :
        kbd' = [Press([k EXCEPT !.cache[s] = [code |-> c, d |-> b.d, dl |-> b.dl, layer |-> 0]],
                      c, b.d, b.dl, idle) EXCEPT !.last = c]
  BY DEF KeyDown
<1> DEFINE entry == [code |-> c, d |-> b.d, dl |-> b.dl, layer |-> 0]
           put == [k EXCEPT !.cache[s] = entry]
           pressed == Press(put, c, b.d, b.dl, idle)
<1>2. kbd \in Keyboard /\ config \in Configs
  BY DEF OrderInv, TypeOK
<1>3. k \in Keyboard /\ Tame(kbd, k)
  BY <1>2, PrologueType, PrologueTame
<1>4. b.d \in Descriptor /\ b.dl \in Layer /\ WellFormed(config, b.d)
  BY <1>2, <1>3, LookupType, LookupWellFormed
<1>5. entry \in Entry
  BY <1>4, LayerAssumption DEF Entry, Layer
<1> HIDE DEF k, entry
<1>6. put \in Keyboard /\ Tame(k, put)
  <2>1. put \in Keyboard
    BY <1>3, <1>5, SlotType
  <2>2. /\ put.active = k.active /\ put.stamp = k.stamp /\ put.clock = k.clock
        /\ put.depth = k.depth /\ put.latch = k.latch /\ put.repeat = k.repeat
    BY <1>3 DEF Keyboard
  <2> HIDE DEF put
  <2> QED
    BY <1>3, <2>1, <2>2, SameTame DEF SameOneshots
<1> HIDE DEF put
<1>7. Tame(kbd, put)
  BY <1>2, <1>3, <1>6, TameThen
<1>8. Repeatable(put)
  BY <1>7 DEF Tame, Sane, OrderInv
<1>9. pressed \in Keyboard /\ Lawful(put, pressed)
  BY <1>2, <1>4, <1>6, <1>8, PressReleaseType, PressLawful
<1>10. kbd' = [pressed EXCEPT !.last = c]
  BY <1>1 DEF put, entry, k
<1> HIDE DEF pressed
<1>11. kbd' \in Keyboard /\ Tame(pressed, kbd')
  <2>1. kbd' \in Keyboard
    BY <1>9, <1>10 DEF Keyboard
  <2>2. /\ kbd'.active = pressed.active /\ kbd'.stamp = pressed.stamp
        /\ kbd'.clock = pressed.clock /\ kbd'.depth = pressed.depth
        /\ kbd'.latch = pressed.latch /\ kbd'.repeat = pressed.repeat
    BY <1>9, <1>10 DEF Keyboard
  <2> QED
    BY <1>9, <2>1, <2>2, SameTame DEF SameOneshots
<1>12. Lawful(kbd, pressed)
  BY <1>2, <1>6, <1>7, <1>9, TameThen
<1> QED
  BY <1>2, <1>9, <1>11, <1>12, LawfulThen

LEMMA KeyUpLawful ==
  ASSUME OrderInv, NEW c \in Code, NEW late \in BOOLEAN, NEW quick \in BOOLEAN,
         KeyUp(c, late, quick)
  PROVE  Lawful(kbd, kbd')
<1> DEFINE k == Prologue(kbd, late)
<1>1. PICK s \in Slot :
        kbd' = Release([k EXCEPT !.cache[s] = FreeSlot],
                       c, kbd.cache[s].d, kbd.cache[s].dl, quick)
  BY DEF KeyUp
<1> DEFINE freed == [k EXCEPT !.cache[s] = FreeSlot]
<1>2. kbd \in Keyboard /\ config \in Configs
  BY DEF OrderInv, TypeOK
<1>3. k \in Keyboard /\ Tame(kbd, k) /\ kbd.cache[s].d \in Descriptor /\ kbd.cache[s].dl \in Layer
  BY <1>2, PrologueType, PrologueTame DEF Keyboard, Entry
<1> HIDE DEF k
<1>4. freed \in Keyboard /\ Tame(k, freed)
  <2>1. freed \in Keyboard
    BY <1>3, FreeSlotType, SlotType
  <2>2. /\ freed.active = k.active /\ freed.stamp = k.stamp /\ freed.clock = k.clock
        /\ freed.depth = k.depth /\ freed.latch = k.latch /\ freed.repeat = k.repeat
    BY <1>3 DEF Keyboard
  <2> HIDE DEF freed
  <2> QED
    BY <1>3, <2>1, <2>2, SameTame DEF SameOneshots
<1> HIDE DEF freed
<1>5. Tame(kbd, freed)
  BY <1>2, <1>3, <1>4, TameThen
<1>6. Repeatable(freed)
  BY <1>5 DEF Tame, Sane, OrderInv
<1>7. Lawful(freed, kbd') /\ kbd' \in Keyboard
  BY <1>1, <1>2, <1>3, <1>4, <1>6, ReleaseLawful, PressReleaseType DEF freed
<1> QED
  BY <1>2, <1>4, <1>5, <1>7, TameThen

LEMMA StepLawful ==
  ASSUME OrderInv, [Next]_vars
  PROVE  Lawful(kbd, kbd') /\ OrderInv'
<1>1. kbd \in Keyboard /\ config \in Configs
  BY DEF OrderInv, TypeOK
<1>2. ASSUME NEW c \in Code, NEW late \in BOOLEAN, NEW idle \in BOOLEAN, KeyDown(c, late, idle)
      PROVE  Lawful(kbd, kbd')
  BY <1>2, KeyDownLawful
<1>3. ASSUME NEW c \in Code, NEW late \in BOOLEAN, NEW quick \in BOOLEAN, KeyUp(c, late, quick)
      PROVE  Lawful(kbd, kbd')
  BY <1>3, KeyUpLawful
<1>4. ASSUME NEW late \in BOOLEAN, Ignored(late) PROVE Lawful(kbd, kbd')
  BY <1>1, <1>4, PrologueTame, TameLawful DEF Ignored
<1>5. ASSUME NEW late \in BOOLEAN, NEW due \in BOOLEAN, Timeout(late, due) PROVE Lawful(kbd, kbd')
  <2> DEFINE k == Expire(kbd, late)
  <2>1. k \in Keyboard /\ Tame(kbd, k)
    BY <1>1, PrologueType, PrologueTame
  <2>2. kbd' \in {k, ExecuteMacro(k, k.macro)}
    BY <1>5 DEF Timeout
  <2> HIDE DEF k
  <2>3. Tame(kbd, ExecuteMacro(k, k.macro))
    BY <1>1, <2>1, ModsTame, ExecuteMacroType, TameThen
  <2> QED
    BY <2>1, <2>2, <2>3, TameLawful
<1>6. ASSUME UNCHANGED kbd PROVE Lawful(kbd, kbd')
  BY <1>1, <1>6, SelfTame, TameLawful
<1>7. Lawful(kbd, kbd')
  <2>1. \A quick \in Quick : quick \in BOOLEAN
    BY DEF Quick
  <2> QED
    BY <1>2, <1>3, <1>4, <1>5, <1>6, <2>1 DEF Next, Lateness, Eval, vars
<1> QED
  BY <1>7, TypeNext DEF OrderInv, Lawful, Sane

LEMMA OrderInit == Init => OrderInv
<1> SUFFICES ASSUME Init PROVE OrderInv
  OBVIOUS
<1>1. Latched(kbd) /\ Repeatable(kbd)
  BY DEF Init, BootKeyboard, NoDescriptor, Latched, Repeatable
<1> QED
  BY <1>1, TypeInit DEF OrderInv

\* A pending oneshot stays pending only as long as the next key may still spend it
\* (oneshot_latch), through clears, toggles, swaps, nested actions and timeouts.
THEOREM LatchCorrect == Spec => []LatchCoversOneshots
<1>1. OrderInv /\ [Next]_vars => OrderInv'
  BY StepLawful
<1>2. OrderInv => LatchCoversOneshots
  BY DEF OrderInv, Latched, LatchCoversOneshots
<1> QED
  BY <1>1, <1>2, OrderInit, PTL DEF Spec

LEMMA MovesStamped ==
  ASSUME NEW k \in Keyboard, NEW j \in Keyboard, Moves(k, j), Stamped(k)
  PROVE  Stamped(j)
<1>1. PICK l \in Layer \cup {NoLayer} : Follows(k, j, l)
  BY DEF Moves
<1>2. /\ k.clock \in Nat /\ j.clock \in Nat
      /\ \A m \in Layer : k.stamp[m] \in Nat /\ j.stamp[m] \in Nat
  BY DEF Keyboard
<1> QED
  BY <1>1, <1>2 DEF Follows, Stamped

LEMMA StampedInit ==
  ASSUME BootClock > 1
  PROVE  Init => Stamped(kbd)
BY BoundAssumption DEF Init, BootKeyboard, Stamped

LEMMA MovesOcclude ==
  ASSUME OrderInv, Stamped(kbd), Moves(kbd, kbd'), kbd' \in Keyboard,
         NEW l \in Ordinary, NEW c \in Code, Activated(l), Binds(l, c)'
  PROVE  Occluding(kbd, c)' = {l}
<1> DEFINE stack == {m \in Layer : kbd'.active[m] > 0 /\ Binds(m, c)'}
<1>1. PICK n \in Layer \cup {NoLayer} : Follows(kbd, kbd', n)
  BY DEF Moves
<1>2. \A m \in Layer : /\ kbd.active[m] \in Nat /\ kbd'.active[m] \in Nat
                       /\ kbd.stamp[m] \in Nat /\ kbd'.stamp[m] \in Nat
  BY BoundAssumption DEF OrderInv, TypeOK, Keyboard
<1>3. l \in Layer /\ kbd'.active[l] > kbd.active[l]
  BY OrdinaryLayers DEF Activated
<1>4. n = l
  BY <1>1, <1>2, <1>3 DEF Follows
<1>5. kbd.clock \in Nat /\ kbd.clock > 1 /\ \A m \in Layer : kbd.stamp[m] < kbd.clock
  BY DEF Stamped, OrderInv, TypeOK, Keyboard
<1>6. kbd'.stamp[l] = kbd.clock
  BY <1>1, <1>3, <1>4 DEF Follows
<1>7. \A m \in Layer \ {l} : kbd'.stamp[m] < kbd'.stamp[l]
  BY <1>1, <1>2, <1>4, <1>5, <1>6 DEF Follows
<1>8. l \in stack
  BY <1>2, <1>3
<1>9. Occluding(kbd, c)' = {i \in stack : \A m \in stack :
         kbd'.stamp[m] < kbd'.stamp[i] \/ (kbd'.stamp[m] = kbd'.stamp[i] /\ m <= i)}
  BY DEF Occluding
<1>10. stack \subseteq Layer /\ \A i \in Layer : i \in Nat /\ i <= i
  BY LayerAssumption DEF Layer
<1> HIDE DEF stack
<1>11. ASSUME NEW i \in stack, i # l
       PROVE  ~(kbd'.stamp[l] < kbd'.stamp[i] \/ (kbd'.stamp[l] = kbd'.stamp[i] /\ l <= i))
  <2>1. kbd'.stamp[i] < kbd'.stamp[l] /\ kbd'.stamp[i] \in Nat /\ kbd'.stamp[l] \in Nat
    BY <1>2, <1>3, <1>7, <1>10, <1>11
  <2> QED
    BY <2>1
<1>12. \A m \in stack : kbd'.stamp[m] < kbd'.stamp[l] \/ (kbd'.stamp[m] = kbd'.stamp[l] /\ m <= l)
  BY <1>3, <1>7, <1>10
<1> QED
  BY <1>8, <1>9, <1>11, <1>12

\* Layers occlude in the order in which they are activated, whatever else is held,
\* latched, toggled or swapped, once get_time has been called: its first value, 1, is
\* also the activation time of a layout.
THEOREM OccludesCorrect ==
  ASSUME BootClock > 1
  PROVE  Spec => LatestOccludes
<1> DEFINE I == OrderInv /\ Stamped(kbd)
<1>1. Init => I
  BY OrderInit, StampedInit
<1>2. ASSUME I, [Next]_vars
      PROVE  I'
  <2>1. kbd \in Keyboard /\ kbd' \in Keyboard /\ Moves(kbd, kbd') /\ OrderInv'
    BY <1>2, StepLawful DEF OrderInv, TypeOK, Lawful
  <2> QED
    BY <1>2, <2>1, MovesStamped
<1>3. ASSUME I, [Next]_vars
      PROVE  [\A l \in Ordinary, c \in Code :
                Activated(l) /\ Binds(l, c)' /\ Composite(kbd, c)' = {}
                  => Occluding(kbd, c)' = {l}]_vars
  <2>1. kbd' \in Keyboard /\ Moves(kbd, kbd')
    BY <1>3, StepLawful DEF OrderInv, TypeOK, Lawful
  <2> QED
    BY <1>3, <2>1, MovesOcclude
<1> HIDE DEF I
<1> QED
  BY <1>1, <1>2, <1>3, PTL DEF Spec, LatestOccludes

-----------------------------------------------------------------------------
(* What a handler leaves of the cache and of the keys that are down.       *)

\* Nothing but modifiers goes down, and no macro starts to repeat.
Quiet(k, j) == j.down \cap Key \subseteq k.down \cap Key /\ (j.repeating => k.repeating)

\* The cached keys keep their descriptors, and all but c the layer they activated.
Marks(k, j, c) ==
  \A s \in Slot : /\ j.cache[s].code = k.cache[s].code
                  /\ j.cache[s].d = k.cache[s].d
                  /\ k.cache[s].code # c => j.cache[s] = k.cache[s]

\* A swap takes only the entry of a key that has activated a layer, and leaves it one
\* that holds a layer.
Undisturbed(k, j, c) ==
  \A s \in Slot : /\ j.cache[s].code = k.cache[s].code
                  /\ k.cache[s].code # c /\ (SwapFree \/ k.cache[s].layer = 0)
                       => j.cache[s] = k.cache[s]
                  /\ k.cache[s].code # c
                       => j.cache[s].d = k.cache[s].d \/ j.cache[s].d.op = "layer"

Still(k, j, c) == Quiet(k, j) /\ Marks(k, j, c)

LEMMA StillThen ==
  ASSUME NEW k, NEW i, NEW j, NEW c, Still(k, i, c), Still(i, j, c)
  PROVE  Still(k, j, c)
BY DEF Still, Quiet, Marks

LEMMA StillUndisturbed ==
  ASSUME NEW k, NEW j, NEW c, Still(k, j, c)
  PROVE  Undisturbed(k, j, c)
BY DEF Still, Marks, Undisturbed

LEMMA UndisturbedThen ==
  ASSUME NEW k, NEW i, NEW j, NEW c, Undisturbed(k, i, c), Undisturbed(i, j, c)
  PROVE  Undisturbed(k, j, c)
<1> SUFFICES ASSUME NEW s \in Slot
             PROVE  /\ j.cache[s].code = k.cache[s].code
                    /\ k.cache[s].code # c /\ (SwapFree \/ k.cache[s].layer = 0)
                         => j.cache[s] = k.cache[s]
                    /\ k.cache[s].code # c
                         => j.cache[s].d = k.cache[s].d \/ j.cache[s].d.op = "layer"
  BY DEF Undisturbed
<1>1. /\ i.cache[s].code = k.cache[s].code
      /\ k.cache[s].code # c /\ (SwapFree \/ k.cache[s].layer = 0)
           => i.cache[s] = k.cache[s]
      /\ k.cache[s].code # c
           => i.cache[s].d = k.cache[s].d \/ i.cache[s].d.op = "layer"
  BY DEF Undisturbed
<1>2. /\ j.cache[s].code = i.cache[s].code
      /\ i.cache[s].code # c /\ (SwapFree \/ i.cache[s].layer = 0)
           => j.cache[s] = i.cache[s]
      /\ i.cache[s].code # c
           => j.cache[s].d = i.cache[s].d \/ j.cache[s].d.op = "layer"
  BY DEF Undisturbed
<1> QED
  BY <1>1, <1>2

LEMMA SameStill ==
  ASSUME NEW k, NEW j, NEW c, j.cache = k.cache, j.down \cap Key \subseteq k.down \cap Key,
         j.repeating => k.repeating
  PROVE  Still(k, j, c)
BY DEF Still, Quiet, Marks

LEMMA ModsStill ==
  ASSUME NEW k \in Keyboard, NEW c, NEW excluded, NEW mods \in SUBSET Mod
  PROVE  Still(k, UpdateMods(k, excluded, mods), c)
<1> DEFINE a == ActiveMods(k, excluded, mods)
           j == UpdateMods(k, excluded, mods)
<1>1. a \subseteq Mod
  BY LayerAssumption DEF ActiveMods, Layer
<1>2. j.cache = k.cache /\ j.repeating = k.repeating /\ j.down = (k.down \ Mod) \cup a
  BY DEF UpdateMods, Keyboard
<1> HIDE DEF a, j
<1>3. j.down \cap Key \subseteq k.down \cap Key
  BY <1>1, <1>2, CodeAssumption
<1> QED
  BY <1>2, <1>3, SameStill DEF j

LEMMA MacroStill ==
  ASSUME NEW k \in Keyboard, NEW c, NEW keys
  PROVE  Still(k, ExecuteMacro(k, keys), c)
<1> DEFINE e == [k EXCEPT !.down = @ \ keys]
<1>1. e \in Keyboard /\ e.cache = k.cache /\ e.repeating = k.repeating /\ e.down = k.down \ keys
  BY DEF Keyboard
<1>2. ExecuteMacro(k, keys) = UpdateMods(e, {}, {})
  BY DEF ExecuteMacro
<1> HIDE DEF e
<1>3. Still(k, e, c)
  BY <1>1, SameStill
<1> QED
  BY <1>1, <1>2, <1>3, ModsStill, StillThen

LEMMA ActivateStill ==
  ASSUME NEW k \in Keyboard, NEW c, NEW l \in Layer
  PROVE  Still(k, ActivateLayer(k, c, l), c)
<1> DEFINE j == ActivateLayer(k, c, l)
<1>1. /\ j.cache = [s \in Slot |-> IF k.cache[s].code = c /\ c # NoCode
                                   THEN [k.cache[s] EXCEPT !.layer = l] ELSE k.cache[s]]
      /\ j.down = k.down /\ j.repeating = k.repeating
  BY DEF ActivateLayer, Keyboard
<1>2. \A s \in Slot : k.cache[s] \in Entry
  BY DEF Keyboard
<1> HIDE DEF j
<1> QED
  BY <1>1, <1>2 DEF Still, Quiet, Marks, Entry, j

LEMMA NobodyStill ==
  ASSUME NEW k \in Keyboard, NEW c, NEW l \in Layer
  PROVE  Still(k, ActivateLayer(k, NoCode, l), c) /\ Still(k, DeactivateLayer(k, l), c)
<1> DEFINE j == ActivateLayer(k, NoCode, l)
           i == DeactivateLayer(k, l)
<1>1. j.cache = [s \in Slot |-> k.cache[s]] /\ j.down = k.down /\ j.repeating = k.repeating
  BY DEF ActivateLayer, Keyboard
<1>2. j.cache = k.cache
  BY <1>1 DEF Keyboard
<1>3. i.cache = k.cache /\ i.down = k.down /\ i.repeating = k.repeating
  BY DEF DeactivateLayer, Keyboard
<1> HIDE DEF i, j
<1> QED
  BY <1>1, <1>2, <1>3, SameStill DEF i, j

LEMMA ClearStill ==
  ASSUME NEW k \in Keyboard, NEW c, NEW l \in Layer
  PROVE  /\ Still(k, ClearOneshot(k), c) /\ Still(k, Clear(k), c)
         /\ Still(k, SetLayout(k, l), c)
<1> DEFINE i == ClearOneshot(k)
           j == Clear(k)
           m == SetLayout(k, l)
<1>1. i.cache = k.cache /\ i.down = k.down /\ i.repeating = k.repeating
  BY DEF ClearOneshot, Keyboard
<1>2. j.cache = k.cache /\ j.down = {} /\ j.repeating = FALSE
  BY DEF Clear, DropToggles, ClearOneshot, Keyboard
<1>3. m.cache = k.cache /\ m.down = {} /\ m.repeating = FALSE
  BY DEF SetLayout, Clear, DropToggles, ClearOneshot, Keyboard
<1> HIDE DEF i, j, m
<1> QED
  BY <1>1, <1>2, <1>3, SameStill DEF i, j, m

LEMMA LayerStill ==
  ASSUME NEW k \in Keyboard, NEW c, NEW l \in Layer
  PROVE  Still(k, LayerDown(k, c, l), c) /\ Still(k, LayerUp(k, l), c)
<1>1. ActivateLayer(k, c, l) \in Keyboard /\ DeactivateLayer(k, l) \in Keyboard
  BY ActivateLayerType, DeactivateLayerType
<1> QED
  BY <1>1, ActivateStill, NobodyStill, ModsStill, StillThen DEF LayerDown, LayerUp

LEMMA OneshotStill ==
  ASSUME NEW k \in Keyboard, NEW c, NEW d \in Descriptor, NEW dl \in Layer
  PROVE  Still(k, OneshotDown(k, c, d, dl), c) /\ Still(k, OneshotUp(k, d), c)
<1> DEFINE a == ActivateLayer(k, c, d.layer)
           u == UpdateMods(a, Excluding(dl), {})
           j == OneshotDown(k, c, d, dl)
           i == OneshotUp(k, d)
<1>1. d.layer \in Layer
  BY DEF Descriptor
<1>2. a \in Keyboard /\ Still(k, a, c)
  BY <1>1, ActivateLayerType, ActivateStill
<1> HIDE DEF a
<1>3. u \in Keyboard /\ Still(k, u, c)
  BY <1>2, UpdateModsType, ModsStill, StillThen
<1>4. j = [u EXCEPT !.latch = TRUE]
  BY DEF OneshotDown, a
<1> HIDE DEF u
<1>5. j.cache = u.cache /\ j.down = u.down /\ j.repeating = u.repeating
  BY <1>3, <1>4 DEF Keyboard
<1> HIDE DEF j
<1>6. Still(k, j, c)
  BY <1>3, <1>5, SameStill, StillThen
<1>7. CASE k.latch
  <2>1. i.cache = k.cache /\ i.down = k.down /\ i.repeating = k.repeating
    BY <1>7 DEF OneshotUp, Keyboard
  <2> HIDE DEF i
  <2>2. Still(k, i, c)
    BY <2>1, SameStill
  <2> QED
    BY <1>6, <2>2 DEF i, j
<1>8. CASE ~k.latch
  <2>1. i = LayerUp(k, d.layer)
    BY <1>8 DEF OneshotUp
  <2> QED
    BY <1>1, <1>6, <2>1, LayerStill DEF i, j
<1> QED
  BY <1>7, <1>8

LEMMA ToggleStill ==
  ASSUME NEW k \in Keyboard, NEW c, NEW d \in Descriptor
  PROVE  Still(k, ToggleDown(k, c, d), c)
<1> DEFINE f == [k EXCEPT !.toggled[d.layer] = ~@]
           m == IF f.toggled[d.layer] THEN ActivateLayer(f, c, d.layer)
                                      ELSE DeactivateLayer(f, d.layer)
           u == UpdateMods(m, {}, {})
<1>1. d.layer \in Layer
  BY DEF Descriptor
<1>2. f \in Keyboard /\ f.cache = k.cache /\ f.down = k.down /\ f.repeating = k.repeating
  BY <1>1 DEF Keyboard
<1>3. ToggleDown(k, c, d) = ClearOneshot(u)
  BY DEF ToggleDown
<1> HIDE DEF f
<1>4. Still(k, f, c)
  BY <1>2, SameStill
<1>5. m \in Keyboard /\ Still(f, m, c)
  BY <1>1, <1>2, ActivateStill, NobodyStill, ActivateLayerType, DeactivateLayerType
<1> HIDE DEF m
<1>6. u \in Keyboard /\ Still(m, u, c)
  BY <1>5, UpdateModsType, ModsStill
<1> HIDE DEF u
<1>7. Still(u, ClearOneshot(u), c)
  BY <1>1, <1>6, ClearStill
<1> QED
  BY <1>3, <1>4, <1>5, <1>6, <1>7, StillThen

LEMMA MacroDownStill ==
  ASSUME NEW k \in Keyboard, NEW c, NEW d \in Descriptor
  PROVE  /\ Marks(k, MacroDown(k, d), c)
         /\ MacroDown(k, d).down \cap Key \subseteq k.down \cap Key
         /\ MacroDown(k, d).repeat = d
         /\ Still(k, CommandDown(k), c)
<1> DEFINE o == ClearOneshot(k)
           e == ExecuteMacro(o, d.macro)
           j == MacroDown(k, d)
<1>1. 0 \in Layer
  BY LayerAssumption DEF Layer
<1>2. o \in Keyboard /\ Still(k, o, c)
  BY <1>1, ClearStill, ClearOneshotType
<1>3. j = [e EXCEPT !.repeating = TRUE, !.macro = d.macro, !.repeat = d]
  BY DEF MacroDown
<1>4. CommandDown(k) = UpdateMods(o, {}, {})
  BY DEF CommandDown
<1> HIDE DEF o
<1>5. Still(k, CommandDown(k), c)
  BY <1>2, <1>4, ModsStill, StillThen
<1>6. e \in Keyboard /\ Still(k, e, c)
  BY <1>2, ExecuteMacroType, MacroStill, StillThen
<1> HIDE DEF e
<1>7. j.cache = e.cache /\ j.down = e.down /\ j.repeat = d
  BY <1>3, <1>6 DEF Keyboard
<1> HIDE DEF j
<1> QED
  BY <1>5, <1>6, <1>7 DEF Still, Quiet, Marks, j

LEMMA KeySequenceStill ==
  ASSUME NEW k \in Keyboard, NEW c, NEW d \in Descriptor, NEW dl \in Layer
  PROVE  /\ KeySequenceDown(k, d, dl).down \cap Key \subseteq (k.down \cap Key) \cup {d.key}
         /\ KeySequenceDown(k, d, dl).repeating = k.repeating
         /\ KeySequenceDown(k, d, dl).cache = k.cache
         /\ KeySequenceDown(k, d, dl).repeat.op = d.op
         /\ KeySequenceDown(k, d, dl).repeat.key = d.key
         /\ Still(k, KeySequenceUp(k, d), c)
         /\ KeySequenceUp(k, d).down \cap Key \subseteq (k.down \cap Key) \ {d.key}
<1> DEFINE mods == ActiveMods(k, Excluding(dl), d.mods)
           j == KeySequenceDown(k, d, dl)
           e == [k EXCEPT !.down = @ \ {d.key}]
           i == KeySequenceUp(k, d)
<1>1. mods \subseteq Mod
  BY LayerAssumption DEF ActiveMods, Layer, Descriptor
<1>2. /\ j.down = ((k.down \ {d.key}) \ Mod) \cup mods \cup ({d.key} \cap Out)
      /\ j.repeating = k.repeating /\ j.cache = k.cache /\ j.repeat = [d EXCEPT !.mods = mods]
  BY DEF KeySequenceDown, ClearOneshot, Keyboard
<1>3. j.repeat.op = d.op /\ j.repeat.key = d.key
  BY <1>2 DEF Descriptor
<1>4. e \in Keyboard /\ e.cache = k.cache /\ e.repeating = k.repeating /\ e.down = k.down \ {d.key}
  BY DEF Keyboard
<1>5. i = UpdateMods(e, {}, {})
  BY DEF KeySequenceUp
<1> HIDE DEF e, i, j, mods
<1>6. Still(k, e, c) /\ Still(e, i, c)
  BY <1>4, <1>5, SameStill, ModsStill
<1>7. i.down \cap Key \subseteq (k.down \cap Key) \ {d.key}
  BY <1>4, <1>6 DEF Still, Quiet
<1>8. j.down \cap Key \subseteq (k.down \cap Key) \cup {d.key}
  BY <1>1, <1>2, CodeAssumption
<1> QED
  BY <1>2, <1>3, <1>6, <1>7, <1>8, StillThen DEF i, j

LEMMA SwapToggleStill ==
  ASSUME NEW k \in Keyboard, NEW c, NEW dl \in Layer, NEW l \in Layer
  PROVE  Still(k, SwapToggle(k, dl, l), c)
<1> DEFINE away     == DeactivateLayer(k, dl)
           toggled1 == [away.toggled EXCEPT ![dl] = FALSE]
           left     == [away EXCEPT !.toggled = toggled1]
           moved    == ActivateLayer(left, NoCode, l)
           toggled2 == [moved.toggled EXCEPT ![l] = TRUE]
           swapped  == [moved EXCEPT !.toggled = toggled2]
<1>1. away \in Keyboard /\ Still(k, away, c)
  BY DeactivateLayerType, NobodyStill
<1>2. SwapToggle(k, dl, l) = UpdateMods(swapped, {}, {})
  BY DEF SwapToggle
<1> HIDE DEF away
<1>3. toggled1 \in [Layer -> BOOLEAN]
  BY <1>1 DEF Keyboard
<1> HIDE DEF toggled1
<1>4. left \in Keyboard /\ left.cache = away.cache /\ left.down = away.down
      /\ left.repeating = away.repeating
  BY <1>1, <1>3 DEF Keyboard
<1> HIDE DEF left
<1>5. Still(k, left, c)
  BY <1>1, <1>4, SameStill, StillThen
<1>6. moved \in Keyboard /\ Still(k, moved, c)
  BY <1>4, <1>5, ActivateLayerType, NobodyStill, StillThen
<1> HIDE DEF moved
<1>7. toggled2 \in [Layer -> BOOLEAN]
  BY <1>6 DEF Keyboard
<1> HIDE DEF toggled2
<1>8. swapped \in Keyboard /\ swapped.cache = moved.cache /\ swapped.down = moved.down
      /\ swapped.repeating = moved.repeating
  BY <1>6, <1>7 DEF Keyboard
<1> HIDE DEF swapped
<1>9. Still(k, swapped, c)
  BY <1>6, <1>8, SameStill, StillThen
<1> QED
  BY <1>2, <1>8, <1>9, ModsStill, StillThen

LEMMA SwapOneshotStill ==
  ASSUME NEW k \in Keyboard, NEW c, NEW dl \in Layer, NEW l \in Layer, k.depth[dl] > 0
  PROVE  Still(k, SwapOneshot(k, dl, l), c)
<1> DEFINE away    == DeactivateLayer(k, dl)
           depth1  == [away.depth EXCEPT ![dl] = @ - 1]
           left    == [away EXCEPT !.depth = depth1]
           moved   == ActivateLayer(left, NoCode, l)
           depth2  == [moved.depth EXCEPT ![l] = Increment(@)]
           swapped == [moved EXCEPT !.depth = depth2]
<1>1. away \in Keyboard /\ Still(k, away, c) /\ away.depth = k.depth
  BY DeactivateLayerType, NobodyStill DEF DeactivateLayer, Keyboard
<1>2. SwapOneshot(k, dl, l) = UpdateMods(swapped, {}, {})
  BY DEF SwapOneshot
<1> HIDE DEF away
<1>3. depth1 \in [Layer -> 0 .. Width - 1]
  BY <1>1, BoundAssumption DEF Keyboard
<1> HIDE DEF depth1
<1>4. left \in Keyboard /\ left.cache = away.cache /\ left.down = away.down
      /\ left.repeating = away.repeating
  BY <1>1, <1>3 DEF Keyboard
<1> HIDE DEF left
<1>5. Still(k, left, c)
  BY <1>1, <1>4, SameStill, StillThen
<1>6. moved \in Keyboard /\ Still(k, moved, c)
  BY <1>4, <1>5, ActivateLayerType, NobodyStill, StillThen
<1> HIDE DEF moved
<1>7. depth2 \in [Layer -> 0 .. Width - 1]
  BY <1>6, BoundAssumption DEF Keyboard, Increment
<1> HIDE DEF depth2
<1>8. swapped \in Keyboard /\ swapped.cache = moved.cache /\ swapped.down = moved.down
      /\ swapped.repeating = moved.repeating
  BY <1>6, <1>7 DEF Keyboard
<1> HIDE DEF swapped
<1>9. Still(k, swapped, c)
  BY <1>6, <1>8, SameStill, StillThen
<1> QED
  BY <1>2, <1>8, <1>9, ModsStill, StillThen

\* The key that the swap makes hold another layer has activated one, and is no key
\* sequence any more.
Taken(k, j) ==
  \A s \in Slot : /\ j.cache[s].code = k.cache[s].code
                  /\ k.cache[s].layer = 0 => j.cache[s] = k.cache[s]
                  /\ j.cache[s].d = k.cache[s].d \/ j.cache[s].d.op = "layer"

LEMMA SwapHeldStill ==
  ASSUME NEW k \in Keyboard, NEW dl \in Layer \ {0}, NEW l \in Layer
  PROVE  Quiet(k, SwapHeld(k, dl, l)) /\ Taken(k, SwapHeld(k, dl, l))
<1> DEFINE first == {s \in Slot : ActivatedBy(k, s, dl)
                                  /\ \A t \in Slot : t < s => ~ActivatedBy(k, t, dl)}
           entry(s) == [k.cache[s] EXCEPT !.layer = l,
                                          !.d = [@ EXCEPT !.op = "layer", !.layer = l]]
           held == [s \in Slot |-> IF s \in first THEN entry(s) ELSE k.cache[s]]
           away == DeactivateLayer(k, dl)
           left == [away EXCEPT !.cache = held]
           moved == ActivateLayer(left, NoCode, l)
           j     == UpdateMods(moved, {}, {})
<1>1. \A s \in Slot : k.cache[s] \in Entry
  BY DEF Keyboard
<1>2. ASSUME NEW s \in Slot
      PROVE  /\ held[s] \in Entry /\ held[s].code = k.cache[s].code
             /\ k.cache[s].layer = 0 => held[s] = k.cache[s]
             /\ held[s].d = k.cache[s].d \/ held[s].d.op = "layer"
  <2>1. [k.cache[s].d EXCEPT !.op = "layer", !.layer = l] \in Descriptor
    BY <1>1 DEF Entry, Descriptor, Ops, SimpleOps
  <2>2. entry(s) \in Entry /\ entry(s).code = k.cache[s].code /\ entry(s).d.op = "layer"
    BY <1>1, <2>1 DEF Entry, Descriptor
  <2>3. s \in first => k.cache[s].layer = dl
    BY DEF ActivatedBy
  <2> QED
    BY <1>1, <2>2, <2>3
<1>3. held \in [Slot -> Entry]
  BY <1>2
<1>4. away \in Keyboard /\ away.down = k.down /\ away.repeating = k.repeating
  BY DeactivateLayerType DEF DeactivateLayer, Keyboard
<1>5. SwapHeld(k, dl, l) = j
  BY DEF SwapHeld
<1> HIDE DEF held, away
<1>6. left \in Keyboard /\ left.cache = held /\ left.down = k.down /\ left.repeating = k.repeating
  BY <1>3, <1>4 DEF Keyboard
<1> HIDE DEF left
<1>7. moved \in Keyboard /\ moved.down = k.down /\ moved.repeating = k.repeating
      /\ moved.cache = held
  <2>1. moved \in Keyboard
    BY <1>6, ActivateLayerType
  <2>2. moved.cache = [s \in Slot |-> held[s]]
    BY <1>6 DEF ActivateLayer, Keyboard
  <2>3. moved.down = k.down /\ moved.repeating = k.repeating
    BY <1>6 DEF ActivateLayer, Keyboard
  <2> QED
    BY <1>3, <2>1, <2>2, <2>3
<1> HIDE DEF moved
<1>8. j.cache = held
  BY <1>7 DEF UpdateMods, Keyboard
<1>9. Quiet(moved, j)
  BY <1>7, ModsStill DEF Still
<1> HIDE DEF j
<1> QED
  BY <1>2, <1>5, <1>7, <1>8, <1>9 DEF Quiet, Taken

LEMMA SwapStill ==
  ASSUME ~SwapFree, NEW k \in Keyboard, NEW c, NEW d \in Descriptor, NEW dl \in Layer
  PROVE  Quiet(k, SwapDown(k, d, dl)) /\ Undisturbed(k, SwapDown(k, d, dl), c)
<1> DEFINE j == SwapDown(k, d, dl)
<1>1. d.layer \in Layer
  BY DEF Descriptor
<1>2. k.depth[dl] \in Nat
  BY BoundAssumption DEF Keyboard
<1>3. CASE Still(k, j, c)
  BY <1>3, StillUndisturbed DEF Still
<1>4. CASE j = SwapHeld(k, dl, d.layer) /\ dl # 0
  <2>1. Quiet(k, j) /\ Taken(k, j)
    BY <1>1, <1>4, SwapHeldStill
  <2> QED
    BY <2>1 DEF Taken, Undisturbed
<1>5. Still(k, k, c)
  BY SameStill
<1> QED
  BY <1>1, <1>2, <1>3, <1>4, <1>5, SwapToggleStill, SwapOneshotStill DEF SwapDown

-----------------------------------------------------------------------------
(* Presses and releases: the keys they send, the macros they start, and    *)
(* the cached keys they leave alone.                                       *)

Unswapped(d) == SwapFree => d.op \notin {"swap", "swapm"}

MacroOps == {"macro", "macro2"}

LEMMA SimpleDownStill ==
  ASSUME NEW k \in Keyboard, NEW c, NEW d \in Descriptor, NEW dl \in Layer,
         d.op \notin {"keysequence", "macro", "macro2", "swap", "swapm"}
  PROVE  Still(k, SimpleDown(k, c, d, dl), c)
<1> DEFINE m == ExecuteMacro(k, d.macro)
           j == SimpleDown(k, c, d, dl)
<1>1. d.layer \in Layer
  BY DEF Descriptor
<1>2. m \in Keyboard /\ Still(k, m, c)
  BY ExecuteMacroType, MacroStill
<1> HIDE DEF m
<1>3. CASE d.op \in {"layer", "oneshot", "toggle", "setlayout", "clear", "command"}
  BY <1>1, <1>3, LayerStill, OneshotStill, ToggleStill, ClearStill, MacroDownStill DEF SimpleDown
<1>4. CASE d.op \in {"layerm", "oneshotm", "togglem"}
  <2>1. j \in {LayerDown(m, c, d.layer), OneshotDown(m, c, d, dl), ToggleDown(m, c, d)}
    BY <1>4 DEF SimpleDown, m
  <2>2. Still(m, j, c)
    BY <1>1, <1>2, <2>1, LayerStill, OneshotStill, ToggleStill
  <2> QED
    BY <1>2, <2>2, StillThen
<1>5. CASE d.op = "clearm"
  <2> DEFINE i == Clear(k)
  <2>1. i \in Keyboard /\ Still(k, i, c) /\ j = ExecuteMacro(i, d.macro)
    BY <1>1, <1>5, ClearStill, ClearType DEF SimpleDown
  <2> HIDE DEF i, j
  <2> QED
    BY <2>1, MacroStill, StillThen DEF j
<1>6. CASE d.op \in {"none"} \cup NestedOps \cup {"overload", "overloadi"}
  <2>1. j = k
    BY <1>6 DEF SimpleDown, NestedOps
  <2> HIDE DEF j
  <2> QED
    BY <2>1, SameStill DEF j
<1> QED
  BY <1>3, <1>4, <1>5, <1>6 DEF Descriptor, Ops, SimpleOps

LEMMA SimpleDownSwap ==
  ASSUME ~SwapFree, NEW k \in Keyboard, NEW c, NEW d \in Descriptor, NEW dl \in Layer,
         d.op \in {"swap", "swapm"}, NEW e
  PROVE  Quiet(k, SimpleDown(k, c, d, dl)) /\ Undisturbed(k, SimpleDown(k, c, d, dl), e)
<1> DEFINE i == SwapDown(k, d, dl)
           j == SimpleDown(k, c, d, dl)
<1>1. i \in Keyboard /\ Quiet(k, i) /\ Undisturbed(k, i, e)
  BY SwapStill, SwapDownType
<1>2. j \in {i, ExecuteMacro(i, d.macro)}
  BY DEF SimpleDown
<1> HIDE DEF i, j
<1>3. Still(i, j, e)
  BY <1>1, <1>2, MacroStill, SameStill
<1>4. Undisturbed(i, j, e) /\ Quiet(i, j)
  BY <1>3, StillUndisturbed DEF Still
<1> QED
  BY <1>1, <1>4, UndisturbedThen DEF Quiet, j

\* What the press of a descriptor sends and starts, and what it leaves alone.
Sends(k, j, d) ==
  /\ \A o \in j.down \cap Key : o \in k.down \/ Emits(d, o)
  /\ j.repeating => k.repeating \/ d.op \in MacroOps

LEMMA SimpleDownSends ==
  ASSUME NEW k \in Keyboard, NEW c, NEW d \in Descriptor, NEW dl \in Layer, Unswapped(d)
  PROVE  /\ Sends(k, SimpleDown(k, c, d, dl), d)
         /\ Undisturbed(k, SimpleDown(k, c, d, dl), c)
         /\ d.op = "keysequence" =>
              /\ SimpleDown(k, c, d, dl).cache = k.cache
              /\ SimpleDown(k, c, d, dl).repeat.op = d.op
              /\ SimpleDown(k, c, d, dl).repeat.key = d.key
         /\ d.op \in MacroOps => SimpleDown(k, c, d, dl).repeat = d
<1> DEFINE j == SimpleDown(k, c, d, dl)
<1>1. CASE d.op = "keysequence"
  <2>1. j = KeySequenceDown(k, d, dl)
    BY <1>1 DEF SimpleDown
  <2> HIDE DEF j
  <2>2. /\ j.down \cap Key \subseteq (k.down \cap Key) \cup {d.key}
        /\ j.repeating = k.repeating /\ j.cache = k.cache
        /\ j.repeat.op = d.op /\ j.repeat.key = d.key
    BY <2>1, KeySequenceStill
  <2> QED
    BY <1>1, <2>2 DEF Sends, Emits, Undisturbed, MacroOps, j
<1>2. CASE d.op \in MacroOps
  <2>1. j = MacroDown(k, d)
    BY <1>2 DEF SimpleDown, MacroOps
  <2> HIDE DEF j
  <2>2. Marks(k, j, c) /\ j.down \cap Key \subseteq k.down \cap Key /\ j.repeat = d
    BY <2>1, MacroDownStill
  <2> QED
    BY <1>2, <2>2 DEF Sends, Undisturbed, Marks, MacroOps, j
<1>3. CASE d.op \in {"swap", "swapm"}
  <2>1. Quiet(k, j) /\ Undisturbed(k, j, c)
    BY <1>3, SimpleDownSwap DEF Unswapped
  <2> QED
    BY <1>3, <2>1 DEF Sends, Quiet, MacroOps
<1>4. CASE d.op \notin {"keysequence", "macro", "macro2", "swap", "swapm"}
  <2>1. Still(k, j, c)
    BY <1>4, SimpleDownStill
  <2> HIDE DEF j
  <2> QED
    BY <1>4, <2>1, StillUndisturbed DEF Sends, Still, Quiet, MacroOps, j
<1> QED
  BY <1>1, <1>2, <1>3, <1>4 DEF MacroOps

\* The entry of the key itself, which has not yet activated a layer, keeps its
\* descriptor, and a key sequence activates none.
LEMMA SimpleDownSlot ==
  ASSUME NEW k \in Keyboard, NEW c, c # NoCode, NEW d \in Descriptor, NEW dl \in Layer, Unswapped(d),
         NEW s \in Slot, k.cache[s].code = c, k.cache[s].layer = 0
  PROVE  /\ SimpleDown(k, c, d, dl).cache[s].code = c
         /\ SimpleDown(k, c, d, dl).cache[s].d = k.cache[s].d
         /\ d.op = "keysequence" => SimpleDown(k, c, d, dl).cache[s].layer = 0
<1> DEFINE j == SimpleDown(k, c, d, dl)
<1>1. CASE d.op = "keysequence"
  BY <1>1, SimpleDownSends
<1>2. CASE d.op \in MacroOps
  <2>1. j = MacroDown(k, d)
    BY <1>2 DEF SimpleDown, MacroOps
  <2>2. Marks(k, j, c)
    BY <2>1, MacroDownStill
  <2> QED
    BY <1>2, <2>2 DEF Marks, MacroOps
<1>3. CASE d.op \in {"swap", "swapm"}
  <2>1. Undisturbed(k, j, NoCode)
    BY <1>3, SimpleDownSwap DEF Unswapped
  <2> QED
    BY <1>3, <2>1 DEF Undisturbed
<1>4. CASE d.op \notin {"keysequence", "macro", "macro2", "swap", "swapm"}
  <2>1. Still(k, j, c)
    BY <1>4, SimpleDownStill
  <2> QED
    BY <1>4, <2>1 DEF Still, Marks
<1> QED
  BY <1>1, <1>2, <1>3, <1>4 DEF MacroOps

LEMMA SimpleUpStill ==
  ASSUME NEW k \in Keyboard, NEW c, NEW d \in Descriptor
  PROVE  /\ Still(k, SimpleUp(k, d), c)
         /\ d.op = "keysequence" => d.key \notin SimpleUp(k, d).down \cap Key
<1> DEFINE j == SimpleUp(k, d)
<1>1. d.layer \in Layer /\ 0 \in Layer
  BY LayerAssumption DEF Descriptor, Layer
<1>2. CASE d.op = "keysequence"
  <2>1. j = KeySequenceUp(k, d)
    BY <1>2 DEF SimpleUp
  <2> HIDE DEF j
  <2> QED
    BY <1>1, <1>2, <2>1, KeySequenceStill DEF j
<1>3. CASE d.op # "keysequence"
  <2>1. Still(k, k, c)
    BY SameStill
  <2> QED
    BY <1>1, <1>3, <2>1, LayerStill, OneshotStill, MacroStill DEF SimpleUp
<1> QED
  BY <1>2, <1>3

LEMMA NestedUpStill ==
  ASSUME config \in Configs, NEW k \in Keyboard, NEW c, NEW d \in Descriptor
  PROVE  Still(k, NestedUp(k, d), c)
<1> DEFINE a == config.descriptors[d.act]
           i == SimpleUp(k, a)
<1>1. a \in Descriptor /\ 0 \in Layer
  BY ConfigDescriptors, LayerAssumption DEF Descriptor, Layer
<1>2. i \in Keyboard /\ Still(k, i, c)
  BY <1>1, SimpleUpStill, SimpleUpType
<1>3. NestedUp(k, d) = IF d.op = "oneshotk" THEN OneshotUp(i, d) ELSE SimpleUp(k, d)
  BY DEF NestedUp
<1> HIDE DEF i
<1>4. Still(k, OneshotUp(i, d), c)
  BY <1>1, <1>2, OneshotStill, StillThen
<1> QED
  BY <1>3, <1>4, SimpleUpStill

LEMMA NestedUpLifts ==
  ASSUME config \in Configs, NEW k \in Keyboard, NEW d \in Descriptor, NEW o \in Key, Emits(d, o),
         d.op = "oneshotk" => config.descriptors[d.act].op = "keysequence"
  PROVE  o \notin NestedUp(k, d).down
<1> DEFINE a == config.descriptors[d.act]
           i == SimpleUp(k, a)
           j == NestedUp(k, d)
<1>1. a \in Descriptor /\ 0 \in Layer
  BY ConfigDescriptors, LayerAssumption DEF Descriptor, Layer
<1>2. CASE d.op = "oneshotk"
  <2>1. a.op = "keysequence" /\ j = OneshotUp(i, d) /\ a.key = o
    BY <1>2 DEF NestedUp, Emits
  <2> HIDE DEF a
  <2>2. i \in Keyboard /\ o \notin i.down \cap Key
    BY <1>1, <2>1, SimpleUpStill, SimpleUpType
  <2> HIDE DEF i, j
  <2>3. Still(i, j, NoCode)
    BY <1>1, <2>1, <2>2, OneshotStill
  <2> QED
    BY <2>2, <2>3 DEF j, Still, Quiet
<1>3. CASE d.op # "oneshotk"
  BY <1>3, SimpleUpStill DEF Emits, NestedUp
<1> QED
  BY <1>2, <1>3

\* repeat is bound to a key of its own: no overload nests it.
RepeatBare ==
  \A cf, cg \in Configs : \A d \in BoundBy(cf) :
    /\ d.op = "overload" => cg.descriptors[d.act].op # "repeat"
    /\ d.op = "overloadi" => /\ cf.descriptors[d.act].op # "repeat"
                             /\ cf.descriptors[d.alt].op # "repeat"

LEMMA BoundUnswapped ==
  ASSUME config \in Configs, NEW d \in BoundBy(config)
  PROVE  d \in Descriptor /\ Unswapped(d) /\ WellFormed(config, d)
<1>1. config \in Config
  BY ConfigAssumption
<1> QED
  BY <1>1, ConfigWellFormed DEF Config, BoundBy, Unswapped, SwapFree

LEMMA NestedBound ==
  ASSUME config \in Configs, NEW d \in Descriptor
  PROVE  /\ config.descriptors[d.act] \in BoundBy(config)
         /\ config.descriptors[d.alt] \in BoundBy(config)
BY DEF BoundBy, Descriptor

LEMMA NestedDownSends ==
  ASSUME config \in Configs, NEW k \in Keyboard, NEW c, NEW d \in Descriptor, NEW dl \in Layer,
         Unswapped(d), WellFormed(config, d), d.op # "repeat"
  PROVE  /\ Sends(k, NestedDown(k, c, d, dl), d)
         /\ Undisturbed(k, NestedDown(k, c, d, dl), c)
<1> DEFINE a == config.descriptors[d.act]
           i == SimpleDown(k, c, a, dl)
           j == NestedDown(k, c, d, dl)
<1>1. CASE d.op = "oneshotk"
  <2>1. a \in Descriptor /\ a.op = "keysequence" /\ Unswapped(a)
    BY <1>1, ConfigDescriptors DEF WellFormed, Descriptor, Unswapped
  <2>2. j = OneshotDown(i, c, d, dl) /\ \A o : Emits(d, o) <=> a.key = o
    BY <1>1 DEF NestedDown, Emits
  <2> HIDE DEF a
  <2>3. i \in Keyboard /\ Sends(k, i, a) /\ Undisturbed(k, i, c)
    BY <2>1, SimpleDownType, SimpleDownSends
  <2>4. \A o : Emits(a, o) <=> a.key = o
    BY <2>1 DEF Emits
  <2> HIDE DEF i, j
  <2>5. Still(i, j, c)
    BY <2>2, <2>3, OneshotStill
  <2>6. Undisturbed(k, j, c)
    BY <2>3, <2>5, StillUndisturbed, UndisturbedThen
  <2>7. Sends(k, j, d)
    BY <2>1, <2>2, <2>3, <2>4, <2>5 DEF Sends, Still, Quiet, MacroOps
  <2> QED
    BY <2>6, <2>7 DEF j
<1>2. CASE d.op # "oneshotk"
  BY <1>2, SimpleDownSends DEF NestedDown
<1> QED
  BY <1>1, <1>2

LEMMA NestedDownSlot ==
  ASSUME config \in Configs, NEW k \in Keyboard, NEW c, c # NoCode, NEW d \in Descriptor,
         NEW dl \in Layer, Unswapped(d), WellFormed(config, d), d.op # "repeat",
         NEW s \in Slot, k.cache[s].code = c, k.cache[s].layer = 0
  PROVE  /\ NestedDown(k, c, d, dl).cache[s].code = c
         /\ NestedDown(k, c, d, dl).cache[s].d = k.cache[s].d
         /\ d.op = "keysequence" => NestedDown(k, c, d, dl).cache[s].layer = 0
<1> DEFINE a == config.descriptors[d.act]
           i == SimpleDown(k, c, a, dl)
           j == NestedDown(k, c, d, dl)
<1>1. CASE d.op = "oneshotk"
  <2>1. a \in Descriptor /\ a.op = "keysequence" /\ Unswapped(a)
    BY <1>1, ConfigDescriptors DEF WellFormed, Descriptor, Unswapped
  <2>2. j = OneshotDown(i, c, d, dl)
    BY <1>1 DEF NestedDown
  <2> HIDE DEF a
  <2>3. i \in Keyboard /\ i.cache = k.cache
    BY <2>1, SimpleDownType, SimpleDownSends
  <2> HIDE DEF i, j
  <2>4. Still(i, j, c)
    BY <2>2, <2>3, OneshotStill
  <2> QED
    BY <1>1, <2>3, <2>4 DEF Still, Marks, j
<1>2. CASE d.op # "oneshotk"
  <2>1. j = SimpleDown(k, c, d, dl)
    BY <1>2 DEF NestedDown
  <2> HIDE DEF j
  <2> QED
    BY <2>1, SimpleDownSlot DEF j
<1> QED
  BY <1>1, <1>2

\* What the press of a key leaves in its slot s: the descriptor it is released as.
Pressed(k, j, c, s) ==
  /\ Undisturbed(k, j, c) /\ Sends(k, j, j.cache[s].d)
  /\ j.cache[s].code = c
  /\ j.cache[s].d.op = "keysequence" => j.cache[s].layer = 0
  /\ j.cache[s].d \in BoundBy(config) \/ j.cache[s].d.op \in {"none", "keysequence", "macro", "macro2"}

LEMMA RebindSlot ==
  ASSUME NEW k \in Keyboard, NEW c, NEW d, NEW s \in Slot, k.cache[s].code = c
  PROVE  /\ Rebind(k, c, d).cache[s].d = d /\ Rebind(k, c, d).cache[s].code = c
         /\ Rebind(k, c, d).cache[s].layer = k.cache[s].layer
         /\ Rebind(k, c, d).down = k.down /\ Rebind(k, c, d).repeating = k.repeating
         /\ Undisturbed(k, Rebind(k, c, d), c)
<1> DEFINE j == Rebind(k, c, d)
<1>1. /\ j.cache = [t \in Slot |-> IF k.cache[t].code = c THEN [k.cache[t] EXCEPT !.d = d]
                                                         ELSE k.cache[t]]
      /\ j.down = k.down /\ j.repeating = k.repeating
  BY DEF Rebind, Keyboard
<1>2. \A t \in Slot : k.cache[t] \in Entry
  BY DEF Keyboard
<1> HIDE DEF j
<1>3. \A t \in Slot : /\ j.cache[t].code = k.cache[t].code
                      /\ k.cache[t].code # c => j.cache[t] = k.cache[t]
  BY <1>1, <1>2 DEF Entry
<1>4. j.cache[s].d = d /\ j.cache[s].code = c /\ j.cache[s].layer = k.cache[s].layer
  BY <1>1, <1>2 DEF Entry
<1> QED
  BY <1>1, <1>3, <1>4 DEF j, Undisturbed

LEMMA RepeatPressed ==
  ASSUME NEW k \in Keyboard, NEW c, c # NoCode, NEW dl \in Layer, Repeatable(k),
         NEW s \in Slot, k.cache[s].code = c, k.cache[s].layer = 0
  PROVE  Pressed(k, RepeatDown(k, c, dl), c, s)
<1> DEFINE r == k.repeat
           i == SimpleDown(k, c, r, dl)
           e == i.repeat
           j == Rebind(i, c, e)
<1>1. r \in Descriptor /\ r.op \in {"none", "keysequence", "macro", "macro2"} /\ Unswapped(r)
  BY DEF Keyboard, Repeatable, Unswapped
<1>2. RepeatDown(k, c, dl) = j
  BY DEF RepeatDown
<1> HIDE DEF r
<1>3. i \in Keyboard /\ Sends(k, i, r) /\ Undisturbed(k, i, c)
  BY <1>1, SimpleDownType, SimpleDownSends
<1>4. /\ e.op = r.op
      /\ r.op = "keysequence" => e.key = r.key
  <2>1. r.op = "none" => i = k
    BY DEF SimpleDown
  <2> HIDE DEF i
  <2>2. r.op # "none" => e.op = r.op /\ (r.op = "keysequence" => e.key = r.key)
    BY <1>1, SimpleDownSends DEF MacroOps, i
  <2> QED
    BY <2>1, <2>2 DEF r
<1>5. Sends(k, i, e)
  BY <1>1, <1>3, <1>4 DEF Sends, Emits
<1>6. i.cache[s].code = c /\ (r.op = "keysequence" => i.cache[s].layer = 0)
  BY <1>1, SimpleDownSlot
<1> HIDE DEF i, e
<1>7. /\ j.cache[s].d = e /\ j.cache[s].code = c /\ j.cache[s].layer = i.cache[s].layer
      /\ j.down = i.down /\ j.repeating = i.repeating /\ Undisturbed(i, j, c)
  BY <1>3, <1>6, RebindSlot
<1> HIDE DEF j
<1>8. Undisturbed(k, j, c)
  BY <1>3, <1>7, UndisturbedThen
<1>9. Sends(k, j, e)
  BY <1>5, <1>7 DEF Sends
<1> QED
  BY <1>1, <1>2, <1>4, <1>6, <1>7, <1>8, <1>9 DEF Pressed

LEMMA OverloadDownSends ==
  ASSUME config \in Configs, NEW k \in Keyboard, NEW c, NEW d \in Descriptor, NEW dl \in Layer,
         Unswapped(d), WellFormed(config, d), d.op # "repeat"
  PROVE  /\ Sends(k, OverloadDown(k, c, d, dl), d)
         /\ Undisturbed(k, OverloadDown(k, c, d, dl), c)
<1>1. d.layer \in Layer
  BY DEF Descriptor
<1>2. Still(k, LayerDown(k, c, d.layer), c)
  BY <1>1, LayerStill
<1>3. Sends(k, LayerDown(k, c, d.layer), d) /\ Undisturbed(k, LayerDown(k, c, d.layer), c)
  BY <1>2, StillUndisturbed DEF Still, Quiet, Sends
<1> QED
  BY <1>3, NestedDownSends DEF OverloadDown

LEMMA OverloadDownSlot ==
  ASSUME config \in Configs, NEW k \in Keyboard, NEW c, c # NoCode, NEW d \in Descriptor,
         NEW dl \in Layer, Unswapped(d), WellFormed(config, d), d.op # "repeat",
         NEW s \in Slot, k.cache[s].code = c, k.cache[s].layer = 0
  PROVE  /\ OverloadDown(k, c, d, dl).cache[s].code = c
         /\ OverloadDown(k, c, d, dl).cache[s].d = k.cache[s].d
         /\ d.op = "keysequence" => OverloadDown(k, c, d, dl).cache[s].layer = 0
<1>1. d.layer \in Layer
  BY DEF Descriptor
<1>2. Still(k, LayerDown(k, c, d.layer), c)
  BY <1>1, LayerStill
<1> QED
  BY <1>2, NestedDownSlot DEF OverloadDown, Still, Marks

LEMMA PressPressed ==
  ASSUME config \in Configs, RepeatBare, NEW k \in Keyboard, Repeatable(k), NEW c, c # NoCode,
         NEW d, d \in BoundBy(config) \/ d.op = "keysequence", d \in Descriptor,
         NEW dl \in Layer, NEW idle,
         NEW s \in Slot, k.cache[s].code = c, k.cache[s].d = d, k.cache[s].layer = 0
  PROVE  Pressed(k, Press(k, c, d, dl, idle), c, s)
<1>1. Unswapped(d) /\ WellFormed(config, d)
  BY BoundUnswapped DEF Unswapped, WellFormed
<1>2. CASE d.op = "overloadi"
  <2> DEFINE a == config.descriptors[IF idle THEN d.alt ELSE d.act]
             i == OverloadDown(k, c, a, dl)
             j == Rebind(i, c, a)
  <2>1. a \in BoundBy(config)
    BY NestedBound
  <2>2. a.op # "repeat"
    BY <1>2 DEF RepeatBare
  <2>3. Press(k, c, d, dl, idle) = j
    BY <1>2 DEF Press
  <2>4. a \in Descriptor /\ Unswapped(a) /\ WellFormed(config, a)
    BY <2>1, BoundUnswapped
  <2> HIDE DEF a
  <2>5. i \in Keyboard /\ Sends(k, i, a) /\ Undisturbed(k, i, c)
    <3>1. a.layer \in Layer
      BY <2>4 DEF Descriptor
    <3> QED
      BY <2>2, <2>4, <3>1, OverloadDownSends, LayerDownUpType, NestedType DEF OverloadDown
  <2>6. i.cache[s].code = c /\ (a.op = "keysequence" => i.cache[s].layer = 0)
    BY <2>2, <2>4, OverloadDownSlot
  <2> HIDE DEF i
  <2>7. /\ j.cache[s].d = a /\ j.cache[s].code = c /\ j.cache[s].layer = i.cache[s].layer
        /\ j.down = i.down /\ j.repeating = i.repeating /\ Undisturbed(i, j, c)
    BY <2>5, <2>6, RebindSlot
  <2> HIDE DEF j
  <2>8. Undisturbed(k, j, c)
    BY <2>5, <2>7, UndisturbedThen
  <2>9. Sends(k, j, a)
    BY <2>5, <2>7 DEF Sends
  <2> QED
    BY <2>1, <2>3, <2>6, <2>7, <2>8, <2>9 DEF Pressed
<1>3. CASE d.op = "repeat"
  <2>1. Press(k, c, d, dl, idle) = RepeatDown(k, c, dl)
    BY <1>3 DEF Press, OverloadDown, NestedDown
  <2> QED
    BY <2>1, RepeatPressed
<1>4. CASE d.op \notin {"overloadi", "repeat"}
  <2>1. Press(k, c, d, dl, idle) = OverloadDown(k, c, d, dl)
    BY <1>4 DEF Press
  <2> QED
    BY <1>1, <1>4, <2>1, OverloadDownSends, OverloadDownSlot DEF Pressed
<1> QED
  BY <1>2, <1>3, <1>4

\* The tap of an overloaded key sends nothing that it does not lift again.
LEMMA TapQuiet ==
  ASSUME config \in Configs, NEW k \in Keyboard, NEW c, NEW d \in Descriptor, NEW dl \in Layer,
         config.descriptors[d.act].op # "repeat"
  PROVE  /\ Tap(k, c, d, dl).down \cap Key \subseteq k.down \cap Key
         /\ Tap(k, c, d, dl).repeating /\ config.descriptors[d.act].op # "macro2" => k.repeating
         /\ Undisturbed(k, Tap(k, c, d, dl), c)
<1> DEFINE a == config.descriptors[d.act]
           i == NestedDown(k, c, a, dl)
           u == NestedUp(i, a)
           j == Tap(k, c, d, dl)
<1>1. a \in Descriptor /\ Unswapped(a) /\ WellFormed(config, a)
  BY NestedBound, BoundUnswapped
<1>2. j = IF a.op = "macro" THEN ExecuteMacro(k, a.macro) ELSE u
  BY DEF Tap
<1>3. a.op = "oneshotk" => config.descriptors[a.act].op = "keysequence"
  BY <1>1 DEF WellFormed
<1> HIDE DEF a, j
<1>4. CASE a.op = "macro"
  <2>1. Still(k, j, c)
    BY <1>2, <1>4, MacroStill
  <2> QED
    BY <2>1, StillUndisturbed DEF Still, Quiet, j
<1>5. CASE a.op # "macro"
  <2>1. i \in Keyboard /\ Sends(k, i, a) /\ Undisturbed(k, i, c)
    BY <1>1, NestedType, NestedDownSends DEF a
  <2> HIDE DEF i
  <2>2. Still(i, u, c) /\ \A o \in Key : Emits(a, o) => o \notin u.down
    BY <1>1, <1>3, <2>1, NestedUpStill, NestedUpLifts
  <2> HIDE DEF u
  <2>3. Undisturbed(k, u, c)
    BY <2>1, <2>2, StillUndisturbed, UndisturbedThen
  <2>4. u.down \cap Key \subseteq k.down \cap Key
    BY <2>1, <2>2 DEF Sends, Still, Quiet
  <2>5. u.repeating /\ a.op # "macro2" => k.repeating
    BY <1>5, <2>1, <2>2 DEF Sends, Still, Quiet, MacroOps
  <2> QED
    BY <1>2, <1>5, <2>3, <2>4, <2>5 DEF j, a
<1> QED
  BY <1>4, <1>5

\* A release sends nothing, lifts what its descriptor sent, and only the tap of a
\* macro2 leaves a macro repeating.
LEMMA ReleaseQuiet ==
  ASSUME config \in Configs, NEW k \in Keyboard, NEW c, NEW d \in Descriptor, NEW dl \in Layer,
         NEW quick, d.op = "overload" => config.descriptors[d.act].op # "repeat"
  PROVE  /\ Release(k, c, d, dl, quick).down \cap Key \subseteq k.down \cap Key
         /\ (d.op = "oneshotk" => config.descriptors[d.act].op = "keysequence")
              => \A o \in Key : Emits(d, o) => o \notin Release(k, c, d, dl, quick).down
         /\ (d.op = "overload" => config.descriptors[d.act].op # "macro2")
            /\ Release(k, c, d, dl, quick).repeating => k.repeating
         /\ Undisturbed(k, Release(k, c, d, dl, quick), c)
<1> DEFINE i == LayerUp(k, d.layer)
           j == Release(k, c, d, dl, quick)
<1>1. d.layer \in Layer
  BY DEF Descriptor
<1>2. i \in Keyboard /\ Still(k, i, c)
  BY <1>1, LayerStill, LayerDownUpType
<1>3. CASE d.op = "overload"
  <2>1. j \in {i, Tap(i, c, d, dl)}
    BY <1>3 DEF Release, OverloadUp
  <2> HIDE DEF i, j
  <2>2. /\ Tap(i, c, d, dl).down \cap Key \subseteq i.down \cap Key
        /\ Tap(i, c, d, dl).repeating /\ config.descriptors[d.act].op # "macro2" => i.repeating
        /\ Undisturbed(i, Tap(i, c, d, dl), c)
    BY <1>2, <1>3, TapQuiet
  <2>3. Undisturbed(k, i, c)
    BY <1>2, StillUndisturbed
  <2>4. Undisturbed(k, j, c)
    BY <2>1, <2>2, <2>3, UndisturbedThen
  <2> QED
    BY <1>2, <1>3, <2>1, <2>2, <2>4 DEF Emits, Still, Quiet, j
<1>4. CASE d.op # "overload"
  <2>1. j = NestedUp(k, d)
    BY <1>4 DEF Release
  <2> HIDE DEF j
  <2>2. Still(k, j, c)
    BY <2>1, NestedUpStill
  <2>3. (d.op = "oneshotk" => config.descriptors[d.act].op = "keysequence")
              => \A o \in Key : Emits(d, o) => o \notin j.down
    BY <2>1, NestedUpLifts
  <2> QED
    BY <2>2, <2>3, StillUndisturbed DEF Still, Quiet, j
<1> QED
  BY <1>3, <1>4

\* Nothing of the prologue disturbs a held key, and a key event stops a macro.
LEMMA PrologueStill ==
  ASSUME NEW k \in Keyboard, NEW c, NEW late
  PROVE  /\ Still(k, Expire(k, late), c) /\ Still(k, Prologue(k, late), c)
         /\ ~Prologue(k, late).repeating
<1> DEFINE o == ClearOneshot(k)
           e == Expire(k, late)
           r == [e EXCEPT !.repeating = FALSE]
           p == Prologue(k, late)
<1>1. 0 \in Layer
  BY LayerAssumption DEF Layer
<1>2. o \in Keyboard /\ Still(k, o, c)
  BY <1>1, ClearOneshotType, ClearStill
<1>3. e = IF late /\ k.armed THEN UpdateMods(o, {}, {}) ELSE k
  BY DEF Expire
<1>4. p = IF k.repeating THEN UpdateMods(r, {}, {}) ELSE e
  BY DEF Prologue
<1> HIDE DEF o, e, p
<1>5. e \in Keyboard /\ Still(k, e, c)
  BY <1>2, <1>3, UpdateModsType, ModsStill, StillThen, SameStill
<1>6. r \in Keyboard /\ Still(e, r, c) /\ ~r.repeating
  BY <1>5, SameStill DEF Keyboard
<1> HIDE DEF r
<1>7. Still(k, UpdateMods(r, {}, {}), c) /\ ~UpdateMods(r, {}, {}).repeating
  <2>1. Still(r, UpdateMods(r, {}, {}), c)
    BY <1>6, ModsStill
  <2> QED
    BY <1>5, <1>6, <2>1, StillThen DEF Still, Quiet
<1>8. ~k.repeating => ~e.repeating
  BY <1>5 DEF Still, Quiet
<1> QED
  BY <1>4, <1>5, <1>7, <1>8 DEF e, p

LEMMA LookupBound ==
  ASSUME config \in Configs, NEW k \in Keyboard, NEW c \in Code, NEW b \in Lookup(k, c)
  PROVE  b.d \in BoundBy(config) \/ b.d.op = "keysequence"
<1>1. Composite(k, c) \subseteq Layer /\ Occluding(k, c) \subseteq Layer
  BY DEF Composite, Occluding
<1>2. \/ \E l \in Layer : b.d = config.keymap[l][c]
      \/ b.d = [NoDescriptor EXCEPT !.op = "keysequence", !.key = SelfKey[c]]
  BY <1>1 DEF Lookup
<1>3. [NoDescriptor EXCEPT !.op = "keysequence", !.key = SelfKey[c]].op = "keysequence"
  BY DEF NoDescriptor
<1>4. \A l \in Layer : config.keymap[l][c] \in BoundBy(config)
  BY DEF BoundBy
<1> QED
  BY <1>2, <1>3, <1>4

\* A press fills a free slot and sends nothing but what that slot will lift.
LEMMA KeyDownOutcome ==
  ASSUME OrderInv, RepeatBare, NEW c \in Code, NEW late \in BOOLEAN, NEW idle \in BOOLEAN,
         KeyDown(c, late, idle)
  PROVE  \E s \in Slot :
           /\ kbd.cache[s].code = NoCode /\ kbd'.cache[s].code = c /\ kbd'.last = c
           /\ \A t \in Slot \ {s} :
                /\ kbd'.cache[t].code = kbd.cache[t].code
                /\ SwapFree \/ kbd.cache[t].layer = 0 => kbd'.cache[t] = kbd.cache[t]
                /\ kbd'.cache[t].d = kbd.cache[t].d \/ kbd'.cache[t].d.op = "layer"
           /\ \A o \in kbd'.down \cap Key : o \in kbd.down \/ Emits(kbd'.cache[s].d, o)
           /\ kbd'.repeating => kbd'.cache[s].d.op \in MacroOps
           /\ kbd'.cache[s].d.op = "keysequence" => kbd'.cache[s].layer = 0
           /\ \/ kbd'.cache[s].d \in BoundBy(config)
              \/ kbd'.cache[s].d.op \in {"none", "keysequence", "macro", "macro2"}
<1> DEFINE k == Prologue(kbd, late)
<1>1. PICK s \in Slot, b \in Lookup(k, c) :
        /\ k.cache[s].code = NoCode
        /\ kbd' = [Press([k EXCEPT !.cache[s] = [code |-> c, d |-> b.d, dl |-> b.dl, layer |-> 0]],
                      c, b.d, b.dl, idle) EXCEPT !.last = c]
  BY DEF KeyDown, LastFree
<1> DEFINE entry == [code |-> c, d |-> b.d, dl |-> b.dl, layer |-> 0]
           put == [k EXCEPT !.cache[s] = entry]
           pressed == Press(put, c, b.d, b.dl, idle)
<1>2. kbd \in Keyboard /\ config \in Configs /\ Repeatable(kbd) /\ c # NoCode
      /\ \A t \in Slot : kbd.cache[t].code # c
  BY CodeAssumption DEF OrderInv, TypeOK, KeyDown, Holds
<1>3. k \in Keyboard /\ Still(kbd, k, c) /\ ~k.repeating /\ Tame(kbd, k)
  BY <1>2, PrologueType, PrologueStill, PrologueTame
<1>4. b.d \in Descriptor /\ b.dl \in Layer
      /\ (b.d \in BoundBy(config) \/ b.d.op = "keysequence")
  BY <1>2, <1>3, LookupType, LookupBound
<1>5. entry \in Entry
  BY <1>4, LayerAssumption DEF Entry, Layer
<1>6. entry.code = c /\ entry.d = b.d /\ entry.layer = 0
  OBVIOUS
<1> HIDE DEF k, entry
<1>7. /\ put \in Keyboard /\ put.cache[s] = entry /\ \A t \in Slot \ {s} : put.cache[t] = k.cache[t]
      /\ put.down = k.down /\ put.repeating = k.repeating /\ put.repeat = k.repeat
  <2>1. put \in Keyboard
    BY <1>3, <1>5, SlotType
  <2> QED
    BY <1>3, <2>1 DEF Keyboard
<1> HIDE DEF put
<1>8. Repeatable(put)
  BY <1>2, <1>3, <1>7 DEF Tame, Sane, Repeatable
<1>9. pressed \in Keyboard
  BY <1>2, <1>4, <1>7, PressReleaseType
<1>10. Pressed(put, pressed, c, s)
  BY <1>2, <1>4, <1>6, <1>7, <1>8, PressPressed
<1>11. kbd' = [pressed EXCEPT !.last = c]
  BY <1>1 DEF put, entry
<1> HIDE DEF pressed
<1>12. /\ kbd'.cache = pressed.cache /\ kbd'.down = pressed.down
       /\ kbd'.repeating = pressed.repeating /\ kbd'.last = c
  BY <1>9, <1>11 DEF Keyboard
<1>13. \A t \in Slot : k.cache[t] = kbd.cache[t]
  BY <1>2, <1>3 DEF Still, Marks
<1>14. k.down \cap Key \subseteq kbd.down \cap Key
  BY <1>3 DEF Still, Quiet
<1>15. \A t \in Slot \ {s} :
         /\ kbd'.cache[t].code = kbd.cache[t].code
         /\ SwapFree \/ kbd.cache[t].layer = 0 => kbd'.cache[t] = kbd.cache[t]
         /\ kbd'.cache[t].d = kbd.cache[t].d \/ kbd'.cache[t].d.op = "layer"
  BY <1>2, <1>7, <1>10, <1>12, <1>13 DEF Pressed, Undisturbed
<1>16. \A o \in kbd'.down \cap Key : o \in kbd.down \/ Emits(kbd'.cache[s].d, o)
  BY <1>7, <1>10, <1>12, <1>14 DEF Pressed, Sends
<1>17. kbd'.repeating => kbd'.cache[s].d.op \in MacroOps
  BY <1>3, <1>7, <1>10, <1>12 DEF Pressed, Sends
<1> QED
  BY <1>1, <1>10, <1>12, <1>13, <1>15, <1>16, <1>17 DEF Pressed

\* A release frees its slot, sends nothing and lifts what its descriptor sent.
LEMMA KeyUpOutcome ==
  ASSUME TypeOK, NEW c \in Code, NEW late \in BOOLEAN, NEW quick \in BOOLEAN,
         KeyUp(c, late, quick),
         \A s \in Slot : kbd.cache[s].code # NoCode /\ kbd.cache[s].d.op = "overload"
                           => config.descriptors[kbd.cache[s].d.act].op # "repeat"
  PROVE  \E s \in Slot :
           /\ kbd.cache[s].code = c /\ kbd'.cache[s].code = NoCode
           /\ \A t \in Slot \ {s} :
                /\ kbd'.cache[t].code = kbd.cache[t].code
                /\ kbd.cache[t].code # c /\ (SwapFree \/ kbd.cache[t].layer = 0)
                     => kbd'.cache[t] = kbd.cache[t]
                /\ kbd.cache[t].code # c =>
                     kbd'.cache[t].d = kbd.cache[t].d \/ kbd'.cache[t].d.op = "layer"
           /\ kbd'.down \cap Key \subseteq kbd.down \cap Key
           /\ (kbd.cache[s].d.op = "oneshotk"
                 => config.descriptors[kbd.cache[s].d.act].op = "keysequence")
              => \A o \in Key : Emits(kbd.cache[s].d, o) => o \notin kbd'.down
           /\ (kbd.cache[s].d.op = "overload"
                 => config.descriptors[kbd.cache[s].d.act].op # "macro2") => ~kbd'.repeating
<1> DEFINE k == Prologue(kbd, late)
<1>1. PICK s \in Slot :
        /\ kbd.cache[s].code = c
        /\ kbd' = Release([k EXCEPT !.cache[s] = FreeSlot],
                          c, kbd.cache[s].d, kbd.cache[s].dl, quick)
  BY DEF KeyUp
<1> DEFINE d == kbd.cache[s].d
           freed == [k EXCEPT !.cache[s] = FreeSlot]
<1>2. kbd \in Keyboard /\ config \in Configs /\ c # NoCode
  BY CodeAssumption DEF TypeOK
<1>3. k \in Keyboard /\ ~k.repeating /\ Still(kbd, k, NoCode)
  BY <1>2, PrologueType, PrologueStill
<1>4. d \in Descriptor /\ kbd.cache[s].dl \in Layer
      /\ (d.op = "overload" => config.descriptors[d.act].op # "repeat")
  BY <1>1, <1>2 DEF Keyboard, Entry
<1> HIDE DEF k, d
<1>5. /\ freed \in Keyboard /\ freed.cache[s] = FreeSlot
      /\ \A t \in Slot \ {s} : freed.cache[t] = k.cache[t]
      /\ freed.down = k.down /\ freed.repeating = k.repeating
  <2>1. freed \in Keyboard
    BY <1>3, FreeSlotType, SlotType
  <2> QED
    BY <1>3, <2>1 DEF Keyboard
<1>6. kbd' = Release(freed, c, d, kbd.cache[s].dl, quick)
  BY <1>1 DEF d
<1> HIDE DEF freed
<1>7. /\ kbd'.down \cap Key \subseteq freed.down \cap Key
      /\ (d.op = "oneshotk" => config.descriptors[d.act].op = "keysequence")
              => \A o \in Key : Emits(d, o) => o \notin kbd'.down
      /\ (d.op = "overload" => config.descriptors[d.act].op # "macro2")
            /\ kbd'.repeating => freed.repeating
      /\ Undisturbed(freed, kbd', c)
  BY <1>2, <1>4, <1>5, <1>6, ReleaseQuiet
<1>8. \A t \in Slot : k.cache[t].code = kbd.cache[t].code
                      /\ (kbd.cache[t].code # NoCode => k.cache[t] = kbd.cache[t])
  BY <1>3 DEF Still, Marks
<1>9. \A t \in Slot : kbd.cache[t].code = NoCode => k.cache[t] = kbd.cache[t]
  <2>1. Still(kbd, k, c)
    BY <1>2, PrologueStill DEF k
  <2> QED
    BY <1>2, <2>1 DEF Still, Marks
<1>10. kbd'.cache[s].code = NoCode
  BY <1>5, <1>7 DEF Undisturbed, FreeSlot
<1>11. \A t \in Slot \ {s} :
                /\ kbd'.cache[t].code = kbd.cache[t].code
                /\ kbd.cache[t].code # c /\ (SwapFree \/ kbd.cache[t].layer = 0)
                     => kbd'.cache[t] = kbd.cache[t]
                /\ kbd.cache[t].code # c =>
                     kbd'.cache[t].d = kbd.cache[t].d \/ kbd'.cache[t].d.op = "layer"
  BY <1>5, <1>7, <1>8, <1>9 DEF Undisturbed
<1>12. kbd'.down \cap Key \subseteq kbd.down \cap Key
  BY <1>3, <1>5, <1>7 DEF Still, Quiet
<1> QED
  BY <1>1, <1>3, <1>5, <1>7, <1>10, <1>11, <1>12 DEF d

-----------------------------------------------------------------------------
(* The two theorems about held keys.                                       *)

\* The other events touch no held key, press nothing and start no macro.
LEMMA IdleOutcome ==
  ASSUME TypeOK, NEW late \in BOOLEAN, NEW due \in BOOLEAN, Ignored(late) \/ Timeout(late, due)
  PROVE  /\ \A s \in Slot : /\ kbd'.cache[s].code = kbd.cache[s].code
                            /\ kbd.cache[s].code # NoCode => kbd'.cache[s] = kbd.cache[s]
         /\ kbd'.down \cap Key \subseteq kbd.down \cap Key
         /\ kbd'.repeating => kbd.repeating
         /\ kbd'.last = kbd.last
         /\ config' = config
<1> DEFINE e == Expire(kbd, late)
           p == Prologue(kbd, late)
           m == ExecuteMacro(e, e.macro)
<1>1. kbd \in Keyboard /\ config' = config
  BY DEF TypeOK, Ignored, Timeout
<1>2. e \in Keyboard /\ p \in Keyboard /\ Still(kbd, e, NoCode) /\ Still(kbd, p, NoCode)
  BY <1>1, PrologueType, PrologueStill
<1>3. kbd' \in {p, e, m}
  BY DEF Ignored, Timeout
<1>4. e.last = kbd.last
  BY <1>1 DEF Expire, UpdateMods, ClearOneshot, Keyboard
<1>5. p.last = kbd.last
  BY <1>1, <1>2, <1>4 DEF Prologue, UpdateMods, Keyboard
<1> HIDE DEF e, p
<1>6. Still(kbd, m, NoCode)
  BY <1>1, <1>2, MacroStill, StillThen
<1>7. m.last = kbd.last
  BY <1>2, <1>4 DEF ExecuteMacro, UpdateMods, Keyboard
<1> HIDE DEF m
<1>8. Still(kbd, kbd', NoCode) /\ kbd'.last = kbd.last
  BY <1>2, <1>3, <1>4, <1>5, <1>6, <1>7
<1> QED
  BY <1>1, <1>8 DEF Still, Quiet, Marks

\* No code is cached twice, and no cached overload taps a repeat.
Distinct(k) == \A s, t \in Slot : k.cache[s].code # NoCode /\ k.cache[s].code = k.cache[t].code
                                    => s = t
Taps(d, op) == d.op = "overload" /\ \E cf \in Configs : cf.descriptors[d.act].op = op

BareInv ==
  /\ OrderInv /\ Distinct(kbd)
  /\ \A s \in Slot : kbd.cache[s].code # NoCode => ~Taps(kbd.cache[s].d, "repeat")

LEMMA BareStep == ASSUME RepeatBare PROVE BareInv /\ [Next]_vars => BareInv'
<1> SUFFICES ASSUME BareInv, [Next]_vars PROVE BareInv'
  OBVIOUS
<1>1. OrderInv' /\ config \in Configs
  BY StepLawful DEF BareInv, OrderInv, TypeOK
<1>2. OrderInv /\ TypeOK /\ config \in Configs
  BY DEF BareInv, OrderInv, TypeOK
<1> DEFINE Bare(j) == Distinct(j) /\ \A s \in Slot : j.cache[s].code # NoCode
                                                     => ~Taps(j.cache[s].d, "repeat")
<1>3. Bare(kbd)
  BY DEF BareInv
<1>4. ASSUME NEW c \in Code, NEW late \in BOOLEAN, NEW idle \in BOOLEAN, KeyDown(c, late, idle)
      PROVE  Bare(kbd')
  <2>1. PICK s \in Slot :
           /\ kbd.cache[s].code = NoCode /\ kbd'.cache[s].code = c /\ kbd'.last = c
           /\ \A t \in Slot \ {s} :
                /\ kbd'.cache[t].code = kbd.cache[t].code
                /\ kbd'.cache[t].d = kbd.cache[t].d \/ kbd'.cache[t].d.op = "layer"
           /\ \/ kbd'.cache[s].d \in BoundBy(config)
              \/ kbd'.cache[s].d.op \in {"none", "keysequence", "macro", "macro2"}
    BY <1>2, <1>4, KeyDownOutcome
  <2>2. ~Taps(kbd'.cache[s].d, "repeat")
    BY <1>2, <2>1 DEF RepeatBare, Taps
  <2>3. \A t \in Slot : kbd.cache[t].code # c
    BY <1>4 DEF KeyDown, Holds
  <2>4. Distinct(kbd')
    BY <1>3, <2>1, <2>3 DEF Distinct
  <2>5. \A t \in Slot \ {s} : kbd'.cache[t].code # NoCode => ~Taps(kbd'.cache[t].d, "repeat")
    BY <1>3, <2>1 DEF Taps
  <2> QED
    BY <2>2, <2>4, <2>5
<1>5. ASSUME NEW c \in Code, NEW late \in BOOLEAN, NEW quick \in BOOLEAN, KeyUp(c, late, quick)
      PROVE  Bare(kbd')
  <2>1. \A s \in Slot : kbd.cache[s].code # NoCode /\ kbd.cache[s].d.op = "overload"
                           => config.descriptors[kbd.cache[s].d.act].op # "repeat"
    BY <1>2, <1>3 DEF Taps
  <2>2. PICK s \in Slot :
           /\ kbd.cache[s].code = c /\ kbd'.cache[s].code = NoCode
           /\ \A t \in Slot \ {s} :
                /\ kbd'.cache[t].code = kbd.cache[t].code
                /\ kbd.cache[t].code # c =>
                     kbd'.cache[t].d = kbd.cache[t].d \/ kbd'.cache[t].d.op = "layer"
    BY <1>2, <1>5, <2>1, KeyUpOutcome
  <2>3. c # NoCode
    BY CodeAssumption
  <2>4. \A t \in Slot \ {s} : kbd.cache[t].code # c
    BY <1>3, <2>2, <2>3 DEF Distinct
  <2>5. Distinct(kbd')
    BY <1>3, <2>2 DEF Distinct
  <2>6. \A t \in Slot : kbd'.cache[t].code # NoCode => ~Taps(kbd'.cache[t].d, "repeat")
    BY <1>3, <2>2, <2>4 DEF Taps
  <2> QED
    BY <2>5, <2>6
<1>6. ASSUME NEW late \in BOOLEAN, NEW due \in BOOLEAN, Ignored(late) \/ Timeout(late, due)
      PROVE  Bare(kbd')
  <2>1. \A s \in Slot : /\ kbd'.cache[s].code = kbd.cache[s].code
                        /\ kbd.cache[s].code # NoCode => kbd'.cache[s] = kbd.cache[s]
    BY <1>2, <1>6, IdleOutcome
  <2> QED
    BY <1>3, <2>1 DEF Distinct
<1>7. ASSUME UNCHANGED kbd PROVE Bare(kbd')
  BY <1>3, <1>7
<1> HIDE DEF Bare
<1>8. Bare(kbd')
  <2>1. \A quick \in Quick : quick \in BOOLEAN
    BY DEF Quick
  <2>2. \A late \in Lateness : late \in BOOLEAN
    BY DEF Lateness
  <2> QED
    BY <1>4, <1>5, <1>6, <1>7, <2>1, <2>2 DEF Next, Eval, vars
<1> QED
  BY <1>1, <1>8 DEF BareInv, Distinct, Taps, Bare

LEMMA BareInit == Init => BareInv
<1> SUFFICES ASSUME Init PROVE BareInv
  OBVIOUS
<1>1. \A s \in Slot : kbd.cache[s].code = NoCode
  BY DEF Init, BootKeyboard, FreeSlot
<1> QED
  BY <1>1, OrderInit DEF BareInv, Distinct

\* No overload taps a macro2, which would start it with no key held.
MacroBare == \A cf \in Configs : \A d \in BoundBy(cf) : ~Taps(d, "macro2")

MacroInv ==
  /\ MacroHeld /\ (kbd.repeating => kbd.last # NoCode)
  /\ \A s \in Slot : kbd.cache[s].code # NoCode => ~Taps(kbd.cache[s].d, "macro2")

LEMMA MacroStep ==
  ASSUME RepeatBare, MacroBare
  PROVE  BareInv /\ MacroInv /\ [Next]_vars => MacroInv'
<1> SUFFICES ASSUME BareInv, MacroInv, [Next]_vars PROVE MacroInv'
  OBVIOUS
<1>1. OrderInv /\ TypeOK /\ config \in Configs
  BY DEF BareInv, OrderInv, TypeOK
<1>2. ASSUME NEW c \in Code, NEW late \in BOOLEAN, NEW idle \in BOOLEAN, KeyDown(c, late, idle)
      PROVE  MacroInv'
  <2>1. PICK s \in Slot :
           /\ kbd.cache[s].code = NoCode /\ kbd'.cache[s].code = c /\ kbd'.last = c
           /\ \A t \in Slot \ {s} :
                /\ kbd'.cache[t].code = kbd.cache[t].code
                /\ kbd'.cache[t].d = kbd.cache[t].d \/ kbd'.cache[t].d.op = "layer"
           /\ kbd'.repeating => kbd'.cache[s].d.op \in MacroOps
           /\ \/ kbd'.cache[s].d \in BoundBy(config)
              \/ kbd'.cache[s].d.op \in {"none", "keysequence", "macro", "macro2"}
    BY <1>1, <1>2, KeyDownOutcome
  <2>2. ~Taps(kbd'.cache[s].d, "macro2")
    BY <1>1, <2>1 DEF MacroBare, Taps
  <2>3. \A t \in Slot \ {s} : kbd'.cache[t].code # NoCode => ~Taps(kbd'.cache[t].d, "macro2")
    BY <2>1 DEF MacroInv, Taps
  <2>4. MacroHeld' /\ kbd'.last # NoCode
    BY <2>1, CodeAssumption DEF MacroHeld, MacroOps
  <2> QED
    BY <2>2, <2>3, <2>4 DEF MacroInv, Taps
<1>3. ASSUME NEW c \in Code, NEW late \in BOOLEAN, NEW quick \in BOOLEAN, KeyUp(c, late, quick)
      PROVE  MacroInv'
  <2>1. \A s \in Slot : kbd.cache[s].code # NoCode /\ kbd.cache[s].d.op = "overload"
                           => config.descriptors[kbd.cache[s].d.act].op # "repeat"
    BY <1>1 DEF BareInv, Taps
  <2>2. PICK s \in Slot :
           /\ kbd.cache[s].code = c /\ kbd'.cache[s].code = NoCode
           /\ \A t \in Slot \ {s} :
                /\ kbd'.cache[t].code = kbd.cache[t].code
                /\ kbd.cache[t].code # c =>
                     kbd'.cache[t].d = kbd.cache[t].d \/ kbd'.cache[t].d.op = "layer"
           /\ (kbd.cache[s].d.op = "overload"
                 => config.descriptors[kbd.cache[s].d.act].op # "macro2") => ~kbd'.repeating
    BY <1>1, <1>3, <2>1, KeyUpOutcome
  <2>3. c # NoCode
    BY CodeAssumption
  <2>4. \A t \in Slot \ {s} : kbd.cache[t].code # c
    BY <2>2, <2>3 DEF BareInv, Distinct
  <2>5. \A t \in Slot : kbd'.cache[t].code # NoCode => ~Taps(kbd'.cache[t].d, "macro2")
    BY <2>2, <2>4 DEF MacroInv, Taps
  <2>6. ~kbd'.repeating
    BY <1>1, <2>2, <2>3 DEF MacroInv, Taps
  <2> QED
    BY <2>5, <2>6 DEF MacroInv, MacroHeld, Taps
<1>4. ASSUME NEW late \in BOOLEAN, NEW due \in BOOLEAN, Ignored(late) \/ Timeout(late, due)
      PROVE  MacroInv'
  <2>1. /\ \A s \in Slot : /\ kbd'.cache[s].code = kbd.cache[s].code
                           /\ kbd.cache[s].code # NoCode => kbd'.cache[s] = kbd.cache[s]
        /\ kbd'.repeating => kbd.repeating
        /\ kbd'.last = kbd.last
    BY <1>1, <1>4, IdleOutcome
  <2>2. \A s \in Slot : kbd'.cache[s].code # NoCode => ~Taps(kbd'.cache[s].d, "macro2")
    BY <2>1 DEF MacroInv
  <2>3. MacroHeld' /\ (kbd'.repeating => kbd'.last # NoCode)
    BY <2>1 DEF MacroInv, MacroHeld
  <2> QED
    BY <2>2, <2>3 DEF MacroInv, Taps
<1>5. ASSUME UNCHANGED kbd PROVE MacroInv'
  BY <1>5 DEF MacroInv, MacroHeld, Taps
<1>6. \A quick \in Quick : quick \in BOOLEAN
  BY DEF Quick
<1>7. \A late \in Lateness : late \in BOOLEAN
  BY DEF Lateness
<1> QED
  BY <1>2, <1>3, <1>4, <1>5, <1>6, <1>7 DEF Next, Eval, vars

\* A macro repeats only while the key that started it is held, for any keymap in which
\* repeat and macro2 are bound to keys of their own: however layers are swapped, binds
\* replace what is held, and other keys come and go.
THEOREM MacroHeldCorrect ==
  ASSUME RepeatBare, MacroBare
  PROVE  Spec => []MacroHeld
<1>1. Init => MacroInv
  BY DEF Init, BootKeyboard, FreeSlot, MacroInv, MacroHeld
<1>2. BareInv /\ [Next]_vars => BareInv'
  BY BareStep
<1>3. BareInv /\ MacroInv /\ [Next]_vars => MacroInv'
  BY MacroStep
<1>4. MacroInv => MacroHeld
  BY DEF MacroInv
<1> QED
  BY <1>1, <1>2, <1>3, <1>4, BareInit, PTL DEF Spec

\* The key nested in a oneshotk is the same key whatever config is installed.
FirmKeys ==
  \A cf, cg \in Configs : \A d \in BoundBy(cf) :
    d.op = "oneshotk" => /\ cg.descriptors[d.act].op = "keysequence"
                         /\ cg.descriptors[d.act].key = cf.descriptors[d.act].key

\* No swap takes the entry of a key that holds a key down besides its layer.
KeysUnswapped == SwapFree \/ \A cf \in Configs : \A d \in BoundBy(cf) : d.op # "oneshotk"

Firm(d) ==
  d.op = "oneshotk" =>
    /\ SwapFree
    /\ \A cf, cg \in Configs : /\ cf.descriptors[d.act].op = "keysequence"
                               /\ cf.descriptors[d.act].key = cg.descriptors[d.act].key

KeyInv ==
  /\ OwnedOutput
  /\ \A s \in Slot : kbd.cache[s].code # NoCode =>
       /\ Firm(kbd.cache[s].d)
       /\ kbd.cache[s].d.op = "keysequence" => kbd.cache[s].layer = 0

\* An entry that owns a key is one that no other key's handler touches.
LEMMA OwnerFixed ==
  ASSUME KeyInv, NEW s \in Slot, NEW o, kbd.cache[s].code # NoCode, Emits(kbd.cache[s].d, o)
  PROVE  SwapFree \/ kbd.cache[s].layer = 0
BY DEF KeyInv, Emits, Firm

LEMMA KeyStep ==
  ASSUME RepeatBare, FirmKeys, KeysUnswapped
  PROVE  BareInv /\ KeyInv /\ [Next]_vars => KeyInv'
<1> SUFFICES ASSUME BareInv, KeyInv, [Next]_vars PROVE KeyInv'
  OBVIOUS
<1>1. OrderInv /\ TypeOK /\ config \in Configs /\ config' \in Configs
  BY TypeNext DEF BareInv, OrderInv, TypeOK
<1> DEFINE Owned(j) == \A o \in j.down \cap Key :
                         \E s \in Slot : j.cache[s].code # NoCode /\ Emits(j.cache[s].d, o)
           Entries(j) == \A s \in Slot : j.cache[s].code # NoCode =>
                           /\ Firm(j.cache[s].d)
                           /\ j.cache[s].d.op = "keysequence" => j.cache[s].layer = 0
<1>2. Owned(kbd) /\ Entries(kbd)
  BY DEF KeyInv, OwnedOutput
<1>3. ASSUME NEW c \in Code, NEW late \in BOOLEAN, NEW idle \in BOOLEAN, KeyDown(c, late, idle)
      PROVE  Owned(kbd') /\ Entries(kbd')
  <2>1. PICK s \in Slot :
           /\ kbd.cache[s].code = NoCode /\ kbd'.cache[s].code = c /\ kbd'.last = c
           /\ \A t \in Slot \ {s} :
                /\ kbd'.cache[t].code = kbd.cache[t].code
                /\ SwapFree \/ kbd.cache[t].layer = 0 => kbd'.cache[t] = kbd.cache[t]
                /\ kbd'.cache[t].d = kbd.cache[t].d \/ kbd'.cache[t].d.op = "layer"
           /\ \A o \in kbd'.down \cap Key : o \in kbd.down \/ Emits(kbd'.cache[s].d, o)
           /\ kbd'.cache[s].d.op = "keysequence" => kbd'.cache[s].layer = 0
           /\ \/ kbd'.cache[s].d \in BoundBy(config)
              \/ kbd'.cache[s].d.op \in {"none", "keysequence", "macro", "macro2"}
    BY <1>1, <1>3, KeyDownOutcome
  <2>2. Firm(kbd'.cache[s].d)
    BY <1>1, <2>1 DEF Firm, FirmKeys, KeysUnswapped
  <2>3. c # NoCode
    BY CodeAssumption
  <2>4. Owned(kbd')
    <3> SUFFICES ASSUME NEW o \in kbd'.down \cap Key
                 PROVE  \E t \in Slot : kbd'.cache[t].code # NoCode /\ Emits(kbd'.cache[t].d, o)
      OBVIOUS
    <3>1. CASE Emits(kbd'.cache[s].d, o)
      BY <2>1, <2>3, <3>1
    <3>2. CASE ~Emits(kbd'.cache[s].d, o)
      <4>1. PICK t \in Slot : kbd.cache[t].code # NoCode /\ Emits(kbd.cache[t].d, o)
        BY <1>2, <2>1, <3>2
      <4>2. t # s /\ kbd'.cache[t] = kbd.cache[t]
        BY <2>1, <4>1, OwnerFixed
      <4> QED
        BY <4>1, <4>2
    <3> QED
      BY <3>1, <3>2
  <2>5. ASSUME NEW t \in Slot \ {s}, kbd'.cache[t].code # NoCode
        PROVE  /\ Firm(kbd'.cache[t].d)
               /\ kbd'.cache[t].d.op = "keysequence" => kbd'.cache[t].layer = 0
    <3>1. kbd.cache[t].code # NoCode
      BY <2>1, <2>5
    <3>2. Firm(kbd'.cache[t].d)
      <4>1. kbd'.cache[t].d.op = "layer" => Firm(kbd'.cache[t].d)
        BY DEF Firm
      <4>2. Firm(kbd.cache[t].d)
        BY <1>2, <3>1
      <4> QED
        BY <2>1, <4>1, <4>2
    <3>3. kbd'.cache[t].d.op = "keysequence" => kbd'.cache[t].layer = 0
      BY <1>2, <2>1, <3>1
    <3> QED
      BY <3>2, <3>3
  <2> QED
    BY <2>1, <2>2, <2>4, <2>5
<1>4. ASSUME NEW c \in Code, NEW late \in BOOLEAN, NEW quick \in BOOLEAN, KeyUp(c, late, quick)
      PROVE  Owned(kbd') /\ Entries(kbd')
  <2>1. \A s \in Slot : kbd.cache[s].code # NoCode /\ kbd.cache[s].d.op = "overload"
                           => config.descriptors[kbd.cache[s].d.act].op # "repeat"
    BY <1>1 DEF BareInv, Taps
  <2>2. PICK s \in Slot :
           /\ kbd.cache[s].code = c /\ kbd'.cache[s].code = NoCode
           /\ \A t \in Slot \ {s} :
                /\ kbd'.cache[t].code = kbd.cache[t].code
                /\ kbd.cache[t].code # c /\ (SwapFree \/ kbd.cache[t].layer = 0)
                     => kbd'.cache[t] = kbd.cache[t]
                /\ kbd.cache[t].code # c =>
                     kbd'.cache[t].d = kbd.cache[t].d \/ kbd'.cache[t].d.op = "layer"
           /\ kbd'.down \cap Key \subseteq kbd.down \cap Key
           /\ (kbd.cache[s].d.op = "oneshotk"
                 => config.descriptors[kbd.cache[s].d.act].op = "keysequence")
              => \A o \in Key : Emits(kbd.cache[s].d, o) => o \notin kbd'.down
    BY <1>1, <1>4, <2>1, KeyUpOutcome
  <2>3. c # NoCode
    BY CodeAssumption
  <2>4. \A t \in Slot \ {s} : kbd.cache[t].code # c
    BY <2>2, <2>3 DEF BareInv, Distinct
  <2>5. \A o \in Key : Emits(kbd.cache[s].d, o) => o \notin kbd'.down
    BY <1>1, <1>2, <2>2, <2>3 DEF Firm
  <2>6. Owned(kbd')
    <3> SUFFICES ASSUME NEW o \in kbd'.down \cap Key
                 PROVE  \E t \in Slot : kbd'.cache[t].code # NoCode /\ Emits(kbd'.cache[t].d, o)
      OBVIOUS
    <3>1. PICK t \in Slot : kbd.cache[t].code # NoCode /\ Emits(kbd.cache[t].d, o)
      BY <1>2, <2>2
    <3>2. t # s
      BY <2>5, <3>1
    <3>3. kbd'.cache[t] = kbd.cache[t]
      BY <2>2, <2>4, <3>1, <3>2, OwnerFixed
    <3> QED
      BY <3>1, <3>3
  <2>7. ASSUME NEW t \in Slot, kbd'.cache[t].code # NoCode
        PROVE  /\ Firm(kbd'.cache[t].d)
               /\ kbd'.cache[t].d.op = "keysequence" => kbd'.cache[t].layer = 0
    <3>1. t # s /\ kbd.cache[t].code # NoCode
      BY <2>2, <2>7
    <3>2. Firm(kbd'.cache[t].d)
      <4>1. kbd'.cache[t].d.op = "layer" => Firm(kbd'.cache[t].d)
        BY DEF Firm
      <4>2. Firm(kbd.cache[t].d)
        BY <1>2, <3>1
      <4> QED
        BY <2>2, <2>4, <3>1, <4>1, <4>2
    <3>3. kbd'.cache[t].d.op = "keysequence" => kbd'.cache[t].layer = 0
      BY <1>2, <2>2, <2>4, <3>1
    <3> QED
      BY <3>2, <3>3
  <2> QED
    BY <2>6, <2>7
<1>5. ASSUME NEW late \in BOOLEAN, NEW due \in BOOLEAN, Ignored(late) \/ Timeout(late, due)
      PROVE  Owned(kbd') /\ Entries(kbd')
  <2>1. /\ \A s \in Slot : /\ kbd'.cache[s].code = kbd.cache[s].code
                           /\ kbd.cache[s].code # NoCode => kbd'.cache[s] = kbd.cache[s]
        /\ kbd'.down \cap Key \subseteq kbd.down \cap Key
    BY <1>1, <1>5, IdleOutcome
  <2> QED
    BY <1>2, <2>1
<1>6. ASSUME UNCHANGED kbd PROVE Owned(kbd') /\ Entries(kbd')
  BY <1>2, <1>6
<1> HIDE DEF Owned, Entries
<1>7. Owned(kbd') /\ Entries(kbd')
  <2>1. \A quick \in Quick : quick \in BOOLEAN
    BY DEF Quick
  <2>2. \A late \in Lateness : late \in BOOLEAN
    BY DEF Lateness
  <2> QED
    BY <1>3, <1>4, <1>5, <1>6, <2>1, <2>2 DEF Next, Eval, vars
<1>8. ASSUME NEW s \in Slot, NEW o, kbd'.cache[s].code # NoCode, Emits(kbd'.cache[s].d, o)
      PROVE  Emits(kbd.cache[s].d, o)'
  <2>1. Firm(kbd'.cache[s].d)
    BY <1>7, <1>8 DEF Entries
  <2> QED
    BY <1>1, <1>8, <2>1 DEF Emits, Firm
<1>9. OwnedOutput'
  BY <1>7, <1>8 DEF Owned, OwnedOutput
<1> QED
  BY <1>7, <1>9 DEF Entries, KeyInv, Firm

\* No stuck key: whatever is down belongs to a held key whose release lifts it, for any
\* keymap in which repeat is bound to keys of its own, no swap can take the key of a
\* oneshotk, and a bind leaves the key of a held oneshotk as it was.
THEOREM OwnedCorrect ==
  ASSUME RepeatBare, FirmKeys, KeysUnswapped
  PROVE  Spec => []OwnedOutput
<1>1. Init => KeyInv
  BY DEF Init, BootKeyboard, FreeSlot, KeyInv, OwnedOutput
<1>2. BareInv /\ [Next]_vars => BareInv'
  BY BareStep
<1>3. BareInv /\ KeyInv /\ [Next]_vars => KeyInv'
  BY KeyStep
<1>4. KeyInv => OwnedOutput
  BY DEF KeyInv
<1> QED
  BY <1>1, <1>2, <1>3, <1>4, BareInit, PTL DEF Spec

-----------------------------------------------------------------------------
(* The modifiers that are down once every key is up.                       *)

Settled(k) == k.down \cap Mod = ActiveMods(k, {}, {})

\* The descriptors whose release brings the modifiers up to date, or leaves a oneshot pending.
SettlingOps == {"keysequence"} \cup HolderOps

\* No pending oneshot has modifiers to take back.
PlainDepth(k) == \A l \in Layer : k.depth[l] > 0 => LayerMods[l] = {}

\* Counters that a handler keeps, or forgets together.
Forgets(k, j) == \A l \in Layer : j.depth[l] = k.depth[l] \/ j.depth[l] = 0

LEMMA ModsSettled ==
  ASSUME NEW k \in Keyboard, NEW keys
  PROVE  Settled(UpdateMods(k, {}, {})) /\ Settled(ExecuteMacro(k, keys))
<1>1. ASSUME NEW i \in Keyboard PROVE Settled(UpdateMods(i, {}, {}))
  <2> DEFINE a == ActiveMods(i, {}, {})
             j == UpdateMods(i, {}, {})
  <2>1. a \subseteq Mod
    BY LayerAssumption DEF ActiveMods, Layer
  <2>2. j.down = (i.down \ Mod) \cup a /\ j.active = i.active
    BY DEF UpdateMods, Keyboard
  <2>3. ActiveMods(j, {}, {}) = a
    BY <2>2 DEF ActiveMods
  <2> HIDE DEF a, j
  <2>4. j.down \cap Mod = a
    BY <2>1, <2>2
  <2> QED
    BY <2>3, <2>4 DEF Settled, j
<1>2. [k EXCEPT !.down = @ \ keys] \in Keyboard
  BY DEF Keyboard
<1> QED
  BY <1>1, <1>2 DEF ExecuteMacro

LEMMA SameSettled ==
  ASSUME NEW k, NEW j, Settled(k), j.down = k.down, j.active = k.active
  PROVE  Settled(j)
BY DEF Settled, ActiveMods

\* Dropping oneshots of layers without modifiers takes no modifier back.
LEMMA ClearOneshotSettled ==
  ASSUME NEW k \in Keyboard, Settled(k), PlainDepth(k)
  PROVE  Settled(ClearOneshot(k))
<1> DEFINE j == ClearOneshot(k)
<1>1. /\ j.down = k.down
      /\ \A l \in Layer : j.active[l] = IF k.depth[l] <= k.active[l] THEN k.active[l] - k.depth[l] ELSE 0
  BY DEF ClearOneshot, Keyboard
<1>2. \A l \in Layer : k.active[l] \in Nat /\ k.depth[l] \in Nat
  BY BoundAssumption DEF Keyboard
<1> HIDE DEF j
<1>3. ASSUME NEW l \in Layer, LayerMods[l] # {}
      PROVE  j.active[l] = k.active[l]
  BY <1>1, <1>2, <1>3 DEF PlainDepth
<1>4. ASSUME NEW m
      PROVE  (\E l \in Layer \ {} : j.active[l] > 0 /\ m \in LayerMods[l])
               <=> (\E l \in Layer \ {} : k.active[l] > 0 /\ m \in LayerMods[l])
  <2>1. \A l \in Layer : m \in LayerMods[l] => j.active[l] = k.active[l]
    BY <1>3
  <2> QED
    BY <2>1
<1>5. ActiveMods(j, {}, {}) = ActiveMods(k, {}, {})
  BY <1>4 DEF ActiveMods
<1> QED
  BY <1>1, <1>5 DEF Settled, j

LEMMA ToggleSettled ==
  ASSUME NEW k \in Keyboard, NEW c, NEW d \in Descriptor, PlainDepth(k)
  PROVE  Settled(ToggleDown(k, c, d))
<1> DEFINE f == [k EXCEPT !.toggled[d.layer] = ~@]
           m == IF f.toggled[d.layer] THEN ActivateLayer(f, c, d.layer)
                                      ELSE DeactivateLayer(f, d.layer)
           u == UpdateMods(m, {}, {})
<1>1. d.layer \in Layer
  BY DEF Descriptor
<1>2. f \in Keyboard /\ f.depth = k.depth
  BY <1>1 DEF Keyboard
<1>3. ToggleDown(k, c, d) = ClearOneshot(u)
  BY DEF ToggleDown
<1> HIDE DEF f
<1>4. m \in Keyboard /\ m.depth = k.depth
  BY <1>1, <1>2, ActivateLayerType, DeactivateLayerType, LayerSameOneshots DEF SameOneshots
<1> HIDE DEF m
<1>5. u \in Keyboard /\ Settled(u) /\ u.depth = k.depth
  BY <1>4, ModsSettled, UpdateModsType, ModsSameOneshots DEF SameOneshots
<1> HIDE DEF u
<1>6. PlainDepth(u)
  BY <1>5 DEF PlainDepth
<1> QED
  BY <1>3, <1>5, <1>6, ClearOneshotSettled

LEMMA LayerSettled ==
  ASSUME NEW k \in Keyboard, NEW c, NEW l \in Layer
  PROVE  Settled(LayerDown(k, c, l)) /\ Settled(LayerUp(k, l))
BY ActivateLayerType, DeactivateLayerType, ModsSettled DEF LayerDown, LayerUp

LEMMA MacroSettled ==
  ASSUME NEW k \in Keyboard, NEW d \in Descriptor
  PROVE  Settled(MacroDown(k, d)) /\ Settled(CommandDown(k))
<1> DEFINE o == ClearOneshot(k)
           e == ExecuteMacro(o, d.macro)
           j == MacroDown(k, d)
<1>1. o \in Keyboard
  BY ClearOneshotType
<1>2. j = [e EXCEPT !.repeating = TRUE, !.macro = d.macro, !.repeat = d]
  BY DEF MacroDown
<1>3. CommandDown(k) = UpdateMods(o, {}, {})
  BY DEF CommandDown
<1> HIDE DEF o
<1>4. e \in Keyboard /\ Settled(e)
  BY <1>1, ExecuteMacroType, ModsSettled
<1> HIDE DEF e
<1>5. j.down = e.down /\ j.active = e.active
  BY <1>2, <1>4 DEF Keyboard
<1> HIDE DEF j
<1> QED
  BY <1>1, <1>3, <1>4, <1>5, SameSettled, ModsSettled DEF j

\* The presses that leave the modifiers as the active layers imply.
LEMMA SimpleDownSettled ==
  ASSUME NEW k \in Keyboard, NEW c, NEW d \in Descriptor, NEW dl \in Layer,
         d.op \in {"layer", "layerm", "toggle", "togglem", "clearm", "macro", "macro2", "command"},
         d.op \in {"toggle", "togglem"} => PlainDepth(k)
  PROVE  Settled(SimpleDown(k, c, d, dl))
<1> DEFINE m == ExecuteMacro(k, d.macro)
           j == SimpleDown(k, c, d, dl)
<1>1. d.layer \in Layer
  BY DEF Descriptor
<1>2. m \in Keyboard /\ m.depth = k.depth
  BY ExecuteMacroType, ModsSameOneshots DEF SameOneshots
<1> HIDE DEF m
<1>3. PlainDepth(k) => PlainDepth(m)
  BY <1>2 DEF PlainDepth
<1>4. CASE d.op \in {"layer", "toggle", "macro", "macro2", "command"}
  BY <1>1, <1>4, LayerSettled, ToggleSettled, MacroSettled DEF SimpleDown
<1>5. CASE d.op \in {"layerm", "togglem"}
  <2>1. j = IF d.op = "layerm" THEN LayerDown(m, c, d.layer) ELSE ToggleDown(m, c, d)
    BY <1>5 DEF SimpleDown, m
  <2> QED
    BY <1>1, <1>2, <1>3, <1>5, <2>1, LayerSettled, ToggleSettled
<1>6. CASE d.op = "clearm"
  BY <1>6, ClearType, ModsSettled DEF SimpleDown
<1> QED
  BY <1>4, <1>5, <1>6

\* Clearing lifts every key, and leaves no toggle and no oneshot.
Emptied(k) == /\ k.down = {}
              /\ \A l \in Layer : k.depth[l] = 0
              /\ \A l \in Ordinary : ~k.toggled[l]

LEMMA ClearEmpties ==
  ASSUME NEW k \in Keyboard, NEW l \in Layer
  PROVE  Emptied(Clear(k)) /\ Emptied(SetLayout(k, l))
<1> DEFINE j == Clear(k)
           m == SetLayout(k, l)
<1>1. /\ j.down = {} /\ j.depth = [n \in Layer |-> 0]
      /\ \A n \in Ordinary : ~j.toggled[n]
  BY DEF Clear, DropToggles, ClearOneshot, Keyboard, Ordinary
<1>2. j \in Keyboard
  BY ClearType
<1>3. m.down = j.down /\ m.depth = j.depth /\ m.toggled = j.toggled
  <2> HIDE DEF j
  <2> QED
    BY <1>2 DEF SetLayout, j, Keyboard
<1> HIDE DEF j, m
<1>4. Ordinary \subseteq Layer
  BY OrdinaryLayers
<1> QED
  BY <1>1, <1>3, <1>4 DEF Emptied, j, m

-----------------------------------------------------------------------------
(* The oneshots that a handler leaves pending.                             *)

LEMMA ForgetsThen ==
  ASSUME NEW k, NEW i, NEW j, Forgets(k, i), Forgets(i, j)
  PROVE  Forgets(k, j)
<1> SUFFICES ASSUME NEW l \in Layer PROVE j.depth[l] = k.depth[l] \/ j.depth[l] = 0
  BY DEF Forgets
<1>1. i.depth[l] = k.depth[l] \/ i.depth[l] = 0
  BY DEF Forgets
<1>2. j.depth[l] = i.depth[l] \/ j.depth[l] = 0
  BY DEF Forgets
<1> QED
  BY <1>1, <1>2

LEMMA ClearForgets ==
  ASSUME NEW k \in Keyboard, NEW l \in Layer
  PROVE  Forgets(k, ClearOneshot(k)) /\ Forgets(k, Clear(k)) /\ Forgets(k, SetLayout(k, l))
<1>1. \A i \in Layer : ClearOneshot(k).depth[i] = 0
  BY DEF ClearOneshot, Keyboard
<1> QED
  BY <1>1, ClearEmpties DEF Forgets, Emptied

LEMMA KeySequenceForgets ==
  ASSUME NEW k \in Keyboard, NEW d \in Descriptor, NEW dl \in Layer
  PROVE  Forgets(k, KeySequenceDown(k, d, dl)) /\ SameOneshots(k, KeySequenceUp(k, d))
<1> DEFINE lifted == [k EXCEPT !.down = @ \ {d.key}]
<1>1. \A i \in Layer : KeySequenceDown(k, d, dl).depth[i] = 0
  BY DEF KeySequenceDown, ClearOneshot, Keyboard
<1>2. lifted \in Keyboard /\ SameOneshots(k, lifted) /\ KeySequenceUp(k, d) = UpdateMods(lifted, {}, {})
  BY DEF Keyboard, SameOneshots, KeySequenceUp
<1> HIDE DEF lifted
<1>3. SameOneshots(k, KeySequenceUp(k, d))
  BY <1>2, ModsSameOneshots DEF SameOneshots
<1> QED
  BY <1>1, <1>3 DEF Forgets

LEMMA SameForgets ==
  ASSUME NEW k, NEW j, SameOneshots(k, j)
  PROVE  Forgets(k, j)
BY DEF SameOneshots, Forgets

\* A press latches the oneshot it starts, and counts it only when it is released.
LEMMA OneshotDownLatches ==
  ASSUME NEW k \in Keyboard, NEW c, NEW d \in Descriptor, NEW dl \in Layer
  PROVE  OneshotDown(k, c, d, dl).latch /\ OneshotDown(k, c, d, dl).depth = k.depth
<1> DEFINE a == ActivateLayer(k, c, d.layer)
           u == UpdateMods(a, Excluding(dl), {})
           j == OneshotDown(k, c, d, dl)
<1>1. d.layer \in Layer
  BY DEF Descriptor
<1>2. a \in Keyboard /\ SameOneshots(k, a)
  BY <1>1, ActivateLayerType, LayerSameOneshots
<1> HIDE DEF a
<1>3. u \in Keyboard /\ SameOneshots(a, u)
  BY <1>2, UpdateModsType, ModsSameOneshots
<1>4. j = [u EXCEPT !.latch = TRUE]
  BY DEF OneshotDown, a
<1> HIDE DEF u
<1>5. j.latch /\ j.depth = u.depth
  BY <1>3, <1>4 DEF Keyboard
<1> HIDE DEF j
<1> QED
  BY <1>2, <1>3, <1>5 DEF SameOneshots, j

\* A latched oneshot is pending once it is released; any other is over.
LEMMA OneshotUpRests ==
  ASSUME NEW k \in Keyboard, NEW d \in Descriptor, k.depth[d.layer] < Width - 1
  PROVE  /\ k.latch => OneshotUp(k, d).depth[d.layer] > 0
         /\ ~k.latch => Settled(OneshotUp(k, d))
         /\ \A l \in Layer \ {d.layer} : OneshotUp(k, d).depth[l] = k.depth[l]
         /\ OneshotUp(k, d).depth[d.layer] > 0 => k.latch \/ k.depth[d.layer] > 0
<1> DEFINE j == OneshotUp(k, d)
<1>1. d.layer \in Layer
  BY DEF Descriptor
<1>2. CASE k.latch
  <2>1. j.depth = [k.depth EXCEPT ![d.layer] = Increment(@)]
    BY <1>2 DEF OneshotUp, Keyboard
  <2> HIDE DEF j
  <2>2. j.depth[d.layer] = Increment(k.depth[d.layer])
        /\ \A l \in Layer \ {d.layer} : j.depth[l] = k.depth[l]
    BY <1>1, <2>1 DEF Keyboard
  <2>3. k.depth[d.layer] \in Nat
    BY <1>1, BoundAssumption DEF Keyboard
  <2>4. j.depth[d.layer] > 0
    BY <2>2, <2>3, BoundAssumption DEF Increment
  <2> QED
    BY <1>2, <2>2, <2>4 DEF j
<1>3. CASE ~k.latch
  <2>1. j = LayerUp(k, d.layer)
    BY <1>3 DEF OneshotUp
  <2> HIDE DEF j
  <2>2. Settled(j) /\ SameOneshots(k, j)
    BY <1>1, <2>1, LayerSettled, LayerSameOneshots
  <2> QED
    BY <1>3, <2>2 DEF SameOneshots, j
<1> QED
  BY <1>2, <1>3

LEMMA SimpleDownForgets ==
  ASSUME NEW k \in Keyboard, NEW c, NEW d \in Descriptor, NEW dl \in Layer,
         d.op \notin {"swap", "swapm"}
  PROVE  /\ Forgets(k, SimpleDown(k, c, d, dl))
         /\ d.op \in {"oneshot", "oneshotm"} =>
              SimpleDown(k, c, d, dl).latch /\ SimpleDown(k, c, d, dl).depth = k.depth
<1> DEFINE m == ExecuteMacro(k, d.macro)
           j == SimpleDown(k, c, d, dl)
<1>1. d.layer \in Layer
  BY DEF Descriptor
<1>2. m \in Keyboard /\ SameOneshots(k, m)
  BY ExecuteMacroType, ModsSameOneshots
<1> HIDE DEF m
<1>3. CASE d.op = "keysequence"
  BY <1>3, KeySequenceForgets DEF SimpleDown
<1>4. CASE d.op \in {"layer", "layerm"}
  <2>1. j = IF d.op = "layer" THEN LayerDown(k, c, d.layer) ELSE LayerDown(m, c, d.layer)
    BY <1>4 DEF SimpleDown, m
  <2>2. SameOneshots(k, LayerDown(k, c, d.layer)) /\ SameOneshots(m, LayerDown(m, c, d.layer))
    BY <1>1, <1>2, LayerSameOneshots
  <2>3. SameOneshots(k, j)
    BY <1>2, <2>1, <2>2 DEF SameOneshots
  <2> QED
    BY <1>4, <2>3, SameForgets
<1>5. CASE d.op \in {"oneshot", "oneshotm"}
  <2>1. j = IF d.op = "oneshot" THEN OneshotDown(k, c, d, dl) ELSE OneshotDown(m, c, d, dl)
    BY <1>5 DEF SimpleDown, m
  <2>2. j.latch /\ j.depth = k.depth
    BY <1>2, <2>1, OneshotDownLatches DEF SameOneshots
  <2> QED
    BY <2>2 DEF Forgets
<1>6. CASE d.op \in {"toggle", "togglem"}
  <2>1. ASSUME NEW i \in Keyboard PROVE \A l \in Layer : ToggleDown(i, c, d).depth[l] = 0
    <3> DEFINE f == [i EXCEPT !.toggled[d.layer] = ~@]
               n == IF f.toggled[d.layer] THEN ActivateLayer(f, c, d.layer)
                                          ELSE DeactivateLayer(f, d.layer)
               u == UpdateMods(n, {}, {})
    <3>1. f \in Keyboard
      BY <1>1 DEF Keyboard
    <3>2. ToggleDown(i, c, d) = ClearOneshot(u)
      BY DEF ToggleDown
    <3> HIDE DEF f
    <3>3. u \in Keyboard
      BY <1>1, <3>1, ActivateLayerType, DeactivateLayerType, UpdateModsType
    <3> HIDE DEF u
    <3> QED
      BY <3>2, <3>3 DEF ClearOneshot, Keyboard
  <2>2. j = IF d.op = "toggle" THEN ToggleDown(k, c, d) ELSE ToggleDown(m, c, d)
    BY <1>6 DEF SimpleDown, m
  <2> QED
    BY <1>2, <1>6, <2>1, <2>2 DEF Forgets
<1>7. CASE d.op \in {"setlayout", "clear"}
  BY <1>1, <1>7, ClearForgets DEF SimpleDown
<1>8. CASE d.op = "clearm"
  <2> DEFINE i == Clear(k)
  <2>1. i \in Keyboard /\ Forgets(k, i) /\ j = ExecuteMacro(i, d.macro)
    BY <1>1, <1>8, ClearForgets, ClearType DEF SimpleDown
  <2> HIDE DEF i, j
  <2>2. Forgets(k, j)
    BY <2>1, ModsSameOneshots, SameForgets, ForgetsThen
  <2> QED
    BY <1>8, <2>2 DEF j
<1>9. CASE d.op \in {"macro", "macro2", "command"}
  <2> DEFINE o == ClearOneshot(k)
             e == ExecuteMacro(o, d.macro)
             u == UpdateMods(o, {}, {})
  <2>1. o \in Keyboard /\ Forgets(k, o)
    BY <1>1, ClearForgets, ClearOneshotType
  <2>2. j = IF d.op = "command" THEN u
            ELSE [e EXCEPT !.repeating = TRUE, !.macro = d.macro, !.repeat = d]
    BY <1>9 DEF SimpleDown, MacroDown, CommandDown
  <2> HIDE DEF o
  <2>3. e \in Keyboard /\ SameOneshots(o, e) /\ SameOneshots(o, u)
    BY <2>1, ExecuteMacroType, ModsSameOneshots
  <2> HIDE DEF e, u
  <2>4. j.depth = e.depth \/ j.depth = u.depth
    BY <2>2, <2>3 DEF Keyboard
  <2> HIDE DEF j
  <2>5. Forgets(k, j)
    BY <2>1, <2>3, <2>4 DEF SameOneshots, Forgets
  <2> QED
    BY <1>9, <2>5 DEF j
<1>10. CASE d.op \in {"none"} \cup NestedOps \cup {"overload", "overloadi"}
  BY <1>10 DEF SimpleDown, NestedOps, Forgets
<1> QED
  BY <1>3, <1>4, <1>5, <1>6, <1>7, <1>8, <1>9, <1>10 DEF Descriptor, Ops, SimpleOps

OneshotOps == {"oneshot", "oneshotm", "oneshotk"}

\* No key is bound to a toggle, or no oneshot to a layer that has modifiers.
Toggleless == \A cf \in Configs : \A d \in BoundBy(cf) : d.op \notin {"toggle", "togglem"}
Mild(d) == d.op \in OneshotOps => LayerMods[d.layer] = {}

Steady(k) == Toggleless \/ PlainDepth(k)

\* The modifiers are right, or all up, or a oneshot will yet bring them up to date.
Rested(k) == Settled(k) \/ Emptied(k) \/ \E l \in Layer : k.depth[l] > 0

Roomy(k) == \A l \in Layer : k.depth[l] < Width - 1

LEMMA ForgetsSteady ==
  ASSUME NEW k, NEW j, Forgets(k, j), Steady(k)
  PROVE  Steady(j)
<1>1. ASSUME PlainDepth(k), NEW l \in Layer, j.depth[l] > 0 PROVE LayerMods[l] = {}
  BY <1>1 DEF Forgets, PlainDepth
<1> QED
  BY <1>1 DEF Steady, PlainDepth

LEMMA ForgetsRoomy ==
  ASSUME NEW k \in Keyboard, NEW j, Forgets(k, j), Roomy(k)
  PROVE  Roomy(j)
<1>1. \A l \in Layer : j.depth[l] = k.depth[l] \/ j.depth[l] = 0
  BY DEF Forgets
<1>2. 0 < Width - 1
  BY BoundAssumption
<1> QED
  BY <1>1, <1>2 DEF Roomy

LEMMA NestedDownForgets ==
  ASSUME config \in Configs, NEW k \in Keyboard, NEW c, NEW d \in Descriptor, NEW dl \in Layer,
         WellFormed(config, d), d.op \notin {"swap", "swapm", "repeat"}
  PROVE  /\ Forgets(k, NestedDown(k, c, d, dl))
         /\ d.op \in OneshotOps => NestedDown(k, c, d, dl).latch
<1> DEFINE a == config.descriptors[d.act]
           i == SimpleDown(k, c, a, dl)
           j == NestedDown(k, c, d, dl)
<1>1. CASE d.op = "oneshotk"
  <2>1. a \in Descriptor /\ a.op = "keysequence"
    BY <1>1, ConfigDescriptors DEF WellFormed, Descriptor
  <2>2. j = OneshotDown(i, c, d, dl)
    BY <1>1 DEF NestedDown
  <2> HIDE DEF a
  <2>3. i \in Keyboard /\ Forgets(k, i)
    BY <2>1, SimpleDownType, SimpleDownForgets
  <2> HIDE DEF i, j
  <2>4. j.latch /\ j.depth = i.depth
    BY <2>2, <2>3, OneshotDownLatches
  <2>5. Forgets(k, j)
    BY <2>3, <2>4 DEF Forgets
  <2> QED
    BY <2>4, <2>5 DEF j
<1>2. CASE d.op # "oneshotk"
  <2>1. j = SimpleDown(k, c, d, dl)
    BY <1>2 DEF NestedDown
  <2> HIDE DEF j
  <2> QED
    BY <1>2, <2>1, SimpleDownForgets DEF OneshotOps, j
<1> QED
  BY <1>1, <1>2

LEMMA NestedUpRests ==
  ASSUME config \in Configs, NEW k \in Keyboard, NEW d \in Descriptor, Roomy(k),
         d.op \notin {"swap", "swapm", "overload"},
         d.op = "oneshotk" => config.descriptors[d.act].op = "keysequence"
  PROVE  /\ d.op \in OneshotOps => Settled(NestedUp(k, d)) \/ NestedUp(k, d).depth[d.layer] > 0
         /\ d.op \in OneshotOps /\ k.latch => NestedUp(k, d).depth[d.layer] > 0
         /\ d.op \in {"keysequence", "layer", "layerm"} => Settled(NestedUp(k, d))
         /\ d.op \notin SettlingOps => NestedUp(k, d) = k
         /\ d.op \notin OneshotOps => SameOneshots(k, NestedUp(k, d))
         /\ \A l \in Layer \ {d.layer} : NestedUp(k, d).depth[l] = k.depth[l]
<1> DEFINE a == config.descriptors[d.act]
           i == SimpleUp(k, a)
           j == NestedUp(k, d)
<1>1. a \in Descriptor /\ 0 \in Layer /\ d.layer \in Layer
  BY ConfigDescriptors, LayerAssumption DEF Descriptor, Layer
<1>2. ASSUME NEW e \in Descriptor
      PROVE  /\ KeySequenceUp(k, e) \in Keyboard /\ Settled(KeySequenceUp(k, e))
             /\ SameOneshots(k, KeySequenceUp(k, e))
  <2>1. [k EXCEPT !.down = @ \ {e.key}] \in Keyboard
    BY DEF Keyboard
  <2> QED
    BY <1>1, <2>1, UpdateModsType, ModsSettled, KeySequenceForgets DEF KeySequenceUp
<1>3. CASE d.op = "oneshotk"
  <2>1. a.op = "keysequence" /\ j = OneshotUp(i, d) /\ i = KeySequenceUp(k, a)
    BY <1>3 DEF NestedUp, SimpleUp
  <2> HIDE DEF a
  <2>2. i \in Keyboard /\ SameOneshots(k, i)
    BY <1>1, <1>2, <2>1
  <2> HIDE DEF i, j
  <2>3. i.depth[d.layer] < Width - 1 /\ i.latch = k.latch /\ i.depth = k.depth
    BY <1>1, <2>2 DEF SameOneshots, Roomy
  <2>4. /\ i.latch => j.depth[d.layer] > 0
        /\ ~i.latch => Settled(j)
        /\ \A l \in Layer \ {d.layer} : j.depth[l] = i.depth[l]
    BY <2>1, <2>2, <2>3, OneshotUpRests
  <2> QED
    BY <1>3, <2>3, <2>4 DEF j, OneshotOps, SettlingOps, HolderOps
<1>4. CASE d.op \in {"oneshot", "oneshotm"}
  <2>1. j = OneshotUp(k, d)
    BY <1>4 DEF NestedUp, SimpleUp
  <2> HIDE DEF j
  <2>2. k.depth[d.layer] < Width - 1
    BY <1>1 DEF Roomy
  <2>3. /\ k.latch => j.depth[d.layer] > 0
        /\ ~k.latch => Settled(j)
        /\ \A l \in Layer \ {d.layer} : j.depth[l] = k.depth[l]
    BY <2>1, <2>2, OneshotUpRests
  <2> QED
    BY <1>4, <2>3 DEF j, OneshotOps, SettlingOps, HolderOps
<1>5. CASE d.op \in {"keysequence", "layer", "layerm"}
  <2>1. j = IF d.op = "keysequence" THEN KeySequenceUp(k, d) ELSE LayerUp(k, d.layer)
    BY <1>5 DEF NestedUp, SimpleUp
  <2> HIDE DEF j
  <2>2. Settled(j) /\ SameOneshots(k, j)
    BY <1>1, <1>2, <2>1, LayerSettled, LayerSameOneshots
  <2> QED
    BY <1>5, <2>2 DEF j, OneshotOps, SettlingOps, HolderOps, SameOneshots
<1>6. CASE d.op \notin SettlingOps
  <2>1. j = k
    BY <1>6 DEF NestedUp, SimpleUp, SettlingOps, HolderOps
  <2> HIDE DEF j
  <2> QED
    BY <1>6, <2>1 DEF j, OneshotOps, SettlingOps, HolderOps, SameOneshots
<1> QED
  BY <1>3, <1>4, <1>5, <1>6 DEF SettlingOps, HolderOps

\* How the press of a descriptor that is not held for its release leaves the modifiers.
Landed(k, j, d) ==
  \/ d.op \in SettlingOps
  \/ Settled(j) \/ Emptied(j)
  \/ j.down = k.down /\ j.active = k.active /\ j.depth = k.depth

LEMMA SimpleDownLanded ==
  ASSUME NEW k \in Keyboard, NEW c, NEW d \in Descriptor, NEW dl \in Layer,
         d.op \notin {"swap", "swapm"}, d.op \in {"toggle", "togglem"} => PlainDepth(k)
  PROVE  /\ Landed(k, SimpleDown(k, c, d, dl), d)
         /\ d.op \in {"none", "overload", "overloadi"} => SimpleDown(k, c, d, dl) = k
<1> DEFINE j == SimpleDown(k, c, d, dl)
<1>1. CASE d.op \in SettlingOps \ {"overload"}
  BY <1>1 DEF Landed, SettlingOps, HolderOps
<1>2. CASE d.op \in {"toggle", "togglem", "clearm", "macro", "macro2", "command"}
  <2>1. Settled(j)
    BY <1>2, SimpleDownSettled
  <2> QED
    BY <1>2, <2>1 DEF Landed
<1>3. CASE d.op \in {"clear", "setlayout"}
  <2>1. d.layer \in Layer
    BY DEF Descriptor
  <2>2. Emptied(j)
    BY <1>3, <2>1, ClearEmpties DEF SimpleDown
  <2> QED
    BY <1>3, <2>2 DEF Landed
<1>4. CASE d.op \in {"none", "overload", "overloadi", "repeat"}
  <2>1. j = k
    BY <1>4 DEF SimpleDown
  <2> HIDE DEF j
  <2> QED
    BY <2>1 DEF Landed, j
<1> QED
  BY <1>1, <1>2, <1>3, <1>4 DEF Descriptor, Ops, SimpleOps, NestedOps, SettlingOps, HolderOps

-----------------------------------------------------------------------------
(* Events, and the modifiers they leave.                                   *)

LEMMA BoundSteady ==
  ASSUME config \in Configs, NEW d \in BoundBy(config), NEW k, Steady(k),
         d.op \in {"toggle", "togglem"}
  PROVE  PlainDepth(k)
BY DEF Steady, Toggleless

\* The tap of an overloaded key leaves the modifiers right, or a oneshot pending.
LEMMA TapRested ==
  ASSUME config \in Configs, SwapFree, NEW k \in Keyboard, NEW c, NEW d \in Descriptor, NEW dl \in Layer,
         Settled(k), Steady(k), Roomy(k),
         config.descriptors[d.act].op \in (SimpleOps \cup NestedOps) \ {"repeat"},
         Toggleless \/ Mild(config.descriptors[d.act])
  PROVE  Rested(Tap(k, c, d, dl)) /\ Steady(Tap(k, c, d, dl))
<1> DEFINE a == config.descriptors[d.act]
           i == NestedDown(k, c, a, dl)
           u == NestedUp(i, a)
           j == Tap(k, c, d, dl)
<1>1. a \in BoundBy(config) /\ a \in Descriptor /\ WellFormed(config, a)
      /\ a.op \notin {"swap", "swapm"}
  BY NestedBound, BoundUnswapped DEF Unswapped
<1>2. j = IF a.op = "macro" THEN ExecuteMacro(k, a.macro) ELSE u
  BY DEF Tap
<1>3. a.op \in (SimpleOps \cup NestedOps) \ {"repeat"} /\ (Toggleless \/ Mild(a))
  OBVIOUS
<1>4. a.op = "oneshotk" => config.descriptors[a.act].op = "keysequence"
  BY <1>1 DEF WellFormed
<1> HIDE DEF a
<1>5. CASE a.op = "macro"
  <2>1. Settled(ExecuteMacro(k, a.macro)) /\ SameOneshots(k, ExecuteMacro(k, a.macro))
    BY ModsSettled, ModsSameOneshots
  <2>2. Steady(ExecuteMacro(k, a.macro))
    BY <2>1, SameForgets, ForgetsSteady
  <2> QED
    BY <1>2, <1>5, <2>1, <2>2 DEF Rested
<1>6. CASE a.op # "macro"
  <2>1. i \in Keyboard /\ Forgets(k, i) /\ (a.op \in OneshotOps => i.latch)
    BY <1>1, <1>3, NestedType, NestedDownForgets
  <2>2. a.op \notin {"oneshotk", "repeat"} => i = SimpleDown(k, c, a, dl)
    BY DEF NestedDown
  <2> HIDE DEF i
  <2>3. Roomy(i) /\ Steady(i)
    BY <2>1, ForgetsRoomy, ForgetsSteady
  <2>4. a.op # "overload" /\ a.layer \in Layer
    BY <1>1, <1>3 DEF SimpleOps, NestedOps, Descriptor
  <2>5. /\ a.op \in OneshotOps /\ i.latch => u.depth[a.layer] > 0
        /\ a.op \in {"keysequence", "layer", "layerm"} => Settled(u)
        /\ a.op \notin SettlingOps => u = i
        /\ a.op \notin OneshotOps => SameOneshots(i, u)
        /\ \A l \in Layer \ {a.layer} : u.depth[l] = i.depth[l]
    BY <1>1, <1>4, <2>1, <2>3, <2>4, NestedUpRests
  <2> HIDE DEF u
  <2>6. Steady(u)
    <3>1. CASE a.op \notin OneshotOps
      BY <2>3, <2>5, <3>1, SameForgets, ForgetsSteady
    <3>2. CASE a.op \in OneshotOps
      <4>1. ASSUME PlainDepth(i), Mild(a) PROVE PlainDepth(u)
        BY <2>5, <3>2, <4>1 DEF PlainDepth, Mild
      <4> QED
        BY <1>3, <2>3, <4>1 DEF Steady
    <3> QED
      BY <3>1, <3>2
  <2>7. Rested(u)
    <3>1. CASE a.op \in OneshotOps
      BY <2>1, <2>4, <2>5, <3>1 DEF Rested
    <3>2. CASE a.op \in {"keysequence", "layer", "layerm"}
      BY <2>5, <3>2 DEF Rested
    <3>3. CASE a.op \in {"toggle", "togglem", "clearm", "macro2", "command"}
      <4>1. u = i /\ i = SimpleDown(k, c, a, dl)
        BY <2>2, <2>5, <3>3 DEF SettlingOps, HolderOps
      <4>2. a.op \in {"toggle", "togglem"} => PlainDepth(k)
        BY <1>1, BoundSteady
      <4>3. Settled(SimpleDown(k, c, a, dl))
        BY <1>1, <3>3, <4>2, SimpleDownSettled
      <4> QED
        BY <4>1, <4>3 DEF Rested
    <3>4. CASE a.op \in {"clear", "setlayout"}
      <4>1. u = i /\ i = SimpleDown(k, c, a, dl)
        BY <2>2, <2>5, <3>4 DEF SettlingOps, HolderOps
      <4>2. Emptied(SimpleDown(k, c, a, dl))
        BY <2>4, <3>4, ClearEmpties DEF SimpleDown
      <4> QED
        BY <4>1, <4>2 DEF Rested
    <3>5. CASE a.op = "none"
      <4>1. u = i /\ i = k
        BY <2>2, <2>5, <3>5 DEF SettlingOps, HolderOps, SimpleDown
      <4> QED
        BY <4>1 DEF Rested
    <3> QED
      BY <1>1, <1>3, <1>6, <3>1, <3>2, <3>3, <3>4, <3>5 DEF SimpleOps, NestedOps, OneshotOps
  <2> QED
    BY <1>2, <1>6, <2>6, <2>7
<1> QED
  BY <1>5, <1>6

\* A release brings the modifiers up to date unless its press had done so.
LEMMA ReleaseRested ==
  ASSUME config \in Configs, SwapFree, RepeatBare, NEW k \in Keyboard, NEW c, NEW d, NEW dl \in Layer,
         NEW quick, Fit(d), ~Taps(d, "repeat"), Steady(k), Roomy(k),
         d.op = "overload" => config.descriptors[d.act].op \in SimpleOps \cup NestedOps,
         Toggleless \/ (Mild(d) /\ Mild(config.descriptors[d.act]))
  PROVE  /\ Steady(Release(k, c, d, dl, quick))
         /\ d.op \in SettlingOps => Rested(Release(k, c, d, dl, quick))
         /\ d.op \notin SettlingOps => Release(k, c, d, dl, quick) = k
<1> DEFINE i == LayerUp(k, d.layer)
           j == Release(k, c, d, dl, quick)
<1>1. d \in Descriptor /\ d.layer \in Layer /\ d.op \notin {"swap", "swapm"}
  BY DEF Fit, Descriptor
<1>2. CASE d.op = "overload"
  <2>1. i \in Keyboard /\ Settled(i) /\ SameOneshots(k, i)
    BY <1>1, LayerDownUpType, LayerSettled, LayerSameOneshots
  <2>2. j = IF k.last = c /\ quick THEN Tap(i, c, d, dl) ELSE i
    BY <1>2 DEF Release, OverloadUp
  <2> HIDE DEF i, j
  <2>3. Steady(i) /\ Roomy(i)
    BY <2>1, SameForgets, ForgetsSteady, ForgetsRoomy
  <2>4. config.descriptors[d.act].op \in (SimpleOps \cup NestedOps) \ {"repeat"}
    BY <1>2 DEF Taps
  <2>5. Rested(Tap(i, c, d, dl)) /\ Steady(Tap(i, c, d, dl))
    BY <1>1, <2>1, <2>3, <2>4, TapRested
  <2>6. Rested(j) /\ Steady(j)
    BY <2>1, <2>2, <2>3, <2>5 DEF Rested
  <2> QED
    BY <1>2, <2>6 DEF j, SettlingOps, HolderOps
<1>3. CASE d.op # "overload"
  <2>1. j = NestedUp(k, d)
    BY <1>3 DEF Release
  <2>2. d.op = "oneshotk" => config.descriptors[d.act].op = "keysequence"
    BY DEF Fit
  <2> HIDE DEF j
  <2>3. /\ d.op \in OneshotOps => Settled(j) \/ j.depth[d.layer] > 0
        /\ d.op \in {"keysequence", "layer", "layerm"} => Settled(j)
        /\ d.op \notin SettlingOps => j = k
        /\ d.op \notin OneshotOps => SameOneshots(k, j)
        /\ \A l \in Layer \ {d.layer} : j.depth[l] = k.depth[l]
    BY <1>1, <1>3, <2>1, <2>2, NestedUpRests
  <2>4. d.op \in SettlingOps => Rested(j)
    BY <1>1, <1>3, <2>3 DEF SettlingOps, HolderOps, OneshotOps, Rested
  <2>5. Steady(j)
    <3>1. CASE d.op \notin OneshotOps
      BY <2>3, <3>1, SameForgets, ForgetsSteady
    <3>2. CASE d.op \in OneshotOps
      <4>1. ASSUME PlainDepth(k), Mild(d) PROVE PlainDepth(j)
        BY <2>3, <3>2, <4>1 DEF PlainDepth, Mild
      <4> QED
        BY <4>1 DEF Steady
    <3> QED
      BY <3>1, <3>2
  <2> QED
    BY <2>3, <2>4, <2>5 DEF j
<1> QED
  BY <1>2, <1>3

\* The press of a key, whose slot s then holds the descriptor it is released as.
LEMMA OverloadDownLanded ==
  ASSUME config \in Configs, SwapFree, NEW k \in Keyboard, NEW c, NEW d, NEW dl \in Layer, Steady(k),
         d \in BoundBy(config) \/ d.op = "keysequence", d \in Descriptor, d.op # "repeat"
  PROVE  /\ Landed(k, OverloadDown(k, c, d, dl), d)
         /\ Forgets(k, OverloadDown(k, c, d, dl))
<1> DEFINE j == OverloadDown(k, c, d, dl)
<1>1. d.op \notin {"swap", "swapm"} /\ WellFormed(config, d) /\ d.layer \in Layer
  BY BoundUnswapped DEF Unswapped, WellFormed, Descriptor
<1>2. CASE d.op = "overload"
  <2>1. j = LayerDown(k, c, d.layer)
    BY <1>2 DEF OverloadDown
  <2> HIDE DEF j
  <2>2. Forgets(k, j)
    BY <1>1, <2>1, LayerSameOneshots, SameForgets
  <2> QED
    BY <1>2, <2>2 DEF j, Landed, SettlingOps, HolderOps
<1>3. CASE d.op # "overload"
  <2>1. j = NestedDown(k, c, d, dl)
    BY <1>3 DEF OverloadDown
  <2> HIDE DEF j
  <2>2. Forgets(k, j)
    BY <1>1, <2>1, NestedDownForgets
  <2>3. CASE d.op = "oneshotk"
    BY <2>2, <2>3 DEF j, Landed, SettlingOps, HolderOps
  <2>4. CASE d.op # "oneshotk"
    <3>1. j = SimpleDown(k, c, d, dl)
      BY <2>1, <2>4 DEF NestedDown
    <3>2. d.op \in {"toggle", "togglem"} => PlainDepth(k)
      BY BoundSteady
    <3> QED
      BY <1>1, <2>2, <3>1, <3>2, SimpleDownLanded DEF j
  <2> QED
    BY <2>3, <2>4
<1> QED
  BY <1>2, <1>3

\* To give a key another descriptor leaves the rest as it is.
LEMMA RebindLanded ==
  ASSUME NEW k, NEW i \in Keyboard, NEW c, NEW e, NEW d, Landed(k, i, d), Forgets(k, i)
  PROVE  Landed(k, Rebind(i, c, e), d) /\ Forgets(k, Rebind(i, c, e))
<1> DEFINE j == Rebind(i, c, e)
<1>1. /\ j.down = i.down /\ j.active = i.active /\ j.depth = i.depth /\ j.toggled = i.toggled
  BY DEF Rebind, Keyboard
<1> HIDE DEF j
<1>2. Settled(i) => Settled(j)
  BY <1>1, SameSettled
<1> QED
  BY <1>1, <1>2 DEF j, Landed, Emptied, Forgets

LEMMA PressLanded ==
  ASSUME config \in Configs, SwapFree, RepeatBare, NEW k \in Keyboard, Repeatable(k), Steady(k),
         NEW c, c # NoCode,
         NEW d, d \in BoundBy(config) \/ d.op = "keysequence", d \in Descriptor,
         NEW dl \in Layer, NEW idle,
         NEW s \in Slot, k.cache[s].code = c, k.cache[s].d = d, k.cache[s].layer = 0
  PROVE  /\ Landed(k, Press(k, c, d, dl, idle), Press(k, c, d, dl, idle).cache[s].d)
         /\ Forgets(k, Press(k, c, d, dl, idle))
<1>1. Unswapped(d) /\ WellFormed(config, d)
  BY BoundUnswapped DEF Unswapped, WellFormed
<1>2. CASE d.op = "overloadi"
  <2> DEFINE a == config.descriptors[IF idle THEN d.alt ELSE d.act]
             i == OverloadDown(k, c, a, dl)
             j == Rebind(i, c, a)
  <2>1. a \in BoundBy(config)
    BY NestedBound
  <2>2. a.op # "repeat"
    BY <1>2 DEF RepeatBare
  <2>3. Press(k, c, d, dl, idle) = j
    BY <1>2 DEF Press
  <2>4. a \in Descriptor /\ Unswapped(a) /\ WellFormed(config, a)
    BY <2>1, BoundUnswapped
  <2> HIDE DEF a
  <2>5. i \in Keyboard
    <3>1. a.layer \in Layer
      BY <2>4 DEF Descriptor
    <3> QED
      BY <2>4, <3>1, LayerDownUpType, NestedType DEF OverloadDown
  <2>6. i.cache[s].code = c
    BY <2>2, <2>4, OverloadDownSlot
  <2>7. Landed(k, i, a) /\ Forgets(k, i)
    BY <2>1, <2>2, <2>4, OverloadDownLanded
  <2> HIDE DEF i
  <2>8. j.cache[s].d = a
    BY <2>5, <2>6, RebindSlot
  <2>9. Landed(k, j, a) /\ Forgets(k, j)
    BY <2>5, <2>7, RebindLanded
  <2> QED
    BY <2>3, <2>8, <2>9
<1>3. CASE d.op = "repeat"
  <2> DEFINE r == k.repeat
             i == SimpleDown(k, c, r, dl)
             e == i.repeat
             j == Rebind(i, c, e)
  <2>1. Press(k, c, d, dl, idle) = j
    BY <1>3 DEF Press, OverloadDown, NestedDown, RepeatDown
  <2>2. r \in Descriptor /\ r.op \in {"none", "keysequence", "macro", "macro2"} /\ Unswapped(r)
    BY DEF Keyboard, Repeatable, Unswapped
  <2>3. i \in Keyboard /\ Landed(k, i, r) /\ Forgets(k, i)
    BY <2>2, SimpleDownType, SimpleDownLanded, SimpleDownForgets
  <2>4. e.op = r.op
    <3>1. r.op = "none" => i = k
      BY DEF SimpleDown
    <3>2. r.op # "none" => e.op = r.op
      BY <2>2, SimpleDownSends DEF MacroOps
    <3> HIDE DEF i
    <3> QED
      BY <3>1, <3>2
  <2>5. i.cache[s].code = c
    BY <2>2, SimpleDownSlot
  <2> HIDE DEF r, i, e
  <2>6. Landed(k, i, e)
    BY <2>3, <2>4 DEF Landed
  <2>7. j.cache[s].d = e
    BY <2>3, <2>5, RebindSlot
  <2>8. Landed(k, j, e) /\ Forgets(k, j)
    BY <2>3, <2>6, RebindLanded
  <2> QED
    BY <2>1, <2>7, <2>8
<1>4. CASE d.op \notin {"overloadi", "repeat"}
  <2> DEFINE j == OverloadDown(k, c, d, dl)
  <2>1. Press(k, c, d, dl, idle) = j
    BY <1>4 DEF Press
  <2>2. j.cache[s].d = d
    BY <1>1, <1>4, OverloadDownSlot
  <2>3. Landed(k, j, d) /\ Forgets(k, j)
    BY <1>4, OverloadDownLanded
  <2> HIDE DEF j
  <2> QED
    BY <2>1, <2>2, <2>3
<1> QED
  BY <1>2, <1>3, <1>4

\* The prologue of an event brings the modifiers up to date or does nothing.
LEMMA PrologueRested ==
  ASSUME NEW k \in Keyboard, NEW late
  PROVE  /\ Settled(Expire(k, late)) \/ Expire(k, late) = k
         /\ Settled(Prologue(k, late)) \/ Prologue(k, late) = k
         /\ Forgets(k, Expire(k, late)) /\ Forgets(k, Prologue(k, late))
<1> DEFINE o == ClearOneshot(k)
           e == Expire(k, late)
           r == [e EXCEPT !.repeating = FALSE]
           p == Prologue(k, late)
<1>1. 0 \in Layer
  BY LayerAssumption DEF Layer
<1>2. o \in Keyboard /\ Forgets(k, o)
  BY <1>1, ClearOneshotType, ClearForgets
<1>3. e = IF late /\ k.armed THEN UpdateMods(o, {}, {}) ELSE k
  BY DEF Expire
<1>4. p = IF k.repeating THEN UpdateMods(r, {}, {}) ELSE e
  BY DEF Prologue
<1>5. e \in Keyboard
  BY PrologueType
<1> HIDE DEF o, e, p
<1>6. Settled(UpdateMods(o, {}, {})) /\ SameOneshots(o, UpdateMods(o, {}, {}))
  BY <1>2, ModsSettled, ModsSameOneshots
<1>7. (Settled(e) \/ e = k) /\ Forgets(k, e)
  BY <1>2, <1>3, <1>6, SameForgets, ForgetsThen DEF Forgets
<1>8. r \in Keyboard /\ r.depth = e.depth
  BY <1>5 DEF Keyboard
<1> HIDE DEF r
<1>9. Settled(UpdateMods(r, {}, {})) /\ SameOneshots(r, UpdateMods(r, {}, {}))
  BY <1>8, ModsSettled, ModsSameOneshots
<1>10. (Settled(p) \/ p = k) /\ Forgets(k, p)
  BY <1>4, <1>7, <1>8, <1>9 DEF SameOneshots, Forgets
<1> QED
  BY <1>7, <1>10 DEF e, p

\* A layout has no modifiers: the type of a layer is either (new_layer of config.c).
LayoutsPlain == \A l \in Layer : LayerType[l] = "layout" => LayerMods[l] = {}

\* No key toggles a layer, or no oneshot is of a layer that has modifiers: the press of
\* a toggle leaves down the modifiers of the oneshots it spends.
PlainOneshots == Toggleless \/ \A cf \in Configs : \A d \in BoundBy(cf) : Mild(d)

\* The modifiers are right, or a held key or a pending oneshot will set them right.
Restful(k) ==
  \/ Settled(k)
  \/ \E s \in Slot : k.cache[s].code # NoCode /\ k.cache[s].d.op \in SettlingOps
  \/ \E l \in Layer : k.depth[l] > 0

\* What an overload taps, and the oneshots a key may leave pending.
Tapped(d) == d.op = "overload" =>
               \A cf \in Configs : cf.descriptors[d.act].op \in SimpleOps \cup NestedOps
Kept(d) == Tapped(d) /\ (Toggleless \/ Mild(d))

RestInv ==
  /\ BareInv /\ PairingInv /\ Restful(kbd) /\ Steady(kbd)
  /\ \A s \in Slot : kbd.cache[s].code # NoCode => Kept(kbd.cache[s].d)

\* With everything lifted, the layers that are on are those of held keys, main and a layout.
LEMMA EmptiedRestful ==
  ASSUME LayoutsPlain, NEW k \in Keyboard, Level(k, Count(k), Width - 1), Emptied(k)
  PROVE  Restful(k)
<1> SUFFICES ASSUME ~ \E s \in Slot : k.cache[s].code # NoCode /\ k.cache[s].d.op \in SettlingOps
             PROVE  Settled(k)
  BY DEF Restful
<1>1. ASSUME NEW l \in Layer, k.active[l] > 0 PROVE LayerMods[l] = {}
  <2>1. CASE l \in Ordinary
    <3>1. Holding(k, l) = {}
      BY DEF Holding, SettlingOps
    <3>2. Count(k)[l] = 0
      BY <3>1, FS_EmptySet DEF Count
    <3>3. k.active[l] = Count(k)[l] + k.depth[l] + (IF k.toggled[l] THEN 1 ELSE 0)
      BY <2>1 DEF Level
    <3>4. ~k.toggled[l] /\ k.depth[l] = 0
      BY <2>1 DEF Emptied
    <3> QED
      BY <1>1, <3>2, <3>3, <3>4
  <2>2. CASE l \notin Ordinary
    BY <2>2, LayerAssumption DEF Ordinary, LayoutsPlain
  <2> QED
    BY <2>1, <2>2
<1>2. ActiveMods(k, {}, {}) = {}
  BY <1>1 DEF ActiveMods
<1>3. k.down = {}
  BY DEF Emptied
<1> QED
  BY <1>2, <1>3 DEF Settled

LEMMA KeyDownLanded ==
  ASSUME OrderInv, SwapFree, RepeatBare, Steady(kbd),
         NEW c \in Code, NEW late \in BOOLEAN, NEW idle \in BOOLEAN, KeyDown(c, late, idle)
  PROVE  /\ Forgets(kbd, kbd')
         /\ \/ \E s \in Slot : kbd'.cache[s].code # NoCode /\ kbd'.cache[s].d.op \in SettlingOps
            \/ Settled(kbd') \/ Emptied(kbd')
            \/ kbd'.down = kbd.down /\ kbd'.active = kbd.active /\ kbd'.depth = kbd.depth
<1> DEFINE k == Prologue(kbd, late)
<1>1. PICK s \in Slot, b \in Lookup(k, c) :
        /\ k.cache[s].code = NoCode
        /\ kbd' = [Press([k EXCEPT !.cache[s] = [code |-> c, d |-> b.d, dl |-> b.dl, layer |-> 0]],
                      c, b.d, b.dl, idle) EXCEPT !.last = c]
  BY DEF KeyDown, LastFree
<1> DEFINE entry == [code |-> c, d |-> b.d, dl |-> b.dl, layer |-> 0]
           put == [k EXCEPT !.cache[s] = entry]
           pressed == Press(put, c, b.d, b.dl, idle)
<1>2. kbd \in Keyboard /\ config \in Configs /\ Repeatable(kbd) /\ c # NoCode
  BY CodeAssumption DEF OrderInv, TypeOK
<1>3. k \in Keyboard /\ Tame(kbd, k) /\ (Settled(k) \/ k = kbd) /\ Forgets(kbd, k)
  BY <1>2, PrologueType, PrologueTame, PrologueRested
<1>4. b.d \in Descriptor /\ b.dl \in Layer
      /\ (b.d \in BoundBy(config) \/ b.d.op = "keysequence")
  BY <1>2, <1>3, LookupType, LookupBound
<1>5. entry \in Entry
  BY <1>4, LayerAssumption DEF Entry, Layer
<1>6. entry.code = c /\ entry.d = b.d /\ entry.layer = 0
  OBVIOUS
<1> HIDE DEF k, entry
<1>7. /\ put \in Keyboard /\ put.cache[s] = entry
      /\ put.down = k.down /\ put.active = k.active /\ put.depth = k.depth /\ put.repeat = k.repeat
  <2>1. put \in Keyboard
    BY <1>3, <1>5, SlotType
  <2> QED
    BY <1>3, <2>1 DEF Keyboard
<1> HIDE DEF put
<1>8. Repeatable(put)
  BY <1>2, <1>3, <1>7 DEF Tame, Sane, Repeatable
<1>9. Forgets(kbd, put) /\ Steady(put)
  <2>1. Forgets(kbd, put)
    BY <1>3, <1>7 DEF Forgets
  <2> QED
    BY <2>1, ForgetsSteady
<1>10. pressed \in Keyboard
  BY <1>2, <1>4, <1>7, PressReleaseType
<1>11. Pressed(put, pressed, c, s)
  BY <1>2, <1>4, <1>6, <1>7, <1>8, PressPressed
<1>12. Landed(put, pressed, pressed.cache[s].d) /\ Forgets(put, pressed)
  BY <1>2, <1>4, <1>6, <1>7, <1>8, <1>9, PressLanded
<1>13. kbd' = [pressed EXCEPT !.last = c]
  BY <1>1 DEF put, entry
<1> HIDE DEF pressed
<1>14. /\ kbd'.cache = pressed.cache /\ kbd'.down = pressed.down /\ kbd'.active = pressed.active
       /\ kbd'.depth = pressed.depth /\ kbd'.toggled = pressed.toggled
  BY <1>10, <1>13 DEF Keyboard
<1>15. Forgets(kbd, kbd')
  <2>1. Forgets(kbd, pressed)
    BY <1>9, <1>12, ForgetsThen
  <2> QED
    BY <1>14, <2>1 DEF Forgets
<1>16. kbd'.cache[s].code = c /\ kbd'.cache[s].d = pressed.cache[s].d
  BY <1>11, <1>14 DEF Pressed
<1>17. CASE pressed.cache[s].d.op \in SettlingOps
  BY <1>2, <1>15, <1>16, <1>17
<1>18. CASE Settled(pressed)
  BY <1>14, <1>15, <1>18, SameSettled
<1>19. CASE Emptied(pressed)
  BY <1>14, <1>15, <1>19 DEF Emptied
<1>20. CASE pressed.down = put.down /\ pressed.active = put.active /\ pressed.depth = put.depth
  <2>1. kbd'.down = k.down /\ kbd'.active = k.active /\ kbd'.depth = k.depth
    BY <1>7, <1>14, <1>20
  <2>2. Settled(k) => Settled(kbd')
    BY <2>1, SameSettled
  <2> QED
    BY <1>3, <1>15, <2>1, <2>2
<1> QED
  BY <1>12, <1>17, <1>18, <1>19, <1>20 DEF Landed

LEMMA KeyUpRested ==
  ASSUME PlainOneshots, SwapFree, RepeatBare, RestInv, Shallow,
         NEW c \in Code, NEW late \in BOOLEAN, NEW quick \in BOOLEAN, KeyUp(c, late, quick)
  PROVE  /\ Steady(kbd')
         /\ \/ Rested(kbd')
            \/ /\ kbd'.down = kbd.down /\ kbd'.active = kbd.active /\ kbd'.depth = kbd.depth
               /\ \E s \in Slot : kbd.cache[s].code = c /\ kbd.cache[s].d.op \notin SettlingOps
<1> DEFINE k == Prologue(kbd, late)
<1>1. PICK s \in Slot :
        /\ kbd.cache[s].code = c
        /\ kbd' = Release([k EXCEPT !.cache[s] = FreeSlot],
                          c, kbd.cache[s].d, kbd.cache[s].dl, quick)
  BY DEF KeyUp
<1> DEFINE d == kbd.cache[s].d
           freed == [k EXCEPT !.cache[s] = FreeSlot]
<1>2. kbd \in Keyboard /\ config \in Configs /\ c # NoCode
  BY CodeAssumption DEF RestInv, PairingInv, TypeOK
<1>3. k \in Keyboard /\ (Settled(k) \/ k = kbd) /\ Forgets(kbd, k)
  BY <1>2, PrologueType, PrologueRested
<1>4. /\ d \in Descriptor /\ kbd.cache[s].dl \in Layer
      /\ Fit(d) /\ ~Taps(d, "repeat") /\ Kept(d)
  BY <1>1, <1>2 DEF RestInv, BareInv, PairingInv, Sound, Keyboard, Entry
<1>5. Toggleless \/ (Mild(d) /\ Mild(config.descriptors[d.act]))
  <2>1. config.descriptors[d.act] \in BoundBy(config)
    BY <1>2, <1>4, NestedBound
  <2> QED
    BY <1>2, <1>4, <2>1 DEF PlainOneshots, Kept
<1>6. d.op = "overload" => config.descriptors[d.act].op \in SimpleOps \cup NestedOps
  BY <1>2, <1>4 DEF Kept, Tapped
<1>7. Roomy(kbd) /\ Steady(kbd)
  <2>1. \A l \in Layer : kbd.depth[l] \in Nat
    BY <1>2, BoundAssumption DEF Keyboard
  <2>2. Roomy(kbd)
    BY <2>1, BoundAssumption DEF Shallow, Roomy
  <2> QED
    BY <2>2 DEF RestInv
<1> HIDE DEF k, d
<1>8. /\ freed \in Keyboard /\ freed.down = k.down /\ freed.active = k.active /\ freed.depth = k.depth
  <2>1. freed \in Keyboard
    BY <1>3, FreeSlotType, SlotType
  <2> QED
    BY <1>3, <2>1 DEF Keyboard
<1>9. kbd' = Release(freed, c, d, kbd.cache[s].dl, quick)
  BY <1>1 DEF d
<1> HIDE DEF freed
<1>10. Steady(freed) /\ Roomy(freed)
  <2>1. Forgets(kbd, freed)
    BY <1>3, <1>8 DEF Forgets
  <2> QED
    BY <1>2, <1>7, <2>1, ForgetsSteady, ForgetsRoomy
<1>11. /\ Steady(kbd')
       /\ d.op \in SettlingOps => Rested(kbd')
       /\ d.op \notin SettlingOps => kbd' = freed
  BY <1>2, <1>4, <1>5, <1>6, <1>8, <1>9, <1>10, ReleaseRested
<1>12. CASE d.op \notin SettlingOps
  <2>1. kbd'.down = k.down /\ kbd'.active = k.active /\ kbd'.depth = k.depth
    BY <1>8, <1>11, <1>12
  <2>2. Settled(k) => Settled(kbd')
    BY <2>1, SameSettled
  <2> QED
    BY <1>1, <1>3, <1>11, <1>12, <2>1, <2>2 DEF Rested, d
<1> QED
  BY <1>11, <1>12

LEMMA RestStep ==
  ASSUME SwapFree, StableKeys, RepeatBare, PlainOneshots, LayoutsPlain
  PROVE  RestInv /\ Shallow /\ [Next]_vars => RestInv'
<1> SUFFICES ASSUME RestInv, Shallow, [Next]_vars PROVE RestInv'
  OBVIOUS
<1>1. BareInv' /\ PairingInv'
  BY BareStep, PairingNext DEF RestInv
<1>2. /\ OrderInv /\ TypeOK /\ config \in Configs /\ kbd \in Keyboard
      /\ Steady(kbd) /\ Restful(kbd) /\ Distinct(kbd)
  BY DEF RestInv, BareInv, OrderInv, TypeOK
<1>3. kbd' \in Keyboard /\ Level(kbd', Count(kbd'), Width - 1)
  <2>1. Count(kbd)' = Count(kbd')
    BY DEF Count, Holding
  <2> QED
    BY <1>1, <2>1 DEF PairingInv, TypeOK, Level
<1> DEFINE Sure(k) == \A s \in Slot : k.cache[s].code # NoCode => Kept(k.cache[s].d)
           Goal(k) == Restful(k) /\ Steady(k) /\ Sure(k)
<1>4. Sure(kbd)
  BY DEF RestInv
<1>5. Rested(kbd') => Restful(kbd')
  BY <1>3, EmptiedRestful DEF Rested, Restful
<1>6. ASSUME NEW d, d \in BoundBy(config) \/ d.op \in {"none", "keysequence", "macro", "macro2"}
      PROVE  Kept(d)
  <2>1. Toggleless \/ Mild(d)
    BY <1>2, <1>6 DEF PlainOneshots, Mild, OneshotOps
  <2>2. Tapped(d)
    <3>1. CASE d \in BoundBy(config)
      <4>1. Nesting(d)
        BY <1>2, <3>1, ConfigAssumption DEF BoundBy
      <4> QED
        BY <4>1 DEF Nesting, Tapped
    <3>2. CASE d.op \in {"none", "keysequence", "macro", "macro2"}
      BY <3>2 DEF Tapped
    <3> QED
      BY <1>6, <3>1, <3>2
  <2> QED
    BY <2>1, <2>2 DEF Kept
<1>7. ASSUME NEW c \in Code, NEW late \in BOOLEAN, NEW idle \in BOOLEAN, KeyDown(c, late, idle)
      PROVE  Goal(kbd')
  <2>1. PICK s \in Slot :
           /\ kbd.cache[s].code = NoCode /\ kbd'.cache[s].code = c
           /\ \A t \in Slot \ {s} : SwapFree \/ kbd.cache[t].layer = 0 => kbd'.cache[t] = kbd.cache[t]
           /\ \/ kbd'.cache[s].d \in BoundBy(config)
              \/ kbd'.cache[s].d.op \in {"none", "keysequence", "macro", "macro2"}
    BY <1>2, <1>7, KeyDownOutcome
  <2>2. Sure(kbd')
    BY <1>4, <1>6, <2>1
  <2>3. /\ Forgets(kbd, kbd')
        /\ \/ \E t \in Slot : kbd'.cache[t].code # NoCode /\ kbd'.cache[t].d.op \in SettlingOps
           \/ Settled(kbd') \/ Emptied(kbd')
           \/ kbd'.down = kbd.down /\ kbd'.active = kbd.active /\ kbd'.depth = kbd.depth
    BY <1>2, <1>7, KeyDownLanded
  <2>4. Steady(kbd')
    BY <1>2, <2>3, ForgetsSteady
  <2>5. ASSUME kbd'.down = kbd.down, kbd'.active = kbd.active, kbd'.depth = kbd.depth
        PROVE  Restful(kbd')
    <3>1. Settled(kbd) => Settled(kbd')
      BY <2>5, SameSettled
    <3>2. \A t \in Slot : kbd.cache[t].code # NoCode => kbd'.cache[t] = kbd.cache[t]
      BY <2>1
    <3> QED
      BY <1>2, <2>5, <3>1, <3>2 DEF Restful
  <2>6. Restful(kbd')
    BY <1>5, <2>3, <2>5 DEF Restful, Rested
  <2> QED
    BY <2>2, <2>4, <2>6
<1>8. ASSUME NEW c \in Code, NEW late \in BOOLEAN, NEW quick \in BOOLEAN, KeyUp(c, late, quick)
      PROVE  Goal(kbd')
  <2>1. \A s \in Slot : kbd.cache[s].code # NoCode /\ kbd.cache[s].d.op = "overload"
                           => config.descriptors[kbd.cache[s].d.act].op # "repeat"
    BY <1>2 DEF RestInv, BareInv, Taps
  <2>2. PICK s \in Slot :
           /\ kbd.cache[s].code = c /\ kbd'.cache[s].code = NoCode
           /\ \A t \in Slot \ {s} :
                kbd.cache[t].code # c /\ (SwapFree \/ kbd.cache[t].layer = 0)
                     => kbd'.cache[t] = kbd.cache[t]
    BY <1>2, <1>8, <2>1, KeyUpOutcome
  <2>3. c # NoCode
    BY CodeAssumption
  <2>4. \A t \in Slot \ {s} : kbd'.cache[t] = kbd.cache[t] /\ kbd.cache[t].code # c
    BY <1>2, <2>2, <2>3 DEF Distinct
  <2>5. Sure(kbd')
    BY <1>4, <2>2, <2>4
  <2>6. /\ Steady(kbd')
        /\ \/ Rested(kbd')
           \/ /\ kbd'.down = kbd.down /\ kbd'.active = kbd.active /\ kbd'.depth = kbd.depth
              /\ \E t \in Slot : kbd.cache[t].code = c /\ kbd.cache[t].d.op \notin SettlingOps
    BY <1>8, KeyUpRested
  <2>7. ASSUME kbd'.down = kbd.down, kbd'.active = kbd.active, kbd'.depth = kbd.depth,
               kbd.cache[s].d.op \notin SettlingOps
        PROVE  Restful(kbd')
    <3>1. Settled(kbd) => Settled(kbd')
      BY <2>7, SameSettled
    <3> QED
      BY <1>2, <2>4, <2>7, <3>1 DEF Restful
  <2>8. Restful(kbd')
    BY <1>5, <2>4, <2>6, <2>7
  <2> QED
    BY <2>5, <2>6, <2>8
<1>9. ASSUME NEW late \in BOOLEAN, NEW due \in BOOLEAN, Ignored(late) \/ Timeout(late, due)
      PROVE  Goal(kbd')
  <2> DEFINE e == Expire(kbd, late)
             p == Prologue(kbd, late)
             m == ExecuteMacro(e, e.macro)
  <2>1. e \in Keyboard /\ (Settled(e) \/ e = kbd) /\ Forgets(kbd, e)
    BY <1>2, PrologueType, PrologueRested
  <2>2. (Settled(p) \/ p = kbd) /\ Forgets(kbd, p)
    BY <1>2, PrologueRested
  <2>3. kbd' \in {p, e, m}
    BY <1>9 DEF Ignored, Timeout
  <2> HIDE DEF e, p
  <2>4. Settled(m) /\ Forgets(kbd, m)
    <3>1. Settled(m) /\ SameOneshots(e, m)
      BY <2>1, ModsSettled, ModsSameOneshots
    <3> QED
      BY <2>1, <3>1, SameForgets, ForgetsThen
  <2> HIDE DEF m
  <2>5. (Settled(kbd') \/ kbd' = kbd) /\ Forgets(kbd, kbd')
    BY <2>1, <2>2, <2>3, <2>4
  <2>6. \A s \in Slot : /\ kbd'.cache[s].code = kbd.cache[s].code
                        /\ kbd.cache[s].code # NoCode => kbd'.cache[s] = kbd.cache[s]
    BY <1>2, <1>9, IdleOutcome
  <2>7. Restful(kbd')
    BY <1>2, <2>5 DEF Restful
  <2>8. Steady(kbd')
    BY <1>2, <2>5, ForgetsSteady
  <2> QED
    BY <1>4, <2>6, <2>7, <2>8
<1>10. ASSUME UNCHANGED kbd PROVE Goal(kbd')
  BY <1>2, <1>4, <1>10
<1> HIDE DEF Goal
<1>11. Goal(kbd')
  <2>1. \A quick \in Quick : quick \in BOOLEAN
    BY DEF Quick
  <2>2. \A late \in Lateness : late \in BOOLEAN
    BY DEF Lateness
  <2> QED
    BY <1>7, <1>8, <1>9, <1>10, <2>1, <2>2 DEF Next, Eval, vars
<1> QED
  BY <1>1, <1>11 DEF Goal, RestInv, Restful, Settled, ActiveMods, Steady, PlainDepth

\* No stuck modifier: with every key up and no oneshot pending, the modifiers down are
\* those of the layers still on, for any keymap without swap in which repeat is bound to
\* keys of its own and no toggle can spend the oneshot of a layer with modifiers.
THEOREM RestingCorrect ==
  ASSUME SwapFree, StableKeys, RepeatBare, PlainOneshots, LayoutsPlain
  PROVE  Spec /\ []Shallow => []RestingModifiers
<1>1. Init => RestInv
  <2> SUFFICES ASSUME Init PROVE RestInv
    OBVIOUS
  <2>1. kbd \in Keyboard /\ \A s \in Slot : kbd.cache[s].code = NoCode
    BY TypeInit DEF Init, BootKeyboard, FreeSlot, TypeOK
  <2>2. Emptied(kbd) /\ PlainDepth(kbd)
    BY OrdinaryLayers DEF Emptied, PlainDepth, Init, BootKeyboard
  <2>3. PairingInv /\ BareInv
    BY PairingInit, BareInit
  <2>4. Restful(kbd)
    BY <2>1, <2>2, <2>3, EmptiedRestful DEF PairingInv
  <2> QED
    BY <2>1, <2>2, <2>3, <2>4 DEF RestInv, Steady
<1>2. RestInv /\ Shallow /\ [Next]_vars => RestInv'
  BY RestStep
<1>3. RestInv => RestingModifiers
  BY DEF RestInv, Restful, Settled, RestingModifiers, AtRest
<1> QED
  BY <1>1, <1>2, <1>3, PTL DEF Spec
=============================================================================
