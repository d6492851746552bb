------------------------------ MODULE MCLayers ------------------------------
(***************************************************************************)
(* Keymaps for checking Layers.  Layers: 0 main, 1 nav, 2 shift (a layer   *)
(* with a modifier), 3 and 5 layouts, 4 the composite nav+shift.  Each     *)
(* keymap binds a handful of keys in main and rebinds some above it.       *)
(***************************************************************************)
EXTENDS Layers, TLC

CONSTANTS a, b, c, d, x, y, z, sh

MCType == <<"normal", "normal", "layout", "composite", "layout">>
MCLayerType == [l \in 0 .. 5 |-> IF l = 0 THEN "normal" ELSE MCType[l]]
MCLayerMods == [l \in 0 .. 5 |-> IF l = 2 THEN {sh} ELSE {}]
MCConstituents == [l \in 0 .. 5 |-> IF l = 4 THEN {1, 2} ELSE {}]
MCSelfKey == [p \in {a, b, c, d} |-> IF p = a THEN x ELSE IF p = b THEN y ELSE z]
MCAction == 0 .. 2

MCUnbound == [op |-> "none", layer |-> 0, key |-> NoKey, mods |-> {},
              macro |-> {}, act |-> 0, alt |-> 0]

Do(op)            == [MCUnbound EXCEPT !.op = op]
On(op, l)         == [Do(op) EXCEPT !.layer = l]
OnTap(op, l, n)   == [On(op, l) EXCEPT !.act = n]
OnMacro(op, l, m) == [On(op, l) EXCEPT !.macro = m]
Emit(key, mods)   == [Do("keysequence") EXCEPT !.key = key, !.mods = mods]
Choose2(m, n)     == [Do("overloadi") EXCEPT !.act = m, !.alt = n]

\* rows: for some layers, the keys it binds.  tails: the nested descriptors.
MakeConfig(rows, tails) ==
  [keymap |-> [l \in 0 .. 5 |-> [p \in {a, b, c, d} |->
                 IF l \in DOMAIN rows /\ p \in DOMAIN rows[l] THEN rows[l][p]
                                                              ELSE MCUnbound]],
   descriptors |-> [n \in 0 .. 2 |-> IF n \in DOMAIN tails THEN tails[n] ELSE Emit(x, {})]]

\* Holding, oneshots and overloads over two stacked layers and their composite.
Holding ==
  MakeConfig(0 :> (b :> On("layer", 1) @@ c :> On("oneshot", 2)
                     @@ d :> OnTap("overload", 1, 0))
             @@ 1 :> (a :> Emit(y, {sh}) @@ d :> On("oneshot", 1))
             @@ 2 :> (b :> On("layer", 2))
             @@ 4 :> (a :> Emit(z, {})),
             0 :> Emit(x, {}))

\* Toggles (nested in an overload too), macros, clears and a layout.
Toggling ==
  MakeConfig(0 :> (a :> OnTap("overload", 2, 1) @@ b :> On("toggle", 1)
                     @@ c :> OnMacro("macro", 0, {x, y}) @@ d :> On("setlayout", 3))
             @@ 1 :> (c :> OnMacro("togglem", 1, {x}) @@ d :> Do("clear"))
             @@ 2 :> (b :> OnMacro("clearm", 0, {y}) @@ d :> On("setlayout", 0)
                     @@ c :> OnMacro("layerm", 1, {z}))
             @@ 3 :> (a :> Emit(y, {}) @@ b :> On("layer", 2) @@ c :> On("setlayout", 5)),
             0 :> Emit(x, {}) @@ 1 :> On("toggle", 1))

\* oneshotk, oneshotm, repeat, command and overloadi.
Nesting1 ==
  MakeConfig(0 :> (a :> OnTap("oneshotk", 1, 0) @@ b :> Choose2(1, 2)
                     @@ c :> Do("repeat") @@ d :> OnMacro("macro2", 0, {y}))
             @@ 1 :> (b :> Do("command") @@ d :> OnMacro("oneshotm", 2, {z}))
             @@ 2 :> (a :> Emit(z, {sh}) @@ c :> Emit(NoKey, {})),
             0 :> Emit(x, {}) @@ 1 :> Emit(y, {}) @@ 2 :> OnTap("overload", 2, 0))

\* swap, where only held keys and oneshots activate the layers swapped.
Swapping ==
  MakeConfig(0 :> (b :> On("layer", 1) @@ c :> On("oneshot", 1))
             @@ 1 :> (a :> Emit(y, {}) @@ d :> OnMacro("swapm", 2, {x}))
             @@ 2 :> (a :> Emit(z, {}) @@ d :> On("swap", 1) @@ c :> On("layer", 2)),
             0 :> Emit(x, {}))

\* A bind replaces Holding's nav bindings and tap while its keys are held.
Bound == [Holding EXCEPT !.keymap[1][a] = On("toggle", 2),
                         !.keymap[0][b] = On("layer", 2),
                         !.descriptors[0] = On("oneshot", 2)]

\* Keymaps on which a property fails: each binds only what its run needs.
OneshotToggle ==
  MakeConfig(0 :> (a :> On("oneshot", 2) @@ b :> On("toggle", 1)), <<>>)

\* Two binds that follow a reset name their nested actions by the same index.
StaleBind ==
  MakeConfig(0 :> (a :> OnTap("oneshotk", 1, 0)), 0 :> Emit(x, {}))

Rebound ==
  MakeConfig(0 :> (b :> OnTap("overload", 1, 0)), 0 :> On("layer", 2))

MCConfigs     == {Holding, Toggling, Nesting1, Swapping, Bound, OneshotToggle, StaleBind, Rebound}
PlainConfigs  == {Holding, Toggling, Nesting1, Swapping}
StaleBindConfigs == {StaleBind}
OneshotToggleConfigs == {OneshotToggle}
NoEvals       == {}
StaleBindEvals == {<<StaleBind, Rebound>>}
BindEvals     == {<<Holding, Bound>>, <<Bound, Holding>>}
=============================================================================
