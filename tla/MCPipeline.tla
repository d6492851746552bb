----------------------------- MODULE MCPipeline -----------------------------
(***************************************************************************)
(* Keymaps for checking Pipeline: ca and cb may chord, co is overloaded,   *)
(* ck is an ordinary key that the layer nav remaps.                        *)
(***************************************************************************)
EXTENDS Pipeline, TLC

CONSTANTS ca, cb, co, ck, main, nav, ka, kb, ko, kk, kn

MCUnbound == [op |-> "none", key |-> kn, layer |-> main, act |-> 1, alt |-> 1, span |-> 0]
Emit(key)           == [MCUnbound EXCEPT !.op = "key", !.key = key]
Hold(layer)         == [MCUnbound EXCEPT !.op = "layer", !.layer = layer]
Overloaded(op, l, n, span) ==
  [MCUnbound EXCEPT !.op = op, !.layer = l, !.act = n, !.span = span]
Timed(m, n, span)   == [MCUnbound EXCEPT !.op = "timeout", !.act = m, !.alt = n, !.span = span]

Outputs == (ca :> ka) @@ (cb :> kb) @@ (co :> ko) @@ (ck :> kk)
MCSelfKey == [c \in Code |-> Outputs[c]]
MakeKeymap(rows) ==
  [l \in Layer |-> [c \in Code |->
     IF l \in DOMAIN rows /\ c \in DOMAIN rows[l] THEN rows[l][c] ELSE MCUnbound]]

NavBinding == MakeKeymap(nav :> (ck :> Emit(kn)))
OverloadBinding ==
  MakeKeymap(main :> (co :> Overloaded("overloadt", nav, 1, 5) @@ ca :> Timed(2, 3, 5))
             @@ nav :> (ck :> Emit(kn) @@ co :> Hold(nav) @@ ca :> Overloaded("overloadt2", nav, 2, 5)))
NestedBinding ==
  MakeKeymap(main :> (co :> Overloaded("overloadt", nav, 1, 6))
             @@ nav :> (ca :> Overloaded("overloadt", nav, 2, 2)))
MixedBinding ==
  MakeKeymap(main :> (co :> Overloaded("overloadt", nav, 1, 6)) @@ nav :> (co :> Emit(kn)))

MCAction == 1 .. 3
MCDescriptors == <<Emit(ko), Emit(ka), Hold(nav)>>

\* ca+cb is a prefix of ca+cb+ck, so that ca+cb is ambiguous until the interval ends.
MCChordKeys == <<{ca, cb}, {ca, cb, ck}, {ca, ck}>>
MCChordDescriptor == <<Hold(nav), Emit(kn), Emit(kb)>>
NoChords == [l \in Layer |-> {}]
OneChord == [l \in Layer |-> IF l = main THEN {1} ELSE {}]
PrefixChords == [l \in Layer |-> IF l = main THEN {1, 2} ELSE {3}]

Chords(keymap, chords, interkey, hold) ==
  [keymap |-> keymap, chords |-> chords, interkey |-> interkey, hold |-> hold]

\* Chords activated at once and only when held; overloaded and timed keys.
DeferringConfigs == {Chords(NavBinding, PrefixChords, 3, 0),
                     Chords(NavBinding, PrefixChords, 3, 4),
                     Chords(OverloadBinding, NoChords, 3, 0)}
\* An overloaded key and a chord that has to be held, in one keymap.
MixedConfigs  == {Chords(MixedBinding, OneChord, 3, 4)}
ReuseConfigs  == {Chords(NavBinding, PrefixChords, 3, 4)}
NestedConfigs == {Chords(NestedBinding, NoChords, 2, 0)}
=============================================================================
