---------------------------- MODULE ConfigProofs ----------------------------
(***************************************************************************)
(* Proofs about Config.  Each step of the parser is shown to keep one      *)
(* invariant, ConfigInv, and to be a step of Bindings or none at all.      *)
(*                                                                         *)
(* The parts of the invariant: Whole says that the config is one that      *)
(* keyboard.c may use, with the layers of the modifiers at their places;   *)
(* Frames, that what each activation of parse_descriptor has parsed so far *)
(* means what its expression says; Texts, where each line and entry comes  *)
(* from.  What descriptors mean and expressions say is defined by          *)
(* recursive functions: ReadsUpTo and SaysUpTo are their restrictions,     *)
(* which exist and agree by induction on the set of depths at which they   *)
(* do.  Progress, for Complete, says how far a file is parsed: what came   *)
(* of the entries before Turn is what they say; Sited, for Attributed,     *)
(* where a warning would be said to come from.                             *)
(***************************************************************************)
EXTENDS Config, SequenceTheorems, FiniteSetTheorems, TLAPS

-----------------------------------------------------------------------------
(* Constants.                                                              *)

Induction == INSTANCE FoldTheorems WITH Op <- Append

LEMMA LimitFacts ==
  /\ MaxDescriptors \in Nat /\ MaxMacros \in Nat /\ MaxCommands \in Nat /\ MaxChords \in Nat
  /\ MaxConstituents \in Nat /\ MaxLayers \in Nat /\ MaxLayers >= 6
BY LimitAssumption

LEMMA ExpFacts ==
  /\ NoVal \notin Exp /\ Empty \in Exp
  /\ \A e \in Exp : IsExp(e) /\ Depth[e] \in Nat
  /\ \A e \in Exp : e.kind = "call" =>
       \A i \in DOMAIN e.args : e.args[i] \in Exp /\ Depth[e.args[i]] < Depth[e]
  /\ \A e \in Exp : IsLettermod(e) /\ Len(e.args) = 4 =>
       Lettermod(e.args) \in Exp /\ Depth[Lettermod(e.args)] < Depth[e]
<1>1. ASSUME NEW e \in Exp, e.kind = "call", NEW i \in DOMAIN e.args
      PROVE  e.args[i] \in Exp /\ Depth[e.args[i]] < Depth[e]
  <2>1. e.args \in Seq(Exp)
    BY <1>1, ConfigAssumption DEF IsExp
  <2> QED BY <1>1, <2>1, NestingAssumption
<1>2. NoVal \notin Exp /\ Empty \in Exp /\ \A e \in Exp : IsExp(e) /\ Depth[e] \in Nat
  BY ConfigAssumption, NestingAssumption
<1> QED BY <1>1, <1>2, NestingAssumption

-----------------------------------------------------------------------------
(* What an expression says: Says is defined by recursion, and the recursion *)
(* ends because calls nest less than what they are made from.              *)

Shallower(n) == {e \in Exp : Depth[e] < n}
SaysUpTo(n, f) == f = [e \in Shallower(n) |-> Saying(e, f)]

\* An expression says what is made of what less deep ones say.
LEMMA SayingLocal ==
  ASSUME NEW e \in Exp, NEW f, NEW g, \A x \in Shallower(Depth[e]) : f[x] = g[x]
  PROVE  Saying(e, f) = Saying(e, g)
<1>1. CASE IsLettermod(e) /\ Len(e.args) = 4
  <2>1. Lettermod(e.args) \in Shallower(Depth[e])
    BY <1>1, ExpFacts DEF Shallower
  <2>2. e.kind = "call"
    BY <1>1 DEF IsLettermod
  <2>3. f[Lettermod(e.args)] = g[Lettermod(e.args)]
    BY <2>1
  <2> HIDE <2>1
  <2> QED BY <1>1, <2>2, <2>3 DEF Saying
<1>2. CASE e.kind = "call" /\ ~(IsLettermod(e) /\ Len(e.args) = 4)
  <2>1. \A i \in DOMAIN e.args : f[e.args[i]] = g[e.args[i]]
    BY <1>2, ExpFacts DEF Shallower
  <2>2. CASE Known(e.fn) /\ Len(e.args) = Len(Types(e.fn))
    BY <1>2, <2>1, <2>2 DEF Saying
  <2>3. CASE ~(Known(e.fn) /\ Len(e.args) = Len(Types(e.fn)))
    BY <1>2, <2>3 DEF Saying
  <2> QED BY <2>2, <2>3
<1>3. CASE e.kind # "call"
  BY <1>3 DEF Saying, IsLettermod
<1> QED BY <1>1, <1>2, <1>3

LEMMA SaysUnique ==
  ASSUME NEW n \in Nat, NEW m \in Nat, n <= m, NEW f, NEW g, SaysUpTo(n, f), SaysUpTo(m, g)
  PROVE  \A x \in Shallower(n) : f[x] = g[x]
<1> DEFINE T == {k \in Nat : \A x \in Shallower(n) : Depth[x] < k => f[x] = g[x]}
<1>1. 0 \in T
  BY ExpFacts DEF Shallower
<1>2. ASSUME NEW k \in Nat, k \in T PROVE k + 1 \in T
  <2> SUFFICES ASSUME NEW x \in Shallower(n), Depth[x] < k + 1 PROVE f[x] = g[x]
    OBVIOUS
  <2>1. x \in Exp /\ Depth[x] \in Nat /\ x \in Shallower(m)
    BY ExpFacts DEF Shallower
  <2>2. \A y \in Shallower(Depth[x]) : f[y] = g[y]
    BY <1>2, <2>1, ExpFacts DEF Shallower
  <2>3. Saying(x, f) = Saying(x, g)
    BY <2>1, <2>2, SayingLocal
  <2>4. f[x] = Saying(x, f)
    BY Zenon DEF SaysUpTo
  <2>5. g[x] = Saying(x, g)
    BY <2>1, Zenon DEF SaysUpTo
  <2> QED BY <2>3, <2>4, <2>5
<1> HIDE DEF T
<1>3. \A k \in Nat : k \in T
  BY <1>1, <1>2, Induction!NatSet
<1>4. n \in T
  BY <1>3
<1> QED BY <1>4, ExpFacts DEF T, Shallower

LEMMA SaysExists ==
  \A n \in Nat : \E f : SaysUpTo(n, f)
<1> DEFINE T == {n \in Nat : \E f : SaysUpTo(n, f)}
<1>1. 0 \in T
  <2>1. Shallower(0) = {}
    BY ExpFacts DEF Shallower
  <2> DEFINE f == [e \in {} |-> 0]
  <2>2. f = [e \in {} |-> Saying(e, f)]
    OBVIOUS
  <2>3. SaysUpTo(0, f)
    BY <2>1, <2>2 DEF SaysUpTo
  <2> QED BY <2>3
<1>2. ASSUME NEW n \in Nat, n \in T PROVE n + 1 \in T
  <2>1. PICK f : SaysUpTo(n, f)
    BY <1>2
  <2> DEFINE g == [e \in Shallower(n + 1) |-> Saying(e, f)]
  <2>2. ASSUME NEW e \in Shallower(n + 1)
        PROVE  Saying(e, f) = Saying(e, g)
    <3>1. e \in Exp /\ Depth[e] \in Nat /\ Depth[e] <= n
      BY ExpFacts DEF Shallower
    <3>2. ASSUME NEW x \in Shallower(Depth[e]) PROVE f[x] = g[x]
      <4>1. x \in Shallower(n) /\ x \in Shallower(n + 1)
        BY <3>1, <3>2, ExpFacts DEF Shallower
      <4>2. f[x] = Saying(x, f)
        BY <2>1, <4>1, Zenon DEF SaysUpTo
      <4>3. g[x] = Saying(x, f)
        BY <4>1, Zenon
      <4> QED BY <4>2, <4>3
    <3> HIDE DEF g
    <3> QED BY <3>1, <3>2, SayingLocal
  <2>3. g = [e \in Shallower(n + 1) |-> Saying(e, g)]
    BY <2>2, Zenon
  <2>4. SaysUpTo(n + 1, g)
    BY <2>3, Zenon DEF SaysUpTo
  <2> HIDE DEF g
  <2> QED BY <2>4
<1> HIDE DEF T
<1>3. \A n \in Nat : n \in T
  BY <1>1, <1>2, Induction!NatSet
<1> QED BY <1>3 DEF T

\* Says is what its definition says.
LEMMA SaysIs ==
  \A e \in Exp : Says[e] = Saying(e, Says)
<1> DEFINE G(n) == CHOOSE f : SaysUpTo(n, f)
           S == [e \in Exp |-> G(Depth[e] + 1)[e]]
<1>1. ASSUME NEW n \in Nat PROVE SaysUpTo(n, G(n))
  <2>1. \E f : SaysUpTo(n, f)
    BY SaysExists
  <2> QED BY <2>1, Zenon
<1> HIDE DEF G
<1>2. ASSUME NEW e \in Exp PROVE S[e] = Saying(e, S)
  <2> DEFINE n == Depth[e] + 1
  <2>0. n \in Nat /\ e \in Shallower(n)
    BY ExpFacts DEF Shallower
  <2> HIDE DEF n
  <2>1. SaysUpTo(n, G(n))
    BY <1>1, <2>0
  <2>2. G(n)[e] = Saying(e, G(n))
    BY <2>0, <2>1, Zenon DEF SaysUpTo
  <2>3. ASSUME NEW x \in Shallower(Depth[e]) PROVE S[x] = G(n)[x]
    <3>1. x \in Exp /\ Depth[x] + 1 \in Nat /\ Depth[x] + 1 <= n /\ x \in Shallower(Depth[x] + 1)
      BY ExpFacts DEF Shallower, n
    <3>2. SaysUpTo(Depth[x] + 1, G(Depth[x] + 1))
      BY <1>1, <3>1
    <3>3. G(Depth[x] + 1)[x] = G(n)[x]
      BY <2>0, <2>1, <3>1, <3>2, SaysUnique
    <3> QED BY <3>1, <3>3, Zenon
  <2> HIDE DEF S
  <2>4. Saying(e, S) = Saying(e, G(n))
    BY <2>3, SayingLocal
  <2>5. S[e] = G(n)[e]
    BY Zenon DEF S, n
  <2> QED BY <2>2, <2>4, <2>5
<1>3. S = [e \in Exp |-> Saying(e, S)]
  <2>1. S = [e \in Exp |-> S[e]]
    OBVIOUS
  <2> HIDE DEF S
  <2> QED BY <1>2, <2>1, Zenon
<1> HIDE DEF S
<1>4. Says = [e \in Exp |-> Saying(e, Says)]
  BY <1>3, Zenon DEF Says
<1> QED BY <1>4, Zenon

-----------------------------------------------------------------------------
(* What a descriptor means, and what does not change it.                   *)

ArgType == {"layer", "layout", "descriptor", "keysequence", "timeout", "sensitivity", "macro"}
Ops     == DOMAIN ArgTypes

LEMMA ArgTypesTyped ==
  /\ \A op \in Ops : ArgTypes[op] \in Seq(ArgType)
  /\ {"none", "keysequence", "macro", "command"} \cap Ops = {}
  /\ \A f \in DOMAIN Renamed : Renamed[f] \in Ops
<1>1. Ops = {"swap", "clear", "oneshot", "toggle", "clearm", "swapm", "togglem", "layerm", "oneshotm",
             "oneshotk", "layer", "overload", "overloadt", "overloadt2", "overloadi", "timeout", "macro2",
             "setlayout", "repeat", "scrollon", "scrolloff", "scrollt", "scroll"}
  BY DEF Ops, ArgTypes
<1>2. ASSUME NEW op \in Ops PROVE ArgTypes[op] \in Seq(ArgType)
  <2>1. CASE op \in {"swap", "oneshot", "toggle", "layer"}
    <3>1. ArgTypes["swap"] = <<"layer">> /\ ArgTypes["oneshot"] = <<"layer">> /\ ArgTypes["toggle"] = <<"layer">> /\ ArgTypes["layer"] = <<"layer">>
      BY DEF ArgTypes
    <3>2. <<"layer">> \in Seq(ArgType)
      BY DEF ArgType
    <3> QED BY <2>1, <3>1, <3>2
  <2>2. CASE op \in {"clear", "repeat", "scrolloff"}
    <3>1. ArgTypes["clear"] = <<>> /\ ArgTypes["repeat"] = <<>> /\ ArgTypes["scrolloff"] = <<>>
      BY DEF ArgTypes
    <3>2. <<>> \in Seq(ArgType)
      BY DEF ArgType
    <3> QED BY <2>2, <3>1, <3>2
  <2>3. CASE op \in {"clearm"}
    <3>1. ArgTypes["clearm"] = <<"macro">>
      BY DEF ArgTypes
    <3>2. <<"macro">> \in Seq(ArgType)
      BY DEF ArgType
    <3> QED BY <2>3, <3>1, <3>2
  <2>4. CASE op \in {"swapm", "togglem", "layerm", "oneshotm"}
    <3>1. ArgTypes["swapm"] = <<"layer", "macro">> /\ ArgTypes["togglem"] = <<"layer", "macro">> /\ ArgTypes["layerm"] = <<"layer", "macro">> /\ ArgTypes["oneshotm"] = <<"layer", "macro">>
      BY DEF ArgTypes
    <3>2. <<"layer", "macro">> \in Seq(ArgType)
      BY DEF ArgType
    <3> QED BY <2>4, <3>1, <3>2
  <2>5. CASE op \in {"oneshotk"}
    <3>1. ArgTypes["oneshotk"] = <<"layer", "keysequence">>
      BY DEF ArgTypes
    <3>2. <<"layer", "keysequence">> \in Seq(ArgType)
      BY DEF ArgType
    <3> QED BY <2>5, <3>1, <3>2
  <2>6. CASE op \in {"overload"}
    <3>1. ArgTypes["overload"] = <<"layer", "descriptor">>
      BY DEF ArgTypes
    <3>2. <<"layer", "descriptor">> \in Seq(ArgType)
      BY DEF ArgType
    <3> QED BY <2>6, <3>1, <3>2
  <2>7. CASE op \in {"overloadt", "overloadt2"}
    <3>1. ArgTypes["overloadt"] = <<"layer", "descriptor", "timeout">> /\ ArgTypes["overloadt2"] = <<"layer", "descriptor", "timeout">>
      BY DEF ArgTypes
    <3>2. <<"layer", "descriptor", "timeout">> \in Seq(ArgType)
      BY DEF ArgType
    <3> QED BY <2>7, <3>1, <3>2
  <2>8. CASE op \in {"overloadi"}
    <3>1. ArgTypes["overloadi"] = <<"descriptor", "descriptor", "timeout">>
      BY DEF ArgTypes
    <3>2. <<"descriptor", "descriptor", "timeout">> \in Seq(ArgType)
      BY DEF ArgType
    <3> QED BY <2>8, <3>1, <3>2
  <2>9. CASE op \in {"timeout"}
    <3>1. ArgTypes["timeout"] = <<"descriptor", "timeout", "descriptor">>
      BY DEF ArgTypes
    <3>2. <<"descriptor", "timeout", "descriptor">> \in Seq(ArgType)
      BY DEF ArgType
    <3> QED BY <2>9, <3>1, <3>2
  <2>10. CASE op \in {"macro2"}
    <3>1. ArgTypes["macro2"] = <<"timeout", "timeout", "macro">>
      BY DEF ArgTypes
    <3>2. <<"timeout", "timeout", "macro">> \in Seq(ArgType)
      BY DEF ArgType
    <3> QED BY <2>10, <3>1, <3>2
  <2>11. CASE op \in {"setlayout"}
    <3>1. ArgTypes["setlayout"] = <<"layout">>
      BY DEF ArgTypes
    <3>2. <<"layout">> \in Seq(ArgType)
      BY DEF ArgType
    <3> QED BY <2>11, <3>1, <3>2
  <2>12. CASE op \in {"scrollon", "scrollt", "scroll"}
    <3>1. ArgTypes["scrollon"] = <<"sensitivity">> /\ ArgTypes["scrollt"] = <<"sensitivity">> /\ ArgTypes["scroll"] = <<"sensitivity">>
      BY DEF ArgTypes
    <3>2. <<"sensitivity">> \in Seq(ArgType)
      BY DEF ArgType
    <3> QED BY <2>12, <3>1, <3>2
  <2> QED BY <1>1, <2>1, <2>2, <2>3, <2>4, <2>5, <2>6, <2>7, <2>8, <2>9, <2>10, <2>11, <2>12
<1>3. \A f \in DOMAIN Renamed : Renamed[f] \in Ops
  BY <1>1 DEF Renamed
<1> QED BY <1>1, <1>2, <1>3

\* c2 has what c has, where c has it.
GrowsFrom(c, c2) ==
  /\ Len(c.descriptors) <= Len(c2.descriptors)
  /\ \A i \in DOMAIN c.descriptors : c2.descriptors[i] = c.descriptors[i]
  /\ Len(c.macros) <= Len(c2.macros)
  /\ \A i \in DOMAIN c.macros : c2.macros[i] = c.macros[i]
  /\ Len(c.commands) <= Len(c2.commands)
  /\ \A i \in DOMAIN c.commands : c2.commands[i] = c.commands[i]
  /\ Len(c.layers) <= Len(c2.layers)
  /\ \A i \in DOMAIN c.layers : /\ c2.layers[i].name = c.layers[i].name
                                /\ c2.layers[i].type = c.layers[i].type

LEMMA ConfigFields ==
  ASSUME NEW c \in ConfigType
  PROVE  /\ c.layers \in Seq(Layer) /\ c.descriptors \in Seq(Descriptor)
         /\ c.macros \in Seq(Exp) /\ c.commands \in Seq(Exp)
         /\ c.aliases \in [Code -> Exp \cup {NoVal}]
         /\ c.ids \in Seq([id : Word, flags : SUBSET Kind])
         /\ c.wildcard \in BOOLEAN /\ c.options \in [Option -> Nat]
BY DEF ConfigType

LEMMA TableFacts ==
  ASSUME NEW c \in ConfigType
  PROVE  /\ Len(c.layers) \in Nat /\ DOMAIN c.layers = 1 .. Len(c.layers)
         /\ Len(c.macros) \in Nat /\ DOMAIN c.macros = 1 .. Len(c.macros)
         /\ Len(c.commands) \in Nat /\ DOMAIN c.commands = 1 .. Len(c.commands)
         /\ Len(c.descriptors) \in Nat /\ DOMAIN c.descriptors = 1 .. Len(c.descriptors)
<1>1. Len(c.layers) \in Nat /\ DOMAIN c.layers = 1 .. Len(c.layers)
  BY ConfigFields
<1>2. Len(c.macros) \in Nat /\ DOMAIN c.macros = 1 .. Len(c.macros)
  BY ConfigFields
<1>3. Len(c.commands) \in Nat /\ DOMAIN c.commands = 1 .. Len(c.commands)
  BY ConfigFields
<1>4. Len(c.descriptors) \in Nat /\ DOMAIN c.descriptors = 1 .. Len(c.descriptors)
  BY ConfigFields
<1> QED BY <1>1, <1>2, <1>3, <1>4

LEMMA LayerFields ==
  ASSUME NEW l \in Layer
  PROVE  /\ l.name \in Word /\ l.type \in {"normal", "layout", "composite"}
         /\ l.keymap \in [Code -> Descriptor] /\ l.chords \in Seq(Chord)
         /\ l.constituents \in Seq(Nat)
BY DEF Layer

LEMMA ChordFields ==
  ASSUME NEW h \in Chord
  PROVE  h.keys \in Seq(Code) /\ h.d \in Descriptor
BY DEF Chord

LEMMA DescriptorFields ==
  ASSUME NEW d \in Descriptor
  PROVE  /\ d.op \in Ops \cup {"none", "keysequence", "macro", "command"}
         /\ d.code \in Code \cup {NoCode} /\ d.args \in Seq(Nat)
BY DEF Descriptor, Ops

LEMMA GrowsReflexive ==
  ASSUME NEW c \in ConfigType
  PROVE  GrowsFrom(c, c)
BY TableFacts DEF GrowsFrom

\* What is valid stays valid when tables grow.
LEMMA ValidGrows ==
  ASSUME NEW c \in ConfigType, NEW c2 \in ConfigType, GrowsFrom(c, c2), NEW d \in Descriptor,
         NEW b \in Nat, NEW b2 \in Nat, b <= b2, b <= Len(c.descriptors), ValidDescriptor(c, d, b)
  PROVE  ValidDescriptor(c2, d, b2)
<1>0. /\ Len(c.layers) \in Nat /\ DOMAIN c.layers = 1 .. Len(c.layers)
      /\ Len(c2.layers) \in Nat /\ DOMAIN c2.layers = 1 .. Len(c2.layers)
      /\ Len(c.macros) \in Nat /\ DOMAIN c.macros = 1 .. Len(c.macros)
      /\ Len(c2.macros) \in Nat /\ DOMAIN c2.macros = 1 .. Len(c2.macros)
      /\ Len(c.commands) \in Nat /\ DOMAIN c.commands = 1 .. Len(c.commands)
      /\ Len(c2.commands) \in Nat /\ DOMAIN c2.commands = 1 .. Len(c2.commands)
      /\ Len(c.descriptors) \in Nat /\ DOMAIN c.descriptors = 1 .. Len(c.descriptors)
  BY TableFacts
<1>1. \A type, n : ValidArg(c, type, n, b) => ValidArg(c2, type, n, b2)
  <2> SUFFICES ASSUME NEW type, NEW n, ValidArg(c, type, n, b) PROVE ValidArg(c2, type, n, b2)
    OBVIOUS
  <2>1. CASE type = "layer"
    <3>1. n \in 2 .. Len(c.layers) /\ c.layers[n].type # "layout"
      BY <2>1 DEF ValidArg
    <3>2. n \in DOMAIN c.layers /\ n \in 2 .. Len(c2.layers)
      BY <3>1, <1>0 DEF GrowsFrom
    <3>3. c2.layers[n].type = c.layers[n].type
      BY <3>2 DEF GrowsFrom
    <3> QED BY <2>1, <3>1, <3>2, <3>3 DEF ValidArg
  <2>2. CASE type = "layout"
    <3>1. n = 1 \/ (n \in DOMAIN c.layers /\ c.layers[n].type = "layout")
      BY <2>2 DEF ValidArg
    <3>2. n = 1 \/ (n \in DOMAIN c2.layers /\ c2.layers[n].type = "layout")
      BY <3>1, <1>0 DEF GrowsFrom
    <3> QED BY <2>2, <3>2 DEF ValidArg
  <2>3. CASE type = "macro"
    <3>1. n \in DOMAIN c.macros
      BY <2>3 DEF ValidArg
    <3>2. n \in DOMAIN c2.macros
      BY <3>1, <1>0 DEF GrowsFrom
    <3> QED BY <2>3, <3>2 DEF ValidArg
  <2>4. CASE type = "keysequence"
    <3>1. n \in 1 .. b /\ c.descriptors[n].op = "keysequence"
      BY <2>4 DEF ValidArg
    <3>2. n \in 1 .. b2 /\ n \in DOMAIN c.descriptors
      BY <3>1, <1>0
    <3>3. c2.descriptors[n] = c.descriptors[n]
      BY <3>2 DEF GrowsFrom
    <3> QED BY <2>4, <3>1, <3>2, <3>3 DEF ValidArg
  <2>5. CASE type = "descriptor"
    <3>1. n \in 1 .. b
      BY <2>5 DEF ValidArg
    <3>2. n \in 1 .. b2
      BY <3>1
    <3> QED BY <2>5, <3>2 DEF ValidArg
  <2>6. CASE type \notin {"layer", "layout", "macro", "keysequence", "descriptor"}
    BY <2>6 DEF ValidArg
  <2> QED BY <2>1, <2>2, <2>3, <2>4, <2>5, <2>6
<1>2. CASE d.op = "macro"
  BY <1>2, <1>0 DEF ValidDescriptor, GrowsFrom
<1>3. CASE d.op = "command"
  BY <1>3, <1>0 DEF ValidDescriptor, GrowsFrom
<1>4. CASE d.op \notin {"macro", "command"}
  BY <1>4, <1>1 DEF ValidDescriptor
<1> QED BY <1>2, <1>3, <1>4

LEMMA ReadBackStable ==
  ASSUME NEW c \in ConfigType, NEW c2 \in ConfigType, GrowsFrom(c, c2), NEW d \in Descriptor,
         NEW b \in Nat, b <= Len(c.descriptors), ValidDescriptor(c, d, b), 1 \in DOMAIN c.layers,
         NEW f, NEW g, \A i \in 1 .. b : f[i] = g[i]
  PROVE  ReadBack(c, d, f) = ReadBack(c2, d, g)
<1>0. /\ Len(c.layers) \in Nat /\ DOMAIN c.layers = 1 .. Len(c.layers)
      /\ Len(c.macros) \in Nat /\ DOMAIN c.macros = 1 .. Len(c.macros)
      /\ Len(c.commands) \in Nat /\ DOMAIN c.commands = 1 .. Len(c.commands)
      /\ d.op \in Ops \cup {"none", "keysequence", "macro", "command"} /\ d.args \in Seq(Nat)
  BY TableFacts, DescriptorFields
<1>1. CASE d.op \in {"none", "keysequence"}
  BY <1>1 DEF ReadBack
<1>2. CASE d.op = "macro"
  <2>1. d.args[1] \in DOMAIN c.macros
    BY <1>2 DEF ValidDescriptor
  <2>2. c2.macros[d.args[1]] = c.macros[d.args[1]]
    BY <2>1 DEF GrowsFrom
  <2> QED BY <1>2, <2>2 DEF ReadBack
<1>3. CASE d.op = "command"
  <2>1. d.args[1] \in DOMAIN c.commands
    BY <1>3 DEF ValidDescriptor
  <2>2. c2.commands[d.args[1]] = c.commands[d.args[1]]
    BY <2>1 DEF GrowsFrom
  <2> QED BY <1>3, <2>2 DEF ReadBack
<1>4. CASE d.op \in Ops
  <2>0. /\ d.op \notin {"none", "keysequence", "macro", "command"}
        /\ ArgTypes[d.op] \in Seq(ArgType)
    BY <1>4, ArgTypesTyped
  <2>1. /\ Len(d.args) = Len(ArgTypes[d.op])
        /\ \A i \in DOMAIN d.args : ValidArg(c, ArgTypes[d.op][i], d.args[i], b)
    BY <2>0 DEF ValidDescriptor
  <2> DEFINE A(e, m) == [i \in DOMAIN d.args |->
           CASE ArgTypes[d.op][i] \in {"layer", "layout"} -> Named(e.layers[d.args[i]].name)
             [] ArgTypes[d.op][i] \in {"timeout", "sensitivity"} -> Amount(d.args[i])
             [] ArgTypes[d.op][i] = "macro" -> Typing(e.macros[d.args[i]])
             [] OTHER -> m[d.args[i]]]
  <2>2. ASSUME NEW i \in DOMAIN d.args PROVE A(c, f)[i] = A(c2, g)[i]
    <3> DEFINE type == ArgTypes[d.op][i]
               n == d.args[i]
    <3>1. type \in ArgType
      BY <2>0, <2>1, <1>0
    <3>2. ValidArg(c, type, n, b)
      BY <2>1
    <3>3. CASE type = "layer"
      <4>1. n \in DOMAIN c.layers
        BY <3>2, <3>3, <1>0 DEF ValidArg
      <4>2. c2.layers[n].name = c.layers[n].name
        BY <4>1 DEF GrowsFrom
      <4> QED BY <3>3, <4>2
    <3>4. CASE type = "layout"
      <4>1. n \in DOMAIN c.layers
        BY <3>2, <3>4, <1>0 DEF ValidArg
      <4>2. c2.layers[n].name = c.layers[n].name
        BY <4>1 DEF GrowsFrom
      <4> QED BY <3>4, <4>2
    <3>5. CASE type \in {"timeout", "sensitivity"}
      BY <3>5
    <3>6. CASE type = "macro"
      <4>1. n \in DOMAIN c.macros
        BY <3>2, <3>6 DEF ValidArg
      <4>2. c2.macros[n] = c.macros[n]
        BY <4>1 DEF GrowsFrom
      <4> QED BY <3>6, <4>2
    <3>7. CASE type \in {"descriptor", "keysequence"}
      <4>1. n \in 1 .. b
        BY <3>2, <3>7 DEF ValidArg
      <4>2. f[n] = g[n]
        BY <4>1
      <4> QED BY <3>7, <4>2
    <3> QED BY <3>1, <3>3, <3>4, <3>5, <3>6, <3>7 DEF ArgType
  <2>3. A(c, f) = A(c2, g)
    <3>1. /\ A(c, f) = [i \in DOMAIN d.args |-> A(c, f)[i]]
          /\ A(c2, g) = [i \in DOMAIN d.args |-> A(c2, g)[i]]
      OBVIOUS
    <3> HIDE DEF A
    <3> QED BY <2>2, <3>1, Zenon
  <2>4. ReadBack(c, d, f) = Does(d.op, A(c, f)) /\ ReadBack(c2, d, g) = Does(d.op, A(c2, g))
    BY <2>0 DEF ReadBack
  <2> HIDE DEF A
  <2> QED BY <2>3, <2>4
<1> QED BY <1>0, <1>1, <1>2, <1>3, <1>4

\* Descriptors refer to earlier ones only.
TablesValid(c) == /\ 1 \in DOMAIN c.layers
                  /\ \A i \in 1 .. Len(c.descriptors) : ValidDescriptor(c, c.descriptors[i], i - 1)

\* f has what the first n descriptors mean.
ReadsUpTo(c, n, f) ==
  f = [i \in 0 .. n |-> IF i = 0 THEN Nothing ELSE ReadBack(c, c.descriptors[i], f)]

LEMMA ReadsUnique ==
  ASSUME NEW c \in ConfigType, NEW c2 \in ConfigType, GrowsFrom(c, c2), TablesValid(c),
         NEW n \in Nat, n <= Len(c.descriptors), NEW m \in Nat, n <= m,
         NEW f, NEW g, ReadsUpTo(c, n, f), ReadsUpTo(c2, m, g)
  PROVE  \A i \in 0 .. n : f[i] = g[i]
<1> DEFINE T == {k \in Nat : \A i \in 0 .. n : i <= k => f[i] = g[i]}
<1>1. 0 \in T
  <2>1. 0 \in 0 .. n /\ 0 \in 0 .. m
    OBVIOUS
  <2>2. f[0] = Nothing /\ g[0] = Nothing
    BY <2>1, Zenon DEF ReadsUpTo
  <2> QED BY <2>2
<1>2. ASSUME NEW k \in Nat, k \in T PROVE k + 1 \in T
  <2> SUFFICES ASSUME NEW i \in 0 .. n, i <= k + 1 PROVE f[i] = g[i]
    OBVIOUS
  <2>1. CASE i <= k
    BY <1>2, <2>1
  <2>2. CASE i = k + 1
    <3>1. /\ i \in 1 .. Len(c.descriptors) /\ i # 0 /\ i - 1 \in Nat /\ i - 1 <= Len(c.descriptors)
          /\ i \in 0 .. m /\ i \in DOMAIN c.descriptors
      BY <2>2, TableFacts
    <3>2. /\ c.descriptors[i] \in Descriptor /\ ValidDescriptor(c, c.descriptors[i], i - 1)
          /\ c2.descriptors[i] = c.descriptors[i] /\ 1 \in DOMAIN c.layers
      BY <3>1, ConfigFields DEF TablesValid, GrowsFrom
    <3>3. \A j \in 1 .. i - 1 : f[j] = g[j]
      BY <1>2, <2>2
    <3>4. ReadBack(c, c.descriptors[i], f) = ReadBack(c2, c.descriptors[i], g)
      BY <3>1, <3>2, <3>3, ReadBackStable
    <3>5. f[i] = ReadBack(c, c.descriptors[i], f)
      BY <3>1, Zenon DEF ReadsUpTo
    <3>6. g[i] = ReadBack(c2, c2.descriptors[i], g)
      BY <3>1, Zenon DEF ReadsUpTo
    <3> QED BY <3>2, <3>4, <3>5, <3>6
  <2> QED BY <2>1, <2>2
<1> HIDE DEF T
<1>3. \A k \in Nat : k \in T
  BY <1>1, <1>2, Induction!NatSet
<1>4. n \in T
  BY <1>3
<1> QED BY <1>4 DEF T

LEMMA ReadsExist ==
  ASSUME NEW c \in ConfigType, TablesValid(c)
  PROVE  \A n \in Nat : n <= Len(c.descriptors) => \E f : ReadsUpTo(c, n, f)
<1> DEFINE T == {n \in Nat : n <= Len(c.descriptors) => \E f : ReadsUpTo(c, n, f)}
<1>1. 0 \in T
  <2> DEFINE f == [i \in {0} |-> Nothing]
  <2>1. f = [i \in 0 .. 0 |-> IF i = 0 THEN Nothing ELSE ReadBack(c, c.descriptors[i], f)]
    <3>1. \A i \in 0 .. 0 : (IF i = 0 THEN Nothing ELSE ReadBack(c, c.descriptors[i], f)) = Nothing
      OBVIOUS
    <3>2. 0 .. 0 = {0}
      OBVIOUS
    <3> HIDE DEF f
    <3>3. f = [i \in 0 .. 0 |-> Nothing]
      BY <3>2 DEF f
    <3> QED BY <3>1, <3>3, Zenon
  <2>2. ReadsUpTo(c, 0, f)
    BY <2>1, Zenon DEF ReadsUpTo
  <2> HIDE DEF f
  <2> QED BY <2>2
<1>2. ASSUME NEW n \in Nat, n \in T PROVE n + 1 \in T
  <2> SUFFICES ASSUME n + 1 <= Len(c.descriptors) PROVE \E f : ReadsUpTo(c, n + 1, f)
    OBVIOUS
  <2>0. Len(c.descriptors) \in Nat
    BY TableFacts
  <2>1. PICK f : ReadsUpTo(c, n, f)
    BY <1>2, <2>0
  <2> DEFINE g == [i \in 0 .. (n + 1) |-> IF i = 0 THEN Nothing ELSE ReadBack(c, c.descriptors[i], f)]
  <2>2. ASSUME NEW i \in 0 .. n PROVE f[i] = g[i]
    <3>1. i \in 0 .. (n + 1)
      OBVIOUS
    <3>2. f[i] = IF i = 0 THEN Nothing ELSE ReadBack(c, c.descriptors[i], f)
      BY <2>1, Zenon DEF ReadsUpTo
    <3>3. g[i] = IF i = 0 THEN Nothing ELSE ReadBack(c, c.descriptors[i], f)
      BY <3>1, Zenon
    <3> QED BY <3>2, <3>3, Zenon
  <2> HIDE DEF g
  <2>3. ASSUME NEW i \in 0 .. (n + 1), i # 0
        PROVE  ReadBack(c, c.descriptors[i], f) = ReadBack(c, c.descriptors[i], g)
    <3>1. /\ i \in 1 .. Len(c.descriptors) /\ i - 1 \in Nat /\ i - 1 <= Len(c.descriptors)
          /\ i \in DOMAIN c.descriptors
      BY <2>3, <2>0, TableFacts
    <3>2. /\ c.descriptors[i] \in Descriptor /\ ValidDescriptor(c, c.descriptors[i], i - 1)
          /\ 1 \in DOMAIN c.layers
      BY <3>1, ConfigFields DEF TablesValid
    <3>3. \A j \in 1 .. i - 1 : f[j] = g[j]
      BY <2>2
    <3>4. GrowsFrom(c, c)
      BY GrowsReflexive
    <3> DEFINE b == i - 1
               d == c.descriptors[i]
    <3>5. /\ b \in Nat /\ b <= Len(c.descriptors) /\ d \in Descriptor
          /\ ValidDescriptor(c, d, b) /\ \A j \in 1 .. b : f[j] = g[j]
      BY <3>1, <3>2, <3>3
    <3> HIDE DEF b, d
    <3>6. ReadBack(c, d, f) = ReadBack(c, d, g)
      BY <3>2, <3>4, <3>5, ReadBackStable
    <3> QED BY <3>6 DEF d
  <2>4. \A i \in 0 .. (n + 1) : (IF i = 0 THEN Nothing ELSE ReadBack(c, c.descriptors[i], f))
                              = (IF i = 0 THEN Nothing ELSE ReadBack(c, c.descriptors[i], g))
    BY <2>3, Zenon
  <2>5. g = [i \in 0 .. (n + 1) |-> IF i = 0 THEN Nothing ELSE ReadBack(c, c.descriptors[i], g)]
    <3> DEFINE F(i) == IF i = 0 THEN Nothing ELSE ReadBack(c, c.descriptors[i], f)
               H(i) == IF i = 0 THEN Nothing ELSE ReadBack(c, c.descriptors[i], g)
    <3>1. g = [i \in 0 .. (n + 1) |-> F(i)]
      BY Zenon DEF g
    <3>2. \A i \in 0 .. (n + 1) : F(i) = H(i)
      BY <2>4
    <3> HIDE DEF F
    <3>3. g = [i \in 0 .. (n + 1) |-> H(i)]
      <4> HIDE DEF H
      <4> QED BY <3>1, <3>2, Zenon
    <3> QED BY <3>3
  <2>6. ReadsUpTo(c, n + 1, g)
    BY <2>5, Zenon DEF ReadsUpTo
  <2> QED BY <2>6
<1> HIDE DEF T
<1>3. \A n \in Nat : n \in T
  BY <1>1, <1>2, Induction!NatSet
<1> QED BY <1>3 DEF T

LEMMA MeaningsAre ==
  ASSUME NEW c \in ConfigType, TablesValid(c)
  PROVE  ReadsUpTo(c, Len(c.descriptors), Meanings(c))
<1> DEFINE n == Len(c.descriptors)
<1>0. n \in Nat /\ n <= Len(c.descriptors)
  BY TableFacts
<1>1. \E f : ReadsUpTo(c, n, f)
  <2> HIDE DEF n
  <2> QED BY <1>0, ReadsExist
<1>2. \E f : f = [i \in 0 .. Len(c.descriptors) |-> IF i = 0 THEN Nothing ELSE ReadBack(c, c.descriptors[i], f)]
  BY <1>1, Zenon DEF ReadsUpTo
<1>3. Meanings(c) = CHOOSE f : f = [i \in 0 .. Len(c.descriptors) |->
                                      IF i = 0 THEN Nothing ELSE ReadBack(c, c.descriptors[i], f)]
  BY Zenon DEF Meanings
<1> QED BY <1>2, <1>3, Zenon DEF ReadsUpTo

LEMMA MeaningOf ==
  ASSUME NEW c \in ConfigType, TablesValid(c), NEW i \in 1 .. Len(c.descriptors)
  PROVE  Meanings(c)[i] = Meaning(c, c.descriptors[i])
<1>1. i \in 0 .. Len(c.descriptors) /\ i # 0
  OBVIOUS
<1>2. ReadsUpTo(c, Len(c.descriptors), Meanings(c))
  BY MeaningsAre
<1> DEFINE f == Meanings(c)
<1> HIDE DEF f
<1>3. ReadsUpTo(c, Len(c.descriptors), f)
  BY <1>2 DEF f
<1>4. f[i] = ReadBack(c, c.descriptors[i], f)
  BY <1>1, <1>3, Zenon DEF ReadsUpTo
<1> QED BY <1>4, Zenon DEF f, Meaning

\* What a descriptor means does not change when tables grow.
LEMMA MeaningStable ==
  ASSUME NEW c \in ConfigType, NEW c2 \in ConfigType, GrowsFrom(c, c2), TablesValid(c), TablesValid(c2),
         NEW d \in Descriptor, ValidDescriptor(c, d, Len(c.descriptors))
  PROVE  Meaning(c, d) = Meaning(c2, d)
<1> DEFINE n == Len(c.descriptors)
           m == Len(c2.descriptors)
<1>0. n \in Nat /\ m \in Nat /\ n <= m /\ n <= Len(c.descriptors) /\ 1 \in DOMAIN c.layers
  BY TableFacts DEF GrowsFrom, TablesValid
<1>1. ReadsUpTo(c, n, Meanings(c)) /\ ReadsUpTo(c2, m, Meanings(c2))
  BY MeaningsAre
<1>2. ValidDescriptor(c, d, n)
  OBVIOUS
<1> HIDE DEF n, m
<1>3. \A i \in 0 .. n : Meanings(c)[i] = Meanings(c2)[i]
  BY <1>0, <1>1, ReadsUnique
<1>4. \A i \in 1 .. n : Meanings(c)[i] = Meanings(c2)[i]
  BY <1>0, <1>3
<1>5. ReadBack(c, d, Meanings(c)) = ReadBack(c2, d, Meanings(c2))
  BY <1>0, <1>2, <1>4, ReadBackStable
<1> QED BY <1>5 DEF Meaning

-----------------------------------------------------------------------------
(* What is so of every config: Valid, with what it takes to keep it and to *)
(* know what is bound.                                                     *)

Limits(c) == /\ Len(c.descriptors) <= MaxDescriptors /\ Len(c.macros) <= MaxMacros
             /\ Len(c.commands) <= MaxCommands /\ Len(c.layers) <= MaxLayers

\* The default layers stay the first ones.
FixedLayers(c) == \A i \in 1 .. 6 : /\ i \in DOMAIN c.layers
                                    /\ c.layers[i].name = DefaultLayers[i]
                                    /\ c.layers[i].type = IF i = 1 THEN "layout" ELSE "normal"

Distinct(c) == \A i, j \in DOMAIN c.layers : c.layers[i].name = c.layers[j].name => i = j

ValidLayer(c, i) ==
  LET l == c.layers[i]
      n == Len(c.descriptors)
  IN  /\ \A code \in Code : ValidDescriptor(c, l.keymap[code], n)
      /\ \A h \in Members(l.chords) : ValidDescriptor(c, h.d, n)
      /\ Len(l.chords) <= MaxChords /\ Len(l.constituents) <= MaxConstituents
      /\ \A m \in Members(l.constituents) : m \in 1 .. i - 1

\* A chord has a key that none before it has all keys of.
Separate(l) == \A m, n \in DOMAIN l.chords :
                 m < n => ~(Members(l.chords[n].keys) \subseteq Members(l.chords[m].keys))

Whole(c) == /\ c \in ConfigType /\ TablesValid(c) /\ Limits(c) /\ FixedLayers(c) /\ Distinct(c)
            /\ \A i \in DOMAIN c.layers : ValidLayer(c, i) /\ Separate(c.layers[i])

LEMMA WholeIsValid == Whole(config) => Valid
<1> SUFFICES ASSUME Whole(config) PROVE Valid
  OBVIOUS
<1>1. \A i \in DOMAIN config.layers : ValidLayer(config, i)
  BY DEF Whole
<1>2. TablesValid(config) /\ Limits(config)
  BY DEF Whole
<1> QED BY <1>1, <1>2, Zenon DEF Valid, ValidLayer, TablesValid, Limits

LEMMA LeastOf ==
  ASSUME NEW S \in SUBSET Nat, S # {}
  PROVE  \E x \in S : \A y \in S : x <= y
<1> DEFINE T == {n \in Nat : (\E s \in S : s <= n) => \E x \in S : \A y \in S : x <= y}
<1>1. 0 \in T
  OBVIOUS
<1>2. ASSUME NEW n \in Nat, n \in T PROVE n + 1 \in T
  <2>1. CASE \E s \in S : s <= n
    BY <1>2, <2>1
  <2>2. CASE ~ \E s \in S : s <= n
    <3>1. ASSUME NEW s \in S, s <= n + 1 PROVE \A y \in S : s <= y
      BY <2>2, <3>1
    <3> QED BY <3>1
  <2> QED BY <2>1, <2>2
<1> HIDE DEF T
<1>3. \A n \in Nat : n \in T
  BY <1>1, <1>2, Induction!NatSet
<1>4. PICK s \in S : TRUE
  OBVIOUS
<1>5. s \in T
  BY <1>3
<1> QED BY <1>5 DEF T

LEMMA LayerIndexIs ==
  ASSUME NEW c, NEW w
  PROVE  /\ (\E i \in DOMAIN c.layers : c.layers[i].name = w) =>
              LayerIndex(c, w) \in DOMAIN c.layers /\ c.layers[LayerIndex(c, w)].name = w
         /\ ~(\E i \in DOMAIN c.layers : c.layers[i].name = w) => LayerIndex(c, w) = 0
BY Zenon DEF LayerIndex

LEMMA LayerIndexFound ==
  ASSUME NEW c \in ConfigType, NEW w
  PROVE  /\ LayerIndex(c, w) \in Nat
         /\ LayerIndex(c, w) # 0 => /\ LayerIndex(c, w) \in DOMAIN c.layers
                                    /\ LayerIndex(c, w) \in 1 .. Len(c.layers)
                                    /\ c.layers[LayerIndex(c, w)].name = w
         /\ LayerIndex(c, w) = 0 => \A i \in DOMAIN c.layers : c.layers[i].name # w
<1>1. DOMAIN c.layers = 1 .. Len(c.layers) /\ Len(c.layers) \in Nat
  BY TableFacts
<1> QED BY <1>1, LayerIndexIs

-----------------------------------------------------------------------------
(* What is bound.                                                          *)

BoundTo(c, l, target, d) == [layer |-> l.name, target |-> target, action |-> Meaning(c, d)]

KeyBound(c, l, b) == \E code \in Code : /\ l.keymap[code].op # "none"
                                        /\ b = BoundTo(c, l, KeyTarget(code), l.keymap[code])
ChordBound(c, l, b) == \E m \in DOMAIN l.chords :
                         /\ l.chords[m].d.op # "none"
                         /\ b = BoundTo(c, l, ChordTarget(l.chords[m].keys), l.chords[m].d)
Bound(c, l, b) == KeyBound(c, l, b) \/ ChordBound(c, l, b)

LEMMA BindingsAre ==
  ASSUME NEW c, NEW b
  PROVE  b \in BindingsIn(c) <=> \E i \in DOMAIN c.layers : Bound(c, c.layers[i], b)
<1> DEFINE keys(l) == {[layer |-> l.name, target |-> KeyTarget(code), action |-> Meaning(c, l.keymap[code])] :
                         code \in {x \in Code : l.keymap[x].op # "none"}}
           chords(l) == {[layer |-> l.name, target |-> ChordTarget(h.keys), action |-> Meaning(c, h.d)] :
                           h \in {x \in Members(l.chords) : x.d.op # "none"}}
           of(l) == keys(l) \cup chords(l)
<1>1. ASSUME NEW l PROVE b \in keys(l) <=> KeyBound(c, l, b)
  BY DEF KeyBound, BoundTo
<1>2. ASSUME NEW l PROVE b \in chords(l) <=> ChordBound(c, l, b)
  BY DEF ChordBound, BoundTo, Members
<1>3. BindingsIn(c) = UNION {of(l) : l \in Members(c.layers)}
  BY DEF BindingsIn
<1> HIDE DEF keys, chords
<1>4. ASSUME NEW l PROVE b \in of(l) <=> Bound(c, l, b)
  BY <1>1, <1>2 DEF Bound
<1> HIDE DEF of
<1>5. b \in BindingsIn(c) <=> \E l \in Members(c.layers) : b \in of(l)
  BY <1>3
<1>6. (\E l \in Members(c.layers) : Bound(c, l, b)) <=> \E i \in DOMAIN c.layers : Bound(c, c.layers[i], b)
  BY DEF Members
<1> QED BY <1>4, <1>5, <1>6, Zenon

\* Only what is bound to nothing means nothing.
LEMMA MeansNothing ==
  ASSUME NEW c, NEW d \in Descriptor
  PROVE  Meaning(c, d) = Nothing <=> d.op = "none"
<1>1. CASE d.op = "none"
  BY <1>1 DEF Meaning, ReadBack
<1>2. CASE d.op \in {"keysequence", "macro", "command"}
  <2>1. Meaning(c, d).kind # Nothing.kind
    BY <1>2 DEF Meaning, ReadBack, Nothing, Typing
  <2> QED BY <1>2, <2>1
<1>3. CASE d.op \in Ops
  <2>1. d.op \notin {"none", "keysequence", "macro", "command"}
    BY <1>3, ArgTypesTyped
  <2>2. Meaning(c, d).kind = "does"
    BY <2>1 DEF Meaning, ReadBack, Does
  <2> QED BY <2>1, <2>2 DEF Nothing
<1> QED BY <1>1, <1>2, <1>3, DescriptorFields

LEMMA LayerAt ==
  ASSUME NEW c \in ConfigType, NEW i \in DOMAIN c.layers
  PROVE  /\ c.layers[i] \in Layer
         /\ c.layers[i].keymap \in [Code -> Descriptor]
         /\ c.layers[i].chords \in Seq(Chord)
         /\ DOMAIN c.layers[i].chords = 1 .. Len(c.layers[i].chords)
         /\ Len(c.layers[i].chords) \in Nat
         /\ \A m \in DOMAIN c.layers[i].chords : /\ c.layers[i].chords[m] \in Chord
                                                 /\ c.layers[i].chords[m].keys \in Seq(Code)
                                                 /\ c.layers[i].chords[m].d \in Descriptor
<1>1. c.layers[i] \in Layer
  BY ConfigFields
<1>2. c.layers[i].keymap \in [Code -> Descriptor] /\ c.layers[i].chords \in Seq(Chord)
  BY <1>1, LayerFields
<1> DEFINE s == c.layers[i].chords
<1> HIDE DEF s
<1>3. s \in Seq(Chord)
  BY <1>2 DEF s
<1>4. /\ DOMAIN s = 1 .. Len(s) /\ Len(s) \in Nat
      /\ \A m \in DOMAIN s : s[m] \in Chord
  BY <1>3
<1>5. \A m \in DOMAIN s : s[m].keys \in Seq(Code) /\ s[m].d \in Descriptor
  BY <1>4, ChordFields
<1> QED BY <1>1, <1>2, <1>4, <1>5 DEF s

\* In a whole config the descriptors of a layer are valid.
LEMMA ValidAt ==
  ASSUME NEW c, Whole(c), NEW i \in DOMAIN c.layers
  PROVE  /\ \A code \in Code : /\ c.layers[i].keymap[code] \in Descriptor
                               /\ ValidDescriptor(c, c.layers[i].keymap[code], Len(c.descriptors))
         /\ \A m \in DOMAIN c.layers[i].chords :
              /\ c.layers[i].chords[m].d \in Descriptor
              /\ ValidDescriptor(c, c.layers[i].chords[m].d, Len(c.descriptors))
<1>0. c \in ConfigType /\ ValidLayer(c, i)
  BY DEF Whole
<1>1. \A h \in Members(c.layers[i].chords) : ValidDescriptor(c, h.d, Len(c.descriptors))
  BY <1>0 DEF ValidLayer
<1>2. \A m \in DOMAIN c.layers[i].chords : c.layers[i].chords[m] \in Members(c.layers[i].chords)
  BY DEF Members
<1>3. \A code \in Code : ValidDescriptor(c, c.layers[i].keymap[code], Len(c.descriptors))
  BY <1>0 DEF ValidLayer
<1> QED BY <1>0, <1>1, <1>2, <1>3, LayerAt

\* The bindings of a layer that is as it was, in tables that may have grown.
LEMMA BoundStable ==
  ASSUME NEW c, Whole(c), NEW c2, Whole(c2), GrowsFrom(c, c2), NEW i \in DOMAIN c.layers,
         c2.layers[i].keymap = c.layers[i].keymap, c2.layers[i].chords = c.layers[i].chords,
         NEW b
  PROVE  Bound(c, c.layers[i], b) <=> Bound(c2, c2.layers[i], b)
<1>0. c \in ConfigType /\ c2 \in ConfigType /\ TablesValid(c) /\ TablesValid(c2)
  BY DEF Whole
<1>1. c2.layers[i].name = c.layers[i].name
  BY DEF GrowsFrom
<1>2. \A d \in Descriptor : ValidDescriptor(c, d, Len(c.descriptors)) => Meaning(c, d) = Meaning(c2, d)
  BY <1>0, MeaningStable
<1>3. \A code \in Code : Meaning(c, c.layers[i].keymap[code]) = Meaning(c2, c.layers[i].keymap[code])
  BY <1>2, ValidAt
<1>4. \A m \in DOMAIN c.layers[i].chords :
        Meaning(c, c.layers[i].chords[m].d) = Meaning(c2, c.layers[i].chords[m].d)
  BY <1>2, ValidAt
<1>5. KeyBound(c, c.layers[i], b) <=> KeyBound(c2, c2.layers[i], b)
  BY <1>1, <1>3 DEF KeyBound, BoundTo
<1>6. ChordBound(c, c.layers[i], b) <=> ChordBound(c2, c2.layers[i], b)
  BY <1>1, <1>4 DEF ChordBound, BoundTo
<1> QED BY <1>5, <1>6 DEF Bound

Blank(l) == l.chords = <<>> /\ \A code \in Code : l.keymap[code].op = "none"

LEMMA BlankIsUnbound ==
  ASSUME NEW c, NEW l, Blank(l), NEW b
  PROVE  ~Bound(c, l, b)
BY DEF Blank, Bound, KeyBound, ChordBound

\* Larger tables and new layers bind nothing.
LEMMA SameBindings ==
  ASSUME NEW c, Whole(c), NEW c2, Whole(c2), GrowsFrom(c, c2),
         \A i \in DOMAIN c.layers : /\ c2.layers[i].keymap = c.layers[i].keymap
                                    /\ c2.layers[i].chords = c.layers[i].chords,
         \A i \in DOMAIN c2.layers \ DOMAIN c.layers : Blank(c2.layers[i])
  PROVE  BindingsIn(c2) = BindingsIn(c)
<1>0. DOMAIN c.layers \subseteq DOMAIN c2.layers
  BY TableFacts DEF Whole, GrowsFrom
<1>1. ASSUME NEW b PROVE b \in BindingsIn(c2) <=> b \in BindingsIn(c)
  <2>1. ASSUME NEW i \in DOMAIN c.layers PROVE Bound(c, c.layers[i], b) <=> Bound(c2, c2.layers[i], b)
    BY BoundStable
  <2>2. ASSUME NEW i \in DOMAIN c2.layers \ DOMAIN c.layers PROVE ~Bound(c2, c2.layers[i], b)
    BY BlankIsUnbound
  <2> QED BY <1>0, <2>1, <2>2, BindingsAre
<1> QED BY <1>1

-----------------------------------------------------------------------------
(* One layer changed.                                                      *)

Relayered(c, i, l) == [c EXCEPT !.layers[i] = l]

LEMMA RelayeredFields ==
  ASSUME NEW c \in ConfigType, NEW i \in DOMAIN c.layers, NEW l \in Layer
  PROVE  /\ Relayered(c, i, l) \in ConfigType
         /\ DOMAIN Relayered(c, i, l).layers = DOMAIN c.layers
         /\ Len(Relayered(c, i, l).layers) = Len(c.layers)
         /\ Relayered(c, i, l).layers[i] = l
         /\ \A j \in DOMAIN c.layers \ {i} : Relayered(c, i, l).layers[j] = c.layers[j]
         /\ Relayered(c, i, l).descriptors = c.descriptors
         /\ Relayered(c, i, l).macros = c.macros
         /\ Relayered(c, i, l).commands = c.commands
         /\ Relayered(c, i, l).aliases = c.aliases
         /\ Relayered(c, i, l).ids = c.ids
         /\ Relayered(c, i, l).wildcard = c.wildcard
         /\ Relayered(c, i, l).options = c.options
<1>1. c.layers \in Seq(Layer)
  BY ConfigFields
<1>2. /\ [c.layers EXCEPT ![i] = l] \in Seq(Layer)
      /\ DOMAIN [c.layers EXCEPT ![i] = l] = DOMAIN c.layers
      /\ Len([c.layers EXCEPT ![i] = l]) = Len(c.layers)
  BY <1>1
<1>3. Relayered(c, i, l) = [c EXCEPT !.layers = [c.layers EXCEPT ![i] = l]]
  BY DEF Relayered
<1> DEFINE ls == [c.layers EXCEPT ![i] = l]
<1>4. ls[i] = l /\ \A j \in DOMAIN c.layers \ {i} : ls[j] = c.layers[j]
  OBVIOUS
<1> HIDE DEF ls
<1>5. Relayered(c, i, l) = [c EXCEPT !.layers = ls] /\ ls \in Seq(Layer)
  BY <1>2, <1>3 DEF ls
<1>6. [c EXCEPT !.layers = ls] \in ConfigType /\ [c EXCEPT !.layers = ls].layers = ls
  BY <1>5 DEF ConfigType
<1>7. /\ Relayered(c, i, l).descriptors = c.descriptors
      /\ Relayered(c, i, l).macros = c.macros
      /\ Relayered(c, i, l).commands = c.commands
      /\ Relayered(c, i, l).aliases = c.aliases
      /\ Relayered(c, i, l).ids = c.ids
      /\ Relayered(c, i, l).wildcard = c.wildcard
      /\ Relayered(c, i, l).options = c.options
  BY <1>5 DEF ConfigType
<1>8. Relayered(c, i, l) \in ConfigType /\ Relayered(c, i, l).layers = ls
  BY <1>5, <1>6
<1> QED BY <1>2, <1>4, <1>7, <1>8 DEF ls

\* l may stand for the layer i of c.
Fits(c, i, l) ==
  LET n == Len(c.descriptors)
  IN  /\ l \in Layer
      /\ l.name = c.layers[i].name /\ l.type = c.layers[i].type
      /\ l.constituents = c.layers[i].constituents
      /\ \A code \in Code : ValidDescriptor(c, l.keymap[code], n)
      /\ \A m \in DOMAIN l.chords : ValidDescriptor(c, l.chords[m].d, n)
      /\ Len(l.chords) <= MaxChords /\ Separate(l)

LEMMA RelayeredWhole ==
  ASSUME NEW c, Whole(c), NEW i \in DOMAIN c.layers, NEW l, Fits(c, i, l)
  PROVE  Whole(Relayered(c, i, l)) /\ GrowsFrom(c, Relayered(c, i, l))
<1> DEFINE r == Relayered(c, i, l)
           n == Len(c.descriptors)
<1>0. c \in ConfigType /\ l \in Layer
  BY DEF Whole, Fits
<1>21. /\ r \in ConfigType /\ DOMAIN r.layers = DOMAIN c.layers /\ Len(r.layers) = Len(c.layers)
      /\ r.layers[i] = l
  BY <1>0, RelayeredFields
<1>22. \A j \in DOMAIN c.layers \ {i} : r.layers[j] = c.layers[j]
  BY <1>0, RelayeredFields
<1>23. r.descriptors = c.descriptors /\ r.macros = c.macros /\ r.commands = c.commands
  BY <1>0, RelayeredFields
<1> HIDE DEF r
<1>1. /\ r \in ConfigType /\ DOMAIN r.layers = DOMAIN c.layers /\ Len(r.layers) = Len(c.layers)
      /\ r.layers[i] = l /\ \A j \in DOMAIN c.layers \ {i} : r.layers[j] = c.layers[j]
      /\ r.descriptors = c.descriptors /\ r.macros = c.macros /\ r.commands = c.commands
  BY <1>21, <1>22, <1>23
<1>2. \A j \in DOMAIN c.layers : /\ r.layers[j].name = c.layers[j].name
                                 /\ r.layers[j].type = c.layers[j].type
                                 /\ r.layers[j].constituents = c.layers[j].constituents
  BY <1>1 DEF Fits
<1>3. GrowsFrom(c, r)
  <2>1. Len(c.descriptors) \in Nat /\ Len(c.macros) \in Nat /\ Len(c.commands) \in Nat /\ Len(c.layers) \in Nat
    BY <1>0, TableFacts
  <2> QED BY <1>1, <1>2, <2>1 DEF GrowsFrom
<1>4. n \in Nat /\ \A k \in 1 .. n : c.descriptors[k] \in Descriptor /\ k - 1 \in Nat /\ k - 1 <= n
  BY <1>0, ConfigFields
<1>5. \A d \in Descriptor, b \in Nat : b <= n /\ ValidDescriptor(c, d, b) => ValidDescriptor(r, d, b)
  BY <1>0, <1>1, <1>3, <1>4, ValidGrows
<1>6. TablesValid(r)
  <2>1. \A k \in 1 .. n : ValidDescriptor(c, c.descriptors[k], k - 1) /\ 1 \in DOMAIN c.layers
    BY DEF Whole, TablesValid
  <2>2. \A k \in 1 .. n : ValidDescriptor(r, c.descriptors[k], k - 1)
    BY <1>4, <1>5, <2>1
  <2>3. 1 \in DOMAIN r.layers
    BY <1>1 DEF Whole, TablesValid
  <2> QED BY <1>1, <2>2, <2>3 DEF TablesValid
<1>7. Limits(r)
  BY <1>1 DEF Limits, Whole
<1>8. FixedLayers(r)
  BY <1>1, <1>2 DEF FixedLayers, Whole
<1>9. Distinct(r)
  BY <1>1, <1>2 DEF Distinct, Whole
<1>10. ASSUME NEW j \in DOMAIN c.layers PROVE ValidLayer(r, j) /\ Separate(r.layers[j])
  <2>1. /\ Len(c.layers[j].constituents) <= MaxConstituents
        /\ \A m \in Members(c.layers[j].constituents) : m \in 1 .. j - 1
    BY DEF Whole, ValidLayer
  <2>2. CASE j = i
    <3>1. l.keymap \in [Code -> Descriptor] /\ l.chords \in Seq(Chord)
      BY <1>0, LayerFields
    <3>2. \A m \in DOMAIN l.chords : l.chords[m].d \in Descriptor
      BY <3>1, ChordFields
    <3>3. /\ \A code \in Code : ValidDescriptor(r, l.keymap[code], n)
          /\ \A m \in DOMAIN l.chords : ValidDescriptor(r, l.chords[m].d, n)
      BY <1>4, <1>5, <3>1, <3>2 DEF Fits
    <3>4. \A h \in Members(l.chords) : ValidDescriptor(r, h.d, n)
      BY <3>3 DEF Members
    <3> QED BY <1>1, <1>2, <2>1, <2>2, <3>3, <3>4 DEF ValidLayer, Fits
  <2>3. CASE j # i
    <3>1. r.layers[j] = c.layers[j]
      BY <1>1, <2>3
    <3>2. /\ \A code \in Code : ValidDescriptor(r, c.layers[j].keymap[code], n)
          /\ \A m \in DOMAIN c.layers[j].chords : ValidDescriptor(r, c.layers[j].chords[m].d, n)
      BY <1>4, <1>5, ValidAt
    <3>3. \A h \in Members(c.layers[j].chords) : ValidDescriptor(r, h.d, n)
      BY <3>2 DEF Members
    <3>4. Len(c.layers[j].chords) <= MaxChords /\ Separate(c.layers[j])
      BY DEF Whole, ValidLayer
    <3> QED BY <1>1, <2>1, <3>1, <3>2, <3>3, <3>4 DEF ValidLayer
  <2> QED BY <2>2, <2>3
<1>11. Whole(r)
  BY <1>1, <1>6, <1>7, <1>8, <1>9, <1>10 DEF Whole
<1> QED BY <1>3, <1>11 DEF r

-----------------------------------------------------------------------------
(* Setting an entry grants the request that it is.                         *)

LEMMA KeyFacts ==
  ASSUME NEW key \in Word
  PROVE  /\ Parts[key] \in Seq(Word) /\ Len(Parts[key]) \in Nat
         /\ ChordCodes(key) \in Seq(Code \cup {NoCode})
         /\ NoCode \notin Members(ChordCodes(key)) => ChordCodes(key) \in Seq(Code)
         /\ Members(ChordCodes(key)) \subseteq Code \cup {NoCode}
<1>0. KeyOf \in [Word -> Code \cup {NoCode}] /\ Parts[key] \in Seq(Word)
  BY ConfigAssumption
<1>1. DOMAIN Parts[key] = 1 .. Len(Parts[key]) /\ Len(Parts[key]) \in Nat
  BY <1>0
<1>2. \A i \in DOMAIN Parts[key] : Parts[key][i] \in Word
  BY <1>0
<1>3. \A i \in 1 .. Len(Parts[key]) : KeyOf[Parts[key][i]] \in Code \cup {NoCode}
  BY <1>0, <1>1, <1>2
<1>4. ChordCodes(key) = [i \in 1 .. Len(Parts[key]) |-> KeyOf[Parts[key][i]]]
  BY <1>1 DEF ChordCodes
<1> DEFINE s == ChordCodes(key)
           n == Len(Parts[key])
<1>5. s \in Seq(Code \cup {NoCode}) /\ DOMAIN s = 1 .. n /\ \A i \in 1 .. n : s[i] \in Code \cup {NoCode}
  BY <1>1, <1>3, <1>4
<1> HIDE DEF s
<1>6. Len(s) \in Nat /\ DOMAIN s = 1 .. Len(s) /\ s = [i \in 1 .. Len(s) |-> s[i]]
  BY <1>5
<1>7. ASSUME NoCode \notin Members(s) PROVE s \in Seq(Code)
  <2>1. \A i \in 1 .. Len(s) : s[i] \in Code
    BY <1>5, <1>6, <1>7 DEF Members
  <2> QED BY <1>6, <2>1
<1>8. Members(s) \subseteq Code \cup {NoCode}
  BY <1>5 DEF Members
<1> QED BY <1>0, <1>1, <1>5, <1>7, <1>8 DEF s

LEMMA KeyCodesFacts ==
  ASSUME NEW c, NEW key \in Word
  PROVE  KeyCodes(c, key) \in SUBSET Code
<1>1. KeyOf[key] \in Code \cup {NoCode}
  BY ConfigAssumption
<1> QED BY <1>1 DEF KeyCodes, AliasedCodes

LEMMA ChordOfIs ==
  ASSUME NEW l \in Layer, NEW keys
  PROVE  LET having == {i \in DOMAIN l.chords : Members(keys) \subseteq Members(l.chords[i].keys)}
         IN  /\ having = {} => ChordOf(l, keys) = 0
             /\ having # {} => /\ ChordOf(l, keys) \in having
                               /\ ChordOf(l, keys) # 0
                               /\ \A j \in having : ChordOf(l, keys) <= j
<1> DEFINE having == {i \in DOMAIN l.chords : Members(keys) \subseteq Members(l.chords[i].keys)}
<1>1. DOMAIN l.chords = 1 .. Len(l.chords) /\ Len(l.chords) \in Nat
  BY LayerFields
<1>2. having \in SUBSET Nat /\ 0 \notin having
  BY <1>1
<1>3. ChordOf(l, keys) = IF having = {} THEN 0 ELSE CHOOSE i \in having : \A j \in having : i <= j
  BY Zenon DEF ChordOf
<1> HIDE DEF having
<1>4. CASE having # {}
  <2>1. \E i \in having : \A j \in having : i <= j
    BY <1>2, <1>4, LeastOf
  <2>2. ChordOf(l, keys) \in having /\ \A j \in having : ChordOf(l, keys) <= j
    BY <1>3, <1>4, <2>1, Zenon
  <2> QED BY <1>2, <1>4, <2>2 DEF having
<1>5. CASE having = {}
  BY <1>3, <1>5 DEF having
<1> QED BY <1>4, <1>5

RebindKeys(l, codes, d) ==
  [l EXCEPT !.keymap = [code \in Code |-> IF code \in codes THEN d ELSE l.keymap[code]]]
RebindChord(l, i, d) == [l EXCEPT !.chords = [l.chords EXCEPT ![i].d = d]]
AddChord(l, keys, d) == [l EXCEPT !.chords = Append(l.chords, [keys |-> keys, d |-> d])]

LEMMA SetEntryIs ==
  ASSUME NEW c \in ConfigType, NEW l \in DOMAIN c.layers, NEW key, NEW d
  PROVE  LET keys == ChordCodes(key)
             i == ChordOf(c.layers[l], keys)
         IN  SetEntry(c, l, key, d) =
               Relayered(c, l, IF ~IsChord(key) THEN RebindKeys(c.layers[l], KeyCodes(c, key), d)
                               ELSE IF i # 0 THEN RebindChord(c.layers[l], i, d)
                               ELSE AddChord(c.layers[l], keys, d))
<1> DEFINE keys == ChordCodes(key)
           i == ChordOf(c.layers[l], keys)
<1>0. c.layers \in Seq(Layer) /\ c.layers[l] \in Layer
  BY ConfigFields
<1> HIDE DEF keys, i
<1>1. CASE ~IsChord(key)
  <2>1. SetEntry(c, l, key, d) =
          [c EXCEPT !.layers[l].keymap = [code \in Code |-> IF code \in KeyCodes(c, key) THEN d ELSE @[code]]]
    BY <1>1 DEF SetEntry
  <2> DEFINE K == KeyCodes(c, key)
  <2> HIDE DEF K
  <2>2. [c EXCEPT !.layers[l].keymap = [code \in Code |-> IF code \in K THEN d ELSE @[code]]]
          = Relayered(c, l, RebindKeys(c.layers[l], K, d))
    BY <1>0 DEF Relayered, RebindKeys
  <2> QED BY <1>1, <2>1, <2>2 DEF K
<1>2. CASE IsChord(key) /\ i # 0
  <2>1. SetEntry(c, l, key, d) = [c EXCEPT !.layers[l].chords[i].d = d]
    BY <1>2 DEF SetEntry, i, keys
  <2>2. [c EXCEPT !.layers[l].chords[i].d = d] = Relayered(c, l, RebindChord(c.layers[l], i, d))
    BY <1>0 DEF Relayered, RebindChord
  <2> QED BY <1>2, <2>1, <2>2 DEF i, keys
<1>3. CASE IsChord(key) /\ i = 0
  <2>1. SetEntry(c, l, key, d) = [c EXCEPT !.layers[l].chords = Append(@, [keys |-> keys, d |-> d])]
    BY <1>3 DEF SetEntry, i, keys
  <2>2. [c EXCEPT !.layers[l].chords = Append(@, [keys |-> keys, d |-> d])]
          = Relayered(c, l, AddChord(c.layers[l], keys, d))
    BY <1>0 DEF Relayered, AddChord
  <2> QED BY <1>3, <2>1, <2>2 DEF i, keys
<1> QED BY <1>1, <1>2, <1>3 DEF i, keys

\* A request for a layer, as the refinement makes it.
Asked(c, l, targets, action) == [layer |-> c.layers[l].name, targets |-> targets, action |-> action]

\* The new bindings of the layer are the old ones but for the targets, which are bound to d.
Rebinds(c, r, l, targets, d) ==
  \A b : Bound(r, r.layers[l], b) <=>
           \/ Bound(c, c.layers[l], b) /\ b.target \notin targets
           \/ d.op # "none" /\ \E t \in targets : b = BoundTo(c, c.layers[l], t, d)

LEMMA BoundLayer ==
  ASSUME NEW c, NEW l, NEW b, Bound(c, l, b)
  PROVE  b.layer = l.name
BY DEF Bound, KeyBound, ChordBound, BoundTo

LEMMA RebindingGrants ==
  ASSUME NEW c, Whole(c), NEW l \in DOMAIN c.layers, NEW n, Fits(c, l, n), NEW targets,
         NEW d \in Descriptor, Rebinds(c, Relayered(c, l, n), l, targets, d)
  PROVE  BindingsIn(Relayered(c, l, n))
           = Promised!Granted(BindingsIn(c), Asked(c, l, targets, Meaning(c, d)))
<1> DEFINE r == Relayered(c, l, n)
           q == Asked(c, l, targets, Meaning(c, d))
<1>0. c \in ConfigType /\ n \in Layer /\ Distinct(c)
  BY DEF Whole, Fits
<1>1. Whole(r) /\ GrowsFrom(c, r)
  BY RelayeredWhole
<1>2. /\ DOMAIN r.layers = DOMAIN c.layers
      /\ \A j \in DOMAIN c.layers \ {l} : r.layers[j] = c.layers[j]
  BY <1>0, RelayeredFields
<1>3. Rebinds(c, r, l, targets, d)
  OBVIOUS
<1> HIDE DEF r
<1>4. ASSUME NEW b, NEW j \in DOMAIN c.layers, j # l
      PROVE  Bound(r, r.layers[j], b) <=> Bound(c, c.layers[j], b)
  <2>1. r.layers[j] = c.layers[j]
    BY <1>2, <1>4
  <2> QED BY <1>1, <2>1, BoundStable
<1>5. ASSUME NEW b, NEW j \in DOMAIN c.layers, j # l, Bound(c, c.layers[j], b)
      PROVE  b.layer # c.layers[l].name
  <2>1. b.layer = c.layers[j].name
    BY <1>5, BoundLayer
  <2> QED BY <1>0, <1>5, <2>1 DEF Distinct
<1>6. ASSUME NEW b PROVE Bound(c, c.layers[l], b) => b.layer = c.layers[l].name
  BY BoundLayer
<1>7. ASSUME NEW b
      PROVE  b \in BindingsIn(r) <=>
               \/ b \in BindingsIn(c) /\ (b.layer # c.layers[l].name \/ b.target \notin targets)
               \/ d.op # "none" /\ \E t \in targets : b = BoundTo(c, c.layers[l], t, d)
  <2>1. b \in BindingsIn(r) <=> \/ \E j \in DOMAIN c.layers \ {l} : Bound(c, c.layers[j], b)
                                \/ Bound(r, r.layers[l], b)
    BY <1>2, <1>4, BindingsAre
  <2>2. b \in BindingsIn(c) <=> \/ \E j \in DOMAIN c.layers \ {l} : Bound(c, c.layers[j], b)
                                \/ Bound(c, c.layers[l], b)
    BY BindingsAre
  <2>3. Bound(r, r.layers[l], b) <=>
           \/ Bound(c, c.layers[l], b) /\ b.target \notin targets
           \/ d.op # "none" /\ \E t \in targets : b = BoundTo(c, c.layers[l], t, d)
    BY <1>3, Zenon DEF Rebinds
  <2> QED BY <1>5, <1>6, <2>1, <2>2, <2>3
<1>8. d.op # "none" <=> Meaning(c, d) # Nothing
  BY MeansNothing
<1>9. /\ q.layer = c.layers[l].name /\ q.targets = targets /\ q.action = Meaning(c, d)
      /\ \A t : BoundTo(c, c.layers[l], t, d) = [layer |-> q.layer, target |-> t, action |-> q.action]
  BY DEF Asked, BoundTo
<1> HIDE DEF q
<1>10. ASSUME NEW b
       PROVE  b \in Promised!Granted(BindingsIn(c), q) <=>
                \/ b \in BindingsIn(c) /\ (b.layer # q.layer \/ b.target \notin q.targets)
                \/ q.action # Nothing
                   /\ \E t \in q.targets : b = [layer |-> q.layer, target |-> t, action |-> q.action]
  BY DEF Promised!Granted
<1>11. ASSUME NEW b
       PROVE  b \in BindingsIn(r) <=> b \in Promised!Granted(BindingsIn(c), q)
  <2>1. (\E t \in targets : b = BoundTo(c, c.layers[l], t, d))
          <=> \E t \in q.targets : b = [layer |-> q.layer, target |-> t, action |-> q.action]
    BY <1>9, Zenon
  <2>2. d.op # "none" <=> q.action # Nothing
    BY <1>8, <1>9
  <2> QED BY <1>7, <1>9, <1>10, <2>1, <2>2, Zenon
<1>12. BindingsIn(r) = Promised!Granted(BindingsIn(c), q)
  BY <1>11
<1> QED BY <1>12 DEF r, q

LEMMA TargetsDiffer ==
  /\ \A x, y : KeyTarget(x) = KeyTarget(y) => x = y
  /\ \A x, y : ChordTarget(x) = ChordTarget(y) <=> Members(x) = Members(y)
  /\ \A x, y : KeyTarget(x) # ChordTarget(y)
<1>1. \A x, y : KeyTarget(x) = KeyTarget(y) => x = y
  <2> SUFFICES ASSUME NEW x, NEW y, KeyTarget(x) = KeyTarget(y) PROVE x = y
    OBVIOUS
  <2>1. KeyTarget(x).keys = {x} /\ KeyTarget(y).keys = {y}
    BY DEF KeyTarget
  <2> QED BY <2>1
<1>2. \A x, y : ChordTarget(x) = ChordTarget(y) <=> Members(x) = Members(y)
  <2> SUFFICES ASSUME NEW x, NEW y PROVE ChordTarget(x) = ChordTarget(y) <=> Members(x) = Members(y)
    OBVIOUS
  <2>1. ChordTarget(x).keys = Members(x) /\ ChordTarget(y).keys = Members(y)
    BY DEF ChordTarget
  <2>2. Members(x) = Members(y) => ChordTarget(x) = ChordTarget(y)
    BY DEF ChordTarget
  <2> QED BY <2>1, <2>2
<1>3. \A x, y : KeyTarget(x) # ChordTarget(y)
  <2> SUFFICES ASSUME NEW x, NEW y PROVE KeyTarget(x) # ChordTarget(y)
    OBVIOUS
  <2>1. KeyTarget(x).chord = FALSE /\ ChordTarget(y).chord = TRUE
    BY DEF KeyTarget, ChordTarget
  <2> QED BY <2>1
<1> QED BY <1>1, <1>2, <1>3

LEMMA RelayeredBound ==
  ASSUME NEW c, Whole(c), NEW l \in DOMAIN c.layers, NEW n, Fits(c, l, n), NEW b
  PROVE  Bound(Relayered(c, l, n), n, b) <=> Bound(c, n, b)
<1> DEFINE r == Relayered(c, l, n)
<1>0. c \in ConfigType /\ n \in Layer /\ TablesValid(c)
  BY DEF Whole, Fits
<1>1. Whole(r) /\ GrowsFrom(c, r)
  BY RelayeredWhole
<1> HIDE DEF r
<1>2. r \in ConfigType /\ TablesValid(r)
  BY <1>1 DEF Whole
<1>3. \A d \in Descriptor : ValidDescriptor(c, d, Len(c.descriptors)) => Meaning(r, d) = Meaning(c, d)
  BY <1>0, <1>1, <1>2, MeaningStable
<1>4. n.keymap \in [Code -> Descriptor] /\ n.chords \in Seq(Chord)
  BY <1>0, LayerFields
<1>5. \A m \in DOMAIN n.chords : n.chords[m].d \in Descriptor
  BY <1>4, ChordFields
<1>6. \A code \in Code : Meaning(r, n.keymap[code]) = Meaning(c, n.keymap[code])
  BY <1>3, <1>4 DEF Fits
<1>7. \A m \in DOMAIN n.chords : Meaning(r, n.chords[m].d) = Meaning(c, n.chords[m].d)
  BY <1>3, <1>5 DEF Fits
<1>8. KeyBound(r, n, b) <=> KeyBound(c, n, b)
  BY <1>6 DEF KeyBound, BoundTo
<1>9. ChordBound(r, n, b) <=> ChordBound(c, n, b)
  BY <1>7 DEF ChordBound, BoundTo
<1> QED BY <1>8, <1>9 DEF Bound, r

LEMMA RebindsHere ==
  ASSUME NEW c, Whole(c), NEW l \in DOMAIN c.layers, NEW n, Fits(c, l, n), NEW targets, NEW d,
         \A b : Bound(c, n, b) <=>
                  \/ Bound(c, c.layers[l], b) /\ b.target \notin targets
                  \/ d.op # "none" /\ \E t \in targets : b = BoundTo(c, c.layers[l], t, d)
  PROVE  Rebinds(c, Relayered(c, l, n), l, targets, d)
<1>1. c \in ConfigType /\ n \in Layer
  BY DEF Whole, Fits
<1>2. Relayered(c, l, n).layers[l] = n
  BY <1>1, RelayeredFields
<1> QED BY <1>2, RelayeredBound DEF Rebinds

LEMMA BoundToFields ==
  ASSUME NEW c, NEW l, NEW t, NEW d
  PROVE  BoundTo(c, l, t, d).target = t
BY DEF BoundTo

LEMMA KeysRebound ==
  ASSUME NEW c, Whole(c), NEW l \in DOMAIN c.layers, NEW K \in SUBSET Code, NEW d \in Descriptor,
         ValidDescriptor(c, d, Len(c.descriptors))
  PROVE  /\ Fits(c, l, RebindKeys(c.layers[l], K, d))
         /\ Rebinds(c, Relayered(c, l, RebindKeys(c.layers[l], K, d)), l,
                    {KeyTarget(code) : code \in K}, d)
<1> DEFINE o == c.layers[l]
           n == RebindKeys(o, K, d)
           T == {KeyTarget(code) : code \in K}
<1>0. c \in ConfigType /\ o \in Layer
  BY ConfigFields DEF Whole
<1>1. o.keymap \in [Code -> Descriptor] /\ o.chords \in Seq(Chord)
  BY <1>0, LayerFields
<1>2. /\ n \in Layer /\ n.name = o.name /\ n.type = o.type /\ n.constituents = o.constituents
      /\ n.chords = o.chords
      /\ n.keymap = [code \in Code |-> IF code \in K THEN d ELSE o.keymap[code]]
  BY <1>0, <1>1 DEF RebindKeys, Layer
<1>3. \A code \in Code : n.keymap[code] = IF code \in K THEN d ELSE o.keymap[code]
  BY <1>2
<1>4. /\ \A code \in Code : ValidDescriptor(c, o.keymap[code], Len(c.descriptors))
      /\ \A m \in DOMAIN o.chords : ValidDescriptor(c, o.chords[m].d, Len(c.descriptors))
      /\ Len(o.chords) <= MaxChords /\ Separate(o)
  BY ValidAt DEF Whole, ValidLayer
<1> HIDE DEF n
<1>5. Fits(c, l, n)
  <2>1. Separate(n)
    BY <1>2, <1>4 DEF Separate
  <2> QED BY <1>2, <1>3, <1>4, <2>1 DEF Fits
<1> HIDE DEF o
<1>6. ASSUME NEW b
      PROVE  Bound(c, n, b) <=> \/ Bound(c, o, b) /\ b.target \notin T
                                \/ d.op # "none" /\ \E t \in T : b = BoundTo(c, o, t, d)
  <2>1. ChordBound(c, n, b) <=> ChordBound(c, o, b)
    BY <1>2 DEF ChordBound, BoundTo
  <2>2. ChordBound(c, o, b) => b.target \notin T
    BY TargetsDiffer, BoundToFields DEF ChordBound
  <2>3. \A t, x : BoundTo(c, n, t, x) = BoundTo(c, o, t, x)
    BY <1>2 DEF BoundTo
  <2>4. KeyBound(c, n, b) <=>
          \/ \E code \in Code \ K : o.keymap[code].op # "none" /\ b = BoundTo(c, o, KeyTarget(code), o.keymap[code])
          \/ \E code \in K : d.op # "none" /\ b = BoundTo(c, o, KeyTarget(code), d)
    BY <1>3, <2>3 DEF KeyBound
  <2>5. (\E code \in Code \ K : o.keymap[code].op # "none" /\ b = BoundTo(c, o, KeyTarget(code), o.keymap[code]))
          <=> KeyBound(c, o, b) /\ b.target \notin T
    BY TargetsDiffer, BoundToFields DEF KeyBound
  <2>6. (\E code \in K : d.op # "none" /\ b = BoundTo(c, o, KeyTarget(code), d))
          <=> d.op # "none" /\ \E t \in T : b = BoundTo(c, o, t, d)
    OBVIOUS
  <2> HIDE DEF T
  <2> QED BY <2>1, <2>2, <2>4, <2>5, <2>6 DEF Bound
<1>7. Rebinds(c, Relayered(c, l, n), l, T, d)
  <2> HIDE DEF T
  <2> QED BY <1>5, <1>6, RebindsHere DEF o
<1> QED BY <1>5, <1>7 DEF n, o

LEMMA ChordRebound ==
  ASSUME NEW c, Whole(c), NEW l \in DOMAIN c.layers, NEW i \in DOMAIN c.layers[l].chords,
         NEW d \in Descriptor, ValidDescriptor(c, d, Len(c.descriptors))
  PROVE  /\ Fits(c, l, RebindChord(c.layers[l], i, d))
         /\ Rebinds(c, Relayered(c, l, RebindChord(c.layers[l], i, d)), l,
                    {ChordTarget(c.layers[l].chords[i].keys)}, d)
<1> DEFINE o == c.layers[l]
           n == RebindChord(o, i, d)
           T == {ChordTarget(o.chords[i].keys)}
<1>0. c \in ConfigType /\ o \in Layer
  BY ConfigFields DEF Whole
<1>1. /\ o.keymap \in [Code -> Descriptor] /\ o.chords \in Seq(Chord)
      /\ \A m \in DOMAIN o.chords : o.chords[m] \in Chord
  BY <1>0, LayerFields
<1>2. /\ n.name = o.name /\ n.type = o.type /\ n.constituents = o.constituents
      /\ n.keymap = o.keymap /\ n.chords = [o.chords EXCEPT ![i].d = d]
      /\ n = [o EXCEPT !.chords = [o.chords EXCEPT ![i].d = d]]
  BY <1>0, <1>1 DEF RebindChord, Layer
<1> DEFINE h == [o.chords[i] EXCEPT !.d = d]
<1>3. h \in Chord /\ h.keys = o.chords[i].keys /\ h.d = d
  BY <1>1 DEF Chord
<1>4. n.chords = [o.chords EXCEPT ![i] = h]
  BY <1>1, <1>2
<1> HIDE DEF h, n
<1> DEFINE s == n.chords
<1>5. s \in Seq(Chord) /\ DOMAIN s = DOMAIN o.chords /\ Len(s) = Len(o.chords)
  BY <1>1, <1>3, <1>4
<1>6. s[i] = h /\ \A m \in DOMAIN o.chords \ {i} : s[m] = o.chords[m]
  BY <1>1, <1>4
<1>7. /\ \A m \in DOMAIN o.chords : s[m].keys = o.chords[m].keys
      /\ s[i].d = d /\ \A m \in DOMAIN o.chords \ {i} : s[m].d = o.chords[m].d
  BY <1>3, <1>6
<1>8. n \in Layer
  BY <1>0, <1>2, <1>5 DEF Layer
<1>9. /\ \A code \in Code : ValidDescriptor(c, o.keymap[code], Len(c.descriptors))
      /\ \A m \in DOMAIN o.chords : ValidDescriptor(c, o.chords[m].d, Len(c.descriptors))
      /\ Len(o.chords) <= MaxChords /\ Separate(o)
  BY ValidAt DEF Whole, ValidLayer
<1>10. Fits(c, l, n)
  <2>1. Separate(n)
    BY <1>5, <1>7, <1>9 DEF Separate
  <2>2. \A m \in DOMAIN s : ValidDescriptor(c, s[m].d, Len(c.descriptors))
    BY <1>5, <1>7, <1>9
  <2> QED BY <1>2, <1>5, <1>8, <1>9, <2>1, <2>2 DEF Fits
<1> HIDE DEF o, s
<1>11. \A m \in DOMAIN o.chords \ {i} : Members(o.chords[m].keys) # Members(o.chords[i].keys)
  <2>1. DOMAIN o.chords = 1 .. Len(o.chords) /\ Len(o.chords) \in Nat /\ i \in DOMAIN o.chords
    BY <1>1 DEF o
  <2> QED BY <1>9, <2>1 DEF Separate
<1>12. ASSUME NEW b
       PROVE  Bound(c, n, b) <=> \/ Bound(c, o, b) /\ b.target \notin T
                                 \/ d.op # "none" /\ \E t \in T : b = BoundTo(c, o, t, d)
  <2>0. \A t, x : BoundTo(c, n, t, x) = BoundTo(c, o, t, x)
    BY <1>2 DEF BoundTo
  <2>1. KeyBound(c, n, b) <=> KeyBound(c, o, b)
    BY <1>2, <2>0 DEF KeyBound
  <2>2. KeyBound(c, o, b) => b.target \notin T
    BY TargetsDiffer, BoundToFields DEF KeyBound
  <2>3. i \in DOMAIN o.chords
    BY DEF o
  <2>4. ChordBound(c, n, b) <=>
          \/ \E m \in DOMAIN o.chords \ {i} :
               o.chords[m].d.op # "none" /\ b = BoundTo(c, o, ChordTarget(o.chords[m].keys), o.chords[m].d)
          \/ d.op # "none" /\ b = BoundTo(c, o, ChordTarget(o.chords[i].keys), d)
    BY <1>5, <1>7, <2>0, <2>3 DEF ChordBound, s
  <2>5. (\E m \in DOMAIN o.chords \ {i} :
               o.chords[m].d.op # "none" /\ b = BoundTo(c, o, ChordTarget(o.chords[m].keys), o.chords[m].d))
          <=> ChordBound(c, o, b) /\ b.target \notin T
    BY <1>11, <2>3, TargetsDiffer, BoundToFields DEF ChordBound
  <2> QED BY <2>1, <2>2, <2>4, <2>5 DEF Bound
<1>13. Rebinds(c, Relayered(c, l, n), l, T, d)
  <2> HIDE DEF T
  <2> QED BY <1>10, <1>12, RebindsHere DEF o
<1> QED BY <1>10, <1>13 DEF n, o

LEMMA ChordAdded ==
  ASSUME NEW c, Whole(c), NEW l \in DOMAIN c.layers, NEW keys \in Seq(Code),
         Len(c.layers[l].chords) < MaxChords, ChordOf(c.layers[l], keys) = 0,
         NEW d \in Descriptor, ValidDescriptor(c, d, Len(c.descriptors))
  PROVE  /\ Fits(c, l, AddChord(c.layers[l], keys, d))
         /\ Rebinds(c, Relayered(c, l, AddChord(c.layers[l], keys, d)), l, {ChordTarget(keys)}, d)
<1> DEFINE o == c.layers[l]
           n == AddChord(o, keys, d)
           T == {ChordTarget(keys)}
           h == [keys |-> keys, d |-> d]
<1>0. c \in ConfigType /\ o \in Layer
  BY ConfigFields DEF Whole
<1>1. /\ o.keymap \in [Code -> Descriptor] /\ o.chords \in Seq(Chord)
      /\ h \in Chord /\ h.keys = keys /\ h.d = d
  BY <1>0, LayerFields DEF Chord
<1>2. /\ n.name = o.name /\ n.type = o.type /\ n.constituents = o.constituents
      /\ n.keymap = o.keymap /\ n.chords = Append(o.chords, h)
      /\ n = [o EXCEPT !.chords = Append(o.chords, h)]
  BY <1>0, <1>1 DEF AddChord, Layer
<1>3. \A m \in DOMAIN o.chords : ~(Members(keys) \subseteq Members(o.chords[m].keys))
  BY <1>0, ChordOfIs
<1> HIDE DEF h, n
<1> DEFINE s == n.chords
           k == Len(o.chords)
<1>4. /\ s \in Seq(Chord) /\ k \in Nat /\ DOMAIN o.chords = 1 .. k
      /\ DOMAIN s = 1 .. (k + 1) /\ Len(s) = k + 1
      /\ s[k + 1] = h /\ \A m \in DOMAIN o.chords : s[m] = o.chords[m]
  BY <1>1, <1>2
<1>5. n \in Layer
  BY <1>0, <1>2, <1>4 DEF Layer
<1>6. /\ \A code \in Code : ValidDescriptor(c, o.keymap[code], Len(c.descriptors))
      /\ \A m \in DOMAIN o.chords : ValidDescriptor(c, o.chords[m].d, Len(c.descriptors))
      /\ k < MaxChords /\ Separate(o) /\ MaxChords \in Nat
  BY ValidAt, LimitAssumption DEF Whole, ValidLayer
<1>7. Fits(c, l, n)
  <2>1. Separate(n)
    <3> SUFFICES ASSUME NEW x \in DOMAIN s, NEW y \in DOMAIN s, x < y
                 PROVE  ~(Members(s[y].keys) \subseteq Members(s[x].keys))
      BY DEF Separate
    <3>1. CASE y = k + 1
      <4>1. x \in DOMAIN o.chords /\ s[x] = o.chords[x] /\ s[y].keys = keys
        BY <1>1, <1>4, <3>1
      <4> QED BY <1>3, <4>1
    <3>2. CASE y # k + 1
      <4>1. x \in DOMAIN o.chords /\ y \in DOMAIN o.chords /\ s[x] = o.chords[x] /\ s[y] = o.chords[y]
        BY <1>4, <3>2
      <4> QED BY <1>6, <4>1 DEF Separate
    <3> QED BY <3>1, <3>2
  <2>2. ASSUME NEW m \in DOMAIN s PROVE ValidDescriptor(c, s[m].d, Len(c.descriptors))
    <3>1. CASE m = k + 1
      BY <1>1, <1>4, <3>1
    <3>2. CASE m # k + 1
      BY <1>4, <1>6, <3>2
    <3> QED BY <3>1, <3>2
  <2>3. Len(s) <= MaxChords
    BY <1>4, <1>6
  <2> QED BY <1>2, <1>5, <1>6, <2>1, <2>2, <2>3 DEF Fits
<1> HIDE DEF o, s
<1>8. ASSUME NEW b
      PROVE  Bound(c, n, b) <=> \/ Bound(c, o, b) /\ b.target \notin T
                                \/ d.op # "none" /\ \E t \in T : b = BoundTo(c, o, t, d)
  <2>0. \A t, x : BoundTo(c, n, t, x) = BoundTo(c, o, t, x)
    BY <1>2 DEF BoundTo
  <2>1. KeyBound(c, n, b) <=> KeyBound(c, o, b)
    <3>1. n.keymap = o.keymap
      BY <1>2
    <3> QED BY <2>0, <3>1, Zenon DEF KeyBound
  <2>2. KeyBound(c, o, b) => b.target \notin T
    BY TargetsDiffer, BoundToFields DEF KeyBound
  <2>3. ChordBound(c, n, b) <=>
          \E m \in 1 .. (k + 1) : s[m].d.op # "none" /\ b = BoundTo(c, o, ChordTarget(s[m].keys), s[m].d)
    BY <1>4, <2>0 DEF ChordBound, s
  <2>4. 1 .. (k + 1) = DOMAIN o.chords \cup {k + 1}
    BY <1>4
  <2>5. ChordBound(c, n, b) <=>
          \/ \E m \in DOMAIN o.chords :
               o.chords[m].d.op # "none" /\ b = BoundTo(c, o, ChordTarget(o.chords[m].keys), o.chords[m].d)
          \/ d.op # "none" /\ b = BoundTo(c, o, ChordTarget(keys), d)
    BY <1>1, <1>4, <2>3, <2>4
  <2>6. ChordBound(c, o, b) => b.target \notin T
    BY <1>3, TargetsDiffer, BoundToFields DEF ChordBound
  <2> QED BY <2>1, <2>2, <2>5, <2>6 DEF Bound, ChordBound
<1>9. Rebinds(c, Relayered(c, l, n), l, T, d)
  <2> HIDE DEF T
  <2> QED BY <1>7, <1>8, RebindsHere DEF o
<1> QED BY <1>7, <1>9 DEF n, o

\* An entry that can be set is granted: all it names is bound to what it is set to.
LEMMA SetEntryGrants ==
  ASSUME NEW c, Whole(c), NEW l \in DOMAIN c.layers, NEW key \in Word, Settable(c, l, key),
         NEW d \in Descriptor, ValidDescriptor(c, d, Len(c.descriptors))
  PROVE  /\ Whole(SetEntry(c, l, key, d)) /\ GrowsFrom(c, SetEntry(c, l, key, d))
         /\ BindingsIn(SetEntry(c, l, key, d))
              = Promised!Granted(BindingsIn(c), Asked(c, l, Targets(c, l, key), Meaning(c, d)))
         /\ \E n \in Layer : Fits(c, l, n) /\ SetEntry(c, l, key, d) = Relayered(c, l, n)
<1> DEFINE keys == ChordCodes(key)
           i == ChordOf(c.layers[l], keys)
           o == c.layers[l]
           n == IF ~IsChord(key) THEN RebindKeys(o, KeyCodes(c, key), d)
                ELSE IF i # 0 THEN RebindChord(o, i, d) ELSE AddChord(o, keys, d)
           T == Targets(c, l, key)
<1>0. c \in ConfigType /\ o \in Layer
  BY ConfigFields DEF Whole
<1>1. SetEntry(c, l, key, d) = Relayered(c, l, n)
  BY <1>0, SetEntryIs
<1>2. Fits(c, l, n) /\ Rebinds(c, Relayered(c, l, n), l, T, d)
  <2>1. CASE ~IsChord(key)
    <3>1. KeyCodes(c, key) \in SUBSET Code
      BY KeyCodesFacts
    <3>2. n = RebindKeys(o, KeyCodes(c, key), d)
      BY <2>1
    <3>3. T = {KeyTarget(code) : code \in KeyCodes(c, key)}
      BY <2>1 DEF Targets
    <3> HIDE DEF n, T
    <3> QED BY <3>1, <3>2, <3>3, KeysRebound
  <2>2. CASE IsChord(key) /\ i # 0
    <3>1. i \in DOMAIN o.chords
      BY <1>0, <2>2, ChordOfIs
    <3>2. n = RebindChord(o, i, d)
      BY <2>2
    <3>3. T = {ChordTarget(o.chords[i].keys)}
      BY <2>2 DEF Targets
    <3> HIDE DEF n, T, i
    <3> QED BY <3>1, <3>2, <3>3, ChordRebound
  <2>3. CASE IsChord(key) /\ i = 0
    <3>1. keys \in Seq(Code) /\ Len(o.chords) < MaxChords
      BY <2>3, KeyFacts DEF Settable
    <3>2. n = AddChord(o, keys, d)
      BY <2>3
    <3>3. T = {ChordTarget(keys)}
      BY <2>3 DEF Targets
    <3>4. ChordOf(c.layers[l], keys) = 0
      BY <2>3
    <3> HIDE DEF n, T, keys, i
    <3> QED BY <3>1, <3>2, <3>3, <3>4, ChordAdded
  <2> QED BY <2>1, <2>2, <2>3
<1> HIDE DEF n, T
<1>3. Whole(Relayered(c, l, n)) /\ GrowsFrom(c, Relayered(c, l, n))
  BY <1>2, RelayeredWhole
<1>4. BindingsIn(Relayered(c, l, n)) = Promised!Granted(BindingsIn(c), Asked(c, l, T, Meaning(c, d)))
  BY <1>2, RebindingGrants
<1>5. n \in Layer
  BY <1>2 DEF Fits
<1> QED BY <1>1, <1>2, <1>3, <1>4, <1>5 DEF T

-----------------------------------------------------------------------------
(* Tables that grow while an entry is parsed, and the first pass.          *)

\* c2 has the layers of c; what else it has was added behind what c has.
Grown(c, c2) == /\ Whole(c2) /\ GrowsFrom(c, c2)
                /\ c2.layers = c.layers /\ c2.aliases = c.aliases

LEMMA GrownWhole ==
  ASSUME NEW c, Whole(c), NEW c2 \in ConfigType, GrowsFrom(c, c2), c2.layers = c.layers, Limits(c2),
         \A i \in 1 .. Len(c2.descriptors) :
           i > Len(c.descriptors) => ValidDescriptor(c2, c2.descriptors[i], i - 1)
  PROVE  Whole(c2)
<1> DEFINE n == Len(c.descriptors)
           m == Len(c2.descriptors)
<1>1. c \in ConfigType /\ n \in Nat /\ m \in Nat /\ n <= m
  BY TableFacts DEF Whole, GrowsFrom
<1>2. \A k \in 1 .. n : c.descriptors[k] \in Descriptor /\ k - 1 \in Nat /\ k - 1 <= n
  BY <1>1, ConfigFields
<1>3. \A d \in Descriptor, b, b2 \in Nat :
        b <= n /\ b <= b2 /\ ValidDescriptor(c, d, b) => ValidDescriptor(c2, d, b2)
  BY <1>1, ValidGrows
<1>4. TablesValid(c2)
  <2>1. ASSUME NEW k \in 1 .. m, k <= n PROVE ValidDescriptor(c2, c2.descriptors[k], k - 1)
    <3>1. k \in 1 .. n /\ k \in DOMAIN c.descriptors
      BY <1>1, <2>1, TableFacts
    <3>2. c2.descriptors[k] = c.descriptors[k] /\ ValidDescriptor(c, c.descriptors[k], k - 1)
      BY <3>1 DEF GrowsFrom, Whole, TablesValid
    <3> QED BY <1>2, <1>3, <3>1, <3>2
  <2>2. ASSUME NEW k \in 1 .. m, k > n PROVE ValidDescriptor(c2, c2.descriptors[k], k - 1)
    BY <2>2
  <2>3. 1 \in DOMAIN c2.layers
    BY DEF Whole, TablesValid
  <2>4. \A k \in 1 .. m : k <= n \/ k > n
    BY <1>1
  <2>5. \A k \in 1 .. m : ValidDescriptor(c2, c2.descriptors[k], k - 1)
    BY <2>1, <2>2, <2>4
  <2> QED BY <2>3, <2>5 DEF TablesValid
<1>5. ASSUME NEW j \in DOMAIN c2.layers PROVE ValidLayer(c2, j) /\ Separate(c2.layers[j])
  <2>1. j \in DOMAIN c.layers /\ ValidLayer(c, j) /\ Separate(c.layers[j]) /\ c2.layers[j] = c.layers[j]
    BY DEF Whole
  <2>2. \A code \in Code : ValidDescriptor(c2, c.layers[j].keymap[code], m)
    BY <1>1, <1>3, <2>1, ValidAt
  <2>3. \A x \in DOMAIN c.layers[j].chords : ValidDescriptor(c2, c.layers[j].chords[x].d, m)
    BY <1>1, <1>3, <2>1, ValidAt
  <2>4. \A h \in Members(c.layers[j].chords) : ValidDescriptor(c2, h.d, m)
    BY <2>3 DEF Members
  <2>5. /\ Len(c.layers[j].chords) <= MaxChords /\ Len(c.layers[j].constituents) <= MaxConstituents
        /\ \A x \in Members(c.layers[j].constituents) : x \in 1 .. j - 1
    BY <2>1 DEF ValidLayer
  <2> QED BY <2>1, <2>2, <2>4, <2>5 DEF ValidLayer
<1>6. FixedLayers(c2) /\ Distinct(c2)
  BY DEF Whole, FixedLayers, Distinct
<1> QED BY <1>4, <1>5, <1>6 DEF Whole

LEMMA GrownBinds ==
  ASSUME NEW c, Whole(c), NEW c2, Whole(c2), GrowsFrom(c, c2), c2.layers = c.layers
  PROVE  BindingsIn(c2) = BindingsIn(c)
<1>1. \A i \in DOMAIN c2.layers \ DOMAIN c.layers : Blank(c2.layers[i])
  OBVIOUS
<1> QED BY <1>1, SameBindings

LEMMA GrownTargets ==
  ASSUME NEW c, NEW c2, Grown(c, c2), NEW l, NEW key
  PROVE  /\ Targets(c2, l, key) = Targets(c, l, key)
         /\ Settable(c2, l, key) = Settable(c, l, key)
         /\ c2.layers[l].name = c.layers[l].name
BY DEF Grown, Targets, Settable, KeyCodes, AliasedCodes

LEMMA DescriptorAdded ==
  ASSUME NEW c, Whole(c), NEW d \in Descriptor, ValidDescriptor(c, d, Len(c.descriptors)),
         Len(c.descriptors) < MaxDescriptors
  PROVE  LET c2 == [c EXCEPT !.descriptors = Append(@, d)]
         IN  /\ Grown(c, c2)
             /\ Len(c2.descriptors) = Len(c.descriptors) + 1
             /\ c2.descriptors[Len(c.descriptors) + 1] = d
<1> DEFINE s == Append(c.descriptors, d)
           c2 == [c EXCEPT !.descriptors = s]
           n == Len(c.descriptors)
<1>1. c \in ConfigType /\ c.descriptors \in Seq(Descriptor) /\ n \in Nat
  BY ConfigFields, TableFacts DEF Whole
<1>2. /\ s \in Seq(Descriptor) /\ Len(s) = n + 1 /\ s[n + 1] = d
      /\ \A i \in DOMAIN c.descriptors : s[i] = c.descriptors[i]
  BY <1>1
<1> HIDE DEF s
<1>3. /\ c2 \in ConfigType /\ c2.descriptors = s /\ c2.layers = c.layers /\ c2.aliases = c.aliases
      /\ c2.macros = c.macros /\ c2.commands = c.commands
  BY <1>1, <1>2 DEF ConfigType
<1> HIDE DEF c2
<1>4. GrowsFrom(c, c2)
  BY <1>1, <1>2, <1>3, TableFacts DEF GrowsFrom
<1>5. Limits(c2)
  <2>1. MaxDescriptors \in Nat
    BY LimitAssumption
  <2>2. Len(c2.descriptors) <= MaxDescriptors
    BY <1>1, <1>2, <1>3, <2>1
  <2> QED BY <1>3, <2>2 DEF Limits, Whole
<1>6. ValidDescriptor(c2, d, n)
  BY <1>1, <1>3, <1>4, ValidGrows
<1>7. \A i \in 1 .. Len(c2.descriptors) : i > n => ValidDescriptor(c2, c2.descriptors[i], i - 1)
  <2> SUFFICES ASSUME NEW i \in 1 .. Len(c2.descriptors), i > n
               PROVE  ValidDescriptor(c2, c2.descriptors[i], i - 1)
    OBVIOUS
  <2>1. i = n + 1 /\ i - 1 = n
    BY <1>1, <1>2, <1>3
  <2> QED BY <1>2, <1>3, <1>6, <2>1
<1>8. Whole(c2)
  BY <1>3, <1>4, <1>5, <1>7, GrownWhole
<1> QED BY <1>2, <1>3, <1>4, <1>8 DEF Grown, c2, s

LEMMA MacroAdded ==
  ASSUME NEW c, Whole(c), NEW e \in Exp, Len(c.macros) < MaxMacros
  PROVE  LET c2 == [c EXCEPT !.macros = Append(@, e)]
         IN  /\ Grown(c, c2) /\ c2.descriptors = c.descriptors
             /\ Len(c.macros) + 1 \in DOMAIN c2.macros
             /\ c2.macros[Len(c.macros) + 1] = e
<1> DEFINE s == Append(c.macros, e)
           c2 == [c EXCEPT !.macros = s]
           n == Len(c.macros)
<1>1. c \in ConfigType /\ c.macros \in Seq(Exp) /\ n \in Nat
  BY ConfigFields, TableFacts DEF Whole
<1>2. /\ s \in Seq(Exp) /\ Len(s) = n + 1 /\ s[n + 1] = e /\ n + 1 \in DOMAIN s
      /\ \A i \in DOMAIN c.macros : s[i] = c.macros[i]
  BY <1>1
<1> HIDE DEF s
<1>3. /\ c2 \in ConfigType /\ c2.macros = s /\ c2.layers = c.layers /\ c2.aliases = c.aliases
      /\ c2.descriptors = c.descriptors /\ c2.commands = c.commands
  BY <1>1, <1>2 DEF ConfigType
<1> HIDE DEF c2
<1>4. GrowsFrom(c, c2)
  BY <1>1, <1>2, <1>3, TableFacts DEF GrowsFrom
<1>5. Limits(c2)
  <2>1. Limits(c)
    BY DEF Whole
  <2> QED BY <1>1, <1>2, <1>3, <2>1, LimitFacts DEF Limits
<1>6. \A i \in 1 .. Len(c2.descriptors) :
        i > Len(c.descriptors) => ValidDescriptor(c2, c2.descriptors[i], i - 1)
  BY <1>1, <1>3, TableFacts
<1>7. Whole(c2)
  BY <1>3, <1>4, <1>5, <1>6, GrownWhole
<1> QED BY <1>2, <1>3, <1>4, <1>7 DEF Grown, c2, s

LEMMA CommandAdded ==
  ASSUME NEW c, Whole(c), NEW e \in Exp, Len(c.commands) < MaxCommands
  PROVE  LET c2 == [c EXCEPT !.commands = Append(@, e)]
         IN  /\ Grown(c, c2) /\ c2.descriptors = c.descriptors
             /\ Len(c.commands) + 1 \in DOMAIN c2.commands
             /\ c2.commands[Len(c.commands) + 1] = e
<1> DEFINE s == Append(c.commands, e)
           c2 == [c EXCEPT !.commands = s]
           n == Len(c.commands)
<1>1. c \in ConfigType /\ c.commands \in Seq(Exp) /\ n \in Nat
  BY ConfigFields, TableFacts DEF Whole
<1>2. /\ s \in Seq(Exp) /\ Len(s) = n + 1 /\ s[n + 1] = e /\ n + 1 \in DOMAIN s
      /\ \A i \in DOMAIN c.commands : s[i] = c.commands[i]
  BY <1>1
<1> HIDE DEF s
<1>3. /\ c2 \in ConfigType /\ c2.commands = s /\ c2.layers = c.layers /\ c2.aliases = c.aliases
      /\ c2.descriptors = c.descriptors /\ c2.macros = c.macros
  BY <1>1, <1>2 DEF ConfigType
<1> HIDE DEF c2
<1>4. GrowsFrom(c, c2)
  BY <1>1, <1>2, <1>3, TableFacts DEF GrowsFrom
<1>5. Limits(c2)
  <2>1. Limits(c)
    BY DEF Whole
  <2> QED BY <1>1, <1>2, <1>3, <2>1, LimitFacts DEF Limits
<1>6. \A i \in 1 .. Len(c2.descriptors) :
        i > Len(c.descriptors) => ValidDescriptor(c2, c2.descriptors[i], i - 1)
  BY <1>1, <1>3, TableFacts
<1>7. Whole(c2)
  BY <1>3, <1>4, <1>5, <1>6, GrownWhole
<1> QED BY <1>2, <1>3, <1>4, <1>7 DEF Grown, c2, s

LEMMA TablesKept ==
  ASSUME NEW c, Whole(c), NEW c2 \in ConfigType, c2.layers = c.layers,
         c2.descriptors = c.descriptors, c2.macros = c.macros, c2.commands = c.commands
  PROVE  /\ Whole(c2) /\ GrowsFrom(c, c2)
         /\ BindingsIn(c2) = BindingsIn(c)
<1>1. c \in ConfigType
  BY DEF Whole
<1>2. GrowsFrom(c, c2)
  BY <1>1, TableFacts DEF GrowsFrom
<1>3. Limits(c2)
  BY DEF Limits, Whole
<1>4. \A i \in 1 .. Len(c2.descriptors) :
        i > Len(c.descriptors) => ValidDescriptor(c2, c2.descriptors[i], i - 1)
  BY <1>1, TableFacts
<1>5. Whole(c2)
  BY <1>2, <1>3, <1>4, GrownWhole
<1> QED BY <1>2, <1>5, GrownBinds

\* A new layer binds nothing.
LEMMA LayerAdded ==
  ASSUME NEW c, Whole(c), NEW l \in Layer, Blank(l), Len(c.layers) < MaxLayers,
         \A i \in DOMAIN c.layers : c.layers[i].name # l.name,
         Len(l.constituents) <= MaxConstituents,
         \A m \in Members(l.constituents) : m \in 1 .. Len(c.layers),
         \A code \in Code : l.keymap[code] = Unbound
  PROVE  LET c2 == [c EXCEPT !.layers = Append(@, l)]
         IN  /\ Whole(c2) /\ GrowsFrom(c, c2)
             /\ BindingsIn(c2) = BindingsIn(c)
<1> DEFINE s == Append(c.layers, l)
           c2 == [c EXCEPT !.layers = s]
           n == Len(c.layers)
           k == Len(c.descriptors)
<1>1. c \in ConfigType /\ c.layers \in Seq(Layer) /\ n \in Nat /\ DOMAIN c.layers = 1 .. n /\ k \in Nat
  BY ConfigFields, TableFacts DEF Whole
<1>2. /\ s \in Seq(Layer) /\ Len(s) = n + 1 /\ s[n + 1] = l /\ DOMAIN s = 1 .. (n + 1)
      /\ \A i \in DOMAIN c.layers : s[i] = c.layers[i]
  BY <1>1
<1> HIDE DEF s
<1>3. /\ c2 \in ConfigType /\ c2.layers = s /\ c2.aliases = c.aliases
      /\ c2.macros = c.macros /\ c2.commands = c.commands /\ c2.descriptors = c.descriptors
  BY <1>1, <1>2 DEF ConfigType
<1> HIDE DEF c2
<1>4. GrowsFrom(c, c2)
  BY <1>1, <1>2, <1>3, TableFacts DEF GrowsFrom
<1>5. Limits(c2)
  <2>1. MaxLayers \in Nat /\ Len(c2.layers) <= MaxLayers
    BY <1>1, <1>2, <1>3, LimitAssumption
  <2> QED BY <1>3, <2>1 DEF Limits, Whole
<1>6. \A d \in Descriptor, b \in Nat : b <= k /\ ValidDescriptor(c, d, b) => ValidDescriptor(c2, d, b)
  BY <1>1, <1>3, <1>4, ValidGrows
<1>7. TablesValid(c2)
  <2>1. \A i \in 1 .. k : c.descriptors[i] \in Descriptor /\ i - 1 \in Nat /\ i - 1 <= k
    BY <1>1, ConfigFields
  <2>2. \A i \in 1 .. k : ValidDescriptor(c, c.descriptors[i], i - 1)
    BY DEF Whole, TablesValid
  <2>3. 1 \in DOMAIN c2.layers
    BY <1>1, <1>2, <1>3
  <2> QED BY <1>3, <1>6, <2>1, <2>2, <2>3 DEF TablesValid
<1>8. FixedLayers(c2)
  <2>1. FixedLayers(c)
    BY DEF Whole
  <2>2. \A i \in 1 .. 6 : i \in DOMAIN c.layers => i \in DOMAIN c2.layers /\ c2.layers[i] = c.layers[i]
    BY <1>1, <1>2, <1>3
  <2> QED BY <2>1, <2>2 DEF FixedLayers
<1>9. \A i \in DOMAIN c2.layers : \/ i \in DOMAIN c.layers /\ c2.layers[i] = c.layers[i] /\ i # n + 1
                                  \/ i = n + 1 /\ c2.layers[i] = l
  BY <1>1, <1>2, <1>3
<1>10. Distinct(c2)
  <2>1. Distinct(c)
    BY DEF Whole
  <2> QED BY <1>9, <2>1 DEF Distinct
<1>11. l.chords = <<>>
  BY DEF Blank
<1>12. ASSUME NEW i \in DOMAIN c2.layers PROVE ValidLayer(c2, i) /\ Separate(c2.layers[i])
  <2>1. CASE i \in DOMAIN c.layers /\ c2.layers[i] = c.layers[i]
    <3>1. ValidLayer(c, i) /\ Separate(c.layers[i])
      BY <2>1 DEF Whole
    <3>2. \A code \in Code : ValidDescriptor(c2, c.layers[i].keymap[code], k)
      BY <1>1, <1>6, <2>1, ValidAt
    <3>3. \A x \in DOMAIN c.layers[i].chords : ValidDescriptor(c2, c.layers[i].chords[x].d, k)
      BY <1>1, <1>6, <2>1, ValidAt
    <3>4. \A h \in Members(c.layers[i].chords) : ValidDescriptor(c2, h.d, k)
      BY <3>3 DEF Members
    <3> QED BY <1>3, <2>1, <3>1, <3>2, <3>4 DEF ValidLayer
  <2>2. CASE i = n + 1 /\ c2.layers[i] = l
    <3>1. \A code \in Code : ValidDescriptor(c2, l.keymap[code], k)
      BY DEF ValidDescriptor, Unbound
    <3>2. Members(l.chords) = {} /\ Len(l.chords) = 0 /\ DOMAIN l.chords = {}
      BY <1>11 DEF Members
    <3>3. i - 1 = n /\ MaxChords \in Nat
      BY <1>1, <2>2, LimitAssumption
    <3>4. Separate(l)
      BY <3>2 DEF Separate
    <3>5. Len(l.chords) <= MaxChords
      BY <3>2, <3>3
    <3> QED BY <1>3, <2>2, <3>1, <3>2, <3>3, <3>4, <3>5 DEF ValidLayer
  <2> QED BY <1>9, <2>1, <2>2
<1>13. Whole(c2)
  BY <1>3, <1>5, <1>7, <1>8, <1>10, <1>12 DEF Whole
<1>14. BindingsIn(c2) = BindingsIn(c)
  <2>1. \A i \in DOMAIN c.layers : c2.layers[i].keymap = c.layers[i].keymap /\ c2.layers[i].chords = c.layers[i].chords
    BY <1>2, <1>3
  <2>2. \A i \in DOMAIN c2.layers \ DOMAIN c.layers : Blank(c2.layers[i])
    BY <1>9
  <2> QED BY <1>4, <1>13, <2>1, <2>2, SameBindings
<1> QED BY <1>4, <1>13, <1>14 DEF c2, s

LEMMA NewLayerFacts ==
  ASSUME NEW w \in Word, NEW type \in {"normal", "layout", "composite"}, NEW parts \in Seq(Nat)
  PROVE  /\ NewLayer(w, type, parts) \in Layer /\ Blank(NewLayer(w, type, parts))
         /\ NewLayer(w, type, parts).name = w
         /\ NewLayer(w, type, parts).constituents = parts
         /\ \A code \in Code : NewLayer(w, type, parts).keymap[code] = Unbound
<1> DEFINE l == NewLayer(w, type, parts)
<1>1. Unbound \in Descriptor /\ Unbound.op = "none"
  BY DEF Unbound, Descriptor
<1>2. /\ l.name = w /\ l.type = type /\ l.constituents = parts /\ l.chords = <<>>
      /\ l.keymap = [c \in Code |-> Unbound]
      /\ l = [name |-> w, type |-> type, keymap |-> l.keymap, chords |-> l.chords, constituents |-> parts]
  BY DEF NewLayer
<1>3. l.keymap \in [Code -> Descriptor] /\ l.chords \in Seq(Chord)
  BY <1>1, <1>2
<1> HIDE DEF l
<1>4. l \in Layer
  BY <1>2, <1>3 DEF Layer
<1>5. Blank(l)
  BY <1>1, <1>2 DEF Blank
<1> QED BY <1>2, <1>4, <1>5 DEF l

LEMMA SimpleDescriptors ==
  /\ Unbound \in Descriptor /\ Unbound.op = "none" /\ Unbound.args = <<>>
  /\ \A c, b : ValidDescriptor(c, Unbound, b)
  /\ \A code \in Code : /\ KeyTo(code) \in Descriptor /\ KeyTo(code).op = "keysequence"
                        /\ \A c, b : ValidDescriptor(c, KeyTo(code), b)
                        /\ \A c : Meaning(c, KeyTo(code)) = [kind |-> "key", code |-> code]
<1>1. /\ Unbound \in Descriptor /\ Unbound.op = "none" /\ Unbound.args = <<>>
      /\ \A c, b : ValidDescriptor(c, Unbound, b)
  BY DEF Unbound, Descriptor, ValidDescriptor
<1>2. ASSUME NEW code \in Code
      PROVE  /\ KeyTo(code) \in Descriptor /\ KeyTo(code).op = "keysequence"
             /\ \A c, b : ValidDescriptor(c, KeyTo(code), b)
             /\ \A c : Meaning(c, KeyTo(code)) = [kind |-> "key", code |-> code]
  <2>1. KeyTo(code) \in Descriptor /\ KeyTo(code).op = "keysequence" /\ KeyTo(code).code = code
        /\ KeyTo(code).args = <<>>
    BY DEF KeyTo, Descriptor
  <2>2. \A c, b : ValidDescriptor(c, KeyTo(code), b)
    BY <2>1 DEF ValidDescriptor
  <2>3. \A c : Meaning(c, KeyTo(code)) = [kind |-> "key", code |-> code]
    BY <2>1 DEF Meaning, ReadBack
  <2> QED BY <2>1, <2>2, <2>3
<1> QED BY <1>1, <1>2

LEMMA LayerToFacts ==
  ASSUME NEW c \in ConfigType, NEW i \in 2 .. Len(c.layers), c.layers[i].type # "layout"
  PROVE  /\ LayerTo(i) \in Descriptor
         /\ \A b \in Nat : ValidDescriptor(c, LayerTo(i), b)
         /\ Meaning(c, LayerTo(i)) = Does("layer", <<Named(c.layers[i].name)>>)
<1>1. i \in Nat /\ <<i>> \in Seq(Nat) /\ Len(<<i>>) = 1 /\ <<i>>[1] = i /\ DOMAIN <<i>> = {1}
  OBVIOUS
<1>2. /\ LayerTo(i).op = "layer" /\ LayerTo(i).args = <<i>> /\ LayerTo(i) \in Descriptor
  BY <1>1 DEF LayerTo, Descriptor, ArgTypes
<1>3. ArgTypes["layer"] = <<"layer">>
  BY DEF ArgTypes
<1>4. ASSUME NEW b \in Nat PROVE ValidDescriptor(c, LayerTo(i), b)
  <2>1. ValidArg(c, "layer", i, b)
    BY DEF ValidArg
  <2> QED BY <1>1, <1>2, <1>3, <2>1 DEF ValidDescriptor
<1>5. Meaning(c, LayerTo(i)) = Does("layer", <<Named(c.layers[i].name)>>)
  <2>1. Meaning(c, LayerTo(i)) = Does("layer", [x \in {1} |-> Named(c.layers[i].name)])
    BY <1>1, <1>2, <1>3 DEF Meaning, ReadBack
  <2>2. [x \in {1} |-> Named(c.layers[i].name)] = <<Named(c.layers[i].name)>>
    OBVIOUS
  <2> QED BY <2>1, <2>2
<1> QED BY <1>2, <1>4, <1>5

LEMMA DefaultIndexIs ==
  /\ DefaultIndex("control") = 2 /\ DefaultIndex("shift") = 3 /\ DefaultIndex("meta") = 4
  /\ DefaultIndex("alt") = 5 /\ DefaultIndex("altgr") = 6
BY DEF DefaultIndex, DefaultLayers

LEMMA DefaultIsWhole == Whole(Default)
<1> DEFINE c == Default
           km == [x \in Code |-> IF x \in DOMAIN DefaultAlias
                                 THEN LayerTo(DefaultIndex(DefaultAlias[x])) ELSE Unbound]
           main == [NewLayer("main", "layout", <<>>) EXCEPT !.keymap = km]
           ls == [i \in DOMAIN DefaultLayers |->
                    IF i = 1 THEN main ELSE NewLayer(DefaultLayers[i], "normal", <<>>)]
           as == [x \in Code |-> IF x \in DOMAIN DefaultAlias THEN AWord(DefaultAlias[x]) ELSE NoVal]
<1>1. /\ c.layers = ls /\ c.descriptors = <<>> /\ c.macros = <<>> /\ c.commands = <<>>
      /\ c.aliases = as /\ c.ids = <<>> /\ c.wildcard = FALSE /\ c.options = [o \in Option |-> 0]
      /\ c = [layers |-> ls, descriptors |-> <<>>, macros |-> <<>>, commands |-> <<>>, aliases |-> as,
              ids |-> <<>>, wildcard |-> FALSE, options |-> [o \in Option |-> 0]]
  BY Zenon DEF Default
<1>2. DOMAIN DefaultLayers = 1 .. 6 /\ \A i \in 1 .. 6 : DefaultLayers[i] \in Word
  BY DefaultAssumption DEF DefaultLayers
<1>3. \A i, j \in 1 .. 6 : DefaultLayers[i] = DefaultLayers[j] => i = j
  BY DEF DefaultLayers
<1>4. DefaultLayers[1] = "main"
  BY DEF DefaultLayers
<1>5. \A x \in DOMAIN DefaultAlias : DefaultIndex(DefaultAlias[x]) \in 2 .. 6
  BY DefaultIndexIs DEF DefaultAlias
<1>6. \A i \in 2 .. 6 : /\ LayerTo(i) \in Descriptor /\ LayerTo(i).op = "layer"
                        /\ LayerTo(i).args = <<i>>
  <2> SUFFICES ASSUME NEW i \in 2 .. 6
               PROVE  LayerTo(i) \in Descriptor /\ LayerTo(i).op = "layer" /\ LayerTo(i).args = <<i>>
    OBVIOUS
  <2>1. <<i>> \in Seq(Nat)
    OBVIOUS
  <2> QED BY <2>1 DEF LayerTo, Descriptor, ArgTypes
<1>7. km \in [Code -> Descriptor]
  BY <1>5, <1>6, SimpleDescriptors
<1>8. <<>> \in Seq(Nat) /\ <<>> \in Seq(Descriptor) /\ <<>> \in Seq(Exp)
      /\ <<>> \in Seq([id : Word, flags : SUBSET Kind])
  OBVIOUS
<1>9. ASSUME NEW i \in 2 .. 6
      PROVE  /\ ls[i] \in Layer /\ ls[i].name = DefaultLayers[i] /\ ls[i].type = "normal"
             /\ ls[i].chords = <<>> /\ ls[i].constituents = <<>>
             /\ \A code \in Code : ls[i].keymap[code] = Unbound
  <2>1. ls[i] = NewLayer(DefaultLayers[i], "normal", <<>>) /\ DefaultLayers[i] \in Word
    BY <1>2
  <2> DEFINE w == DefaultLayers[i]
             nl == NewLayer(w, "normal", <<>>)
  <2>2. w \in Word /\ <<>> \in Seq(Nat)
    BY <2>1
  <2> HIDE DEF w
  <2>3. /\ nl \in Layer /\ nl.name = w /\ nl.constituents = <<>>
        /\ \A code \in Code : nl.keymap[code] = Unbound
    <3> DEFINE t == "normal"
               p == <<>>
    <3>1. t \in {"normal", "layout", "composite"} /\ p \in Seq(Nat)
      BY <2>2
    <3> HIDE DEF t, p
    <3>2. /\ NewLayer(w, t, p) \in Layer /\ NewLayer(w, t, p).name = w
          /\ NewLayer(w, t, p).constituents = p
          /\ \A code \in Code : NewLayer(w, t, p).keymap[code] = Unbound
      BY <2>2, <3>1, NewLayerFacts
    <3> QED BY <3>2 DEF t, p
  <2>4. nl.type = "normal" /\ nl.chords = <<>>
    BY DEF NewLayer
  <2> HIDE DEF nl
  <2>5. ls[i] = nl
    BY <2>1 DEF nl, w
  <2> QED BY <2>3, <2>4, <2>5 DEF w
<1>10. /\ ls[1] \in Layer /\ ls[1].name = "main" /\ ls[1].type = "layout"
       /\ ls[1].chords = <<>> /\ ls[1].constituents = <<>> /\ ls[1].keymap = km
  <2>1. ls[1] = main /\ "main" \in Word
    BY <1>2, <1>4
  <2> DEFINE nl == NewLayer("main", "layout", <<>>)
  <2>2. /\ nl \in Layer /\ nl.name = "main" /\ nl.type = "layout" /\ nl.chords = <<>> /\ nl.constituents = <<>>
    BY <1>8, <2>1, NewLayerFacts DEF NewLayer
  <2> HIDE DEF nl, km
  <2>3. [nl EXCEPT !.keymap = km] \in Layer
    BY <1>7, <2>2 DEF Layer
  <2>4. /\ [nl EXCEPT !.keymap = km].name = "main" /\ [nl EXCEPT !.keymap = km].type = "layout"
        /\ [nl EXCEPT !.keymap = km].chords = <<>> /\ [nl EXCEPT !.keymap = km].constituents = <<>>
        /\ [nl EXCEPT !.keymap = km].keymap = km
    BY <2>2 DEF Layer
  <2>5. ls[1] = [nl EXCEPT !.keymap = km]
    BY <2>1 DEF nl, km
  <2> QED BY <2>3, <2>4, <2>5
<1>11. ls \in Seq(Layer) /\ Len(ls) = 6 /\ DOMAIN ls = 1 .. 6
  <2>1. \A i \in 1 .. 6 : ls[i] \in Layer
    <3> SUFFICES ASSUME NEW i \in 1 .. 6 PROVE ls[i] \in Layer
      OBVIOUS
    <3>1. i = 1 \/ i \in 2 .. 6
      OBVIOUS
    <3> HIDE DEF ls
    <3> QED BY <1>9, <1>10, <3>1
  <2>2. DOMAIN ls = 1 .. 6 /\ ls = [i \in 1 .. 6 |-> ls[i]]
    BY <1>2
  <2> HIDE DEF ls
  <2> QED BY <2>1, <2>2
<1> HIDE DEF ls, km
<1>12. as \in [Code -> Exp \cup {NoVal}]
  BY DefaultAssumption
<1> HIDE DEF as
<1>13. c \in ConfigType
  <2>1. c.options \in [Option -> Nat] /\ c.wildcard \in BOOLEAN
    BY <1>1
  <2> QED BY <1>1, <1>8, <1>11, <1>12, <2>1 DEF ConfigType
<1> HIDE DEF c
<1>14. TablesValid(c) /\ Limits(c)
  <2>1. Len(c.descriptors) = 0 /\ Len(c.macros) = 0 /\ Len(c.commands) = 0 /\ Len(c.layers) = 6
    BY <1>1, <1>11
  <2> QED BY <1>1, <1>11, <2>1, LimitFacts DEF TablesValid, Limits
<1>15. FixedLayers(c)
  BY <1>1, <1>4, <1>9, <1>10, <1>11 DEF FixedLayers
<1>16. Distinct(c)
  <2>1. \A i \in 1 .. 6 : ls[i].name = DefaultLayers[i]
    BY <1>4, <1>9, <1>10
  <2> QED BY <1>1, <1>3, <1>11, <2>1 DEF Distinct
<1>17. ASSUME NEW i \in 1 .. 6 PROVE ValidLayer(c, i) /\ Separate(c.layers[i])
  <2>0. Len(c.descriptors) \in Nat
    BY <1>13, TableFacts
  <2>1. ls[i].chords = <<>> /\ ls[i].constituents = <<>>
    BY <1>9, <1>10
  <2>2. /\ Members(ls[i].chords) = {} /\ Len(ls[i].chords) = 0 /\ DOMAIN ls[i].chords = {}
        /\ Members(ls[i].constituents) = {} /\ Len(ls[i].constituents) = 0
    BY <2>1 DEF Members
  <2>3. ASSUME NEW code \in Code PROVE ValidDescriptor(c, ls[i].keymap[code], Len(c.descriptors))
    <3>1. CASE i \in 2 .. 6
      BY <1>9, <3>1, SimpleDescriptors
    <3>2. CASE i = 1
      <4>1. ls[i].keymap[code] = IF code \in DOMAIN DefaultAlias
                                 THEN LayerTo(DefaultIndex(DefaultAlias[code])) ELSE Unbound
        BY <1>10, <3>2 DEF km
      <4>2. ASSUME NEW n \in 2 .. 6 PROVE ValidDescriptor(c, LayerTo(n), Len(c.descriptors))
        <5>1. n \in 2 .. Len(c.layers) /\ c.layers[n].type # "layout"
          BY <1>1, <1>9, <1>11
        <5> QED BY <1>13, <2>0, <5>1, LayerToFacts
      <4> QED BY <1>5, <4>1, <4>2, SimpleDescriptors
    <3> QED BY <3>1, <3>2
  <2>4. Separate(ls[i])
    BY <2>2 DEF Separate
  <2>5. c.layers[i] = ls[i]
    BY <1>1
  <2>6. Len(ls[i].chords) <= MaxChords /\ Len(ls[i].constituents) <= MaxConstituents
    BY <2>2, LimitFacts
  <2> QED BY <2>2, <2>3, <2>4, <2>5, <2>6 DEF ValidLayer
<1>18. Whole(c)
  BY <1>1, <1>11, <1>13, <1>14, <1>15, <1>16, <1>17 DEF Whole
<1> QED BY <1>18 DEF c

-----------------------------------------------------------------------------
(* The frames of parse_descriptor: each is of a call whose last arguments   *)
(* are parsed, and mean what the call says they mean.                      *)

FrameType == [exp : Exp, open : BOOLEAN, left : Nat, d : Descriptor]

\* n is what the argument i of the call e was parsed to.
ParsedArg(c, e, i, n) ==
  LET type == Types(e.fn)[i]
  IN  /\ ValidArg(c, type, n, Len(c.descriptors))
      /\ type \in {"layer", "layout"} => e.args[i].kind = "word" /\ c.layers[n].name = e.args[i].word
      /\ type \in {"timeout", "sensitivity"} => n = NumberOf(e.args[i])
      /\ type = "macro" => c.macros[n] = e.args[i]
      /\ type \in {"descriptor", "keysequence"} => Meaning(c, c.descriptors[n]) = Says[e.args[i]]

Opened(c, f) ==
  /\ f.exp.kind = "call" /\ Known(f.exp.fn) /\ Len(f.exp.args) = Len(Types(f.exp.fn))
  /\ f.left <= Len(f.exp.args) /\ f.d.op = OpOf(f.exp.fn)
  /\ Len(f.d.args) = Len(f.exp.args) - f.left
  /\ \A j \in DOMAIN f.d.args : ParsedArg(c, f.exp, f.left + j, f.d.args[j])

\* The next argument of the call of f says what e says.
Awaits(f, e) ==
  /\ f.open /\ f.left > 0 /\ Types(f.exp.fn)[f.left] \in {"descriptor", "keysequence"}
  /\ Says[e] = Says[f.exp.args[f.left]]

Frames(c, s, t) ==
  /\ s # <<>>
  /\ \A k \in DOMAIN s : s[k].open => Opened(c, s[k])
  /\ ~s[1].open => s[1].left = 0 /\ s[1].d = Unbound
  /\ \A k \in 2 .. Len(s) : Awaits(s[k], s[k - 1].exp)
  /\ Says[s[Len(s)].exp] = Says[t.exp]

LEMMA TypesFacts ==
  ASSUME NEW f, Known(f)
  PROVE  /\ OpOf(f) \in Ops /\ Types(f) = ArgTypes[OpOf(f)] /\ Types(f) \in Seq(ArgType)
         /\ f # "lettermod"
<1>1. OpOf(f) \in Ops
  BY ArgTypesTyped DEF Known, OpOf, Ops
<1>2. f # "lettermod"
  BY DEF Known, ArgTypes, Renamed
<1> QED BY <1>1, <1>2, ArgTypesTyped DEF Types

LEMMA CallArgs ==
  ASSUME NEW e \in Exp, e.kind = "call"
  PROVE  /\ e.args \in Seq(Exp) /\ Len(e.args) \in Nat /\ DOMAIN e.args = 1 .. Len(e.args)
         /\ \A i \in 1 .. Len(e.args) : e.args[i] \in Exp
<1>1. e.args \in Seq(Exp)
  BY ConfigAssumption DEF IsExp
<1> QED BY <1>1

LEMMA WholeFacts ==
  ASSUME NEW c, Whole(c)
  PROVE  /\ c \in ConfigType /\ TablesValid(c)
         /\ Len(c.layers) \in Nat /\ DOMAIN c.layers = 1 .. Len(c.layers) /\ 1 \in DOMAIN c.layers
         /\ Len(c.macros) \in Nat /\ DOMAIN c.macros = 1 .. Len(c.macros)
         /\ Len(c.commands) \in Nat /\ DOMAIN c.commands = 1 .. Len(c.commands)
         /\ Len(c.descriptors) \in Nat /\ DOMAIN c.descriptors = 1 .. Len(c.descriptors)
<1>1. c \in ConfigType /\ TablesValid(c) /\ 1 \in DOMAIN c.layers
  BY DEF Whole, TablesValid
<1> QED BY <1>1, TableFacts

\* Every descriptor of the table is valid.
LEMMA TableIsValid ==
  ASSUME NEW c, Whole(c), NEW n \in 1 .. Len(c.descriptors)
  PROVE  /\ c.descriptors[n] \in Descriptor
         /\ ValidDescriptor(c, c.descriptors[n], Len(c.descriptors))
<1>1. c \in ConfigType /\ Len(c.descriptors) \in Nat /\ n \in DOMAIN c.descriptors
  BY WholeFacts
<1>2. c.descriptors[n] \in Descriptor
  BY <1>1, ConfigFields
<1>3. ValidDescriptor(c, c.descriptors[n], n - 1) /\ GrowsFrom(c, c)
  BY <1>1, GrowsReflexive DEF Whole, TablesValid
<1>4. n - 1 \in Nat /\ n - 1 <= Len(c.descriptors) /\ Len(c.descriptors) <= Len(c.descriptors)
  BY <1>1
<1> QED BY <1>1, <1>2, <1>3, <1>4, ValidGrows

LEMMA ParsedArgGrows ==
  ASSUME NEW c, Whole(c), NEW c2, Grown(c, c2), NEW e, NEW i, NEW n, ParsedArg(c, e, i, n)
  PROVE  ParsedArg(c2, e, i, n)
<1> DEFINE type == Types(e.fn)[i]
<1>1. Whole(c2) /\ GrowsFrom(c, c2) /\ c2.layers = c.layers
  BY DEF Grown
<1>2. /\ ValidArg(c, type, n, Len(c.descriptors))
      /\ type \in {"layer", "layout"} => e.args[i].kind = "word" /\ c.layers[n].name = e.args[i].word
      /\ type \in {"timeout", "sensitivity"} => n = NumberOf(e.args[i])
      /\ type = "macro" => c.macros[n] = e.args[i]
      /\ type \in {"descriptor", "keysequence"} => Meaning(c, c.descriptors[n]) = Says[e.args[i]]
  BY DEF ParsedArg
<1> HIDE DEF type
<1>3. /\ Len(c.descriptors) \in Nat /\ Len(c2.descriptors) \in Nat /\ Len(c.descriptors) <= Len(c2.descriptors)
      /\ Len(c.macros) \in Nat /\ Len(c2.macros) \in Nat /\ Len(c.macros) <= Len(c2.macros)
      /\ DOMAIN c.macros = 1 .. Len(c.macros) /\ DOMAIN c2.macros = 1 .. Len(c2.macros)
      /\ DOMAIN c.descriptors = 1 .. Len(c.descriptors)
      /\ c \in ConfigType /\ c2 \in ConfigType /\ TablesValid(c) /\ TablesValid(c2)
  BY <1>1, WholeFacts DEF GrowsFrom
<1>4. CASE type = "macro"
  <2>1. n \in DOMAIN c.macros
    BY <1>2, <1>4 DEF ValidArg
  <2>2. n \in DOMAIN c2.macros /\ c2.macros[n] = c.macros[n]
    BY <1>1, <1>3, <2>1 DEF GrowsFrom
  <2>3. ValidArg(c2, type, n, Len(c2.descriptors))
    BY <1>4, <2>2 DEF ValidArg
  <2> QED BY <1>2, <1>4, <2>2, <2>3 DEF ParsedArg, type
<1>5. CASE type \in {"descriptor", "keysequence"}
  <2>1. n \in 1 .. Len(c.descriptors) /\ (type = "keysequence" => c.descriptors[n].op = "keysequence")
    BY <1>2, <1>5 DEF ValidArg
  <2>2. n \in 1 .. Len(c2.descriptors) /\ c2.descriptors[n] = c.descriptors[n]
    BY <1>1, <1>3, <2>1 DEF GrowsFrom
  <2>3. ValidArg(c2, type, n, Len(c2.descriptors))
    BY <1>5, <2>1, <2>2 DEF ValidArg
  <2>4. Meaning(c2, c2.descriptors[n]) = Meaning(c, c.descriptors[n])
    BY <1>1, <1>3, <2>1, <2>2, TableIsValid, MeaningStable
  <2> QED BY <1>2, <1>5, <2>3, <2>4 DEF ParsedArg, type
<1>6. CASE type \notin {"macro", "descriptor", "keysequence"}
  <2>1. ValidArg(c2, type, n, Len(c2.descriptors))
    BY <1>1, <1>2, <1>6 DEF ValidArg
  <2> QED BY <1>1, <1>2, <1>6, <2>1 DEF ParsedArg, type
<1> QED BY <1>4, <1>5, <1>6

LEMMA FramesGrow ==
  ASSUME NEW c, Whole(c), NEW c2, Grown(c, c2), NEW s, NEW t, Frames(c, s, t)
  PROVE  Frames(c2, s, t)
<1>1. ASSUME NEW f, Opened(c, f) PROVE Opened(c2, f)
  BY <1>1, ParsedArgGrows DEF Opened
<1> QED BY <1>1 DEF Frames

\* When all arguments are parsed, the descriptor means what the call says.
LEMMA CallMeans ==
  ASSUME NEW c, Whole(c), NEW f \in FrameType, Opened(c, f), f.left = 0
  PROVE  /\ ValidDescriptor(c, f.d, Len(c.descriptors))
         /\ Meaning(c, f.d) = Says[f.exp]
<1> DEFINE e == f.exp
           d == f.d
           n == Len(c.descriptors)
           types == Types(e.fn)
           M == Meanings(c)
<1>1. e \in Exp /\ d \in Descriptor /\ d.args \in Seq(Nat)
  BY DescriptorFields DEF FrameType
<1>2. /\ e.kind = "call" /\ Known(e.fn) /\ Len(e.args) = Len(types) /\ d.op = OpOf(e.fn)
      /\ \A j \in DOMAIN d.args : ParsedArg(c, e, j, d.args[j])
  <2>1. \A j \in DOMAIN d.args : f.left + j = j
    BY <1>1
  <2> QED BY <2>1 DEF Opened
<1>3. Len(d.args) = Len(e.args)
  BY <1>1, <1>2, CallArgs DEF Opened
<1>4. /\ d.op \in Ops /\ types = ArgTypes[d.op] /\ types \in Seq(ArgType) /\ e.fn # "lettermod"
      /\ d.op \notin {"none", "keysequence", "macro", "command"}
  BY <1>2, TypesFacts, ArgTypesTyped
<1>5. e.args \in Seq(Exp) /\ DOMAIN e.args = DOMAIN d.args /\ DOMAIN d.args = 1 .. Len(types)
  BY <1>1, <1>2, <1>3, CallArgs
<1>6. Says[e] = Saying(e, Says)
  BY <1>1, SaysIs
<1> HIDE DEF types, e, d
<1>7. ValidDescriptor(c, d, n)
  <2>1. \A j \in DOMAIN d.args : ValidArg(c, ArgTypes[d.op][j], d.args[j], n)
    BY <1>2, <1>4 DEF ParsedArg, types
  <2>2. Len(d.args) = Len(ArgTypes[d.op])
    BY <1>2, <1>3, <1>4
  <2> QED BY <1>4, <2>1, <2>2 DEF ValidDescriptor
<1> DEFINE A(j) == CASE ArgTypes[d.op][j] \in {"layer", "layout"} -> Named(c.layers[d.args[j]].name)
                     [] ArgTypes[d.op][j] \in {"timeout", "sensitivity"} -> Amount(d.args[j])
                     [] ArgTypes[d.op][j] = "macro" -> Typing(c.macros[d.args[j]])
                     [] OTHER -> M[d.args[j]]
           B(j) == CASE Types(e.fn)[j] \in {"layer", "layout"} ->
                          IF e.args[j].kind = "word" THEN Named(e.args[j].word) ELSE Nothing
                     [] Types(e.fn)[j] \in {"timeout", "sensitivity"} -> Amount(NumberOf(e.args[j]))
                     [] Types(e.fn)[j] = "macro" -> Typing(e.args[j])
                     [] OTHER -> Says[e.args[j]]
<1>8. ASSUME NEW j \in DOMAIN d.args PROVE A(j) = B(j)
  <2> DEFINE type == types[j]
             m == d.args[j]
  <2>0. type = Types(e.fn)[j] /\ type = ArgTypes[d.op][j] /\ type \in ArgType
    BY <1>4, <1>5 DEF types
  <2>1. /\ ValidArg(c, type, m, n)
        /\ type \in {"layer", "layout"} => e.args[j].kind = "word" /\ c.layers[m].name = e.args[j].word
        /\ type \in {"timeout", "sensitivity"} => m = NumberOf(e.args[j])
        /\ type = "macro" => c.macros[m] = e.args[j]
        /\ type \in {"descriptor", "keysequence"} => Meaning(c, c.descriptors[m]) = Says[e.args[j]]
    BY <1>2 DEF ParsedArg, types
  <2> HIDE DEF M, type
  <2>2. CASE type \in {"layer", "layout"}
    BY <2>0, <2>1, <2>2
  <2>3. CASE type \in {"timeout", "sensitivity"}
    BY <2>0, <2>1, <2>3
  <2>4. CASE type = "macro"
    BY <2>0, <2>1, <2>4
  <2>5. CASE type \in {"descriptor", "keysequence"}
    <3>1. m \in 1 .. n
      BY <2>1, <2>5 DEF ValidArg
    <3>2. M[m] = Meaning(c, c.descriptors[m])
      BY <3>1, WholeFacts, MeaningOf DEF M
    <3>3. A(j) = M[m] /\ B(j) = Says[e.args[j]]
      BY <2>0, <2>5
    <3> QED BY <2>1, <2>5, <3>2, <3>3
  <2>6. type \in {"layer", "layout", "timeout", "sensitivity", "macro", "descriptor", "keysequence"}
    BY <2>0 DEF ArgType
  <2> QED BY <2>2, <2>3, <2>4, <2>5, <2>6
<1>9. Meaning(c, d) = Does(d.op, [j \in DOMAIN d.args |-> A(j)])
  BY <1>4 DEF Meaning, ReadBack
<1>10. Saying(e, Says) = Does(d.op, [j \in DOMAIN e.args |-> B(j)])
  <2>1. ~(IsLettermod(e) /\ Len(e.args) = 4)
    BY <1>4 DEF IsLettermod
  <2>2. Len(e.args) = Len(Types(e.fn))
    BY <1>2 DEF types
  <2>3. Saying(e, Says) = Does(OpOf(e.fn), [j \in DOMAIN e.args |-> B(j)])
    BY <1>2, <2>1, <2>2 DEF Saying
  <2> QED BY <1>2, <2>3
<1> HIDE DEF A, B
<1>11. [j \in DOMAIN d.args |-> A(j)] = [j \in DOMAIN d.args |-> B(j)]
  BY <1>8
<1>12. Meaning(c, d) = Says[e]
  BY <1>5, <1>6, <1>9, <1>10, <1>11
<1> QED BY <1>7, <1>12 DEF d, e

-----------------------------------------------------------------------------
(* What a step of Config is to Bindings.                                   *)

Asking    == IF pc # "parsing" \/ broken THEN None
             ELSE Asked(config, task.layer, Targets(config, task.layer, task.key), Says[task.exp])
MadeBy(l) == IF l = None THEN {} ELSE BindingsIn(l)

Bindings == BindingsIn(config)
Promise  == [Promised!Next]_Promised!vars

LEMMA AskingIs ==
  Asking = IF pc # "parsing" \/ broken THEN None
           ELSE [layer |-> config.layers[task.layer].name,
                 targets |-> Targets(config, task.layer, task.key),
                 action |-> Says[task.exp]]
BY DEF Asking, Asked

LEMMA StepStutters ==
  ASSUME Bindings' = Bindings, Asking' = Asking, loaded' = loaded
  PROVE  Promise
BY DEF Promise, Promised!vars, Bindings, Asking, Asked

LEMMA StepAsks ==
  ASSUME Bindings' = Bindings, Asking = None, Asking' \in Promised!Request, loaded' = loaded
  PROVE  Promise
BY DEF Promise, Promised!Next, Promised!Ask, Bindings, Asking, Asked

LEMMA StepGrants ==
  ASSUME Bindings' = Promised!Granted(Bindings, Asking), Asking # None, Asking' = None, loaded' = loaded
  PROVE  Promise
BY DEF Promise, Promised!Next, Promised!Grant, Bindings, Asking, Asked

LEMMA StepRefuses ==
  ASSUME Bindings' = Bindings, Asking # None, Asking' = None, loaded' = loaded
  PROVE  Promise
BY DEF Promise, Promised!Next, Promised!Refuse, Bindings, Asking, Asked

LEMMA StepAliases ==
  ASSUME NEW b \in Promised!Binding, b \in Bindings', Asking = None, Asking' = None,
         loaded = None, loaded' = None,
         Bindings' = Promised!Granted(Bindings, [layer |-> b.layer, targets |-> {b.target},
                                                 action |-> b.action])
  PROVE  Promise
BY DEF Promise, Promised!Next, Promised!Alias, Bindings, Asking, Asked

LEMMA StepLoads ==
  ASSUME Bindings' = Bindings, Asking = None, Asking' = None, loaded = None,
         loaded' = config, config # None
  PROVE  Promise
BY DEF Promise, Promised!Next, Promised!Load, Bindings, Asking, Asked

LEMMA StepResets ==
  ASSUME Bindings' = BindingsIn(loaded), Asking = None, Asking' = None, loaded # None, loaded' = loaded
  PROVE  Promise
BY DEF Promise, Promised!Next, Promised!Reset, Bindings, Asking, Asked

-----------------------------------------------------------------------------
(* The inductive invariant.                                                *)

SomeIncludes(f, p) == Cardinality({q \in 1 .. p : Uncounted(f[q])})

\* Where a line of the text to be parsed comes from.
ComesFrom(f, o) ==
  /\ o.path # None => /\ o.at + 1 \in DOMAIN Included[o.path].lines
                      /\ Included[o.path].lines[o.at + 1] = o.line
  /\ o.path = None => /\ o.line.kind # "include"
                      /\ \E p \in DOMAIN f : f[p] = o.line /\ p = o.at + 1 + SomeIncludes(f, p)

OutLine == [line : Written, path : Word \cup {None}, at : Nat]

\* The entries that the lines of o make.
Filing(o) == {n \in DOMAIN o : o[n].line.kind \notin {"blank", "header"}}
Entries(o) == {Entry(o[n].line, n) : n \in Filing(o)}
SectionOf(o) == [name : Word, type : {"none", "mods", "layout", "bogus"}, entries : Seq(Entries(o))]

Texts ==
  /\ file \in Seq(Line) /\ output \in Seq(OutLine)
  /\ lineno + SomeIncludes(file, Len(file)) = Len(file)
  /\ \A n \in DOMAIN output : ComesFrom(file, output[n])
  /\ sections \in Seq(SectionOf(output))
  /\ pc = "reading" => sections = <<>>

Phases ==
  /\ pc = "ready" => loaded # None
  /\ pc \in {"reading", "layers", "entries"} => loaded = None
  /\ pc = "parsing" => /\ task.layer \in DOMAIN config.layers /\ task.key \in Word
                       /\ Frames(config, stack, task)
  /\ broken => pc \in {"layers", "parsing"} /\ (pc = "parsing" => ~stack[1].open)

ConfigInv == /\ TypeOK /\ Texts /\ Phases
             /\ Whole(config) /\ (loaded # None => Whole(loaded))

LEMMA EmptySequences ==
  \A S : <<>> \in Seq(S) /\ Len(<<>>) = 0 /\ DOMAIN <<>> = {}
OBVIOUS

LEMMA InitConfig == Init => ConfigInv
<1> SUFFICES ASSUME Init PROVE ConfigInv
  OBVIOUS
<1>1. /\ config = Default /\ loaded = None /\ pc = "reading" /\ file = <<>> /\ output = <<>>
      /\ lineno = 0 /\ sections = <<>> /\ task = NoTask /\ stack = <<>> /\ warnings = 0 /\ broken = FALSE
  BY DEF Init
<1>2. Whole(config) /\ config \in ConfigType
  BY <1>1, DefaultIsWhole DEF Whole
<1>3. task \in [layer : Nat, key : Word \cup {None}, exp : Exp]
  BY <1>1, ExpFacts DEF NoTask
<1>4. TypeOK
  BY <1>1, <1>2, <1>3, EmptySequences DEF TypeOK, PhaseType
<1>5. Texts
  <2>1. SomeIncludes(file, Len(file)) = 0
    <3>1. {q \in 1 .. Len(file) : Uncounted(file[q])} = {}
      BY <1>1
    <3> QED BY <3>1, FS_EmptySet DEF SomeIncludes
  <2> QED BY <1>1, <2>1, EmptySequences DEF Texts
<1>6. Phases
  BY <1>1 DEF Phases
<1> QED BY <1>1, <1>2, <1>4, <1>5, <1>6 DEF ConfigInv

LEMMA InitPromised == Init => Promised!Init
<1> SUFFICES ASSUME Init PROVE Promised!Init
  OBVIOUS
<1>1. config = Default /\ loaded = None /\ pc = "reading"
  BY DEF Init
<1> QED BY <1>1 DEF Promised!Init

-----------------------------------------------------------------------------
(* Reading the file.                                                       *)

LEMMA SectionTyped ==
  ASSUME ConfigInv, NEW i \in DOMAIN sections
  PROVE  /\ sections[i].name \in Word
         /\ sections[i].type \in {"none", "mods", "layout", "bogus"}
         /\ \A j \in DOMAIN sections[i].entries :
              /\ sections[i].entries[j].key \in Word
              /\ sections[i].entries[j].val \in Exp \cup {NoVal}
<1>1. sections \in Seq(SectionOf(output)) /\ output \in Seq(OutLine)
  BY DEF ConfigInv, Texts
<1>2. sections[i] \in SectionOf(output)
  BY <1>1
<1>3. ASSUME NEW n \in Filing(output)
      PROVE  /\ Entry(output[n].line, n).key \in Word
             /\ Entry(output[n].line, n).val \in Exp \cup {NoVal}
  <2>1. n \in DOMAIN output /\ output[n].line.kind \notin {"blank", "header"}
    BY DEF Filing
  <2>2. output[n] \in OutLine
    BY <1>1, <2>1
  <2>3. IsLine(output[n].line)
    BY <2>2, LineAssumption DEF OutLine
  <2> QED BY <2>1, <2>3 DEF IsLine, Entry
<1>4. \A x \in Entries(output) : x.key \in Word /\ x.val \in Exp \cup {NoVal}
  BY <1>3 DEF Entries
<1>5. /\ sections[i].name \in Word /\ sections[i].type \in {"none", "mods", "layout", "bogus"}
      /\ sections[i].entries \in Seq(Entries(output))
  BY <1>2 DEF SectionOf
<1>6. \A j \in DOMAIN sections[i].entries : sections[i].entries[j] \in Entries(output)
  BY <1>5
<1> QED BY <1>4, <1>5, <1>6

LEMMA CountedTyped ==
  ASSUME NEW f, NEW p \in Nat
  PROVE  SomeIncludes(f, p) \in Nat
<1>1. IsFiniteSet(1 .. p)
  BY FS_Interval
<1>2. IsFiniteSet({q \in 1 .. p : Uncounted(f[q])})
  BY <1>1, FS_Subset
<1> QED BY <1>2, FS_CardinalityType DEF SomeIncludes

LEMMA CountedMore ==
  ASSUME NEW f \in Seq(Line), NEW l \in Line
  PROVE  /\ \A p \in 1 .. Len(f) : SomeIncludes(Append(f, l), p) = SomeIncludes(f, p)
         /\ SomeIncludes(Append(f, l), Len(f) + 1)
              = SomeIncludes(f, Len(f)) + IF Uncounted(l) THEN 1 ELSE 0
<1> DEFINE g == Append(f, l)
           n == Len(f)
           S == {q \in 1 .. n : Uncounted(f[q])}
<1>1. n \in Nat /\ g[n + 1] = l /\ \A q \in 1 .. n : g[q] = f[q]
  OBVIOUS
<1> HIDE DEF g
<1>2. \A p \in 1 .. n : SomeIncludes(g, p) = SomeIncludes(f, p)
  <2> SUFFICES ASSUME NEW p \in 1 .. n PROVE SomeIncludes(g, p) = SomeIncludes(f, p)
    OBVIOUS
  <2>1. {q \in 1 .. p : Uncounted(g[q])} = {q \in 1 .. p : Uncounted(f[q])}
    BY <1>1
  <2> QED BY <2>1 DEF SomeIncludes
<1>3. {q \in 1 .. (n + 1) : Uncounted(g[q])} = S \cup (IF Uncounted(l) THEN {n + 1} ELSE {})
  BY <1>1
<1>4. IsFiniteSet(S) /\ n + 1 \notin S
  <2>1. IsFiniteSet(1 .. n)
    BY <1>1, FS_Interval
  <2> QED BY <1>1, <2>1, FS_Subset
<1> HIDE DEF S
<1>5. Cardinality(S \cup {n + 1}) = Cardinality(S) + 1 /\ Cardinality(S) \in Nat
  BY <1>4, FS_AddElement, FS_CardinalityType
<1>6. SomeIncludes(f, n) = Cardinality(S)
  BY DEF SomeIncludes, S
<1>7. SomeIncludes(g, n + 1) = Cardinality(S \cup (IF Uncounted(l) THEN {n + 1} ELSE {}))
  BY <1>3 DEF SomeIncludes
<1>8. CASE Uncounted(l)
  BY <1>2, <1>5, <1>6, <1>7, <1>8 DEF g
<1>9. CASE ~Uncounted(l)
  <2>1. S \cup {} = S
    OBVIOUS
  <2> QED BY <1>2, <1>5, <1>6, <1>7, <1>9, <2>1 DEF g
<1> QED BY <1>8, <1>9

FileFold == INSTANCE FoldTheorems WITH Op <- Filed

\* Sections is a fold that FoldTheorems is about.
LEMMA SectionsAre == Sections = FileFold!Fold(<<>>, [n \in DOMAIN output |-> n])
BY DEF Sections, FileFold!Fold, FoldLeft, MapThenFoldSet, FileFold!Top, Max

LEMMA FiledTyped ==
  ASSUME output \in Seq(OutLine), NEW before \in Seq(SectionOf(output)), NEW n \in DOMAIN output
  PROVE  Filed(before, n) \in Seq(SectionOf(output))
<1> DEFINE l == output[n].line
           S == SectionOf(output)
           E == Entries(output)
<1>0. output[n] \in OutLine
  OBVIOUS
<1>1. IsLine(l)
  BY <1>0, LineAssumption DEF OutLine
<1>2. CASE l.kind = "blank"
  BY <1>2 DEF Filed
<1>3. CASE l.kind = "header"
  <2> DEFINE h == [name |-> l.name, type |-> l.type, entries |-> <<>>]
  <2>1. l.name \in Word /\ l.type \in {"none", "mods", "layout", "bogus"}
    BY <1>1, <1>3 DEF IsLine
  <2>2. <<>> \in Seq(E)
    OBVIOUS
  <2> HIDE DEF l
  <2>3. h \in S
    BY <2>1, <2>2 DEF SectionOf
  <2>4. Filed(before, n) = Append(before, h)
    BY <1>3 DEF Filed, l
  <2> HIDE DEF h, S
  <2>5. before \in Seq(S)
    BY DEF S
  <2> QED BY <2>3, <2>4, <2>5 DEF S
<1>4. CASE l.kind \notin {"blank", "header"}
  <2> DEFINE x == Entry(l, n)
             i == Len(before)
  <2>1. x \in E
    BY <1>4 DEF Entries, Filing
  <2>2. Filed(before, n) = [before EXCEPT ![i].entries = Append(@, x)]
    BY <1>4, Zenon DEF Filed
  <2> HIDE DEF x, E, S, l
  <2>3. before \in Seq(S)
    BY DEF S
  <2>4. CASE i \notin DOMAIN before
    <3>1. [before EXCEPT ![i].entries = Append(@, x)] = before
      BY <2>3, <2>4
    <3> QED BY <2>2, <2>3, <3>1 DEF S
  <2>5. CASE i \in DOMAIN before
    <3> DEFINE s == before[i]
               t == [s EXCEPT !.entries = Append(s.entries, x)]
    <3>1. s \in S
      BY <2>3, <2>5
    <3>2. s.entries \in Seq(E)
      BY <3>1 DEF S, SectionOf, E
    <3>3. Append(s.entries, x) \in Seq(E)
      BY <2>1, <3>2
    <3>4. t \in S
      BY <3>1, <3>3 DEF S, SectionOf, E
    <3>5. [before EXCEPT ![i].entries = Append(@, x)] = [before EXCEPT ![i] = t]
      BY <2>3, <2>5
    <3> HIDE DEF t, i
    <3>6. [before EXCEPT ![i] = t] \in Seq(S)
      BY <2>3, <2>5, <3>4
    <3> QED BY <2>2, <3>5, <3>6 DEF S
  <2> QED BY <2>4, <2>5
<1> QED BY <1>2, <1>3, <1>4

LEMMA SectionsTyped ==
  ASSUME output \in Seq(OutLine)
  PROVE  Sections \in Seq(SectionOf(output))
<1> DEFINE s == [n \in DOMAIN output |-> n]
           B == Seq(SectionOf(output))
<1>1. DOMAIN output = 1 .. Len(output) /\ Len(output) \in Nat
  OBVIOUS
<1>2. s \in Seq(DOMAIN output)
  <2>1. s = [n \in 1 .. Len(output) |-> n]
    BY <1>1
  <2> QED BY <1>1, <2>1
<1>3. <<>> \in B
  OBVIOUS
<1>4. \A b \in B, n \in DOMAIN output : Filed(b, n) \in B
  BY FiledTyped
<1> HIDE DEF s, B
<1>5. FileFold!Fold(<<>>, s) \in B
  BY <1>2, <1>3, <1>4, FileFold!FoldType
<1> QED BY <1>5, SectionsAre DEF s, B

LEMMA ExpansionTyped ==
  ASSUME NEW l \in Line, lineno \in Nat
  PROVE  /\ Expansion(l) \in Seq(OutLine)
         /\ \A n \in DOMAIN Expansion(l) :
              \/ /\ l.kind = "include" /\ Expansion(l)[n].path # None
                 /\ ComesFrom(file, Expansion(l)[n])
              \/ l.kind # "include" /\ Expansion(l)[n] = Here(l, None, lineno)
<1> DEFINE x == Here(l, None, lineno)
           lines == Included[l.word].lines
           y == [i \in DOMAIN lines |-> Here(lines[i], l.word, i - 1)]
<1>0. l \in Written /\ IsLine(l)
  BY LineAssumption DEF Written
<1>1. CASE l.kind # "include"
  <2>1. Expansion(l) = <<x>>
    BY <1>1, Zenon DEF Expansion
  <2>2. x \in OutLine
    BY <1>0 DEF Here, OutLine
  <2> HIDE DEF x
  <2>3. <<x>> \in Seq(OutLine) /\ DOMAIN <<x>> = {1} /\ <<x>>[1] = x
    BY <2>2
  <2> QED BY <1>1, <2>1, <2>3 DEF x
<1>2. CASE l.kind = "include" /\ Included[l.word].status = "found"
  <2>1. Expansion(l) = y
    BY <1>2, Zenon DEF Expansion
  <2>2. l.word \in Word
    BY <1>0, <1>2 DEF IsLine
  <2>3. lines \in Seq(Written) /\ None \notin Word
    BY <2>2, LineAssumption
  <2>4. DOMAIN lines = 1 .. Len(lines) /\ Len(lines) \in Nat /\ \A i \in DOMAIN lines : lines[i] \in Written
    BY <2>3
  <2> DEFINE w == l.word
             n == Len(lines)
  <2>5. ASSUME NEW i \in 1 .. n
        PROVE  /\ y[i] \in OutLine /\ y[i].path # None /\ ComesFrom(file, y[i])
    <3>1. y[i] = [line |-> lines[i], path |-> w, at |-> i - 1]
      BY <2>4 DEF Here
    <3>2. y[i].line = lines[i] /\ y[i].path = w /\ y[i].at = i - 1 /\ (i - 1) + 1 = i /\ i - 1 \in Nat
      BY <3>1
    <3>3. y[i] \in OutLine
      BY <2>2, <2>4, <3>1, <3>2 DEF OutLine
    <3>4. y[i].path # None
      BY <2>2, <2>3, <3>2
    <3>5. ComesFrom(file, y[i])
      BY <2>4, <3>2, <3>4 DEF ComesFrom
    <3> QED BY <3>3, <3>4, <3>5
  <2>6. y = [i \in 1 .. n |-> y[i]] /\ DOMAIN y = 1 .. n
    BY <2>4
  <2> HIDE DEF y, n
  <2>7. y \in Seq(OutLine)
    BY <2>4, <2>5, <2>6 DEF n
  <2> QED BY <1>2, <2>1, <2>5, <2>6, <2>7
<1>3. CASE l.kind = "include" /\ Included[l.word].status # "found"
  <2>1. Expansion(l) = <<>>
    BY <1>3, Zenon DEF Expansion
  <2> QED BY <2>1
<1> QED BY <1>1, <1>2, <1>3

LEMMA InvFacts ==
  ASSUME ConfigInv
  PROVE  /\ Whole(config) /\ config \in ConfigType /\ (loaded # None => Whole(loaded))
         /\ loaded \in ConfigType \cup {None} /\ None \notin ConfigType
         /\ pc \in PhaseType /\ lineno \in Nat /\ warnings \in Nat /\ broken \in BOOLEAN
         /\ task \in [layer : Nat, key : Word \cup {None}, exp : Exp]
         /\ task.layer \in Nat /\ task.exp \in Exp
         /\ stack \in Seq(FrameType)
         /\ file \in Seq(Line) /\ output \in Seq(OutLine)
         /\ sections \in Seq(SectionOf(output))
BY DefaultAssumption DEF ConfigInv, TypeOK, FrameType, Texts

\* Lines that are read keep where they come from.
LEMMA ComesFromMore ==
  ASSUME NEW f \in Seq(Line), NEW l \in Line, NEW o, ComesFrom(f, o)
  PROVE  ComesFrom(Append(f, l), o)
<1>1. CASE o.path # None
  BY <1>1 DEF ComesFrom
<1>2. CASE o.path = None
  <2>1. PICK p \in DOMAIN f : f[p] = o.line /\ p = o.at + 1 + SomeIncludes(f, p)
    BY <1>2 DEF ComesFrom
  <2>2. p \in 1 .. Len(f) /\ Append(f, l)[p] = f[p] /\ p \in DOMAIN Append(f, l)
    OBVIOUS
  <2>3. SomeIncludes(Append(f, l), p) = SomeIncludes(f, p)
    BY <2>2, CountedMore
  <2> QED BY <1>2, <2>1, <2>2, <2>3 DEF ComesFrom
<1> QED BY <1>1, <1>2

LEMMA ReadLineStep ==
  ASSUME ConfigInv, NEW l \in Line, ReadLine(l)
  PROVE  ConfigInv' /\ Promise
<1> DEFINE x == Expansion(l)
           n == Len(file)
<1>1. /\ pc = "reading" /\ file' = Append(file, l) /\ output' = output \o x
      /\ lineno' = IF Uncounted(l) THEN lineno ELSE lineno + 1
      /\ warnings' \in {warnings, warnings + 1}
      /\ UNCHANGED <<config, loaded, pc, sections, task, stack, broken>>
  BY DEF ReadLine
<1>2. /\ file \in Seq(Line) /\ output \in Seq(OutLine) /\ lineno \in Nat
      /\ lineno + SomeIncludes(file, n) = n /\ sections = <<>>
      /\ \A i \in DOMAIN output : ComesFrom(file, output[i])
  BY <1>1, InvFacts DEF ConfigInv, Texts
<1>3. file' \in Seq(Line) /\ lineno' \in Nat /\ n \in Nat /\ Len(file') = n + 1 /\ file'[n + 1] = l
  BY <1>1, <1>2
<1>4. lineno' + SomeIncludes(file', n + 1) = n + 1
  <2>1. SomeIncludes(file', n + 1) = SomeIncludes(file, n) + IF Uncounted(l) THEN 1 ELSE 0
    BY <1>1, <1>2, CountedMore
  <2>2. SomeIncludes(file, n) \in Nat
    BY <1>3, CountedTyped
  <2> QED BY <1>1, <1>2, <1>3, <2>1, <2>2
<1>5. x \in Seq(OutLine)
  BY <1>2, ExpansionTyped
<1>6. ASSUME NEW i \in DOMAIN x PROVE ComesFrom(file', x[i])
  <2>1. CASE l.kind = "include"
    <3>1. ComesFrom(file, x[i])
      BY <1>2, <2>1, ExpansionTyped
    <3> QED BY <1>1, <1>2, <3>1, ComesFromMore
  <2>2. CASE l.kind # "include"
    <3>1. x[i] = Here(l, None, lineno)
      BY <1>2, <2>2, ExpansionTyped
    <3>2. ~Uncounted(l)
      BY <2>2 DEF Uncounted
    <3>3. x[i].path = None /\ x[i].line = l /\ x[i].at = lineno
      BY <3>1 DEF Here
    <3>4. n + 1 \in DOMAIN file' /\ file'[n + 1] = l
      BY <1>3
    <3>5. n + 1 = lineno + 1 + SomeIncludes(file', n + 1)
      <4>1. SomeIncludes(file', n + 1) \in Nat /\ lineno' = lineno + 1
        BY <1>1, <1>3, <3>2, CountedTyped
      <4> QED BY <1>2, <1>3, <1>4, <4>1
    <3> QED BY <2>2, <3>3, <3>4, <3>5 DEF ComesFrom
  <2> QED BY <2>1, <2>2
<1> HIDE DEF x
<1>7. output' \in Seq(OutLine)
  BY <1>1, <1>2, <1>5
<1>8. ASSUME NEW i \in DOMAIN output' PROVE ComesFrom(file', output'[i])
  <2>1. \/ i \in DOMAIN output /\ output'[i] = output[i]
        \/ i - Len(output) \in DOMAIN x /\ output'[i] = x[i - Len(output)]
    BY <1>1, <1>2, <1>5
  <2>2. CASE i \in DOMAIN output /\ output'[i] = output[i]
    BY <1>1, <1>2, <2>2, ComesFromMore
  <2>3. CASE i - Len(output) \in DOMAIN x /\ output'[i] = x[i - Len(output)]
    BY <1>6, <2>3
  <2> QED BY <2>1, <2>2, <2>3
<1>9. Texts'
  <2>1. sections' = <<>> /\ sections' \in Seq(SectionOf(output'))
    BY <1>1, <1>2
  <2> QED BY <1>3, <1>4, <1>7, <1>8, <2>1 DEF Texts
<1>10. TypeOK'
  <2>1. warnings' \in Nat
    BY <1>1, InvFacts
  <2> QED BY <1>1, <1>3, <2>1 DEF ConfigInv, TypeOK
<1>11. Phases'
  BY <1>1 DEF ConfigInv, Phases
<1>12. Whole(config') /\ (loaded' # None => Whole(loaded'))
  BY <1>1, InvFacts
<1>13. Promise
  BY <1>1, StepStutters DEF Asking, Bindings
<1> QED BY <1>9, <1>10, <1>11, <1>12, <1>13 DEF ConfigInv

LEMMA EndOfFileStep ==
  ASSUME ConfigInv, EndOfFile
  PROVE  ConfigInv' /\ Promise
<1>1. pc = "reading" /\ UNCHANGED <<config, task, stack>>
  BY DEF EndOfFile
<1>2. loaded = None /\ ~broken /\ sections = <<>>
  BY <1>1, InvFacts DEF ConfigInv, Phases, Texts
<1>3. CASE Sectioned
  <2>1. /\ sections' = Sections /\ broken' = (Len(sections') > MaxSections) /\ pc' = "layers"
        /\ warnings' = 0 /\ UNCHANGED <<loaded, file, output, lineno>>
    BY <1>3 DEF EndOfFile
  <2>2. Texts'
    <3>1. sections' \in Seq(SectionOf(output))
      BY <2>1, InvFacts, SectionsTyped
    <3> QED BY <1>1, <2>1, <3>1 DEF ConfigInv, Texts
  <2>3. TypeOK'
    BY <1>1, <2>1 DEF ConfigInv, TypeOK, PhaseType
  <2>4. Phases'
    BY <1>1, <1>2, <2>1 DEF Phases
  <2>5. Whole(config') /\ (loaded' # None => Whole(loaded'))
    BY <1>1, <2>1, InvFacts
  <2>6. Promise
    <3>1. Asking' = Asking
      BY <1>1, <2>1 DEF Asking
    <3>2. Bindings' = Bindings
      BY <1>1 DEF Bindings
    <3> QED BY <2>1, <3>1, <3>2, StepStutters
  <2> QED BY <2>2, <2>3, <2>4, <2>5, <2>6 DEF ConfigInv
<1>4. CASE ~Sectioned
  <2>1. /\ pc' = "ready" /\ loaded' = config /\ warnings' = 1
        /\ file' = <<>> /\ output' = <<>> /\ lineno' = 0 /\ UNCHANGED <<sections, broken>>
    BY <1>4 DEF EndOfFile
  <2>2. config \in ConfigType /\ config # None /\ Whole(config)
    BY InvFacts
  <2>3. Texts'
    <3>1. SomeIncludes(file', Len(file')) = 0
      <4>1. {q \in 1 .. Len(file') : Uncounted(file'[q])} = {}
        BY <2>1
      <4> QED BY <4>1, FS_EmptySet DEF SomeIncludes
    <3> QED BY <1>2, <2>1, <3>1, EmptySequences DEF Texts
  <2>4. TypeOK'
    BY <1>1, <2>1, <2>2 DEF ConfigInv, TypeOK, PhaseType
  <2>5. Phases'
    BY <1>1, <1>2, <2>1, <2>2 DEF Phases
  <2>6. Promise
    <3>1. Asking' = None /\ Asking = None
      BY <1>1, <2>1 DEF Asking
    <3>2. Bindings' = Bindings
      BY <1>1 DEF Bindings
    <3> QED BY <1>2, <2>1, <2>2, <3>1, <3>2, StepLoads
  <2> QED BY <1>1, <2>1, <2>2, <2>3, <2>4, <2>5, <2>6 DEF ConfigInv
<1> QED BY <1>3, <1>4

-----------------------------------------------------------------------------
(* The passes over the sections.                                           *)

LEMMA PassKeeps ==
  ASSUME ConfigInv, NEW c, Whole(c), NEW w \in Nat, NEW then, Pass(c, w, then),
         pc \in {"layers", "entries"}, ~broken
  PROVE  /\ ConfigInv' /\ Asking = None /\ Asking' = None
         /\ loaded = None /\ loaded' = None /\ config' = c
<1>1. /\ config' = c /\ warnings' = warnings + w
      /\ UNCHANGED <<loaded, pc, file, output, lineno, sections, task, stack, broken>>
  BY DEF Pass
<1>2. c \in ConfigType
  BY DEF Whole
<1>3. warnings' \in Nat
  BY <1>1, InvFacts
<1>4. loaded = None
  BY DEF ConfigInv, Phases
<1>5. TypeOK'
  BY <1>1, <1>2, <1>3 DEF ConfigInv, TypeOK
<1>6. Texts'
  BY <1>1 DEF ConfigInv, Texts
<1>7. Phases'
  BY <1>1 DEF ConfigInv, Phases
<1>8. Asking = None /\ Asking' = None
  BY <1>1 DEF Asking
<1> QED BY <1>1, <1>4, <1>5, <1>6, <1>7, <1>8 DEF ConfigInv

LEMMA PassStep ==
  ASSUME ConfigInv, NEW c, Whole(c), BindingsIn(c) = BindingsIn(config), NEW w \in Nat, NEW then,
         Pass(c, w, then), pc \in {"layers", "entries"}, ~broken
  PROVE  ConfigInv' /\ Promise
<1>1. /\ ConfigInv' /\ Asking = None /\ Asking' = None /\ loaded = None /\ loaded' = None /\ config' = c
  BY PassKeeps
<1>2. Bindings' = Bindings
  BY <1>1 DEF Bindings
<1> QED BY <1>1, <1>2, StepStutters

LEMMA CrashStep ==
  ASSUME ConfigInv, Crash, pc \in {"layers", "parsing"}, pc = "parsing" => ~broken /\ ~stack[1].open
  PROVE  ConfigInv' /\ Promise
<1>1. /\ broken' = TRUE
      /\ UNCHANGED <<config, loaded, pc, file, output, lineno, sections, task, stack, warnings>>
  BY DEF Crash
<1>2. TypeOK'
  BY <1>1 DEF ConfigInv, TypeOK
<1>3. Texts'
  BY <1>1 DEF ConfigInv, Texts
<1>4. Phases'
  BY <1>1 DEF ConfigInv, Phases
<1>5. Bindings' = Bindings /\ loaded' = loaded
  BY <1>1 DEF Bindings
<1>6. Asking' = None
  BY <1>1 DEF Asking
<1>7. Promise
  <2>1. CASE Asking = None
    BY <1>5, <1>6, <2>1, StepStutters
  <2>2. CASE Asking # None
    BY <1>5, <1>6, <2>2, StepRefuses
  <2> QED BY <2>1, <2>2
<1> QED BY <1>1, <1>2, <1>3, <1>4, <1>7 DEF ConfigInv

LEMMA Entered ==
  ASSUME ConfigInv, at[1] \in DOMAIN sections
  PROVE  /\ Section.name \in Word /\ Section.type \in {"none", "mods", "layout", "bogus"}
         /\ at[2] \in DOMAIN Section.entries => Ent.key \in Word /\ Ent.val \in Exp \cup {NoVal}
BY SectionTyped DEF Section, Ent

LEMMA ParseIdStep ==
  ASSUME ConfigInv, ParseId
  PROVE  ConfigInv' /\ Promise
<1> DEFINE flags == IdFlags[Ent.key]
           id == [id |-> IdName[Ent.key], flags |-> flags]
           c1 == [config EXCEPT !.wildcard = TRUE]
           c2 == [config EXCEPT !.ids = Append(@, id)]
<1>1. ~broken /\ pc = "layers" /\ Ent.key \in Word
  BY Entered DEF ParseId, InSection, Passing
<1>2. Whole(config) /\ config \in ConfigType
  BY InvFacts
<1>3. CASE flags = {}
  <2>1. Pass(config, 1, Following)
    BY <1>3, Zenon DEF ParseId
  <2> QED BY <1>1, <1>2, <2>1, PassStep
<1>4. CASE flags # {} /\ "wildcard" \in flags
  <2>1. Pass(c1, 0, Following)
    BY <1>4, Zenon DEF ParseId
  <2>2. /\ c1 \in ConfigType /\ c1.layers = config.layers /\ c1.descriptors = config.descriptors
        /\ c1.macros = config.macros /\ c1.commands = config.commands
    BY <1>2 DEF ConfigType
  <2> HIDE DEF c1
  <2>3. Whole(c1) /\ BindingsIn(c1) = BindingsIn(config)
    BY <1>2, <2>2, TablesKept
  <2> QED BY <1>1, <2>1, <2>3, PassStep
<1>5. CASE flags # {} /\ "wildcard" \notin flags
  <2>1. IF Len(config.ids) < MaxIds THEN Pass(c2, 0, Following) ELSE Crash
    BY <1>5, Zenon DEF ParseId
  <2>2. CASE Len(config.ids) < MaxIds
    <3>1. Pass(c2, 0, Following)
      BY <2>1, <2>2
    <3>2. id \in [id : Word, flags : SUBSET Kind]
      BY <1>1, ConfigAssumption
    <3> HIDE DEF id
    <3>3. Append(config.ids, id) \in Seq([id : Word, flags : SUBSET Kind])
      <4> DEFINE T == [id : Word, flags : SUBSET Kind]
                 s == config.ids
      <4>1. s \in Seq(T) /\ id \in T
        BY <1>2, <3>2, ConfigFields
      <4> HIDE DEF T, s
      <4>2. Append(s, id) \in Seq(T)
        BY <4>1
      <4> QED BY <4>2 DEF T, s
    <3>4. /\ c2 \in ConfigType /\ c2.layers = config.layers /\ c2.descriptors = config.descriptors
          /\ c2.macros = config.macros /\ c2.commands = config.commands
      BY <1>2, <3>3 DEF ConfigType
    <3> HIDE DEF c2
    <3>5. Whole(c2) /\ BindingsIn(c2) = BindingsIn(config)
      BY <1>2, <3>4, TablesKept
    <3> QED BY <1>1, <3>1, <3>5, PassStep
  <2>3. CASE ~(Len(config.ids) < MaxIds)
    BY <1>1, <2>1, <2>3, CrashStep
  <2> QED BY <2>2, <2>3
<1> QED BY <1>3, <1>4, <1>5

LEMMA ParseOptionStep ==
  ASSUME ConfigInv, ParseOption
  PROVE  ConfigInv' /\ Promise
<1> DEFINE n == ValueOf(Ent.val)
           c1 == [config EXCEPT !.options[Ent.key] = n]
<1>1. ~broken /\ pc = "layers" /\ Ent.key \in Word /\ Ent.val \in Exp \cup {NoVal}
  BY Entered DEF ParseOption, InSection, Passing
<1>2. Whole(config) /\ config \in ConfigType
  BY InvFacts
<1>3. CASE Ent.key \notin Option
  <2>1. Pass(config, 1, Following)
    BY <1>3 DEF ParseOption
  <2> QED BY <1>1, <1>2, <2>1, PassStep
<1>4. CASE Ent.key \in Option /\ Ent.val = NoVal
  <2>1. Crash
    BY <1>4 DEF ParseOption
  <2> QED BY <1>1, <2>1, CrashStep
<1>5. CASE Ent.key \in Option /\ Ent.val # NoVal
  <2>1. Pass(c1, 0, Following)
    BY <1>5 DEF ParseOption
  <2>2. n \in Nat
    <3>1. IsExp(Ent.val)
      BY <1>1, <1>5, ConfigAssumption
    <3>2. Ent.val.kind = "word" => Number[Ent.val.word] \in Nat
      BY <3>1, ConfigAssumption DEF IsExp
    <3> QED BY <3>2 DEF ValueOf
  <2> HIDE DEF n
  <2>3. /\ c1 \in ConfigType /\ c1.layers = config.layers /\ c1.descriptors = config.descriptors
        /\ c1.macros = config.macros /\ c1.commands = config.commands
    BY <1>2, <1>5, <2>2 DEF ConfigType
  <2> HIDE DEF c1
  <2>4. Whole(c1) /\ BindingsIn(c1) = BindingsIn(config)
    BY <1>2, <2>3, TablesKept
  <2> QED BY <1>1, <2>1, <2>4, PassStep
<1> QED BY <1>3, <1>4, <1>5

LEMMA EndsStep ==
  ASSUME ConfigInv, EndSection \/ EndEntries
  PROVE  ConfigInv' /\ Promise
<1>1. ~broken /\ pc \in {"layers", "entries"} /\ Pass(config, 0, NextSection)
  BY DEF EndSection, EndEntries, Passing
<1> QED BY <1>1, InvFacts, PassStep

LEMMA EndLayersStep ==
  ASSUME ConfigInv, EndLayers
  PROVE  ConfigInv' /\ Promise
<1>1. /\ ~broken /\ pc = "layers" /\ pc' = "entries"
      /\ UNCHANGED <<config, loaded, file, output, lineno, sections, task, stack, warnings, broken>>
  BY DEF EndLayers
<1>2. TypeOK' /\ Texts' /\ Phases'
  BY <1>1 DEF ConfigInv, TypeOK, PhaseType, Texts, Phases
<1>3. Bindings' = Bindings /\ Asking' = Asking /\ loaded' = loaded
  BY <1>1 DEF Bindings, Asking
<1>4. Promise
  BY <1>3, StepStutters
<1> QED BY <1>1, <1>2, <1>4 DEF ConfigInv

LEMMA ParseAliasStep ==
  ASSUME ConfigInv, ParseAlias
  PROVE  ConfigInv' /\ Promise
<1> DEFINE code == KeyOf[Ent.key]
           val == Ent.val
           aliased == [config EXCEPT !.aliases[code] = val]
           named == KeyOf[val.word]
<1>1. ~broken /\ pc = "layers" /\ Ent.key \in Word /\ val \in Exp \cup {NoVal}
  BY Entered DEF ParseAlias, InSection, Passing
<1>2. Whole(config) /\ config \in ConfigType
  BY InvFacts
<1>3. CASE code = NoCode
  <2>1. Pass(config, 1, Following)
    BY <1>3 DEF ParseAlias
  <2> QED BY <1>1, <1>2, <2>1, PassStep
<1>4. CASE code # NoCode /\ val = NoVal
  <2>1. Crash
    BY <1>4 DEF ParseAlias
  <2> QED BY <1>1, <2>1, CrashStep
<1>5. CASE code # NoCode /\ val # NoVal
  <2>0. code \in Code /\ val \in Exp /\ IsExp(val)
    BY <1>1, <1>5, ConfigAssumption
  <2>1. /\ aliased \in ConfigType /\ aliased.layers = config.layers /\ aliased.macros = config.macros
        /\ aliased.descriptors = config.descriptors /\ aliased.commands = config.commands
    <3>1. config.aliases \in [Code -> Exp \cup {NoVal}]
      BY <1>2, ConfigFields
    <3> DEFINE as == [config.aliases EXCEPT ![code] = val]
    <3>2. as \in [Code -> Exp \cup {NoVal}]
      BY <2>0, <3>1
    <3>3. aliased = [config EXCEPT !.aliases = as]
      BY <1>2 DEF ConfigType
    <3> HIDE DEF as, aliased
    <3> QED BY <1>2, <3>2, <3>3 DEF ConfigType
  <2>2. \/ /\ val.kind = "word" /\ named # NoCode
           /\ Pass([aliased EXCEPT !.layers[1].keymap[code] = KeyTo(named)], 0, Following)
        \/ Pass(aliased, 0, Following)
    BY <1>5 DEF ParseAlias
  <2> HIDE DEF aliased
  <2>3. Whole(aliased) /\ BindingsIn(aliased) = BindingsIn(config)
    BY <1>2, <2>1, TablesKept
  <2>4. CASE Pass(aliased, 0, Following)
    BY <1>1, <2>3, <2>4, PassStep
  <2>5. CASE /\ val.kind = "word" /\ named # NoCode
             /\ Pass([aliased EXCEPT !.layers[1].keymap[code] = KeyTo(named)], 0, Following)
    <3> DEFINE c == aliased
               o == c.layers[1]
               d == KeyTo(named)
               K == {code}
               n == RebindKeys(o, K, d)
               r == Relayered(c, 1, n)
               b == BoundTo(c, o, KeyTarget(code), d)
    <3>1. named \in Code
      BY <2>0, <2>5, ConfigAssumption DEF IsExp
    <3>2. d \in Descriptor /\ ValidDescriptor(c, d, Len(c.descriptors)) /\ d.op = "keysequence"
          /\ Meaning(c, d) = [kind |-> "key", code |-> named]
      BY <3>1, SimpleDescriptors
    <3>3. 1 \in DOMAIN c.layers /\ c \in ConfigType /\ K \in SUBSET Code
      BY <2>0, <2>3, WholeFacts
    <3>4. o \in Layer /\ o.keymap \in [Code -> Descriptor] /\ o.name \in Word
      BY <3>3, LayerAt, LayerFields
    <3> HIDE DEF d, code
    <3>5. [c EXCEPT !.layers[1].keymap[code] = d] = r
      <4>1. [o.keymap EXCEPT ![code] = d] = [x \in Code |-> IF x \in K THEN d ELSE o.keymap[x]]
        BY <2>0, <3>4
      <4>2. [c EXCEPT !.layers[1].keymap[code] = d]
              = [c EXCEPT !.layers[1] = [o EXCEPT !.keymap = [o.keymap EXCEPT ![code] = d]]]
        <5>1. c.layers \in Seq(Layer)
          BY <3>3, ConfigFields
        <5> QED BY <3>3, <3>4, <5>1 DEF ConfigType, Layer
      <4> QED BY <4>1, <4>2 DEF Relayered, RebindKeys
    <3>6. /\ Fits(c, 1, n) /\ Rebinds(c, r, 1, {KeyTarget(x) : x \in K}, d)
      BY <2>3, <3>2, <3>3, KeysRebound
    <3>7. Whole(r)
      BY <2>3, <3>3, <3>6, RelayeredWhole
    <3>8. BindingsIn(r) = Promised!Granted(BindingsIn(c), Asked(c, 1, {KeyTarget(x) : x \in K}, Meaning(c, d)))
      BY <2>3, <3>2, <3>3, <3>6, RebindingGrants
    <3>9. Pass(r, 0, Following)
      BY <2>5, <3>5 DEF d
    <3>10. /\ ConfigInv' /\ Asking = None /\ Asking' = None
           /\ loaded = None /\ loaded' = None /\ config' = r
      BY <1>1, <3>7, <3>9, PassKeeps
    <3> DEFINE q == Asked(c, 1, {KeyTarget(x) : x \in K}, Meaning(c, d))
    <3>11. b.layer = o.name /\ b.target = KeyTarget(code) /\ b.action = [kind |-> "key", code |-> named]
           /\ b = [layer |-> o.name, target |-> KeyTarget(code), action |-> [kind |-> "key", code |-> named]]
      BY <3>2 DEF BoundTo
    <3>12. q = [layer |-> b.layer, targets |-> {b.target}, action |-> b.action]
      <4>1. {KeyTarget(x) : x \in K} = {KeyTarget(code)}
        OBVIOUS
      <4> QED BY <3>2, <3>11, <4>1 DEF Asked
    <3> HIDE DEF q, b, r, n
    <3>13. b \in Promised!Binding
      <4>1. KeyTarget(code) \in [chord : BOOLEAN, keys : SUBSET (Code \cup {NoCode})]
        BY <2>0 DEF KeyTarget
      <4>2. [kind |-> "key", code |-> named] \in Actions
        BY <3>1 DEF Actions
      <4> QED BY <3>4, <3>11, <4>1, <4>2 DEF Promised!Binding
    <3>14. b \in Promised!Granted(BindingsIn(c), q)
      <4>1. b.action # Nothing
        BY <3>11 DEF Nothing
      <4> QED BY <3>11, <3>12, <4>1 DEF Promised!Granted
    <3>15. Bindings' = Promised!Granted(Bindings, q) /\ b \in Bindings'
      BY <2>3, <3>8, <3>10, <3>14 DEF Bindings, q
    <3>16. Promise
      BY <3>10, <3>12, <3>13, <3>15, StepAliases
    <3> QED BY <3>10, <3>16
  <2> QED BY <2>2, <2>4, <2>5
<1> QED BY <1>3, <1>4, <1>5

LEMMA AddLayerStep ==
  ASSUME ConfigInv, AddLayer
  PROVE  ConfigInv' /\ Promise
<1> DEFINE w == Section.name
           type == Section.type
           ids == Constituents(w)
           N(t, parts) == NewLayer(w, t, parts)
           add(t, parts) == [config EXCEPT !.layers = Append(@, NewLayer(w, t, parts))]
<1>1. ~broken /\ pc = "layers" /\ w \in Word
  BY Entered DEF AddLayer, Passing
<1>2. Whole(config) /\ config \in ConfigType
  BY InvFacts
<1>3. ASSUME NEW t \in {"normal", "layout", "composite"}, NEW parts \in Seq(Nat),
             LayerIndex(config, w) = 0, Len(config.layers) < MaxLayers,
             Len(parts) <= MaxConstituents, \A m \in Members(parts) : m \in 1 .. Len(config.layers),
             NEW warned \in Nat, Pass(add(t, parts), warned, NextSection)
      PROVE  ConfigInv' /\ Promise
  <2> DEFINE l == NewLayer(w, t, parts)
             c2 == [config EXCEPT !.layers = Append(@, l)]
  <2>1. /\ l \in Layer /\ Blank(l) /\ l.name = w /\ l.constituents = parts
        /\ \A code \in Code : l.keymap[code] = Unbound
    BY <1>1, NewLayerFacts
  <2> HIDE DEF l, w
  <2>2. \A i \in DOMAIN config.layers : config.layers[i].name # l.name
    BY <1>2, <1>3, <2>1, LayerIndexFound
  <2>3. Whole(c2) /\ BindingsIn(c2) = BindingsIn(config)
    BY <1>2, <1>3, <2>1, <2>2, LayerAdded
  <2>4. Pass(c2, warned, NextSection)
    BY <1>3 DEF l, w
  <2> HIDE DEF c2
  <2> QED BY <1>1, <1>3, <2>3, <2>4, PassStep
<1>4. CASE LayerIndex(config, w) # 0
  <2>1. Pass(config, 0, NextSection)
    BY <1>4, Zenon DEF AddLayer
  <2> QED BY <1>1, <1>2, <2>1, PassStep
<1>5. CASE LayerIndex(config, w) = 0 /\ Len(config.layers) >= MaxLayers
  <2>0. /\ ~(LayerIndex(config, w) # 0)
        /\ ~(Len(config.layers) < MaxLayers)
    BY <1>2, <1>5, TableFacts, LimitFacts
  <2>1. Pass(config, 1, NextSection)
    BY <1>5, <2>0, Zenon DEF AddLayer
  <2> QED BY <1>1, <1>2, <2>1, PassStep
<1>6. CASE LayerIndex(config, w) = 0 /\ Len(config.layers) < MaxLayers /\ IsComposite(w)
  <2>0. /\ ~(LayerIndex(config, w) # 0)
        /\ ~(LayerIndex(config, w) = 0 /\ Len(config.layers) >= MaxLayers)
    BY <1>2, <1>6, TableFacts, LimitFacts
  <2>1. IF type # "none" THEN Pass(config, 1, NextSection)
        ELSE IF \E n \in DOMAIN ids : n > MaxConstituents /\ \A i \in 1 .. n : ids[i] # 0
        THEN Crash
        ELSE IF \E i \in DOMAIN ids : ids[i] = 0 THEN Pass(config, 1, NextSection)
        ELSE Pass(add("composite", ids), 0, NextSection)
    BY <1>6, <2>0, Zenon DEF AddLayer
  <2>2. \/ Pass(config, 1, NextSection)
        \/ Crash
        \/ /\ ~\E n \in DOMAIN ids : n > MaxConstituents /\ \A i \in 1 .. n : ids[i] # 0
           /\ ~\E i \in DOMAIN ids : ids[i] = 0
           /\ Pass(add("composite", ids), 0, NextSection)
    BY <2>1, Zenon
  <2>3. CASE Pass(config, 1, NextSection)
    BY <1>1, <1>2, <2>3, PassStep
  <2>4. CASE Crash
    BY <1>1, <2>4, CrashStep
  <2>5. CASE /\ ~\E n \in DOMAIN ids : n > MaxConstituents /\ \A i \in 1 .. n : ids[i] # 0
             /\ ~\E i \in DOMAIN ids : ids[i] = 0
             /\ Pass(add("composite", ids), 0, NextSection)
    <3>1. Parts[w] \in Seq(Word)
      BY <1>1, ConfigAssumption
    <3> DEFINE k == Len(Parts[w])
    <3>2. DOMAIN Parts[w] = 1 .. k /\ k \in Nat
      BY <3>1
    <3>3. ids = [i \in 1 .. k |-> LayerIndex(config, Parts[w][i])]
      BY <3>2 DEF Constituents
    <3>4. \A i \in 1 .. k : ids[i] = LayerIndex(config, Parts[w][i])
      BY <3>3
    <3>5. \A i \in 1 .. k : ids[i] \in Nat /\ (ids[i] # 0 => ids[i] \in 1 .. Len(config.layers))
      BY <1>2, <3>4, LayerIndexFound
    <3>6. DOMAIN ids = 1 .. k /\ ids = [i \in 1 .. k |-> ids[i]]
      BY <3>3
    <3> HIDE DEF ids, k
    <3>7. ids \in Seq(Nat) /\ Len(ids) = k
      BY <3>2, <3>5, <3>6 DEF k
    <3>8. \A i \in 1 .. k : ids[i] # 0
      BY <2>5, <3>6
    <3>9. \A m \in Members(ids) : m \in 1 .. Len(config.layers)
      BY <3>5, <3>6, <3>8 DEF Members
    <3>10. k <= MaxConstituents
      <4> SUFFICES ASSUME k > MaxConstituents PROVE FALSE
        BY <3>2, LimitFacts DEF k
      <4>1. k \in DOMAIN ids /\ \A i \in 1 .. k : ids[i] # 0
        BY <3>2, <3>6, <3>8, LimitFacts DEF k
      <4> QED BY <2>5, <4>1
    <3> HIDE DEF w, add
    <3> QED BY <1>3, <1>6, <2>5, <3>7, <3>9, <3>10
  <2> QED BY <2>2, <2>3, <2>4, <2>5
<1>7. CASE LayerIndex(config, w) = 0 /\ Len(config.layers) < MaxLayers /\ ~IsComposite(w)
  <2>0. /\ ~(LayerIndex(config, w) # 0)
        /\ ~(LayerIndex(config, w) = 0 /\ Len(config.layers) >= MaxLayers)
    BY <1>2, <1>7, TableFacts, LimitFacts
  <2> DEFINE t == IF type = "layout" THEN "layout" ELSE "normal"
             parts == <<>>
             warned == IF type = "bogus" THEN 1 ELSE 0
  <2>1. Pass(add(t, parts), warned, NextSection)
    BY <1>7, <2>0, Zenon DEF AddLayer
  <2>2. /\ t \in {"normal", "layout", "composite"} /\ parts \in Seq(Nat) /\ warned \in Nat
        /\ Len(parts) <= MaxConstituents /\ \A m \in Members(parts) : m \in 1 .. Len(config.layers)
    BY LimitFacts DEF Members
  <2> HIDE DEF t, parts, warned, add, w
  <2> QED BY <1>3, <1>7, <2>1, <2>2
<1>8. Len(config.layers) >= MaxLayers \/ Len(config.layers) < MaxLayers
  BY <1>2, TableFacts, LimitFacts
<1> QED BY <1>4, <1>5, <1>6, <1>7, <1>8

LEMMA TargetsTyped ==
  ASSUME NEW c, Whole(c), NEW l \in DOMAIN c.layers, NEW key \in Word
  PROVE  Targets(c, l, key) \subseteq [chord : BOOLEAN, keys : SUBSET (Code \cup {NoCode})]
<1> DEFINE T == [chord : BOOLEAN, keys : SUBSET (Code \cup {NoCode})]
           i == ChordOf(c.layers[l], ChordCodes(key))
<1>0. c \in ConfigType /\ c.layers[l] \in Layer
  BY WholeFacts, LayerAt
<1>1. CASE ~IsChord(key)
  <2>1. \A code \in KeyCodes(c, key) : KeyTarget(code) \in T
    BY KeyCodesFacts DEF KeyTarget
  <2>2. Targets(c, l, key) = {KeyTarget(code) : code \in KeyCodes(c, key)}
    BY <1>1 DEF Targets
  <2> QED BY <2>1, <2>2
<1>2. CASE IsChord(key) /\ i = 0
  <2>1. Targets(c, l, key) = {ChordTarget(ChordCodes(key))}
    BY <1>2 DEF Targets
  <2>2. ChordTarget(ChordCodes(key)) \in T
    BY KeyFacts DEF ChordTarget
  <2> QED BY <2>1, <2>2
<1>3. CASE IsChord(key) /\ i # 0
  <2>1. Targets(c, l, key) = {ChordTarget(c.layers[l].chords[i].keys)}
    BY <1>3 DEF Targets
  <2>2. i \in DOMAIN c.layers[l].chords
    BY <1>0, <1>3, ChordOfIs
  <2>3. c.layers[l].chords[i].keys \in Seq(Code)
    BY <1>0, <2>2, LayerAt
  <2>4. Members(c.layers[l].chords[i].keys) \subseteq Code
    BY <2>3 DEF Members
  <2>5. ChordTarget(c.layers[l].chords[i].keys) \in T
    BY <2>4 DEF ChordTarget
  <2> QED BY <2>1, <2>5
<1> QED BY <1>1, <1>2, <1>3

LEMMA BeginStep ==
  ASSUME ConfigInv, NEW w \in Word, NEW key \in Word, NEW e \in Exp, Begin(w, key, e),
         pc \in {"entries", "ready"}, ~broken,
         UNCHANGED <<config, loaded, file, output, lineno, sections, broken>>
  PROVE  ConfigInv' /\ Promise
<1> DEFINE l == LayerIndex(config, w)
<1>1. Whole(config) /\ config \in ConfigType /\ warnings \in Nat
  BY InvFacts
<1>2. Bindings' = Bindings /\ loaded' = loaded /\ Asking = None
  BY DEF Bindings, Asking
<1>3. CASE l = 0
  <2>1. Warned(1) /\ UNCHANGED <<pc, task, stack>>
    BY <1>3 DEF Begin
  <2>2. warnings' \in Nat
    BY <1>1, <2>1 DEF Warned
  <2>3. TypeOK' /\ Texts' /\ Phases'
    BY <2>1, <2>2 DEF ConfigInv, TypeOK, Texts, Phases
  <2>4. Asking' = Asking
    BY <2>1 DEF Asking
  <2>5. Promise
    BY <1>2, <2>4, StepStutters
  <2> QED BY <2>3, <2>5 DEF ConfigInv
<1>4. CASE l # 0
  <2>1. /\ task' = [layer |-> l, key |-> key, exp |-> e]
        /\ stack' = <<Frame(e)>> /\ pc' = "parsing" /\ UNCHANGED warnings
    BY <1>4 DEF Begin
  <2>2. l \in DOMAIN config.layers /\ l \in Nat
    BY <1>1, <1>4, LayerIndexFound
  <2>3. /\ task'.layer = l /\ task'.key = key /\ task'.exp = e
        /\ task' \in [layer : Nat, key : Word \cup {None}, exp : Exp]
    BY <2>1, <2>2
  <2> DEFINE f == Frame(e)
  <2>4. /\ f.exp = e /\ f.open = FALSE /\ f.left = 0 /\ f.d = Unbound /\ f \in FrameType
    BY SimpleDescriptors DEF Frame, FrameType
  <2> HIDE DEF f, l
  <2>5. stack' \in Seq(FrameType) /\ Len(stack') = 1 /\ stack'[1] = f /\ DOMAIN stack' = {1} /\ stack' # <<>>
    BY <2>1, <2>4 DEF f
  <2>6. Frames(config, stack', task')
    BY <2>3, <2>4, <2>5 DEF Frames
  <2>7. TypeOK'
    BY <2>1, <2>3, <2>5 DEF ConfigInv, TypeOK, FrameType, PhaseType
  <2>8. Texts'
    BY <2>1 DEF ConfigInv, Texts
  <2>9. Phases'
    BY <2>1, <2>2, <2>3, <2>6 DEF Phases
  <2>10. Asking' \in Promised!Request
    <3>1. Asking' = [layer |-> config.layers[l].name, targets |-> Targets(config, l, key), action |-> Says[e]]
      BY <2>1, <2>3 DEF Asking, Asked
    <3>2. config.layers[l].name \in Word
      BY <1>1, <2>2, LayerAt, LayerFields
    <3>3. Targets(config, l, key) \subseteq [chord : BOOLEAN, keys : SUBSET (Code \cup {NoCode})]
      BY <1>1, <2>2, TargetsTyped
    <3>4. Says[e] \in Actions
      BY Zenon DEF Actions
    <3> DEFINE a == Says[e]
               T == Targets(config, l, key)
               n == config.layers[l].name
    <3> HIDE DEF a, T, n
    <3> QED BY <3>1, <3>2, <3>3, <3>4 DEF Promised!Request, a, T, n
  <2>11. Promise
    BY <1>2, <2>10, StepAsks
  <2> QED BY <2>7, <2>8, <2>9, <2>11 DEF ConfigInv
<1> QED BY <1>3, <1>4

LEMMA AddEntryStep ==
  ASSUME ConfigInv, AddEntry
  PROVE  ConfigInv' /\ Promise
<1>1. /\ ~broken /\ pc = "entries" /\ Section.name \in Word
      /\ Ent.key \in Word /\ Ent.val \in Exp \cup {NoVal}
      /\ UNCHANGED <<config, loaded, file, output, lineno, sections, broken>>
  BY Entered DEF AddEntry, Passing
<1>2. CASE Ent.val = NoVal
  <2>1. Warned(1) /\ UNCHANGED <<pc, task, stack>>
    BY <1>2 DEF AddEntry
  <2>2. warnings' \in Nat
    BY <2>1, InvFacts DEF Warned
  <2>3. TypeOK' /\ Texts' /\ Phases'
    BY <1>1, <2>1, <2>2 DEF ConfigInv, TypeOK, Texts, Phases
  <2>4. Asking' = Asking /\ Bindings' = Bindings /\ loaded' = loaded
    BY <1>1, <2>1 DEF Asking, Bindings
  <2>5. Promise
    BY <2>4, StepStutters
  <2> QED BY <1>1, <2>3, <2>5 DEF ConfigInv
<1>3. CASE Ent.val # NoVal
  <2>1. Begin(Section.name, Ent.key, Ent.val)
    BY <1>3 DEF AddEntry
  <2> QED BY <1>1, <1>3, <2>1, BeginStep
<1> QED BY <1>2, <1>3

LEMMA EvalStep ==
  ASSUME ConfigInv, NEW b \in Bind, Eval(b)
  PROVE  ConfigInv' /\ Promise
<1>1. /\ pc = "ready" /\ Begin(b.layer, b.key, b.exp)
      /\ UNCHANGED <<config, loaded, file, output, lineno, sections, broken>>
  BY DEF Eval
<1>2. b.layer \in Word /\ b.key \in Word /\ b.exp \in Exp
  BY ConfigAssumption
<1>3. ~broken
  BY <1>1 DEF ConfigInv, Phases
<1> QED BY <1>1, <1>2, <1>3, BeginStep

LEMMA LoadedStep ==
  ASSUME ConfigInv, Loaded
  PROVE  ConfigInv' /\ Promise
<1>1. /\ ~broken /\ pc = "entries" /\ pc' = "ready" /\ loaded' = config
      /\ file' = <<>> /\ output' = <<>> /\ lineno' = 0 /\ sections' = <<>>
      /\ UNCHANGED <<config, task, stack, warnings, broken>>
  BY DEF Loaded
<1>2. config \in ConfigType /\ config # None /\ Whole(config) /\ loaded = None
  BY <1>1, InvFacts DEF ConfigInv, Phases
<1>3. Texts'
  <2>1. SomeIncludes(file', Len(file')) = 0
    <3>1. {q \in 1 .. Len(file') : Uncounted(file'[q])} = {}
      BY <1>1
    <3> QED BY <3>1, FS_EmptySet DEF SomeIncludes
  <2> QED BY <1>1, <2>1, EmptySequences DEF Texts
<1>4. TypeOK'
  BY <1>1, <1>2 DEF ConfigInv, TypeOK, PhaseType
<1>5. Phases'
  BY <1>1, <1>2 DEF Phases
<1>6. Asking' = None /\ Asking = None /\ Bindings' = Bindings
  BY <1>1 DEF Asking, Bindings
<1>7. Promise
  BY <1>1, <1>2, <1>6, StepLoads
<1> QED BY <1>1, <1>2, <1>3, <1>4, <1>5, <1>7 DEF ConfigInv

LEMMA ResetStep ==
  ASSUME ConfigInv, Reset
  PROVE  ConfigInv' /\ Promise
<1>1. /\ pc = "ready" /\ config' = loaded
      /\ UNCHANGED <<loaded, pc, file, output, lineno, sections, task, stack, warnings, broken>>
  BY DEF Reset
<1>2. loaded # None /\ Whole(loaded) /\ loaded \in ConfigType
  BY <1>1, InvFacts DEF ConfigInv, Phases
<1>3. TypeOK' /\ Texts' /\ Phases'
  BY <1>1, <1>2 DEF ConfigInv, TypeOK, Texts, Phases
<1>4. Asking' = None /\ Asking = None /\ Bindings' = BindingsIn(loaded) /\ loaded' = loaded
  BY <1>1 DEF Asking, Bindings
<1>5. Promise
  BY <1>2, <1>4, StepResets
<1> QED BY <1>1, <1>2, <1>3, <1>5 DEF ConfigInv

-----------------------------------------------------------------------------
(* Parsing an entry.                                                       *)

\* What a step of the parser does for the entry that it parses: it goes on, with tables that
\* may have grown; the entry is refused, with a warning; or it is set, to what it says.
GoesFurther == UNCHANGED <<pc, task>> /\ Grown(config, config')
IsRefused   == pc' = Resume /\ (Loading => warnings' > warnings)
IsSet       == /\ pc' = Resume
               /\ \E c, d : /\ Grown(config, c) /\ d \in Descriptor
                            /\ ValidDescriptor(c, d, Len(c.descriptors))
                            /\ Meaning(c, d) = Says[task.exp]
                            /\ Settable(c, task.layer, task.key)
                            /\ config' = SetEntry(c, task.layer, task.key, d)

Advances == /\ pc = "parsing" /\ UNCHANGED <<loaded, output, sections, at>> /\ warnings <= warnings'
            /\ GoesFurther \/ IsRefused \/ IsSet
Parsed   == Promise /\ Advances

LEMMA ParsingFacts ==
  ASSUME ConfigInv, pc = "parsing"
  PROVE  /\ task.layer \in DOMAIN config.layers /\ task.key \in Word /\ task.exp \in Exp
         /\ Frames(config, stack, task) /\ stack \in Seq(FrameType) /\ stack # <<>>
         /\ Len(stack) \in Nat \ {0} /\ DOMAIN stack = 1 .. Len(stack)
         /\ Top = stack[1] /\ Top \in FrameType /\ Top.exp \in Exp /\ Top.left \in Nat
         /\ Top.d \in Descriptor /\ IsExp(Top.exp)
<1>1. /\ task.layer \in DOMAIN config.layers /\ task.key \in Word
      /\ Frames(config, stack, task) /\ stack \in Seq(FrameType) /\ task.exp \in Exp
  BY InvFacts DEF ConfigInv, Phases
<1>2. stack # <<>>
  BY <1>1 DEF Frames
<1>3. /\ Len(stack) \in Nat \ {0} /\ DOMAIN stack = 1 .. Len(stack)
      /\ Top = stack[1] /\ Top \in FrameType
  BY <1>1, <1>2 DEF Top
<1>4. Top.exp \in Exp /\ Top.left \in Nat /\ Top.d \in Descriptor
  BY <1>3 DEF FrameType
<1>5. IsExp(Top.exp)
  BY <1>4, ConfigAssumption
<1> QED BY <1>1, <1>2, <1>3, <1>4, <1>5

LEMMA GrownReflexive ==
  ASSUME NEW c, Whole(c)
  PROVE  Grown(c, c)
BY WholeFacts, GrowsReflexive DEF Grown

\* Parsing goes on, with tables that may have grown.
LEMMA GoesOn ==
  ASSUME ConfigInv, pc = "parsing", ~broken, NEW c, Grown(config, c), config' = c,
         stack' \in Seq(FrameType), Frames(c, stack', task), warnings' \in Nat, warnings <= warnings',
         UNCHANGED <<pc, task, loaded, file, output, lineno, sections, at, broken>>
  PROVE  ConfigInv' /\ Parsed
<1>1. Whole(c) /\ c \in ConfigType /\ GrowsFrom(config, c) /\ c.layers = config.layers
  BY DEF Grown, Whole
<1>2. TypeOK'
  BY <1>1 DEF ConfigInv, TypeOK, FrameType
<1>3. Texts'
  BY DEF ConfigInv, Texts
<1>4. Phases'
  BY <1>1 DEF ConfigInv, Phases
<1>5. Bindings' = Bindings
  <2>1. BindingsIn(c) = BindingsIn(config)
    BY <1>1, InvFacts, GrownBinds
  <2> QED BY <2>1 DEF Bindings
<1>6. Asking' = Asking
  <2>1. /\ Targets(c, task.layer, task.key) = Targets(config, task.layer, task.key)
        /\ c.layers[task.layer].name = config.layers[task.layer].name
    BY GrownTargets
  <2> QED BY <2>1 DEF Asking, Asked
<1>7. Promise
  BY <1>5, <1>6, StepStutters
<1>8. Advances
  BY DEF Advances, GoesFurther
<1> QED BY <1>1, <1>2, <1>3, <1>4, <1>7, <1>8 DEF ConfigInv, Parsed

\* Parsing ends.
LEMMA Ends ==
  ASSUME ConfigInv, pc = "parsing", ~broken, NEW c, Whole(c), config' = c,
         warnings' \in Nat, pc' = Resume, task' = NoTask, stack' = <<>>,
         UNCHANGED <<loaded, file, output, lineno, sections, broken>>
  PROVE  ConfigInv' /\ Asking' = None /\ loaded' = loaded
<1>1. c \in ConfigType
  BY DEF Whole
<1>2. pc' = IF loaded = None THEN "entries" ELSE "ready"
  BY DEF Resume, Loading
<1>3. task' \in [layer : Nat, key : Word \cup {None}, exp : Exp]
  BY ExpFacts DEF NoTask
<1>4. TypeOK'
  BY <1>1, <1>2, <1>3, EmptySequences DEF ConfigInv, TypeOK, PhaseType
<1>5. Texts'
  BY <1>2 DEF ConfigInv, Texts
<1>6. Phases'
  BY <1>2 DEF ConfigInv, Phases
<1>7. Asking' = None
  BY <1>2 DEF Asking
<1> QED BY <1>4, <1>5, <1>6, <1>7 DEF ConfigInv

LEMMA AskingThen ==
  ASSUME ConfigInv, pc = "parsing", ~broken
  PROVE  /\ Asking = Asked(config, task.layer, Targets(config, task.layer, task.key), Says[task.exp])
         /\ Asking # None
<1>1. Asking = [layer |-> config.layers[task.layer].name,
                targets |-> Targets(config, task.layer, task.key), action |-> Says[task.exp]]
  BY DEF Asking, Asked
<1>2. Asking \in Promised!Request
  <2>1. Whole(config) /\ config \in ConfigType
    BY InvFacts
  <2>2. config.layers[task.layer].name \in Word
    BY <2>1, ParsingFacts, LayerAt, LayerFields
  <2>3. Targets(config, task.layer, task.key) \subseteq [chord : BOOLEAN, keys : SUBSET (Code \cup {NoCode})]
    BY <2>1, ParsingFacts, TargetsTyped
  <2>4. Says[task.exp] \in Actions
    BY ParsingFacts, Zenon DEF Actions
  <2> DEFINE a == Says[task.exp]
             T == Targets(config, task.layer, task.key)
             n == config.layers[task.layer].name
  <2> HIDE DEF a, T, n
  <2> QED BY <1>1, <2>2, <2>3, <2>4 DEF Promised!Request, a, T, n
<1> QED BY <1>1, <1>2, NoneAssumption DEF Asked

LEMMA RefuseStep ==
  ASSUME ConfigInv, pc = "parsing", ~broken, NEW c, Grown(config, c), NEW w \in Nat, Refuse(c, w), Elsewhere
  PROVE  ConfigInv' /\ Parsed
<1>1. /\ config' = c /\ Warned(w + 1) /\ pc' = Resume /\ task' = NoTask /\ stack' = <<>>
      /\ UNCHANGED <<loaded, file, output, lineno, sections, broken>>
  BY DEF Refuse, Elsewhere
<1>2. Whole(c) /\ GrowsFrom(config, c) /\ c.layers = config.layers
  BY DEF Grown
<1>3. /\ warnings' \in Nat /\ warnings <= warnings' /\ (Loading => warnings' > warnings)
  BY <1>1, InvFacts DEF Warned
<1>4. ConfigInv' /\ Asking' = None /\ loaded' = loaded
  BY <1>1, <1>2, <1>3, Ends
<1>5. Bindings' = Bindings
  <2>1. BindingsIn(c) = BindingsIn(config)
    BY <1>2, InvFacts, GrownBinds
  <2> QED BY <1>1, <2>1 DEF Bindings
<1>6. Advances
  BY <1>1, <1>3 DEF Advances, IsRefused, Elsewhere
<1> QED BY <1>4, <1>5, <1>6, AskingThen, StepRefuses DEF Parsed

\* A frame in place of the one at k, and of those above it.
LEMMA TopReplaced ==
  ASSUME NEW c, NEW s \in Seq(FrameType), NEW t, Frames(c, s, t), NEW k \in 1 .. Len(s),
         NEW g \in FrameType, Says[g.exp] = Says[s[k].exp],
         g.open => Opened(c, g), ~g.open => g.left = 0 /\ g.d = Unbound,
         NEW r \in Seq(FrameType), Len(r) = Len(s) - k + 1, r[1] = g,
         \A j \in 2 .. Len(r) : r[j] = s[k + j - 1]
  PROVE  Frames(c, r, t)
<1> DEFINE n == Len(s)
           m == Len(r)
<1>1. n \in Nat /\ m \in Nat /\ m = n - k + 1 /\ m >= 1 /\ DOMAIN s = 1 .. n /\ DOMAIN r = 1 .. m
  OBVIOUS
<1>2. r # <<>>
  BY <1>1
<1>0. k \in Nat /\ k \in 1 .. n
  BY <1>1
<1> HIDE DEF n, m
<1>3. /\ \A j \in 2 .. m : r[j] = s[k + j - 1]
      /\ \A j \in 2 .. n : Awaits(s[j], s[j - 1].exp)
      /\ Says[s[n].exp] = Says[t.exp]
  BY DEF n, m, Frames
<1>9. \A j \in 1 .. m : j = 1 \/ j \in 2 .. m
  BY <1>1
<1>4. \A j \in 2 .. m : k + j - 1 \in 2 .. n /\ k + j - 1 \in DOMAIN s
  BY <1>0, <1>1
<1>5. \A j \in DOMAIN r : r[j].open => Opened(c, r[j])
  BY <1>1, <1>3, <1>4, <1>9 DEF Frames
<1>6. \A j \in 2 .. m : Awaits(r[j], r[j - 1].exp)
  <2> SUFFICES ASSUME NEW j \in 2 .. m PROVE Awaits(r[j], r[j - 1].exp)
    OBVIOUS
  <2>1. Awaits(s[k + j - 1], s[(k + j - 1) - 1].exp)
    BY <1>3, <1>4
  <2>2. r[j] = s[k + j - 1]
    BY <1>3
  <2>0. (k + j - 1) - 1 = k + (j - 1) - 1 /\ j \in Nat
    BY <1>0, <1>1
  <2>3. CASE j = 2
    <3>1. (k + j - 1) - 1 = k /\ r[j - 1] = g
      BY <1>0, <2>3
    <3> QED BY <2>1, <2>2, <3>1 DEF Awaits
  <2>4. CASE j # 2
    <3>1. j - 1 \in 2 .. m
      BY <1>1, <2>4
    <3>2. r[j - 1] = s[k + (j - 1) - 1]
      BY <1>3, <3>1
    <3> QED BY <2>0, <2>1, <2>2, <3>2
  <2> QED BY <2>3, <2>4
<1>7. Says[r[m].exp] = Says[t.exp]
  <2>1. Says[s[n].exp] = Says[t.exp]
    BY <1>3
  <2>2. CASE m = 1
    <3>1. k = n
      BY <1>0, <1>1, <2>2
    <3> QED BY <2>1, <2>2, <3>1
  <2>3. CASE m # 1
    <3>1. m \in 2 .. m /\ k + m - 1 = n
      BY <1>0, <1>1, <2>3
    <3>2. r[m] = s[n]
      BY <1>3, <3>1
    <3> QED BY <2>1, <3>2
  <2> QED BY <2>2, <2>3
<1>8. ~r[1].open => r[1].left = 0 /\ r[1].d = Unbound
  OBVIOUS
<1> QED BY <1>2, <1>5, <1>6, <1>7, <1>8 DEF Frames, m

LEMMA NewTop ==
  ASSUME NEW s \in Seq(FrameType), s # <<>>, NEW g \in FrameType
  PROVE  /\ <<g>> \o Tail(s) \in Seq(FrameType)
         /\ Len(<<g>> \o Tail(s)) = Len(s) - 1 + 1
         /\ (<<g>> \o Tail(s))[1] = g
         /\ \A j \in 2 .. Len(<<g>> \o Tail(s)) : (<<g>> \o Tail(s))[j] = s[1 + j - 1]
<1> DEFINE u == Tail(s)
           n == Len(s)
<1>1. n \in Nat \ {0} /\ u \in Seq(FrameType) /\ Len(u) = n - 1 /\ \A j \in 1 .. Len(u) : u[j] = s[j + 1]
  OBVIOUS
<1> HIDE DEF u, n
<1> DEFINE r == <<g>> \o u
<1>2. r \in Seq(FrameType) /\ Len(r) = n /\ r[1] = g /\ \A j \in 2 .. n : r[j] = u[j - 1]
  BY <1>1
<1> HIDE DEF r
<1>3. \A j \in 2 .. n : r[j] = s[1 + j - 1]
  <2> SUFFICES ASSUME NEW j \in 2 .. n PROVE r[j] = s[1 + j - 1]
    OBVIOUS
  <2>1. j - 1 \in 1 .. Len(u) /\ (j - 1) + 1 = 1 + j - 1
    BY <1>1
  <2> QED BY <1>1, <1>2, <2>1
<1> QED BY <1>1, <1>2, <1>3 DEF r, u, n

LEMMA NewSecond ==
  ASSUME NEW s \in Seq(FrameType), Len(s) >= 2, NEW g \in FrameType
  PROVE  /\ <<g>> \o Tail(Tail(s)) \in Seq(FrameType)
         /\ Len(<<g>> \o Tail(Tail(s))) = Len(s) - 2 + 1
         /\ (<<g>> \o Tail(Tail(s)))[1] = g
         /\ \A j \in 2 .. Len(<<g>> \o Tail(Tail(s))) : (<<g>> \o Tail(Tail(s)))[j] = s[2 + j - 1]
<1> DEFINE v == Tail(s)
           n == Len(s)
<1>2. n \in Nat /\ n >= 2 /\ s # <<>>
  OBVIOUS
<1>3. v \in Seq(FrameType) /\ Len(v) = n - 1
  BY <1>2
<1>0. Len(v) = n - 1 /\ \A j \in 1 .. Len(v) : v[j] = s[j + 1]
  OBVIOUS
<1> HIDE DEF v, n
<1>1. n \in Nat /\ n >= 2 /\ v \in Seq(FrameType) /\ v # <<>>
  BY <1>2, <1>3
<1>4. /\ <<g>> \o Tail(v) \in Seq(FrameType) /\ Len(<<g>> \o Tail(v)) = Len(v) - 1 + 1
      /\ (<<g>> \o Tail(v))[1] = g
      /\ \A j \in 2 .. Len(<<g>> \o Tail(v)) : (<<g>> \o Tail(v))[j] = v[1 + j - 1]
  BY <1>1, NewTop
<1> DEFINE r == <<g>> \o Tail(v)
<1> HIDE DEF r
<1>5. r \in Seq(FrameType) /\ Len(r) = n - 1 /\ r[1] = g /\ \A j \in 2 .. Len(r) : r[j] = v[1 + j - 1]
  BY <1>0, <1>1, <1>4 DEF r
<1>6. \A j \in 2 .. Len(r) : r[j] = s[2 + j - 1]
  <2> SUFFICES ASSUME NEW j \in 2 .. Len(r) PROVE r[j] = s[2 + j - 1]
    OBVIOUS
  <2>1. j \in 1 .. Len(v) /\ 1 + j - 1 = j /\ j + 1 = 2 + j - 1
    BY <1>0, <1>1, <1>5
  <2> QED BY <1>0, <1>5, <2>1
<1> QED BY <1>1, <1>5, <1>6 DEF r, v, n

\* The frame f, an argument further.
WithArg(f, n) == [f EXCEPT !.left = @ - 1, !.d.args = <<n>> \o @]

LEMMA ArgDone ==
  ASSUME NEW c, NEW f \in FrameType, f.open, f.left > 0, Opened(c, f),
         NEW n \in Nat, ParsedArg(c, f.exp, f.left, n)
  PROVE  /\ WithArg(f, n) \in FrameType /\ Opened(c, WithArg(f, n))
         /\ WithArg(f, n).exp = f.exp /\ WithArg(f, n).open
<1> DEFINE d == f.d
           a == d.args
           left == f.left
           b == <<n>> \o a
           d2 == [d EXCEPT !.args = b]
           g == [f EXCEPT !.left = left - 1, !.d = d2]
<1>1. WithArg(f, n) = g
  BY DEF FrameType, WithArg
<1>2. /\ d \in Descriptor /\ f.exp \in Exp /\ left \in Nat /\ left - 1 \in Nat
  BY DEF FrameType
<1>3. a \in Seq(Nat) /\ d.op \in Ops \cup {"none", "keysequence", "macro", "command"}
      /\ d.code \in Code \cup {NoCode}
  BY <1>2, DescriptorFields
<1>4. /\ f.exp.kind = "call" /\ Known(f.exp.fn) /\ Len(f.exp.args) = Len(Types(f.exp.fn))
      /\ left <= Len(f.exp.args) /\ d.op = OpOf(f.exp.fn)
      /\ Len(a) = Len(f.exp.args) - left
      /\ \A j \in DOMAIN a : ParsedArg(c, f.exp, left + j, a[j])
  BY DEF Opened
<1>5. d2 \in Descriptor /\ d2.op = d.op /\ d2.args = b
  <2>1. b \in Seq(Nat)
    BY <1>3
  <2> HIDE DEF b
  <2> QED BY <1>2, <2>1 DEF Descriptor
<1> HIDE DEF d, a, left
<1>6. /\ Len(b) = Len(a) + 1 /\ DOMAIN b = 1 .. Len(a) + 1 /\ b[1] = n
      /\ \A j \in 2 .. Len(a) + 1 : b[j] = a[j - 1]
      /\ Len(a) \in Nat /\ DOMAIN a = 1 .. Len(a)
  BY <1>3
<1> HIDE DEF b, d2
<1>7. /\ g \in FrameType /\ g.exp = f.exp /\ g.open /\ g.left = left - 1 /\ g.d = d2
  BY <1>2, <1>5 DEF FrameType
<1>8. \A j \in DOMAIN b : ParsedArg(c, f.exp, (left - 1) + j, b[j])
  <2> SUFFICES ASSUME NEW j \in 1 .. Len(a) + 1 PROVE ParsedArg(c, f.exp, (left - 1) + j, b[j])
    BY <1>6
  <2>1. CASE j = 1
    <3>1. (left - 1) + j = left /\ b[j] = n
      BY <1>2, <1>6, <2>1
    <3> QED BY <3>1 DEF left
  <2>2. CASE j # 1
    <3>1. j - 1 \in DOMAIN a /\ j \in 2 .. Len(a) + 1 /\ (left - 1) + j = left + (j - 1)
      BY <1>2, <1>6, <2>2
    <3> QED BY <1>4, <1>6, <3>1
  <2> QED BY <2>1, <2>2
<1>9. Opened(c, g)
  <2>1. Len(b) = Len(f.exp.args) - (left - 1) /\ left - 1 <= Len(f.exp.args)
    <3>1. Len(f.exp.args) \in Nat
      BY <1>2, <1>4, CallArgs
    <3> QED BY <1>2, <1>4, <1>6, <3>1
  <2> HIDE DEF g
  <2> QED BY <1>4, <1>5, <1>7, <1>8, <2>1 DEF Opened
<1> QED BY <1>1, <1>7, <1>9

LEMMA Alone ==
  ASSUME NEW S, NEW s \in Seq(S), s # <<>>, Tail(s) = <<>>
  PROVE  Len(s) = 1
<1> DEFINE u == Tail(s)
<1>1. Len(s) \in Nat /\ Len(s) # 0 /\ Len(u) = Len(s) - 1
  OBVIOUS
<1>2. Len(u) = 0
  <2>1. u = <<>>
    OBVIOUS
  <2> HIDE DEF u
  <2> QED BY <2>1
<1> HIDE DEF u
<1> QED BY <1>1, <1>2

LEMMA GrownOn ==
  ASSUME NEW c1, Whole(c1), NEW c2, Grown(c1, c2), NEW c3, Grown(c2, c3)
  PROVE  Grown(c1, c3)
<1>1. Whole(c2) /\ Whole(c3)
  BY DEF Grown
<1>2. /\ c1.layers = c3.layers /\ c1.aliases = c3.aliases
      /\ c2.layers = c1.layers /\ c3.layers = c2.layers
  BY DEF Grown
<1>3. GrowsFrom(c1, c3)
  <2>1. /\ Len(c1.descriptors) \in Nat /\ DOMAIN c1.descriptors = 1 .. Len(c1.descriptors)
        /\ Len(c2.descriptors) \in Nat /\ DOMAIN c2.descriptors = 1 .. Len(c2.descriptors)
        /\ Len(c1.macros) \in Nat /\ DOMAIN c1.macros = 1 .. Len(c1.macros)
        /\ Len(c2.macros) \in Nat /\ DOMAIN c2.macros = 1 .. Len(c2.macros)
        /\ Len(c1.commands) \in Nat /\ DOMAIN c1.commands = 1 .. Len(c1.commands)
        /\ Len(c2.commands) \in Nat /\ DOMAIN c2.commands = 1 .. Len(c2.commands)
    BY <1>1, WholeFacts
  <2>2. Len(c3.descriptors) \in Nat /\ Len(c3.macros) \in Nat /\ Len(c3.commands) \in Nat
        /\ Len(c3.layers) \in Nat
    BY <1>1, WholeFacts
  <2>3. GrowsFrom(c1, c2) /\ GrowsFrom(c2, c3)
    BY DEF Grown
  <2>4. /\ Len(c1.descriptors) <= Len(c3.descriptors)
        /\ \A i \in DOMAIN c1.descriptors : c3.descriptors[i] = c1.descriptors[i]
    BY <2>1, <2>2, <2>3 DEF GrowsFrom
  <2>5. /\ Len(c1.macros) <= Len(c3.macros)
        /\ \A i \in DOMAIN c1.macros : c3.macros[i] = c1.macros[i]
    BY <2>1, <2>2, <2>3 DEF GrowsFrom
  <2>6. /\ Len(c1.commands) <= Len(c3.commands)
        /\ \A i \in DOMAIN c1.commands : c3.commands[i] = c1.commands[i]
    BY <2>1, <2>2, <2>3 DEF GrowsFrom
  <2>7. Len(c1.layers) <= Len(c3.layers)
    BY <1>2, <2>2
  <2> QED BY <1>2, <2>4, <2>5, <2>6, <2>7 DEF GrowsFrom
<1> QED BY <1>1, <1>2, <1>3 DEF Grown

\* What the innermost frame yields is the meaning of its expression.
LEMMA YieldStep ==
  ASSUME ConfigInv, pc = "parsing", ~broken, NEW c, Grown(config, c), NEW d \in Descriptor,
         ValidDescriptor(c, d, Len(c.descriptors)), Meaning(c, d) = Says[Top.exp],
         NEW w \in Nat, Yield(c, d, w), Elsewhere
  PROVE  ConfigInv' /\ Parsed
<1>1. /\ task.layer \in DOMAIN config.layers /\ task.key \in Word
      /\ Frames(config, stack, task) /\ stack \in Seq(FrameType)
      /\ Len(stack) \in Nat \ {0} /\ DOMAIN stack = 1 .. Len(stack) /\ stack # <<>>
      /\ Top = stack[1]
  BY ParsingFacts
<1>2. Whole(config) /\ Whole(c) /\ GrowsFrom(config, c) /\ c.layers = config.layers
  BY InvFacts DEF Grown
<1>3. UNCHANGED <<loaded, file, output, lineno, sections, at, broken>>
  BY DEF Elsewhere
<1>4. warnings \in Nat
  BY InvFacts
<1>5. CASE Tail(stack) = <<>> /\ Settable(c, task.layer, task.key)
  <2> DEFINE l == task.layer
             key == task.key
             c2 == SetEntry(c, l, key, d)
  <2>1. /\ config' = c2 /\ Warned(w) /\ pc' = Resume /\ task' = NoTask /\ stack' = <<>>
    BY <1>5 DEF Yield
  <2>2. Len(stack) = 1
    <3>1. Tail(stack) = <<>>
      BY <1>5
    <3> QED BY <1>1, <3>1, Alone
  <2>3. Says[Top.exp] = Says[task.exp]
    BY <1>1, <2>2 DEF Frames
  <2>4. l \in DOMAIN c.layers /\ key \in Word
    BY <1>1, <1>2
  <2>5. /\ Whole(c2)
        /\ BindingsIn(c2) = Promised!Granted(BindingsIn(c), Asked(c, l, Targets(c, l, key), Meaning(c, d)))
    BY <1>2, <1>5, <2>4, SetEntryGrants
  <2>6. BindingsIn(c) = BindingsIn(config)
    BY <1>2, GrownBinds
  <2>7. Asked(c, l, Targets(c, l, key), Meaning(c, d)) = Asking
    <3>1. Targets(c, l, key) = Targets(config, l, key) /\ c.layers[l].name = config.layers[l].name
      BY GrownTargets
    <3>2. Asking = Asked(config, l, Targets(config, l, key), Says[task.exp])
      BY AskingThen
    <3> QED BY <2>3, <3>1, <3>2 DEF Asked
  <2>8. Bindings' = Promised!Granted(Bindings, Asking)
    BY <2>1, <2>5, <2>6, <2>7 DEF Bindings
  <2>9. warnings' \in Nat /\ warnings <= warnings'
    BY <1>4, <2>1 DEF Warned
  <2>10. Advances
    <3>1. IsSet
      BY <1>5, <2>1, <2>3 DEF IsSet
    <3> QED BY <1>3, <2>9, <3>1 DEF Advances
  <2> HIDE DEF c2
  <2>11. ConfigInv' /\ Asking' = None /\ loaded' = loaded
    BY <1>3, <2>1, <2>5, <2>9, Ends
  <2> QED BY <2>8, <2>10, <2>11, AskingThen, StepGrants DEF Parsed
<1>6. CASE Tail(stack) = <<>> /\ ~Settable(c, task.layer, task.key)
  <2>1. Refuse(c, w)
    BY <1>6 DEF Yield
  <2> QED BY <2>1, RefuseStep
<1>7. CASE Tail(stack) # <<>>
  <2> DEFINE f == stack[2]
             type == Types(f.exp.fn)[f.left]
             full == \/ Len(c.descriptors) >= MaxDescriptors
                     \/ type = "keysequence" /\ d.op # "keysequence"
  <2>1. Len(stack) >= 2
    BY <1>1, <1>7
  <2>2. CASE full
    <3>1. Refuse(c, w)
      BY <1>7, <2>2 DEF Yield
    <3> QED BY <3>1, RefuseStep
  <2>3. CASE ~full
    <3> DEFINE c2 == [c EXCEPT !.descriptors = Append(@, d)]
               n == Len(c.descriptors) + 1
               g == [f EXCEPT !.left = @ - 1, !.d.args = <<n>> \o @]
               r == <<g>> \o Tail(Tail(stack))
    <3>1. config' = c2 /\ stack' = r /\ Warned(w) /\ UNCHANGED <<pc, task>>
      BY <1>7, <2>3 DEF Yield
    <3>2. Len(c.descriptors) \in Nat /\ MaxDescriptors \in Nat /\ n \in Nat
      BY <1>2, WholeFacts, LimitFacts
    <3>3. Len(c.descriptors) < MaxDescriptors /\ (type = "keysequence" => d.op = "keysequence")
      BY <2>3, <3>2
    <3>4. Grown(c, c2) /\ Len(c2.descriptors) = n /\ c2.descriptors[n] = d
      BY <1>2, <3>3, DescriptorAdded
    <3> HIDE DEF c2
    <3>5. Whole(c2) /\ GrowsFrom(c, c2) /\ Grown(config, c2)
      BY <1>2, <3>4, GrownOn DEF Grown
    <3>6. Frames(c2, stack, task)
      BY <1>1, <1>2, <3>5, FramesGrow
    <3>7. f \in FrameType /\ Awaits(f, Top.exp) /\ Opened(c2, f)
      <4>1. 2 \in DOMAIN stack /\ 2 \in 2 .. Len(stack) /\ 2 - 1 = 1
        BY <1>1, <2>1
      <4>2. f \in FrameType
        BY <1>1, <4>1
      <4>3. Awaits(stack[2], stack[2 - 1].exp)
        BY <3>6, <4>1 DEF Frames
      <4>4. Awaits(f, Top.exp)
        BY <1>1, <4>1, <4>3
      <4>5. f.open => Opened(c2, f)
        BY <3>6, <4>1 DEF Frames
      <4> QED BY <4>2, <4>4, <4>5 DEF Awaits
    <3>8. /\ f.open /\ f.left > 0 /\ type \in {"descriptor", "keysequence"}
          /\ Says[Top.exp] = Says[f.exp.args[f.left]]
      BY <3>7 DEF Awaits
    <3>9. Meaning(c2, d) = Meaning(c, d)
      <4>1. c \in ConfigType /\ TablesValid(c) /\ c2 \in ConfigType /\ TablesValid(c2)
        BY <1>2, <3>5, WholeFacts
      <4> QED BY <3>5, <4>1, MeaningStable
    <3>10. ParsedArg(c2, f.exp, f.left, n)
      <4>1. n \in 1 .. Len(c2.descriptors)
        BY <3>2, <3>4
      <4>2. ValidArg(c2, type, n, Len(c2.descriptors))
        BY <3>3, <3>4, <3>8, <4>1 DEF ValidArg
      <4>3. Meaning(c2, c2.descriptors[n]) = Says[f.exp.args[f.left]]
        BY <3>4, <3>8, <3>9
      <4> HIDE DEF n
      <4> QED BY <3>8, <4>2, <4>3 DEF ParsedArg
    <3> HIDE DEF n
    <3>11. g \in FrameType /\ Opened(c2, g) /\ g.exp = f.exp /\ g.open
      <4> HIDE DEF f, r, type, full
      <4>1. f \in FrameType /\ f.open /\ f.left > 0 /\ Opened(c2, f) /\ n \in Nat
        BY <3>2, <3>7, <3>8 DEF n
      <4>2. ParsedArg(c2, f.exp, f.left, n)
        BY <3>10
      <4>3. g = WithArg(f, n)
        BY DEF WithArg
      <4> HIDE DEF g
      <4>4. /\ WithArg(f, n) \in FrameType /\ Opened(c2, WithArg(f, n))
            /\ WithArg(f, n).exp = f.exp /\ WithArg(f, n).open
        BY <4>1, <4>2, ArgDone
      <4> QED BY <4>3, <4>4
    <3> HIDE DEF g
    <3>12. /\ r \in Seq(FrameType) /\ Len(r) = Len(stack) - 2 + 1 /\ r[1] = g
           /\ \A j \in 2 .. Len(r) : r[j] = stack[2 + j - 1]
      BY <1>1, <2>1, <3>11, NewSecond
    <3> HIDE DEF r
    <3>13. Frames(c2, r, task)
      <4>1. 2 \in 1 .. Len(stack) /\ Says[g.exp] = Says[stack[2].exp]
        BY <1>1, <2>1, <3>11
      <4> QED BY <1>1, <3>6, <3>11, <3>12, <4>1, TopReplaced
    <3>14. warnings' \in Nat /\ warnings <= warnings'
      BY <1>4, <3>1 DEF Warned
    <3> QED BY <1>3, <3>1, <3>5, <3>12, <3>13, <3>14, GoesOn
  <2> QED BY <2>2, <2>3
<1> QED BY <1>5, <1>6, <1>7

LEMMA ParsingExp ==
  ASSUME ConfigInv, pc = "parsing", ~Top.open
  PROVE  /\ Top.left = 0 /\ Top.d = Unbound
         /\ Says[Top.exp] = Saying(Top.exp, Says)
         /\ Whole(config) /\ Grown(config, config)
         /\ config \in ConfigType /\ Len(config.descriptors) \in Nat
<1>1. Top = stack[1] /\ Frames(config, stack, task) /\ Top.exp \in Exp
  BY ParsingFacts
<1>2. Top.left = 0 /\ Top.d = Unbound
  BY <1>1 DEF Frames
<1>3. Says[Top.exp] = Saying(Top.exp, Says)
  BY <1>1, SaysIs
<1>4. Whole(config)
  BY InvFacts
<1> QED BY <1>2, <1>3, <1>4, GrownReflexive, WholeFacts

LEMMA SayingFacts ==
  ASSUME NEW e, NEW f
  PROVE  /\ e.kind = "empty"   => Saying(e, f) = Nothing
         /\ e.kind = "macro"   => Saying(e, f) = Typing(e)
         /\ e.kind = "command" => Saying(e, f) = [kind |-> "runs", what |-> e]
         /\ e.kind = "word"    =>
              Saying(e, f) = IF SequenceOf[e.word] = NoCode THEN Typing(e)
                             ELSE IF SequenceOf[e.word] \in DOMAIN ModifierLayer
                             THEN Does("layer", <<Named(ModifierLayer[SequenceOf[e.word]])>>)
                             ELSE [kind |-> "key", code |-> SequenceOf[e.word]]
         /\ IsLettermod(e) /\ Len(e.args) = 4 => Saying(e, f) = f[Lettermod(e.args)]
<1>1. e.kind = "empty" => Saying(e, f) = Nothing
  BY DEF Saying, IsLettermod
<1>2. e.kind = "macro" => Saying(e, f) = Typing(e)
  BY DEF Saying, IsLettermod
<1>3. e.kind = "command" => Saying(e, f) = [kind |-> "runs", what |-> e]
  BY DEF Saying, IsLettermod
<1> DEFINE k == SequenceOf[e.word]
           m == Does("layer", <<Named(ModifierLayer[k])>>)
<1>4. e.kind = "word" => Saying(e, f) = IF k = NoCode THEN Typing(e)
                                        ELSE IF k \in DOMAIN ModifierLayer THEN m
                                        ELSE [kind |-> "key", code |-> k]
  BY DEF Saying, IsLettermod
<1>5. IsLettermod(e) /\ Len(e.args) = 4 => Saying(e, f) = f[Lettermod(e.args)]
  <2>1. e.kind = "call" /\ e.fn = "lettermod" => ~Known(e.fn)
    BY TypesFacts
  <2> QED BY <2>1 DEF Saying, IsLettermod
<1> QED BY <1>1, <1>2, <1>3, <1>4, <1>5

LEMMA ParseNothingStep ==
  ASSUME ConfigInv, NEW e, ParseNothing(e)
  PROVE  ConfigInv' /\ Parsed
<1>1. /\ ~broken /\ pc = "parsing" /\ ~Top.open /\ e = Top.exp /\ e.kind = "empty"
      /\ Yield(config, Unbound, 0) /\ Elsewhere
  BY DEF ParseNothing, Parsing
<1>2. Says[Top.exp] = Nothing
  BY <1>1, ParsingExp, SayingFacts
<1>3. /\ Unbound \in Descriptor /\ ValidDescriptor(config, Unbound, Len(config.descriptors))
      /\ Meaning(config, Unbound) = Nothing
  BY SimpleDescriptors, MeansNothing
<1>4. Grown(config, config) /\ 0 \in Nat
  BY <1>1, ParsingExp
<1> QED BY <1>1, <1>2, <1>3, <1>4, YieldStep

\* The layers of the modifiers are where the default config has them.
LEMMA ModifierLayers ==
  ASSUME NEW c, Whole(c), NEW code \in DOMAIN ModifierLayer
  PROVE  LET i == LayerIndex(c, ModifierLayer[code])
         IN  /\ i \in 2 .. Len(c.layers) /\ c.layers[i].type # "layout"
             /\ c.layers[i].name = ModifierLayer[code]
<1> DEFINE w == ModifierLayer[code]
           i == LayerIndex(c, w)
<1>1. \E n \in 2 .. 6 : DefaultLayers[n] = w
  <2>1. w \in {"shift", "control", "meta", "alt", "altgr"}
    BY DEF ModifierLayer
  <2>2. /\ DefaultLayers[2] = "control" /\ DefaultLayers[3] = "shift" /\ DefaultLayers[4] = "meta"
        /\ DefaultLayers[5] = "alt" /\ DefaultLayers[6] = "altgr"
    BY DEF DefaultLayers
  <2> HIDE DEF w
  <2> QED BY <2>1, <2>2
<1> HIDE DEF w
<1>2. PICK n \in 2 .. 6 : DefaultLayers[n] = w
  BY <1>1
<1>3. /\ c \in ConfigType /\ Len(c.layers) \in Nat /\ DOMAIN c.layers = 1 .. Len(c.layers)
      /\ Distinct(c) /\ FixedLayers(c)
  BY WholeFacts DEF Whole
<1>4. n \in DOMAIN c.layers /\ c.layers[n].name = w /\ c.layers[n].type = "normal"
  BY <1>2, <1>3 DEF FixedLayers
<1>5. i \in DOMAIN c.layers /\ c.layers[i].name = w
  BY <1>4, LayerIndexIs
<1>6. i = n
  BY <1>3, <1>4, <1>5 DEF Distinct
<1> HIDE DEF i
<1> QED BY <1>2, <1>3, <1>4, <1>6 DEF i, w

LEMMA ParseKeyStep ==
  ASSUME ConfigInv, NEW e, ParseKey(e)
  PROVE  ConfigInv' /\ Parsed
<1> DEFINE code == SequenceOf[e.word]
<1>1. /\ ~broken /\ pc = "parsing" /\ ~Top.open /\ e = Top.exp
      /\ e.kind = "word" /\ code # NoCode /\ Elsewhere
  BY DEF ParseKey, Parsing
<1>2. code \in Code
  <2>1. e.word \in Word
    BY <1>1, ParsingFacts DEF IsExp
  <2> QED BY <1>1, <2>1, ConfigAssumption
<1>3. Says[Top.exp] = IF code \in DOMAIN ModifierLayer
                      THEN Does("layer", <<Named(ModifierLayer[code])>>)
                      ELSE [kind |-> "key", code |-> code]
  BY <1>1, ParsingExp, SayingFacts
<1>4. /\ Grown(config, config) /\ 0 \in Nat /\ 1 \in Nat /\ Whole(config)
      /\ config \in ConfigType /\ Len(config.descriptors) \in Nat
  BY <1>1, ParsingExp
<1>5. CASE code \in DOMAIN ModifierLayer
  <2> DEFINE i == LayerIndex(config, ModifierLayer[code])
             d == LayerTo(i)
  <2>1. Yield(config, d, 1)
    BY <1>5 DEF ParseKey
  <2>2. /\ i \in 2 .. Len(config.layers) /\ config.layers[i].type # "layout"
        /\ config.layers[i].name = ModifierLayer[code]
    BY <1>4, <1>5, ModifierLayers
  <2> HIDE DEF i, code
  <2>3. /\ d \in Descriptor /\ ValidDescriptor(config, d, Len(config.descriptors))
        /\ Meaning(config, d) = Does("layer", <<Named(config.layers[i].name)>>)
    BY <1>4, <2>2, LayerToFacts
  <2>4. Meaning(config, d) = Says[Top.exp]
    BY <1>3, <1>5, <2>2, <2>3
  <2> HIDE DEF d
  <2> QED BY <1>1, <1>4, <2>1, <2>3, <2>4, YieldStep
<1>6. CASE code \notin DOMAIN ModifierLayer
  <2> DEFINE d == KeyTo(code)
  <2>1. Yield(config, d, 0)
    BY <1>6 DEF ParseKey
  <2> HIDE DEF code
  <2>2. /\ d \in Descriptor /\ ValidDescriptor(config, d, Len(config.descriptors))
        /\ Meaning(config, d) = Says[Top.exp]
    BY <1>2, <1>3, <1>6, SimpleDescriptors
  <2> HIDE DEF d
  <2> QED BY <1>1, <1>4, <2>1, <2>2, YieldStep
<1> QED BY <1>5, <1>6

LEMMA IndexedFacts ==
  ASSUME NEW n \in Nat, NEW op \in {"macro", "command"}
  PROVE  /\ Indexed(op, n) \in Descriptor /\ Indexed(op, n).op = op
         /\ Indexed(op, n).args[1] = n
<1>1. <<n>> \in Seq(Nat) /\ <<n>>[1] = n
  OBVIOUS
<1> QED BY <1>1 DEF Indexed, Descriptor

LEMMA ParseCommandStep ==
  ASSUME ConfigInv, NEW e, ParseCommand(e)
  PROVE  ConfigInv' /\ Parsed
<1> DEFINE n == Len(config.commands) + 1
           c == [config EXCEPT !.commands = Append(@, e)]
           d == Indexed("command", n)
<1>1. /\ ~broken /\ pc = "parsing" /\ ~Top.open /\ e = Top.exp
      /\ e.kind = "command" /\ Elsewhere
  BY DEF ParseCommand, Parsing
<1>2. /\ Grown(config, config) /\ 0 \in Nat /\ Whole(config) /\ Len(config.commands) \in Nat
      /\ Says[Top.exp] = [kind |-> "runs", what |-> e] /\ e \in Exp
  BY <1>1, ParsingExp, ParsingFacts, WholeFacts, SayingFacts
<1>3. CASE Len(config.commands) >= MaxCommands
  <2>1. Refuse(config, 0)
    BY <1>3 DEF ParseCommand
  <2> QED BY <1>1, <1>2, <2>1, RefuseStep
<1>4. CASE ~(Len(config.commands) >= MaxCommands)
  <2>1. Yield(c, d, 0)
    BY <1>4 DEF ParseCommand
  <2>2. Len(config.commands) < MaxCommands
    BY <1>2, <1>4, LimitFacts
  <2>3. Grown(config, c) /\ n \in DOMAIN c.commands /\ c.commands[n] = e
    BY <1>2, <2>2, CommandAdded
  <2> HIDE DEF c
  <2>4. d \in Descriptor /\ d.op = "command" /\ d.args[1] = n
    BY <1>2, IndexedFacts
  <2> HIDE DEF d, n
  <2>5. ValidDescriptor(c, d, Len(c.descriptors))
    BY <2>3, <2>4 DEF ValidDescriptor
  <2>6. Meaning(c, d) = [kind |-> "runs", what |-> e]
    BY <2>3, <2>4 DEF Meaning, ReadBack
  <2> QED BY <1>1, <1>2, <2>1, <2>3, <2>4, <2>5, <2>6, YieldStep
<1> QED BY <1>3, <1>4

LEMMA ParseMacroStep ==
  ASSUME ConfigInv, NEW e, ParseMacro(e)
  PROVE  ConfigInv' /\ Parsed
<1> DEFINE n == Len(config.macros) + 1
           c == [config EXCEPT !.macros = Append(@, e)]
           d == Indexed("macro", n)
<1>1. /\ ~broken /\ pc = "parsing" /\ ~Top.open /\ e = Top.exp /\ Elsewhere
      /\ IsMacro(e) /\ ~(e.kind = "word" /\ SequenceOf[e.word] # NoCode)
  BY DEF ParseMacro, Parsing
<1>2. /\ Grown(config, config) /\ 0 \in Nat /\ Whole(config) /\ Len(config.macros) \in Nat
      /\ Says[Top.exp] = Saying(e, Says) /\ e \in Exp
  BY <1>1, ParsingExp, ParsingFacts, WholeFacts
<1>3. Says[Top.exp] = Typing(e)
  BY <1>1, <1>2, SayingFacts DEF IsMacro
<1>4. CASE ~MacroFits(e) \/ Len(config.macros) >= MaxMacros
  <2>1. Refuse(config, 0)
    BY <1>4 DEF ParseMacro
  <2> QED BY <1>1, <1>2, <2>1, RefuseStep
<1>5. CASE ~(~MacroFits(e) \/ Len(config.macros) >= MaxMacros)
  <2>1. Yield(c, d, 0)
    BY <1>5 DEF ParseMacro
  <2>2. Len(config.macros) < MaxMacros
    BY <1>2, <1>5, LimitFacts
  <2>3. Grown(config, c) /\ n \in DOMAIN c.macros /\ c.macros[n] = e
    BY <1>2, <2>2, MacroAdded
  <2> HIDE DEF c
  <2>4. d \in Descriptor /\ d.op = "macro" /\ d.args[1] = n
    BY <1>2, IndexedFacts
  <2> HIDE DEF d, n
  <2>5. ValidDescriptor(c, d, Len(c.descriptors))
    BY <2>3, <2>4 DEF ValidDescriptor
  <2>6. Meaning(c, d) = Typing(e)
    BY <2>3, <2>4 DEF Meaning, ReadBack
  <2> QED BY <1>1, <1>2, <1>3, <2>1, <2>3, <2>4, <2>5, <2>6, YieldStep
<1> QED BY <1>4, <1>5

LEMMA ParseUnknownStep ==
  ASSUME ConfigInv, NEW e, ParseUnknown(e)
  PROVE  ConfigInv' /\ Parsed
<1>1. /\ ~broken /\ pc = "parsing" /\ ~Top.open /\ Refuse(config, 0) /\ Elsewhere
  BY DEF ParseUnknown, Parsing
<1>2. Grown(config, config) /\ 0 \in Nat
  BY <1>1, ParsingExp
<1> QED BY <1>1, <1>2, RefuseStep

LEMMA ParseTooManyStep ==
  ASSUME ConfigInv, NEW e, ParseTooMany(e)
  PROVE  ConfigInv' /\ Parsed
<1>1. /\ ~broken /\ pc = "parsing" /\ ~Top.open /\ Crash
  BY DEF ParseTooMany
<1>2. Top = stack[1] /\ Grown(config, config) /\ warnings \in Nat
  BY <1>1, ParsingFacts, ParsingExp, InvFacts
<1>3. ConfigInv' /\ Promise
  BY <1>1, <1>2, CrashStep
<1>4. Advances
  BY <1>1, <1>2 DEF Advances, GoesFurther, Crash
<1> QED BY <1>3, <1>4 DEF Parsed

\* The innermost frame is replaced by another for the same expression.
LEMMA FrameChanged ==
  ASSUME ConfigInv, pc = "parsing", ~broken, NEW c, Grown(config, c), config' = c,
         NEW g \in FrameType, Says[g.exp] = Says[Top.exp],
         g.open => Opened(c, g), ~g.open => g.left = 0 /\ g.d = Unbound,
         stack' = <<g>> \o Tail(stack), warnings' \in Nat, warnings <= warnings',
         UNCHANGED <<pc, task, loaded, file, output, lineno, sections, at, broken>>
  PROVE  ConfigInv' /\ Parsed
<1> DEFINE r == <<g>> \o Tail(stack)
<1>1. /\ Frames(config, stack, task) /\ stack \in Seq(FrameType) /\ stack # <<>>
      /\ Len(stack) \in Nat \ {0} /\ Top = stack[1]
  BY ParsingFacts
<1>2. /\ r \in Seq(FrameType) /\ Len(r) = Len(stack) - 1 + 1 /\ r[1] = g
      /\ \A j \in 2 .. Len(r) : r[j] = stack[1 + j - 1]
  BY <1>1, NewTop
<1>3. stack' = r
  OBVIOUS
<1> HIDE DEF r
<1>4. Frames(c, stack, task)
  BY <1>1, InvFacts, FramesGrow
<1>5. 1 \in 1 .. Len(stack)
  BY <1>1
<1>6. Frames(c, r, task)
  BY <1>1, <1>2, <1>4, <1>5, TopReplaced
<1> QED BY <1>2, <1>3, <1>6, GoesOn

LEMMA ExpandLettermodStep ==
  ASSUME ConfigInv, NEW e, ExpandLettermod(e)
  PROVE  ConfigInv' /\ Parsed
<1> DEFINE x == Lettermod(e.args)
           g == Frame(x)
<1>1. /\ ~broken /\ pc = "parsing" /\ ~Top.open /\ e = Top.exp
      /\ IsLettermod(e) /\ Len(e.args) = 4
      /\ stack' = <<g>> \o Tail(stack)
      /\ UNCHANGED <<config, pc, task, warnings>> /\ Elsewhere
  BY DEF ExpandLettermod, Parsing
<1>2. Grown(config, config) /\ Says[Top.exp] = Saying(e, Says) /\ e \in Exp
  BY <1>1, ParsingExp, ParsingFacts
<1>3. x \in Exp
  BY <1>1, <1>2, NestingAssumption
<1>4. Says[Top.exp] = Says[x]
  BY <1>1, <1>2, SayingFacts
<1> HIDE DEF x
<1>5. g \in FrameType /\ g.exp = x /\ ~g.open /\ g.left = 0 /\ g.d = Unbound
  BY <1>3, SimpleDescriptors DEF Frame, FrameType
<1> HIDE DEF g
<1>6. warnings' \in Nat /\ warnings <= warnings'
  BY <1>1, InvFacts
<1>7. UNCHANGED <<pc, task, loaded, file, output, lineno, sections, at, broken>> /\ config' = config
  BY <1>1 DEF Elsewhere
<1> QED BY <1>1, <1>2, <1>4, <1>5, <1>6, <1>7, FrameChanged

LEMMA ParseCallStep ==
  ASSUME ConfigInv, NEW e, ParseCall(e)
  PROVE  ConfigInv' /\ Parsed
<1> DEFINE w == IF e.fn \in DOMAIN Renamed THEN 1 ELSE 0
           t == Top
           g == [t EXCEPT !.open = TRUE, !.left = Len(e.args), !.d.op = OpOf(e.fn)]
<1>1. /\ ~broken /\ pc = "parsing" /\ ~Top.open /\ e = Top.exp
      /\ e.kind = "call" /\ Known(e.fn) /\ Elsewhere
  BY DEF ParseCall, Parsing
<1>2. /\ Grown(config, config) /\ e \in Exp /\ Top.d = Unbound /\ Top \in FrameType
      /\ w \in Nat
  BY <1>1, ParsingExp, ParsingFacts
<1>3. CASE Len(e.args) # Len(Types(e.fn))
  <2>1. Refuse(config, w)
    BY <1>3 DEF ParseCall
  <2> QED BY <1>1, <1>2, <2>1, RefuseStep
<1>4. CASE Len(e.args) = Len(Types(e.fn))
  <2>1. stack' = <<g>> \o Tail(stack) /\ Warned(w) /\ UNCHANGED <<config, pc, task>>
    BY <1>4 DEF ParseCall
  <2>2. OpOf(e.fn) \in Ops /\ Len(e.args) \in Nat
    BY <1>1, <1>2, TypesFacts, CallArgs
  <2>3. t \in FrameType /\ t.exp = e /\ t.d = Unbound
    BY <1>1, <1>2
  <2> HIDE DEF t
  <2>4. /\ g.exp = e /\ g.open = TRUE /\ g.left = Len(e.args)
        /\ g.d = [Unbound EXCEPT !.op = OpOf(e.fn)]
    BY <2>3 DEF FrameType
  <2>5. /\ g.d \in Descriptor /\ g.d.op = OpOf(e.fn) /\ g.d.args = <<>>
    <3> DEFINE op == OpOf(e.fn)
               d == [op |-> op, code |-> NoCode, args |-> <<>>]
    <3>1. g.d = d
      BY <2>4 DEF Unbound
    <3> HIDE DEF g, op
    <3>2. d \in Descriptor /\ d.op = op /\ d.args = <<>>
      BY <2>2 DEF Descriptor, Ops, op
    <3> HIDE DEF d
    <3> QED BY <3>1, <3>2 DEF op
  <2>6. g \in FrameType
    BY <1>2, <2>2, <2>3, <2>4, <2>5 DEF FrameType
  <2> HIDE DEF g
  <2>7. Opened(config, g)
    <3>1. Len(g.d.args) = 0 /\ DOMAIN g.d.args = {}
      BY <2>5
    <3>2. /\ Len(e.args) <= Len(e.args) /\ 0 = Len(e.args) - Len(e.args)
      BY <2>2
    <3>3. g.exp.kind = "call" /\ Known(g.exp.fn) /\ Len(g.exp.args) = Len(Types(g.exp.fn))
      BY <1>1, <1>4, <2>4
    <3>4. g.left <= Len(g.exp.args) /\ g.d.op = OpOf(g.exp.fn) /\ Len(g.d.args) = Len(g.exp.args) - g.left
      BY <2>4, <2>5, <3>1, <3>2
    <3> QED BY <3>1, <3>3, <3>4 DEF Opened
  <2>8. warnings' \in Nat /\ warnings <= warnings'
    BY <1>2, <2>1, InvFacts DEF Warned
  <2>9. UNCHANGED <<pc, task, loaded, file, output, lineno, sections, at, broken>> /\ config' = config
    BY <1>1, <2>1 DEF Elsewhere
  <2>10. Says[g.exp] = Says[Top.exp]
    BY <1>1, <2>4
  <2> QED BY <1>1, <1>2, <2>1, <2>4, <2>6, <2>7, <2>8, <2>9, <2>10, FrameChanged
<1> QED BY <1>3, <1>4

LEMMA NumberFacts ==
  ASSUME NEW e \in Exp
  PROVE  NumberOf(e) \in Nat /\ NumberOf(e) < 2 ^ 16
<1> DEFINE x == ValueOf(e)
           m == 2 ^ 16
<1>1. x \in Nat
  <2>1. e.kind = "word" => e.word \in Word
    BY ConfigAssumption DEF IsExp
  <2> QED BY <2>1, ConfigAssumption DEF ValueOf
<1>2. m \in Nat \ {0}
  OBVIOUS
<1>3. NumberOf(e) = x % m
  BY DEF NumberOf
<1> HIDE DEF x, m
<1>4. x % m \in Nat /\ x % m < m
  BY <1>1, <1>2
<1> QED BY <1>3, <1>4 DEF m

\* The argument that is parsed next.
LEMMA OpenedFacts ==
  ASSUME ConfigInv, pc = "parsing", Top.open
  PROVE  /\ ~broken /\ Opened(config, Top) /\ Top \in FrameType /\ Whole(config)
         /\ Grown(config, config) /\ Top.exp \in Exp
         /\ Top.left > 0 => /\ Top.exp.args[Top.left] \in Exp
                            /\ Types(Top.exp.fn)[Top.left] \in ArgType
<1>1. /\ Top = stack[1] /\ Frames(config, stack, task) /\ 1 \in DOMAIN stack
      /\ Top \in FrameType /\ Top.exp \in Exp /\ Top.left \in Nat
  BY ParsingFacts
<1>2. ~broken
  BY <1>1 DEF ConfigInv, Phases
<1>3. Opened(config, Top)
  BY <1>1 DEF Frames
<1>4. Whole(config) /\ Grown(config, config)
  BY InvFacts, GrownReflexive
<1>5. ASSUME Top.left > 0
      PROVE  Top.exp.args[Top.left] \in Exp /\ Types(Top.exp.fn)[Top.left] \in ArgType
  <2> DEFINE e == Top.exp
             n == Top.left
             types == Types(e.fn)
  <2>1. /\ e \in Exp /\ e.kind = "call" /\ Known(e.fn) /\ Len(e.args) = Len(types)
        /\ n \in Nat /\ n > 0 /\ n <= Len(e.args)
    BY <1>1, <1>3, <1>5 DEF Opened
  <2> HIDE DEF e, n
  <2>2. types \in Seq(ArgType)
    BY <2>1, TypesFacts
  <2> HIDE DEF types
  <2>3. e.args \in Seq(Exp) /\ Len(e.args) \in Nat /\ \A i \in 1 .. Len(e.args) : e.args[i] \in Exp
    BY <2>1, CallArgs
  <2>4. n \in 1 .. Len(e.args) /\ n \in DOMAIN types
    BY <2>1, <2>2, <2>3
  <2>5. e.args[n] \in Exp /\ types[n] \in ArgType
    BY <2>2, <2>3, <2>4
  <2> QED BY <2>5 DEF e, n, types
<1> QED BY <1>1, <1>2, <1>3, <1>4, <1>5

LEMMA ArgumentStep ==
  ASSUME ConfigInv, pc = "parsing", Top.open, Top.left > 0, NEW c, Grown(config, c),
         NEW n \in Nat, ParsedArg(c, Top.exp, Top.left, n), Argument(c, n), Elsewhere
  PROVE  ConfigInv' /\ Parsed
<1> DEFINE f == Top
           g == [f EXCEPT !.left = @ - 1, !.d.args = <<n>> \o @]
<1>1. /\ config' = c /\ stack' = <<g>> \o Tail(stack)
      /\ UNCHANGED <<pc, task, warnings, loaded, file, output, lineno, sections, at, broken>>
  BY DEF Argument, Elsewhere
<1>2. ~broken /\ Opened(config, f) /\ f \in FrameType /\ f.open /\ f.left > 0
      /\ ParsedArg(c, f.exp, f.left, n) /\ Whole(config)
  BY OpenedFacts
<1>3. Opened(c, f)
  <2>1. Frames(config, stack, task) /\ f = stack[1] /\ 1 \in DOMAIN stack
    BY ParsingFacts
  <2>2. Frames(c, stack, task)
    BY <1>2, <2>1, FramesGrow
  <2> QED BY <1>2, <2>1, <2>2 DEF Frames
<1> HIDE DEF f
<1> HIDE DEF g
<1>4. g \in FrameType /\ Opened(c, g) /\ g.exp = f.exp /\ g.open
  <2>1. g = WithArg(f, n)
    BY DEF WithArg, g
  <2>2. /\ WithArg(f, n) \in FrameType /\ Opened(c, WithArg(f, n))
        /\ WithArg(f, n).exp = f.exp /\ WithArg(f, n).open
    BY <1>2, <1>3, ArgDone
  <2> QED BY <2>1, <2>2
<1>5. Says[g.exp] = Says[Top.exp]
  BY <1>4 DEF f
<1>6. warnings' \in Nat /\ warnings <= warnings'
  BY <1>1, InvFacts
<1> QED BY <1>1, <1>2, <1>4, <1>5, <1>6, FrameChanged

\* The argument e is parsed as an expression of its own.
LEMMA Pushed ==
  ASSUME NEW c, NEW s \in Seq(FrameType), NEW t, Frames(c, s, t), NEW e \in Exp, Awaits(s[1], e)
  PROVE  LET r == <<Frame(e)>> \o s IN r \in Seq(FrameType) /\ Frames(c, r, t)
<1> DEFINE g == Frame(e)
           n == Len(s)
           r == <<g>> \o s
<1>1. g \in FrameType /\ g.exp = e /\ ~g.open /\ g.left = 0 /\ g.d = Unbound
  BY SimpleDescriptors DEF Frame, FrameType
<1> HIDE DEF g
<1>2. n \in Nat /\ n # 0 /\ DOMAIN s = 1 .. n
  <2>1. s # <<>>
    BY DEF Frames
  <2> QED BY <2>1
<1>3. /\ r \in Seq(FrameType) /\ Len(r) = n + 1 /\ DOMAIN r = 1 .. n + 1 /\ r[1] = g
      /\ \A j \in 2 .. n + 1 : r[j] = s[j - 1]
  BY <1>1, <1>2
<1>4. r # <<>>
  BY <1>2, <1>3
<1> HIDE DEF r
<1>5. /\ \A k \in 1 .. n : s[k].open => Opened(c, s[k])
      /\ \A k \in 2 .. n : Awaits(s[k], s[k - 1].exp)
      /\ Says[s[n].exp] = Says[t.exp]
  BY <1>2 DEF Frames, n
<1> HIDE DEF n
<1>6. \A k \in 1 .. n + 1 : r[k].open => Opened(c, r[k])
  <2> SUFFICES ASSUME NEW k \in 1 .. n + 1, r[k].open PROVE Opened(c, r[k])
    OBVIOUS
  <2>1. k # 1
    BY <1>1, <1>3
  <2>2. k \in 2 .. n + 1 /\ k - 1 \in 1 .. n
    BY <1>2, <2>1
  <2> QED BY <1>3, <1>5, <2>2
<1>7. \A k \in 2 .. n + 1 : Awaits(r[k], r[k - 1].exp)
  <2> SUFFICES ASSUME NEW k \in 2 .. n + 1 PROVE Awaits(r[k], r[k - 1].exp)
    OBVIOUS
  <2>1. CASE k = 2
    <3>1. r[k] = s[1] /\ r[k - 1] = g
      <4>1. k - 1 = 1
        BY <2>1
      <4> QED BY <1>3, <4>1
    <3> QED BY <1>1, <3>1
  <2>2. CASE k # 2
    <3>1. k - 1 \in 2 .. n /\ k - 1 \in 2 .. n + 1
      BY <1>2, <2>2
    <3>2. r[k] = s[k - 1] /\ r[k - 1] = s[(k - 1) - 1]
      BY <1>3, <3>1
    <3> QED BY <1>5, <3>1, <3>2
  <2> QED BY <2>1, <2>2
<1>8. Says[r[n + 1].exp] = Says[t.exp]
  <2>1. n + 1 \in 2 .. n + 1 /\ (n + 1) - 1 = n
    BY <1>2
  <2>2. r[n + 1] = s[n]
    BY <1>3, <2>1
  <2> QED BY <1>5, <2>2
<1>9. Frames(c, r, t)
  BY <1>1, <1>3, <1>4, <1>6, <1>7, <1>8 DEF Frames
<1> QED BY <1>3, <1>9 DEF r, g

LEMMA ParseArgumentStep ==
  ASSUME ConfigInv, ParseArgument
  PROVE  ConfigInv' /\ Parsed
<1> DEFINE e == Top.exp
           i == Top.left
           type == Types(e.fn)[i]
           arg == e.args[i]
<1>1. pc = "parsing" /\ Top.open /\ Top.left > 0 /\ Elsewhere
  BY DEF ParseArgument
<1>2. /\ ~broken /\ Opened(config, Top) /\ Top \in FrameType /\ Whole(config)
      /\ Grown(config, config) /\ e \in Exp /\ arg \in Exp /\ type \in ArgType
      /\ config \in ConfigType /\ 0 \in Nat
  BY <1>1, OpenedFacts, InvFacts
<1>3. CASE type \in {"layer", "layout"}
  <2> DEFINE n == NamedLayer(arg)
  <2>1. CASE ~(IF type = "layer" THEN IsLayerArg(arg) ELSE IsLayoutArg(arg))
    <3>1. Refuse(config, 0)
      BY <1>3, <2>1 DEF ParseArgument
    <3> QED BY <1>1, <1>2, <3>1, RefuseStep
  <2>2. CASE IF type = "layer" THEN IsLayerArg(arg) ELSE IsLayoutArg(arg)
    <3>1. Argument(config, n)
      BY <1>3, <2>2 DEF ParseArgument
    <3> HIDE DEF type, arg
    <3>2. n # 0 /\ (type = "layer" => config.layers[n].type # "layout")
          /\ (type # "layer" => n = 1 \/ config.layers[n].type = "layout")
      BY <2>2 DEF IsLayerArg, IsLayoutArg
    <3>3. arg.kind = "word" /\ n = LayerIndex(config, arg.word)
      BY <3>2 DEF NamedLayer
    <3> HIDE DEF n
    <3>4. n \in DOMAIN config.layers /\ n \in 1 .. Len(config.layers) /\ config.layers[n].name = arg.word
      BY <1>2, <3>2, <3>3, LayerIndexFound
    <3>5. Len(config.layers) \in Nat /\ n \in Nat
      BY <1>2, <3>4, WholeFacts
    <3>6. n = 1 => config.layers[n].type = "layout"
      BY <1>2 DEF Whole, FixedLayers
    <3>7. ValidArg(config, type, n, Len(config.descriptors))
      <4>1. CASE type = "layer"
        <5>1. n \in 2 .. Len(config.layers)
          BY <3>2, <3>4, <3>5, <3>6, <4>1
        <5> QED BY <3>2, <4>1, <5>1 DEF ValidArg
      <4>2. CASE type = "layout"
        BY <3>2, <3>4, <4>2 DEF ValidArg
      <4> QED BY <1>3, <4>1, <4>2 DEF type
    <3>8. ParsedArg(config, e, i, n)
      <4> HIDE DEF e, i
      <4> QED BY <1>3, <3>3, <3>4, <3>7 DEF ParsedArg, type, arg
    <3> QED BY <1>1, <1>2, <3>1, <3>5, <3>8, ArgumentStep
  <2> QED BY <2>1, <2>2
<1>4. CASE type \in {"descriptor", "keysequence"}
  <2>1. stack' = <<Frame(arg)>> \o stack /\ UNCHANGED <<config, pc, task, warnings>>
    BY <1>4 DEF ParseArgument
  <2>2. /\ Frames(config, stack, task) /\ stack \in Seq(FrameType) /\ Top = stack[1]
    BY <1>1, ParsingFacts
  <2>3. Awaits(stack[1], arg)
    BY <1>1, <1>4, <2>2 DEF Awaits
  <2> HIDE DEF arg
  <2>4. stack' \in Seq(FrameType) /\ Frames(config, stack', task)
    BY <1>2, <2>1, <2>2, <2>3, Pushed
  <2>5. warnings' \in Nat /\ warnings <= warnings'
    BY <2>1, InvFacts
  <2>6. UNCHANGED <<pc, task, loaded, file, output, lineno, sections, at, broken>> /\ config' = config
    BY <1>1, <2>1 DEF Elsewhere
  <2> QED BY <1>1, <1>2, <2>4, <2>5, <2>6, GoesOn
<1>5. CASE type \in {"timeout", "sensitivity"}
  <2> DEFINE n == NumberOf(arg)
  <2>1. Argument(config, n)
    BY <1>5 DEF ParseArgument
  <2>2. n \in Nat /\ n < 2 ^ 16
    BY <1>2, NumberFacts
  <2> HIDE DEF n
  <2>3. ParsedArg(config, e, i, n)
    <3>1. ValidArg(config, type, n, Len(config.descriptors))
      BY <1>5, <2>2 DEF ValidArg
    <3>2. n = NumberOf(e.args[i])
      BY DEF n
    <3> HIDE DEF e, i
    <3> QED BY <1>5, <3>1, <3>2 DEF ParsedArg
  <2> QED BY <1>1, <1>2, <2>1, <2>2, <2>3, ArgumentStep
<1>6. CASE type = "macro"
  <2> DEFINE fits == IsMacro(arg) /\ MacroFits(arg) /\ Len(config.macros) < MaxMacros
             n == Len(config.macros) + 1
             c == [config EXCEPT !.macros = Append(@, arg)]
  <2>1. CASE ~fits
    <3>1. Refuse(config, 0)
      BY <1>6, <2>1 DEF ParseArgument
    <3> QED BY <1>1, <1>2, <3>1, RefuseStep
  <2>2. CASE fits
    <3>1. Argument(c, n)
      BY <1>6, <2>2 DEF ParseArgument
    <3>2. n \in Nat
      BY <1>2, WholeFacts
    <3>3. Grown(config, c) /\ n \in DOMAIN c.macros /\ c.macros[n] = arg
      BY <1>2, <2>2, MacroAdded
    <3> HIDE DEF c, n
    <3>4. ParsedArg(c, e, i, n)
      <4>1. ValidArg(c, type, n, Len(c.descriptors))
        BY <1>6, <3>3 DEF ValidArg
      <4>2. c.macros[n] = e.args[i]
        BY <3>3
      <4> HIDE DEF e, i
      <4> QED BY <1>6, <4>1, <4>2 DEF ParsedArg
    <3> QED BY <1>1, <1>2, <3>1, <3>2, <3>3, <3>4, ArgumentStep
  <2> QED BY <2>1, <2>2
<1> QED BY <1>2, <1>3, <1>4, <1>5, <1>6 DEF ArgType

LEMMA EndCallStep ==
  ASSUME ConfigInv, EndCall
  PROVE  ConfigInv' /\ Parsed
<1>1. pc = "parsing" /\ Top.open /\ Top.left = 0 /\ Yield(config, Top.d, 0) /\ Elsewhere
  BY DEF EndCall
<1>2. /\ ~broken /\ Opened(config, Top) /\ Top \in FrameType /\ Whole(config)
      /\ Grown(config, config) /\ Top.d \in Descriptor /\ 0 \in Nat
  BY <1>1, OpenedFacts, ParsingFacts
<1>3. /\ ValidDescriptor(config, Top.d, Len(config.descriptors))
      /\ Meaning(config, Top.d) = Says[Top.exp]
  BY <1>1, <1>2, CallMeans
<1> QED BY <1>1, <1>2, <1>3, YieldStep

LEMMA ExpressionStep ==
  ASSUME ConfigInv, Expression(Top.exp)
  PROVE  ConfigInv' /\ Parsed
<1> DEFINE e == Top.exp
<1>1. Expression(e)
  OBVIOUS
<1> HIDE DEF e
<1> QED BY <1>1, ParseNothingStep, ParseKeyStep, ParseCommandStep, ParseMacroStep,
           ParseUnknownStep, ParseTooManyStep, ExpandLettermodStep, ParseCallStep DEF Expression

LEMMA ConfigStep ==
  ASSUME ConfigInv, [Next]_vars
  PROVE  ConfigInv' /\ Promise
<1>1. CASE UNCHANGED vars
  <2>1. TypeOK' /\ Texts' /\ Phases' /\ Whole(config)' /\ (loaded # None => Whole(loaded))'
    BY <1>1 DEF ConfigInv, TypeOK, Texts, Phases, vars
  <2>2. Bindings' = Bindings /\ Asking' = Asking /\ loaded' = loaded
    BY <1>1 DEF vars, Bindings, Asking
  <2> QED BY <2>1, <2>2, StepStutters DEF ConfigInv
<1>2. ASSUME NEW l \in Line, ReadLine(l) PROVE ConfigInv' /\ Promise
  BY <1>2, ReadLineStep
<1>3. CASE EndOfFile
  BY <1>3, EndOfFileStep
<1>4. CASE FirstPass
  BY <1>4, ParseIdStep, ParseAliasStep, ParseOptionStep, AddLayerStep, EndsStep, EndLayersStep
  DEF FirstPass
<1>5. CASE stack # <<>> /\ Expression(Top.exp)
  BY <1>5, ExpressionStep DEF Parsed
<1>6. CASE ParseArgument \/ EndCall
  BY <1>6, ParseArgumentStep, EndCallStep DEF Parsed
<1>7. CASE AddEntry \/ EndEntries \/ Loaded
  BY <1>7, AddEntryStep, EndsStep, LoadedStep
<1>8. ASSUME NEW b \in Bind, Eval(b) PROVE ConfigInv' /\ Promise
  BY <1>8, EvalStep
<1>9. CASE Reset
  BY <1>9, ResetStep
<1> QED BY <1>1, <1>2, <1>3, <1>4, <1>5, <1>6, <1>7, <1>8, <1>9 DEF Next, Parse

-----------------------------------------------------------------------------
(* Every entry takes effect: what has come of the entries before a place.  *)

HasLayer(c, w) == \E i \in DOMAIN c.layers : c.layers[i].name = w

\* p is the last entry for the code among the entries of w before b.
LastBefore(c, w, p, code, b) ==
  /\ ~IsChord(At(p).key) /\ code \in KeyCodes(c, At(p).key)
  /\ \A q \in LayerEntries(w) : Before(p, q) /\ Before(q, b) =>
       IsChord(At(q).key) \/ code \notin KeyCodes(c, At(q).key)

KeysDone(c, l, b) ==
  \A p \in LayerEntries(l.name) : Before(p, b) =>
    \A code \in Code : LastBefore(c, l.name, p, code, b) => Meaning(c, l.keymap[code]) = Says[At(p).val]

\* The chord m of l is as p says.
ChordSays(c, l, m, p) ==
  Members(l.chords[m].keys) = ChordKeys(p) /\ Meaning(c, l.chords[m].d) = Says[At(p).val]

ChordsDone(c, l, b) ==
  \A p \in LayerEntries(l.name) : Before(p, b) /\ AloneWithChord(l.name, p) =>
    \E m \in DOMAIN l.chords : ChordSays(c, l, m, p)

\* Every chord was made by an entry before b.
ChordsFrom(l, b) ==
  \A m \in DOMAIN l.chords : \E p \in LayerEntries(l.name) :
    Before(p, b) /\ IsChord(At(p).key) /\ Members(l.chords[m].keys) = ChordKeys(p)

Done(c, i, b) ==
  c.layers[i].name \notin Special =>
    KeysDone(c, c.layers[i], b) /\ ChordsDone(c, c.layers[i], b) /\ ChordsFrom(c.layers[i], b)

Fulfilled(c, b) == \A i \in DOMAIN c.layers : Done(c, i, b)

\* A layer that is as it was, in a config that may have more.
LEMMA DoneKept ==
  ASSUME NEW c, Whole(c), NEW c2, Whole(c2), GrowsFrom(c, c2), c2.aliases = c.aliases,
         NEW i \in DOMAIN c.layers, c2.layers[i] = c.layers[i], NEW b, Done(c, i, b)
  PROVE  Done(c2, i, b)
<1> DEFINE l == c.layers[i]
<1>1. \A d \in Descriptor : ValidDescriptor(c, d, Len(c.descriptors)) => Meaning(c2, d) = Meaning(c, d)
  BY MeaningStable DEF Whole
<1>2. \A code \in Code : Meaning(c2, l.keymap[code]) = Meaning(c, l.keymap[code])
  BY <1>1, ValidAt
<1>3. \A m \in DOMAIN l.chords : Meaning(c2, l.chords[m].d) = Meaning(c, l.chords[m].d)
  BY <1>1, ValidAt
<1>4. \A key : KeyCodes(c2, key) = KeyCodes(c, key)
  BY DEF KeyCodes, AliasedCodes
<1> HIDE DEF l
<1>5. KeysDone(c, l, b) => KeysDone(c2, l, b)
  BY <1>2, <1>4 DEF KeysDone, LastBefore
<1>6. ChordsDone(c, l, b) => ChordsDone(c2, l, b)
  BY <1>3 DEF ChordsDone, ChordSays
<1> QED BY <1>5, <1>6 DEF Done, l

\* A place that the same entries are before.
LEMMA DoneMoves ==
  ASSUME NEW c, NEW i, NEW b, NEW b2, Done(c, i, b),
         c.layers[i].name \notin Special =>
           \A p \in LayerEntries(c.layers[i].name) : Before(p, b) <=> Before(p, b2)
  PROVE  Done(c, i, b2)
<1> DEFINE l == c.layers[i]
<1> HIDE DEF l
<1> SUFFICES ASSUME l.name \notin Special
             PROVE  KeysDone(c, l, b2) /\ ChordsDone(c, l, b2) /\ ChordsFrom(l, b2)
  BY DEF Done, l
<1>1. /\ \A p \in LayerEntries(l.name) : Before(p, b) <=> Before(p, b2)
      /\ KeysDone(c, l, b) /\ ChordsDone(c, l, b) /\ ChordsFrom(l, b)
  BY DEF Done, l
<1>2. KeysDone(c, l, b2)
  BY <1>1 DEF KeysDone, LastBefore
<1>3. ChordsDone(c, l, b2)
  BY <1>1 DEF ChordsDone
<1>4. ChordsFrom(l, b2)
  BY <1>1 DEF ChordsFrom
<1> QED BY <1>2, <1>3, <1>4

\* Where there are no chords and no entries before, there is nothing to do.
LEMMA DoneStart ==
  ASSUME NEW c, NEW i, NEW b, c.layers[i].chords = <<>>,
         \A p \in LayerEntries(c.layers[i].name) : ~Before(p, b)
  PROVE  Done(c, i, b)
BY DEF Done, KeysDone, ChordsDone, ChordsFrom

\* b is the place next to e.
NextTo(e, b) == /\ ~Before(e, e)
                /\ \A w : \A p \in LayerEntries(w) : Before(p, b) <=> Before(p, e) \/ p = e

\* n is the layer l as the entry e leaves it: its keys, or its chord, do what e says.
SetTo(c, l, n, e) ==
  LET o == c.layers[l]
      key == At(e).key
  IN  /\ \A code \in Code : IF ~IsChord(key) /\ code \in KeyCodes(c, key)
                            THEN Meaning(c, n.keymap[code]) = Says[At(e).val]
                            ELSE n.keymap[code] = o.keymap[code]
      /\ AloneWithChord(o.name, e) => \E m \in DOMAIN n.chords : ChordSays(c, n, m, e)
      /\ \A m \in DOMAIN o.chords :
           /\ m \in DOMAIN n.chords
           /\ Members(n.chords[m].keys) = Members(o.chords[m].keys)
           /\ \/ n.chords[m].d = o.chords[m].d
              \/ IsChord(key) /\ ChordKeys(e) \subseteq Members(o.chords[m].keys)
      /\ \A m \in DOMAIN n.chords \ DOMAIN o.chords :
           IsChord(key) /\ Members(n.chords[m].keys) = ChordKeys(e)

LEMMA DoneSets ==
  ASSUME NEW c, Whole(c), NEW l \in DOMAIN c.layers, NEW n, Fits(c, l, n),
         NEW e \in LayerEntries(c.layers[l].name), NEW b, NextTo(e, b), SetTo(c, l, n, e), Done(c, l, e)
  PROVE  Done(Relayered(c, l, n), l, b)
<1> DEFINE r == Relayered(c, l, n)
           o == c.layers[l]
           w == o.name
           key == At(e).key
<1>0. c \in ConfigType /\ n \in Layer /\ n.name = w
  BY DEF Whole, Fits
<1>1. Whole(r) /\ GrowsFrom(c, r) /\ r.aliases = c.aliases /\ r.layers[l] = n
  BY <1>0, RelayeredWhole, RelayeredFields
<1> HIDE DEF r
<1>2. \A x \in Descriptor : ValidDescriptor(c, x, Len(c.descriptors)) => Meaning(r, x) = Meaning(c, x)
  BY <1>1, MeaningStable DEF Whole
<1>3. n.keymap \in [Code -> Descriptor] /\ n.chords \in Seq(Chord)
  BY <1>0, LayerFields
<1>4. \A code \in Code : Meaning(r, n.keymap[code]) = Meaning(c, n.keymap[code])
  BY <1>2, <1>3 DEF Fits
<1>5. \A m \in DOMAIN n.chords : Meaning(r, n.chords[m].d) = Meaning(c, n.chords[m].d)
  <2>1. \A m \in DOMAIN n.chords : n.chords[m].d \in Descriptor
    BY <1>3, ChordFields
  <2> QED BY <1>2, <2>1 DEF Fits
<1>6. \A k : KeyCodes(r, k) = KeyCodes(c, k)
  BY <1>1 DEF KeyCodes, AliasedCodes
<1>7. /\ \A code \in Code : IF ~IsChord(key) /\ code \in KeyCodes(c, key)
                            THEN Meaning(c, n.keymap[code]) = Says[At(e).val]
                            ELSE n.keymap[code] = o.keymap[code]
      /\ AloneWithChord(w, e) => \E m \in DOMAIN n.chords : ChordSays(c, n, m, e)
      /\ \A m \in DOMAIN o.chords :
           /\ m \in DOMAIN n.chords
           /\ Members(n.chords[m].keys) = Members(o.chords[m].keys)
           /\ \/ n.chords[m].d = o.chords[m].d
              \/ IsChord(key) /\ ChordKeys(e) \subseteq Members(o.chords[m].keys)
      /\ \A m \in DOMAIN n.chords \ DOMAIN o.chords :
           IsChord(key) /\ Members(n.chords[m].keys) = ChordKeys(e)
  BY DEF SetTo
<1>8. /\ e \in LayerEntries(w) /\ ~Before(e, e)
      /\ \A p \in LayerEntries(w) : Before(p, b) <=> Before(p, e) \/ p = e
  BY DEF NextTo
<1> SUFFICES ASSUME w \notin Special
             PROVE  KeysDone(r, n, b) /\ ChordsDone(r, n, b) /\ ChordsFrom(n, b)
  BY <1>0, <1>1 DEF Done, r
<1>9. KeysDone(c, o, e) /\ ChordsDone(c, o, e) /\ ChordsFrom(o, e)
  BY DEF Done
<1> HIDE DEF o, w, key
<1>10. KeysDone(r, n, b)
  <2> SUFFICES ASSUME NEW p \in LayerEntries(w), Before(p, b), NEW code \in Code,
                      LastBefore(r, w, p, code, b)
               PROVE  Meaning(c, n.keymap[code]) = Says[At(p).val]
    BY <1>0, <1>4 DEF KeysDone
  <2>1. /\ ~IsChord(At(p).key) /\ code \in KeyCodes(c, At(p).key)
        /\ \A q \in LayerEntries(w) : Before(p, q) /\ Before(q, b) =>
             IsChord(At(q).key) \/ code \notin KeyCodes(c, At(q).key)
    BY <1>6 DEF LastBefore
  <2>2. CASE p = e
    BY <1>7, <2>1, <2>2 DEF key
  <2>3. CASE p # e
    <3>1. Before(p, e) /\ Before(e, b)
      BY <1>8, <2>3
    <3>2. IsChord(key) \/ code \notin KeyCodes(c, key)
      BY <1>8, <2>1, <3>1 DEF key
    <3>3. LastBefore(c, w, p, code, e)
      BY <1>8, <2>1 DEF LastBefore
    <3>4. Meaning(c, o.keymap[code]) = Says[At(p).val]
      BY <1>9, <3>1, <3>3 DEF KeysDone, w
    <3> QED BY <1>7, <3>2, <3>4
  <2> QED BY <2>2, <2>3
<1>11. ChordsDone(r, n, b)
  <2> SUFFICES ASSUME NEW p \in LayerEntries(w), Before(p, b), AloneWithChord(w, p)
               PROVE  \E m \in DOMAIN n.chords : ChordSays(r, n, m, p)
    BY <1>0 DEF ChordsDone
  <2>1. CASE p = e
    BY <1>5, <1>7, <2>1 DEF ChordSays
  <2>2. CASE p # e
    <3>1. Before(p, e)
      BY <1>8, <2>2
    <3>2. PICK m \in DOMAIN o.chords : ChordSays(c, o, m, p)
      BY <1>9, <3>1 DEF ChordsDone, w
    <3>3. ~(IsChord(key) /\ ChordKeys(e) \subseteq Members(o.chords[m].keys))
      BY <1>8, <2>2, <3>2 DEF AloneWithChord, ChordSays, key
    <3>4. ChordSays(c, n, m, p) /\ m \in DOMAIN n.chords
      BY <1>7, <3>2, <3>3 DEF ChordSays
    <3> QED BY <1>5, <3>4 DEF ChordSays
  <2> QED BY <2>1, <2>2
<1>12. ChordsFrom(n, b)
  <2> SUFFICES ASSUME NEW m \in DOMAIN n.chords
               PROVE  \E p \in LayerEntries(w) :
                        Before(p, b) /\ IsChord(At(p).key) /\ Members(n.chords[m].keys) = ChordKeys(p)
    BY <1>0 DEF ChordsFrom
  <2>1. CASE m \in DOMAIN o.chords
    <3>1. PICK p \in LayerEntries(w) :
            Before(p, e) /\ IsChord(At(p).key) /\ Members(o.chords[m].keys) = ChordKeys(p)
      BY <1>9, <2>1 DEF ChordsFrom, w
    <3> QED BY <1>7, <1>8, <2>1, <3>1
  <2>2. CASE m \notin DOMAIN o.chords
    BY <1>7, <1>8, <2>2 DEF key
  <2> QED BY <2>1, <2>2
<1> QED BY <1>10, <1>11, <1>12

\* set_layer_entry leaves a layer as the entry says.
LEMMA EntrySets ==
  ASSUME NEW c, Whole(c), NEW l \in DOMAIN c.layers, NEW e \in LayerEntries(c.layers[l].name),
         At(e).key \in Word, Settable(c, l, At(e).key),
         NEW d \in Descriptor, ValidDescriptor(c, d, Len(c.descriptors)), Meaning(c, d) = Says[At(e).val],
         ~Before(e, e), c.layers[l].name \notin Special, ChordsFrom(c.layers[l], e)
  PROVE  \E n : /\ Fits(c, l, n) /\ SetTo(c, l, n, e)
                /\ SetEntry(c, l, At(e).key, d) = Relayered(c, l, n)
<1> DEFINE o == c.layers[l]
           key == At(e).key
           K == KeyCodes(c, key)
           keys == ChordCodes(key)
           i == ChordOf(o, keys)
<1>0. c \in ConfigType /\ o \in Layer /\ o.keymap \in [Code -> Descriptor] /\ o.chords \in Seq(Chord)
  BY WholeFacts, LayerAt
<1>1. SetEntry(c, l, key, d) = Relayered(c, l, IF ~IsChord(key) THEN RebindKeys(o, K, d)
                                               ELSE IF i # 0 THEN RebindChord(o, i, d)
                                               ELSE AddChord(o, keys, d))
  BY <1>0, SetEntryIs
<1>2. CASE ~IsChord(key)
  <2> DEFINE n == RebindKeys(o, K, d)
  <2>1. K \in SUBSET Code
    BY KeyCodesFacts
  <2>2. Fits(c, l, n)
    BY <2>1, KeysRebound
  <2>3. n.chords = o.chords /\ n.keymap = [code \in Code |-> IF code \in K THEN d ELSE o.keymap[code]]
    BY <1>0 DEF RebindKeys, Layer
  <2> HIDE DEF n
  <2>4. ~AloneWithChord(o.name, e)
    BY <1>2 DEF AloneWithChord
  <2>5. SetTo(c, l, n, e)
    <3>1. \A code \in Code : IF ~IsChord(key) /\ code \in KeyCodes(c, key)
                            THEN Meaning(c, n.keymap[code]) = Says[At(e).val]
                            ELSE n.keymap[code] = o.keymap[code]
      <4>1. \A code \in Code : n.keymap[code] = IF code \in K THEN d ELSE o.keymap[code]
        BY <2>3
      <4> QED BY <1>2, <4>1
    <3>2. AloneWithChord(o.name, e) => \E m \in DOMAIN n.chords : ChordSays(c, n, m, e)
      BY <2>4
    <3>3. \A m \in DOMAIN o.chords :
            /\ m \in DOMAIN n.chords
            /\ Members(n.chords[m].keys) = Members(o.chords[m].keys)
            /\ \/ n.chords[m].d = o.chords[m].d
               \/ IsChord(key) /\ ChordKeys(e) \subseteq Members(o.chords[m].keys)
      BY <2>3
    <3>4. \A m \in DOMAIN n.chords \ DOMAIN o.chords :
            IsChord(key) /\ Members(n.chords[m].keys) = ChordKeys(e)
      BY <2>3
    <3> HIDE DEF o, key
    <3> QED BY <3>1, <3>2, <3>3, <3>4 DEF SetTo, o, key
  <2> QED BY <1>1, <1>2, <2>2, <2>5 DEF n
<1>3. ChordKeys(e) = Members(keys)
  BY DEF ChordKeys
<1>4. DOMAIN o.chords = 1 .. Len(o.chords) /\ Len(o.chords) \in Nat
  BY <1>0
<1>5. CASE IsChord(key) /\ i # 0
  <2> DEFINE n == RebindChord(o, i, d)
  <2>1. i \in DOMAIN o.chords /\ Members(keys) \subseteq Members(o.chords[i].keys)
    BY <1>0, <1>5, ChordOfIs
  <2> HIDE DEF i
  <2>2. Fits(c, l, n)
    BY <2>1, ChordRebound
  <2>3. /\ n.keymap = o.keymap /\ DOMAIN n.chords = DOMAIN o.chords
        /\ \A m \in DOMAIN o.chords : n.chords[m].keys = o.chords[m].keys
        /\ \A m \in DOMAIN o.chords : m # i => n.chords[m].d = o.chords[m].d
    BY <1>0, <2>1 DEF RebindChord, Layer, Chord
  <2> HIDE DEF n, o, keys
  <2>4. ~AloneWithChord(o.name, e)
    <3>1. PICK p \in LayerEntries(o.name) :
            Before(p, e) /\ IsChord(At(p).key) /\ Members(o.chords[i].keys) = ChordKeys(p)
      BY <2>1 DEF ChordsFrom, o
    <3>2. p # e /\ ChordKeys(e) \subseteq ChordKeys(p)
      BY <1>3, <2>1, <3>1
    <3> QED BY <3>1, <3>2 DEF AloneWithChord
  <2>5. SetTo(c, l, n, e)
    <3>1. \A code \in Code : IF ~IsChord(key) /\ code \in KeyCodes(c, key)
                            THEN Meaning(c, n.keymap[code]) = Says[At(e).val]
                            ELSE n.keymap[code] = o.keymap[code]
      BY <1>5, <2>3
    <3>2. AloneWithChord(o.name, e) => \E m \in DOMAIN n.chords : ChordSays(c, n, m, e)
      BY <2>4
    <3>3. \A m \in DOMAIN o.chords :
            /\ m \in DOMAIN n.chords
            /\ Members(n.chords[m].keys) = Members(o.chords[m].keys)
            /\ \/ n.chords[m].d = o.chords[m].d
               \/ IsChord(key) /\ ChordKeys(e) \subseteq Members(o.chords[m].keys)
      BY <1>3, <1>5, <2>1, <2>3
    <3>4. \A m \in DOMAIN n.chords \ DOMAIN o.chords :
            IsChord(key) /\ Members(n.chords[m].keys) = ChordKeys(e)
      BY <2>3
    <3> HIDE DEF o, key
    <3> QED BY <3>1, <3>2, <3>3, <3>4 DEF SetTo, o, key
  <2> QED BY <1>1, <1>5, <2>2, <2>5 DEF n
<1>6. CASE IsChord(key) /\ i = 0
  <2> DEFINE n == AddChord(o, keys, d)
             h == [keys |-> keys, d |-> d]
             k == Len(o.chords)
  <2>1. keys \in Seq(Code) /\ k < MaxChords
    BY <1>6, KeyFacts DEF Settable
  <2>2. Fits(c, l, n)
    BY <1>6, <2>1, ChordAdded
  <2>3. h \in Chord /\ h.keys = keys /\ h.d = d
    BY <2>1 DEF Chord
  <2> HIDE DEF h
  <2>4. n.keymap = o.keymap /\ n.chords = Append(o.chords, h)
    BY <1>0, <2>3 DEF AddChord, Layer, h
  <2> HIDE DEF n, o, keys
  <2>5. /\ DOMAIN n.chords = 1 .. (k + 1) /\ n.chords[k + 1] = h
        /\ \A m \in 1 .. k : n.chords[m] = o.chords[m]
    BY <1>0, <2>3, <2>4
  <2>6. k + 1 \in DOMAIN n.chords /\ ChordSays(c, n, k + 1, e)
    BY <1>3, <1>4, <2>3, <2>5 DEF ChordSays
  <2>7. \A m \in DOMAIN n.chords \ DOMAIN o.chords : Members(n.chords[m].keys) = ChordKeys(e)
    <3>1. \A m \in DOMAIN n.chords \ DOMAIN o.chords : m = k + 1
      BY <1>4, <2>5
    <3> QED BY <1>3, <2>3, <2>5, <3>1
  <2>8. \A m \in DOMAIN o.chords : m \in DOMAIN n.chords /\ n.chords[m] = o.chords[m]
    BY <1>4, <2>5
  <2> HIDE DEF k
  <2>9. SetTo(c, l, n, e)
    <3>1. \A code \in Code : IF ~IsChord(key) /\ code \in KeyCodes(c, key)
                            THEN Meaning(c, n.keymap[code]) = Says[At(e).val]
                            ELSE n.keymap[code] = o.keymap[code]
      BY <1>6, <2>4
    <3>2. AloneWithChord(o.name, e) => \E m \in DOMAIN n.chords : ChordSays(c, n, m, e)
      BY <2>6
    <3>3. \A m \in DOMAIN o.chords :
            /\ m \in DOMAIN n.chords
            /\ Members(n.chords[m].keys) = Members(o.chords[m].keys)
            /\ \/ n.chords[m].d = o.chords[m].d
               \/ IsChord(key) /\ ChordKeys(e) \subseteq Members(o.chords[m].keys)
      BY <2>8
    <3>4. \A m \in DOMAIN n.chords \ DOMAIN o.chords :
            IsChord(key) /\ Members(n.chords[m].keys) = ChordKeys(e)
      BY <1>6, <2>7
    <3> HIDE DEF o, key
    <3> QED BY <3>1, <3>2, <3>3, <3>4 DEF SetTo, o, key
  <2> QED BY <1>1, <1>6, <2>2, <2>9 DEF n
<1> QED BY <1>2, <1>5, <1>6

\* What an entry says is done when it is set.
LEMMA FulfilledSets ==
  ASSUME NEW c, Whole(c), NEW l \in DOMAIN c.layers, NEW e \in LayerEntries(c.layers[l].name),
         At(e).key \in Word, Settable(c, l, At(e).key),
         NEW d \in Descriptor, ValidDescriptor(c, d, Len(c.descriptors)), Meaning(c, d) = Says[At(e).val],
         c.layers[l].name \notin Special, NEW b, NextTo(e, b), Fulfilled(c, e)
  PROVE  /\ Fulfilled(SetEntry(c, l, At(e).key, d), b)
         /\ \A x : HasLayer(c, x) => HasLayer(SetEntry(c, l, At(e).key, d), x)
<1> DEFINE w == c.layers[l].name
<1>0. c \in ConfigType /\ Distinct(c)
  BY DEF Whole
<1>1. ~Before(e, e) /\ \A x : \A p \in LayerEntries(x) : Before(p, b) <=> Before(p, e) \/ p = e
  BY DEF NextTo
<1>2. ChordsFrom(c.layers[l], e) /\ Done(c, l, e)
  BY DEF Fulfilled, Done
<1>3. PICK n : /\ Fits(c, l, n) /\ SetTo(c, l, n, e)
               /\ SetEntry(c, l, At(e).key, d) = Relayered(c, l, n)
  BY <1>1, <1>2, EntrySets
<1> DEFINE r == Relayered(c, l, n)
<1>4. Done(r, l, b)
  BY <1>2, <1>3, DoneSets
<1>5. n \in Layer
  BY <1>3 DEF Fits
<1>6. /\ Whole(r) /\ GrowsFrom(c, r) /\ r.aliases = c.aliases /\ DOMAIN r.layers = DOMAIN c.layers
      /\ \A j \in DOMAIN c.layers \ {l} : r.layers[j] = c.layers[j]
  BY <1>0, <1>3, <1>5, RelayeredWhole, RelayeredFields
<1> HIDE DEF r
<1>7. ASSUME NEW j \in DOMAIN c.layers, j # l PROVE Done(r, j, b)
  <2>1. c.layers[j].name # w
    BY <1>0, <1>7 DEF Distinct
  <2>2. \A p \in LayerEntries(c.layers[j].name) : p # e
    BY <2>1 DEF LayerEntries
  <2>3. \A p \in LayerEntries(c.layers[j].name) : Before(p, e) <=> Before(p, b)
    BY <1>1, <2>2
  <2>4. Done(c, j, e)
    BY DEF Fulfilled
  <2>5. Done(c, j, b)
    BY <2>3, <2>4, DoneMoves
  <2>6. r.layers[j] = c.layers[j]
    BY <1>6, <1>7
  <2> QED BY <1>6, <2>5, <2>6, DoneKept
<1>8. Fulfilled(r, b)
  BY <1>4, <1>6, <1>7 DEF Fulfilled
<1>9. \A x : HasLayer(c, x) => HasLayer(r, x)
  BY <1>6 DEF HasLayer, GrowsFrom
<1> QED BY <1>3, <1>8, <1>9 DEF r

\* No section has more entries than there are lines.
Short(ss, n) == \A i \in DOMAIN ss : Len(ss[i].entries) <= n

LEMMA FiledShort ==
  ASSUME output \in Seq(OutLine), NEW before \in Seq(SectionOf(output)), NEW n \in DOMAIN output,
         NEW k \in Nat, Short(before, k)
  PROVE  Short(Filed(before, n), k + 1)
<1> DEFINE l == output[n].line
           E == Entries(output)
           x == Entry(l, n)
           z == Len(before)
<1>1. \A i \in DOMAIN before : before[i].entries \in Seq(E) /\ Len(before[i].entries) \in Nat
  <2> SUFFICES ASSUME NEW i \in DOMAIN before PROVE before[i].entries \in Seq(E)
    OBVIOUS
  <2> DEFINE S == SectionOf(output)
  <2>1. before \in Seq(S)
    OBVIOUS
  <2> HIDE DEF S
  <2>2. before[i] \in S
    BY <2>1
  <2> QED BY <2>2 DEF S, SectionOf
<1>2. \A i \in DOMAIN before : Len(before[i].entries) <= k
  BY DEF Short
<1>3. CASE l.kind = "blank"
  <2>1. Filed(before, n) = before
    BY <1>3 DEF Filed
  <2> QED BY <1>1, <1>2, <2>1 DEF Short
<1>4. CASE l.kind = "header"
  <2> DEFINE h == [name |-> l.name, type |-> l.type, entries |-> <<>>]
  <2>1. Filed(before, n) = Append(before, h)
    BY <1>4 DEF Filed
  <2>2. Len(h.entries) = 0
    OBVIOUS
  <2> HIDE DEF h, l
  <2>3. z \in Nat /\ DOMAIN before = 1 .. z
    OBVIOUS
  <2>4. /\ DOMAIN Append(before, h) = 1 .. (z + 1) /\ Append(before, h)[z + 1] = h
        /\ \A i \in 1 .. z : Append(before, h)[i] = before[i]
    BY <2>3
  <2> HIDE DEF z
  <2>5. ASSUME NEW i \in 1 .. (z + 1) PROVE Len(Append(before, h)[i].entries) <= k + 1
    <3>1. CASE i = z + 1
      BY <2>2, <2>4, <3>1
    <3>2. CASE i # z + 1
      <4>1. i \in DOMAIN before /\ Append(before, h)[i] = before[i]
        BY <2>3, <2>4, <3>2
      <4> QED BY <1>1, <1>2, <4>1
    <3> QED BY <3>1, <3>2
  <2> QED BY <2>1, <2>4, <2>5 DEF Short
<1>5. CASE l.kind \notin {"blank", "header"}
  <2>1. Filed(before, n) = [before EXCEPT ![z].entries = Append(@, x)]
    BY <1>5, Zenon DEF Filed
  <2>2. x \in E
    BY <1>5 DEF Entries, Filing
  <2> HIDE DEF x, E, l, z
  <2> DEFINE s == [before EXCEPT ![z].entries = Append(@, x)]
  <2>3. DOMAIN s = DOMAIN before
    OBVIOUS
  <2>4. ASSUME NEW i \in DOMAIN before PROVE Len(s[i].entries) <= k + 1
    <3> DEFINE a == before[i].entries
    <3>1. a \in Seq(E) /\ Len(a) \in Nat /\ Len(a) <= k
      BY <1>1, <1>2
    <3>2. CASE i # z
      <4>1. s[i] = before[i]
        BY <3>2
      <4>2. s[i].entries = a
        BY <4>1
      <4> HIDE DEF a, s
      <4> QED BY <3>1, <4>2
    <3>3. CASE i = z
      <4>1. s[i] = [before[i] EXCEPT !.entries = Append(@, x)]
        BY <3>3
      <4> DEFINE t == before[i]
      <4>2. "entries" \in DOMAIN t
        <5> DEFINE S == SectionOf(output)
        <5>1. before \in Seq(S)
          OBVIOUS
        <5> HIDE DEF S
        <5>2. t \in S
          BY <5>1
        <5> HIDE DEF t
        <5> QED BY <5>2 DEF S, SectionOf
      <4>3. s[i].entries = Append(a, x)
        BY <4>1, <4>2
      <4> HIDE DEF a, s, t
      <4>4. Len(Append(a, x)) = Len(a) + 1
        BY <2>2, <3>1
      <4> QED BY <3>1, <4>3, <4>4
    <3> QED BY <3>2, <3>3
  <2> HIDE DEF s
  <2> QED BY <2>1, <2>3, <2>4 DEF Short, s
<1> QED BY <1>3, <1>4, <1>5

LEMMA SectionsShort ==
  ASSUME output \in Seq(OutLine)
  PROVE  Short(Sections, Len(output))
<1> DEFINE s == [n \in DOMAIN output |-> n]
           E == DOMAIN output
           B == Seq(SectionOf(output))
           R == {x \in Seq(E) \X B : Short(x[2], Len(x[1]))}
<1>1. DOMAIN output = 1 .. Len(output) /\ Len(output) \in Nat
  OBVIOUS
<1>2. s \in Seq(E) /\ Len(s) = Len(output)
  <2>1. s = [n \in 1 .. Len(output) |-> n]
    BY <1>1
  <2> QED BY <1>1, <2>1
<1>3. <<<<>>, <<>>>> \in R
  <2>1. <<>> \in Seq(E) /\ <<>> \in B
    OBVIOUS
  <2>2. Short(<<>>, Len(<<>>))
    BY EmptySequences DEF Short
  <2> HIDE DEF E, B
  <2> DEFINE x == <<>>
  <2>3. x \in Seq(E) /\ x \in B /\ Short(x, Len(x))
    BY <2>1, <2>2
  <2> HIDE DEF x
  <2>4. <<x, x>> \in R
    BY <2>3
  <2> QED BY <2>4 DEF x
<1>4. ASSUME NEW r \in Seq(E), NEW n \in E, NEW y, <<r, y>> \in R
      PROVE  <<Append(r, n), Filed(y, n)>> \in R
  <2>1. y \in B /\ Short(y, Len(r))
    BY <1>4
  <2>2. Filed(y, n) \in B
    BY <2>1, FiledTyped
  <2>3. Append(r, n) \in Seq(E) /\ Len(Append(r, n)) = Len(r) + 1 /\ Len(r) \in Nat
    OBVIOUS
  <2>4. Short(Filed(y, n), Len(r) + 1)
    BY <2>1, <2>3, FiledShort
  <2> HIDE DEF B, E
  <2> DEFINE r2 == Append(r, n)
             y2 == Filed(y, n)
  <2>5. r2 \in Seq(E) /\ y2 \in B /\ Short(y2, Len(r2))
    BY <2>2, <2>3, <2>4
  <2> HIDE DEF r2, y2
  <2>6. <<r2, y2>> \in R
    BY <2>5
  <2> QED BY <2>6 DEF r2, y2
<1>5. \A r \in Seq(E), n \in E : \A y : <<r, y>> \in R => <<Append(r, n), Filed(y, n)>> \in R
  BY <1>4
<1> HIDE DEF s, R, E
<1>6. <<s, FileFold!Fold(<<>>, s)>> \in R
  BY <1>2, <1>3, <1>5, FileFold!FoldInto
<1>7. Short(FileFold!Fold(<<>>, s), Len(s))
  BY <1>6 DEF R
<1> QED BY <1>2, <1>7, SectionsAre DEF s

Chordless(c) == \A i \in DOMAIN c.layers : c.layers[i].chords = <<>>

\* The place of the entry that is parsed, or is next.
Turn == IF pc = "parsing" THEN <<at[1], at[2] - 1>> ELSE at

\* The entry at Turn is the one that is parsed.
Taken == /\ at[1] \in DOMAIN sections /\ sections[at[1]].name \notin Special
         /\ at[2] - 1 \in DOMAIN sections[at[1]].entries
         /\ config.layers[task.layer].name = sections[at[1]].name
         /\ task.key = At(Turn).key /\ task.exp = At(Turn).val

LayersMade == \A i \in DOMAIN sections :
                (pc # "layers" \/ i < at[1]) /\ sections[i].name \notin Special =>
                  HasLayer(config, sections[i].name)

\* How far the file is parsed.
Progress ==
  loaded = None =>
    /\ at \in (Nat \ {0}) \X (Nat \ {0})
    /\ Short(sections, Len(output))
    /\ pc \in {"reading", "layers"} => Chordless(config)
    /\ pc = "parsing" => Taken
    /\ warnings = 0 => /\ LayersMade
                       /\ pc \in {"entries", "parsing"} => Fulfilled(config, Turn)

LEMMA FulfilledNext ==
  ASSUME UNCHANGED <<sections, output>>, Fulfilled(config', Turn')
  PROVE  Fulfilled(config, Turn)'
<1>1. \A w : LayerEntries(w)' = LayerEntries(w)
  BY DEF LayerEntries
<1>2. \A p : At(p)' = At(p)
  BY DEF At
<1>3. \A p : ChordKeys(p)' = ChordKeys(p)
  BY <1>2 DEF ChordKeys
<1>4. \A w, p : AloneWithChord(w, p)' <=> AloneWithChord(w, p)
  BY <1>1, <1>2, <1>3 DEF AloneWithChord
<1> QED BY <1>1, <1>2, <1>3, <1>4 DEF Fulfilled, Done, KeysDone, ChordsDone, ChordsFrom, LastBefore, ChordSays

LEMMA InitProgress == Init => Progress
<1> SUFFICES ASSUME Init PROVE Progress
  OBVIOUS
<1>1. config = Default /\ sections = <<>> /\ at = <<1, 1>> /\ pc = "reading"
  BY DEF Init
<1>2. Chordless(Default)
  <2>1. \A i \in DOMAIN Default.layers : Default.layers[i].chords = <<>>
    BY DEF Default, NewLayer, DefaultLayers
  <2> QED BY <2>1 DEF Chordless
<1>3. Short(sections, Len(output)) /\ LayersMade
  BY <1>1, EmptySequences DEF Short, LayersMade
<1>4. at \in (Nat \ {0}) \X (Nat \ {0})
  BY <1>1
<1> QED BY <1>1, <1>2, <1>3, <1>4 DEF Progress

LEMMA ReadingProgress ==
  ASSUME ConfigInv, Progress, (\E l \in Line : ReadLine(l)) \/ EndOfFile
  PROVE  Progress'
<1>1. pc = "reading" /\ loaded = None /\ sections = <<>> /\ config' = config
  BY DEF ConfigInv, Phases, Texts, ReadLine, EndOfFile
<1>2. at \in (Nat \ {0}) \X (Nat \ {0}) /\ Chordless(config)
  BY <1>1 DEF Progress
<1>3. CASE \E l \in Line : ReadLine(l)
  <2>1. UNCHANGED <<pc, sections, at>>
    BY <1>3 DEF ReadLine
  <2>2. Short(sections, Len(output))' /\ LayersMade'
    BY <1>1, <2>1, EmptySequences DEF Short, LayersMade
  <2> QED BY <1>1, <1>2, <2>1, <2>2 DEF Progress, Chordless
<1>4. CASE EndOfFile /\ Sectioned
  <2>1. /\ sections' = Sections /\ pc' = "layers" /\ at' = <<1, 1>>
        /\ UNCHANGED <<loaded, output>>
    BY <1>4 DEF EndOfFile
  <2>2. Short(sections, Len(output))'
    BY <2>1, InvFacts, SectionsShort DEF Short
  <2>3. LayersMade'
    <3>1. sections' \in Seq(SectionOf(output))
      BY <2>1, InvFacts, SectionsTyped
    <3>2. \A i \in DOMAIN sections' : ~(i < 1)
      BY <3>1
    <3> QED BY <2>1, <3>2 DEF LayersMade
  <2> QED BY <1>1, <1>2, <2>1, <2>2, <2>3 DEF Progress, Chordless
<1>5. CASE EndOfFile /\ ~Sectioned
  <2>1. loaded' # None
    BY <1>5, InvFacts DEF EndOfFile
  <2> QED BY <2>1 DEF Progress
<1> QED BY <1>3, <1>4, <1>5

\* A pass goes on at then: the names of the layers stay, and no chords come.
Passes(then) ==
  /\ UNCHANGED <<loaded, pc, output, sections>> /\ warnings <= warnings' /\ at' = then
  /\ Chordless(config) => Chordless(config')
  /\ \A w : HasLayer(config, w) => HasLayer(config', w)

LEMMA SameLayersPass ==
  ASSUME ConfigInv, NEW w \in Nat, NEW then, NEW c, Pass(c, w, then),
         DOMAIN c.layers = DOMAIN config.layers,
         \A i \in DOMAIN config.layers : /\ c.layers[i].name = config.layers[i].name
                                         /\ c.layers[i].chords = config.layers[i].chords
  PROVE  Passes(then)
<1>1. config' = c /\ warnings' = warnings + w /\ at' = then /\ UNCHANGED <<loaded, pc, output, sections>>
  BY DEF Pass
<1>2. warnings <= warnings'
  BY <1>1, InvFacts
<1>3. Chordless(config) => Chordless(c)
  BY DEF Chordless
<1>4. \A x : HasLayer(config, x) => HasLayer(c, x)
  BY DEF HasLayer
<1> QED BY <1>1, <1>2, <1>3, <1>4 DEF Passes

LEMMA AddLayerPass ==
  ASSUME ConfigInv, AddLayer
  PROVE  Crash \/ (/\ Passes(NextSection)
                   /\ HasLayer(config', Section.name) \/ warnings < warnings')
<1> DEFINE w == Section.name
           type == Section.type
           ids == Constituents(w)
           add(t, parts) == [config EXCEPT !.layers = Append(@, NewLayer(w, t, parts))]
<1>0. Whole(config) /\ config \in ConfigType /\ warnings \in Nat /\ config.layers \in Seq(Layer)
  BY InvFacts, ConfigFields
<1>1. \/ Crash \/ Pass(config, 1, NextSection)
      \/ LayerIndex(config, w) # 0 /\ Pass(config, 0, NextSection)
      \/ \E t, parts : \E n \in Nat : Pass(add(t, parts), n, NextSection)
  <2> HIDE DEF w, type, ids
  <2> DEFINE added == \E t, parts : \E n \in Nat : Pass(add(t, parts), n, NextSection)
  <2>1. CASE LayerIndex(config, w) # 0
    BY <2>1 DEF AddLayer, w
  <2>2. CASE LayerIndex(config, w) = 0 /\ Len(config.layers) >= MaxLayers
    <3>1. ~(LayerIndex(config, w) # 0) /\ ~(Len(config.layers) < MaxLayers)
      BY <1>0, <2>2, TableFacts, LimitFacts
    <3>2. Pass(config, 1, NextSection)
      BY <2>2, <3>1, Zenon DEF AddLayer, w
    <3> QED BY <3>2
  <2>3. CASE LayerIndex(config, w) = 0 /\ Len(config.layers) < MaxLayers /\ IsComposite(w)
    <3>1. ~(Len(config.layers) >= MaxLayers)
      BY <1>0, <2>3, TableFacts, LimitFacts
    <3>2. \/ Crash \/ Pass(config, 1, NextSection) \/ Pass(add("composite", ids), 0, NextSection)
      BY <2>3, <3>1, Zenon DEF AddLayer, w, type, ids
    <3> QED BY <3>2
  <2>4. CASE LayerIndex(config, w) = 0 /\ Len(config.layers) < MaxLayers /\ ~IsComposite(w)
    <3>1. ~(Len(config.layers) >= MaxLayers)
      BY <1>0, <2>4, TableFacts, LimitFacts
    <3>2. Pass(add(IF type = "layout" THEN "layout" ELSE "normal", <<>>),
               IF type = "bogus" THEN 1 ELSE 0, NextSection)
      BY <2>4, <3>1, Zenon DEF AddLayer, w, type
    <3>3. (IF type = "bogus" THEN 1 ELSE 0) \in Nat
      OBVIOUS
    <3> HIDE DEF add
    <3> QED BY <3>2, <3>3
  <2>5. Len(config.layers) >= MaxLayers \/ Len(config.layers) < MaxLayers
    BY <1>0, TableFacts, LimitFacts
  <2> QED BY <2>1, <2>2, <2>3, <2>4, <2>5
<1>2. CASE Pass(config, 1, NextSection)
  <2>1. Passes(NextSection)
    BY <1>2, SameLayersPass
  <2>2. warnings < warnings'
    BY <1>0, <1>2 DEF Pass
  <2> QED BY <2>1, <2>2
<1>3. CASE LayerIndex(config, w) # 0 /\ Pass(config, 0, NextSection)
  <2>1. Passes(NextSection) /\ config' = config
    BY <1>3, SameLayersPass DEF Pass
  <2>2. HasLayer(config, w)
    BY <1>0, <1>3, LayerIndexFound DEF HasLayer
  <2> QED BY <2>1, <2>2
<1>4. ASSUME NEW t, NEW parts, NEW n \in Nat, Pass(add(t, parts), n, NextSection)
      PROVE  Passes(NextSection) /\ HasLayer(config', w)
  <2> DEFINE x == NewLayer(w, t, parts)
             ls == config.layers
             k == Len(ls)
  <2>1. x.name = w /\ x.chords = <<>>
    BY DEF NewLayer
  <2> HIDE DEF x, w
  <2>2. /\ config'.layers = Append(ls, x) /\ warnings' = warnings + n /\ at' = NextSection
        /\ UNCHANGED <<loaded, pc, output, sections>>
    BY <1>0, <1>4 DEF Pass, ConfigType, x, w
  <2>3. k \in Nat /\ DOMAIN ls = 1 .. k /\ ls \in Seq(Layer)
    BY <1>0
  <2>4. /\ DOMAIN Append(ls, x) = 1 .. (k + 1) /\ Append(ls, x)[k + 1] = x
        /\ \A i \in 1 .. k : Append(ls, x)[i] = ls[i]
    BY <2>3
  <2> DEFINE ms == Append(ls, x)
  <2> HIDE DEF ls, k, ms
  <2>5. config'.layers = ms /\ config.layers = ls /\ DOMAIN ms = 1 .. (k + 1) /\ ms[k + 1] = x
        /\ DOMAIN ls = 1 .. k /\ \A i \in 1 .. k : ms[i] = ls[i]
    BY <2>2, <2>3, <2>4 DEF ms, ls
  <2>6. \A i \in 1 .. (k + 1) : i \in 1 .. k \/ i = k + 1
    BY <2>3
  <2>7. Chordless(config) => Chordless(config')
    BY <2>1, <2>5, <2>6 DEF Chordless
  <2>8. \A y : HasLayer(config, y) => HasLayer(config', y)
    <3>1. \A i \in 1 .. k : i \in 1 .. (k + 1)
      BY <2>3
    <3> QED BY <2>5, <3>1 DEF HasLayer
  <2>9. HasLayer(config', w)
    <3>1. k + 1 \in 1 .. (k + 1)
      BY <2>3
    <3> QED BY <2>1, <2>5, <3>1 DEF HasLayer
  <2>10. warnings <= warnings'
    BY <1>0, <2>2
  <2> QED BY <2>2, <2>7, <2>8, <2>9, <2>10 DEF Passes
<1> QED BY <1>1, <1>2, <1>3, <1>4

LEMMA PassProgress ==
  ASSUME ConfigInv, Progress, pc = "layers", NEW then, Passes(then),
         \/ then = Following
         \/ /\ then = NextSection
            /\ Section.name \in Special \/ HasLayer(config', Section.name) \/ warnings < warnings'
  PROVE  Progress'
<1>1. /\ UNCHANGED <<loaded, pc, output, sections>> /\ warnings <= warnings' /\ at' = then
      /\ Chordless(config) => Chordless(config')
      /\ \A w : HasLayer(config, w) => HasLayer(config', w)
  BY DEF Passes
<1>2. loaded = None /\ warnings \in Nat
  BY InvFacts DEF ConfigInv, Phases
<1>3. /\ at \in (Nat \ {0}) \X (Nat \ {0}) /\ Short(sections, Len(output)) /\ Chordless(config)
      /\ warnings = 0 => LayersMade
  BY <1>2 DEF Progress
<1>4. /\ at' \in (Nat \ {0}) \X (Nat \ {0})
      /\ at'[1] = at[1] \/ (at'[1] = at[1] + 1 /\ at' = NextSection)
  BY <1>1, <1>3 DEF Following, NextSection
<1>5. Short(sections, Len(output))'
  BY <1>1, <1>3 DEF Short
<1>6. warnings' = 0 => LayersMade'
  <2> SUFFICES ASSUME warnings' = 0, NEW i \in DOMAIN sections, i < at'[1], sections[i].name \notin Special
               PROVE  HasLayer(config', sections[i].name)
    BY <1>1 DEF LayersMade
  <2>0. warnings = 0 /\ ~(warnings < warnings')
    <3>1. warnings <= 0
      BY <1>1
    <3> QED BY <1>2, <3>1
  <2>1. LayersMade
    BY <1>3, <2>0
  <2>2. CASE i < at[1]
    <3>1. HasLayer(config, sections[i].name)
      BY <2>1, <2>2 DEF LayersMade
    <3> QED BY <1>1, <3>1
  <2>3. CASE ~(i < at[1])
    <3>1. i \in Nat /\ at[1] \in Nat
      BY <1>3, InvFacts
    <3>2. i = at[1] /\ at' = NextSection /\ at'[1] = at[1] + 1
      BY <1>4, <2>3, <3>1
    <3>3. then # Following
      <4>1. at'[1] # Following[1]
        BY <3>1, <3>2 DEF Following
      <4> QED BY <1>1, <4>1
    <3> QED BY <2>0, <3>2, <3>3 DEF Section
  <2> QED BY <2>2, <2>3
<1>7. pc' = "layers"
  BY <1>1
<1>8. Chordless(config')
  BY <1>1, <1>3
<1> QED BY <1>4, <1>5, <1>6, <1>7, <1>8 DEF Progress

\* What only breaks the program changes nothing here.
LEMMA CrashProgress ==
  ASSUME Progress, Crash \/ UNCHANGED vars
  PROVE  Progress'
<1>1. UNCHANGED <<config, loaded, pc, output, sections, at, task, warnings>>
  BY DEF Crash, vars
<1>2. \A w : LayerEntries(w)' = LayerEntries(w)
  BY <1>1 DEF LayerEntries
<1>3. Turn' = Turn /\ \A p : At(p)' = At(p)
  BY <1>1 DEF Turn, At
<1>4. Taken' <=> Taken
  BY <1>1, <1>3 DEF Taken
<1>5. LayersMade' <=> LayersMade
  BY <1>1 DEF LayersMade
<1>6. Fulfilled(config, Turn) => Fulfilled(config, Turn)'
  BY <1>1, <1>3, FulfilledNext
<1> QED BY <1>1, <1>4, <1>5, <1>6 DEF Progress, Short, Chordless

LEMMA EndLayersProgress ==
  ASSUME ConfigInv, Progress, EndLayers
  PROVE  Progress'
<1>1. /\ pc = "layers" /\ at[1] \notin DOMAIN sections /\ pc' = "entries" /\ at' = <<1, 1>>
      /\ UNCHANGED <<config, loaded, output, sections, task, warnings>>
  BY DEF EndLayers
<1>2. loaded = None
  BY <1>1 DEF ConfigInv, Phases
<1>3. /\ at \in (Nat \ {0}) \X (Nat \ {0}) /\ Short(sections, Len(output)) /\ Chordless(config)
      /\ warnings = 0 => LayersMade
  BY <1>1, <1>2 DEF Progress
<1>4. at' \in (Nat \ {0}) \X (Nat \ {0}) /\ Turn' = <<1, 1>>
  BY <1>1 DEF Turn
<1>5. warnings' = 0 => LayersMade'
  <2>1. \A i \in DOMAIN sections : i < at[1]
    <3>1. DOMAIN sections = 1 .. Len(sections) /\ Len(sections) \in Nat
      BY InvFacts
    <3>2. at[1] \in Nat \ {0}
      BY <1>3
    <3> QED BY <1>1, <3>1, <3>2
  <2> QED BY <1>1, <1>3, <2>1 DEF LayersMade
<1>6. Fulfilled(config', Turn')
  <2>1. \A w : \A p \in LayerEntries(w) : ~Before(p, <<1, 1>>)
    <3> SUFFICES ASSUME NEW w, NEW p \in LayerEntries(w) PROVE ~Before(p, <<1, 1>>)
      OBVIOUS
    <3>1. PICK i \in DOMAIN sections, j \in 1 .. Len(output) : p = <<i, j>>
      BY DEF LayerEntries
    <3>2. i \in Nat \ {0} /\ j \in Nat \ {0}
      BY InvFacts
    <3>3. p[1] = i /\ p[2] = j
      BY <3>1
    <3> HIDE <3>1
    <3> QED BY <3>2, <3>3 DEF Before
  <2>2. \A i \in DOMAIN config.layers : Done(config, i, <<1, 1>>)
    BY <1>3, <2>1, DoneStart DEF Chordless
  <2> QED BY <1>1, <1>4, <2>2 DEF Fulfilled
<1>7. Fulfilled(config, Turn)'
  BY <1>1, <1>6, FulfilledNext
<1> QED BY <1>1, <1>3, <1>4, <1>5, <1>7 DEF Progress, Short

LEMMA FirstPassProgress ==
  ASSUME ConfigInv, Progress, FirstPass
  PROVE  Progress'
<1>0. Whole(config) /\ config \in ConfigType
  BY InvFacts
<1>1. CASE ParseId
  <2> DEFINE flags == IdFlags[Ent.key]
             c1 == [config EXCEPT !.wildcard = TRUE]
             c2 == [config EXCEPT !.ids = Append(@, [id |-> IdName[Ent.key], flags |-> flags])]
  <2>1. pc = "layers"
    BY <1>1 DEF ParseId, InSection, Passing
  <2>2. \/ Pass(config, 1, Following) \/ Pass(c1, 0, Following) \/ Pass(c2, 0, Following) \/ Crash
    <3> DEFINE ended == Pass(config, 1, Following)
               wild == Pass(c1, 0, Following)
               more == Pass(c2, 0, Following)
    <3>1. CASE flags = {}
      BY <1>1, <3>1, Zenon DEF ParseId
    <3>2. CASE flags # {} /\ "wildcard" \in flags
      BY <1>1, <3>2, Zenon DEF ParseId
    <3>3. CASE flags # {} /\ "wildcard" \notin flags
      BY <1>1, <3>3, Zenon DEF ParseId
    <3> QED BY <3>1, <3>2, <3>3
  <2>3. c1.layers = config.layers /\ c2.layers = config.layers
    BY <1>0 DEF ConfigType
  <2> HIDE DEF c1, c2
  <2>4. Crash \/ Passes(Following)
    BY <2>2, <2>3, SameLayersPass
  <2> QED BY <2>1, <2>4, PassProgress, CrashProgress
<1>2. CASE ParseOption
  <2> DEFINE c1 == [config EXCEPT !.options[Ent.key] = ValueOf(Ent.val)]
  <2>1. pc = "layers"
    BY <1>2 DEF ParseOption, InSection, Passing
  <2>2. Pass(config, 1, Following) \/ Pass(c1, 0, Following) \/ Crash
    BY <1>2, Zenon DEF ParseOption
  <2>3. c1.layers = config.layers
    BY <1>0 DEF ConfigType
  <2> HIDE DEF c1
  <2>4. Crash \/ Passes(Following)
    BY <2>2, <2>3, SameLayersPass
  <2> QED BY <2>1, <2>4, PassProgress, CrashProgress
<1>3. CASE ParseAlias
  <2> DEFINE code == KeyOf[Ent.key]
             val == Ent.val
             aliased == [config EXCEPT !.aliases[code] = val]
             c1 == [aliased EXCEPT !.layers[1].keymap[code] = KeyTo(KeyOf[val.word])]
  <2>1. pc = "layers"
    BY <1>3 DEF ParseAlias, InSection, Passing
  <2>2. Pass(config, 1, Following) \/ Pass(c1, 0, Following) \/ Pass(aliased, 0, Following) \/ Crash
    <3>1. CASE code = NoCode
      BY <1>3, <3>1, Zenon DEF ParseAlias
    <3>2. CASE code # NoCode /\ val = NoVal
      BY <1>3, <3>2, Zenon DEF ParseAlias
    <3>3. CASE code # NoCode /\ val # NoVal
      <4> DEFINE named == val.kind = "word" /\ KeyOf[val.word] # NoCode
      <4>1. CASE named
        BY <1>3, <3>3, <4>1, Zenon DEF ParseAlias
      <4>2. CASE ~named
        BY <1>3, <3>3, <4>2, Zenon DEF ParseAlias
      <4> QED BY <4>1, <4>2
    <3> QED BY <3>1, <3>2, <3>3
  <2>3. aliased.layers = config.layers
    BY <1>0 DEF ConfigType
  <2>4. /\ DOMAIN c1.layers = DOMAIN config.layers
        /\ \A i \in DOMAIN config.layers : /\ c1.layers[i].name = config.layers[i].name
                                           /\ c1.layers[i].chords = config.layers[i].chords
    <3> DEFINE k == KeyTo(KeyOf[val.word])
               ls == config.layers
               m == [ls EXCEPT ![1].keymap[code] = k]
    <3>1. "layers" \in DOMAIN aliased
      BY <1>0 DEF ConfigType
    <3> HIDE DEF k, code, aliased
    <3>2. c1.layers = m
      <4>1. c1.layers = [aliased.layers EXCEPT ![1].keymap[code] = k]
        BY <3>1 DEF k
      <4> QED BY <2>3, <4>1
    <3>3. \A i \in DOMAIN ls : ls[i] \in Layer
      BY <1>0, LayerAt
    <3> HIDE DEF ls
    <3>4. DOMAIN m = DOMAIN ls
      OBVIOUS
    <3>5. ASSUME NEW i \in DOMAIN ls PROVE m[i].name = ls[i].name /\ m[i].chords = ls[i].chords
      <4>1. CASE i # 1
        BY <4>1
      <4>2. CASE i = 1
        <5> DEFINE l == ls[i]
        <5>1. m[i] = [l EXCEPT !.keymap[code] = k]
          BY <4>2
        <5>2. l \in Layer
          BY <3>3
        <5> HIDE DEF l, m
        <5>3. m[i].name = l.name /\ m[i].chords = l.chords
          BY <5>1, <5>2 DEF Layer
        <5> QED BY <5>3 DEF l
      <4> QED BY <4>1, <4>2
    <3> HIDE DEF m, c1
    <3> QED BY <3>2, <3>4, <3>5 DEF ls
  <2> HIDE DEF c1, aliased
  <2>5. Crash \/ Passes(Following)
    BY <2>2, <2>3, <2>4, SameLayersPass
  <2> QED BY <2>1, <2>5, PassProgress, CrashProgress
<1>4. CASE AddLayer
  <2>1. pc = "layers"
    BY <1>4 DEF AddLayer, Passing
  <2>2. Crash \/ (/\ Passes(NextSection)
                  /\ HasLayer(config', Section.name) \/ warnings < warnings')
    BY <1>4, AddLayerPass
  <2> QED BY <2>1, <2>2, PassProgress, CrashProgress
<1>5. CASE EndSection
  <2>1. pc = "layers" /\ Section.name \in Special /\ Pass(config, 0, NextSection)
    BY <1>5 DEF EndSection, Passing
  <2>2. Passes(NextSection)
    BY <2>1, SameLayersPass
  <2> QED BY <2>1, <2>2, PassProgress
<1>6. CASE EndLayers
  BY <1>6, EndLayersProgress
<1> QED BY <1>1, <1>2, <1>3, <1>4, <1>5, <1>6 DEF FirstPass

LEMMA AddEntryProgress ==
  ASSUME ConfigInv, Progress, AddEntry
  PROVE  Progress'
<1>1. /\ pc = "entries" /\ at[1] \in DOMAIN sections /\ Section.name \notin Special
      /\ at[2] \in DOMAIN Section.entries /\ at' = Following
      /\ UNCHANGED <<config, loaded, output, sections>>
  BY DEF AddEntry, Passing
<1>2. loaded = None /\ warnings \in Nat /\ config \in ConfigType
  BY <1>1, InvFacts DEF ConfigInv, Phases
<1>3. /\ at \in (Nat \ {0}) \X (Nat \ {0}) /\ Short(sections, Len(output))
      /\ warnings = 0 => LayersMade /\ Fulfilled(config, Turn)
  BY <1>1, <1>2 DEF Progress
<1>4. at' \in (Nat \ {0}) \X (Nat \ {0}) /\ Short(sections, Len(output))'
  BY <1>1, <1>3 DEF Following, Short
<1> DEFINE l == LayerIndex(config, Section.name)
<1>5. CASE Ent.val = NoVal \/ l = 0
  <2>1. Warned(1) /\ UNCHANGED pc
    BY <1>5 DEF AddEntry, Begin
  <2>2. warnings' # 0
    BY <1>2, <2>1 DEF Warned, Loading
  <2> QED BY <1>1, <1>4, <2>1, <2>2 DEF Progress
<1>6. CASE Ent.val # NoVal /\ l # 0
  <2>1. /\ task' = [layer |-> l, key |-> Ent.key, exp |-> Ent.val]
        /\ pc' = "parsing" /\ UNCHANGED warnings
    BY <1>6 DEF AddEntry, Begin
  <2>2. Turn = at /\ Turn' = at
    <3>1. Turn' = <<at'[1], at'[2] - 1>>
      BY <2>1 DEF Turn
    <3>2. at'[1] = at[1] /\ at'[2] - 1 = at[2]
      BY <1>1, <1>3 DEF Following
    <3>3. at = <<at[1], at[2]>>
      BY <1>3
    <3>4. Turn' = at
      BY <3>1, <3>2, <3>3
    <3> QED BY <1>1, <3>4 DEF Turn
  <2>3. config.layers[l].name = Section.name
    BY <1>2, <1>6, LayerIndexFound
  <2>4. Taken'
    <3>1. task'.layer = l /\ task'.key = Ent.key /\ task'.exp = Ent.val
      BY <2>1
    <3>2. At(Turn)' = Ent
      BY <1>1, <2>2 DEF At, Ent, Section
    <3>3. at'[1] = at[1] /\ at'[2] - 1 = at[2]
      BY <1>1, <1>3 DEF Following
    <3> HIDE DEF l
    <3> QED BY <1>1, <2>3, <3>1, <3>2, <3>3 DEF Taken, Section
  <2>5. warnings' = 0 => LayersMade' /\ Fulfilled(config, Turn)'
    <3>1. LayersMade => LayersMade'
      BY <1>1, <2>1 DEF LayersMade
    <3>2. Fulfilled(config, Turn) => Fulfilled(config', Turn')
      BY <1>1, <2>2
    <3>3. Fulfilled(config, Turn) => Fulfilled(config, Turn)'
      BY <1>1, <3>2, FulfilledNext
    <3> QED BY <1>3, <2>1, <3>1, <3>3
  <2> QED BY <1>4, <2>1, <2>4, <2>5 DEF Progress
<1> QED BY <1>5, <1>6

\* An entry of a layer, and its place.
LEMMA PlaceIs ==
  ASSUME ConfigInv, NEW w, NEW p \in LayerEntries(w)
  PROVE  /\ p = <<p[1], p[2]>> /\ p[1] \in DOMAIN sections /\ p[1] \in Nat \ {0} /\ p[2] \in Nat \ {0}
         /\ sections[p[1]].name = w /\ p[2] \in DOMAIN sections[p[1]].entries
         /\ DOMAIN sections[p[1]].entries = 1 .. Len(sections[p[1]].entries)
         /\ Len(sections[p[1]].entries) \in Nat
<1>1. PICK i \in DOMAIN sections, j \in 1 .. Len(output) : p = <<i, j>>
  BY DEF LayerEntries
<1>2. i \in Nat \ {0} /\ j \in Nat \ {0}
  BY InvFacts
<1>3. sections[i] \in SectionOf(output)
  <2> DEFINE S == SectionOf(output)
  <2>1. sections \in Seq(S)
    BY InvFacts
  <2> HIDE DEF S
  <2>2. sections[i] \in S
    BY <2>1
  <2> QED BY <2>2 DEF S
<1>4. /\ DOMAIN sections[i].entries = 1 .. Len(sections[i].entries)
      /\ Len(sections[i].entries) \in Nat
  <2> DEFINE E == Entries(output)
             s == sections[i].entries
  <2>1. s \in Seq(E)
    BY <1>3 DEF SectionOf
  <2> HIDE DEF E, s
  <2>2. DOMAIN s = 1 .. Len(s) /\ Len(s) \in Nat
    BY <2>1
  <2> QED BY <2>2 DEF s
<1> QED BY <1>1, <1>2, <1>4 DEF LayerEntries

LEMMA EndEntriesProgress ==
  ASSUME ConfigInv, Progress, EndEntries
  PROVE  Progress'
<1>1. /\ pc = "entries" /\ at[1] \in DOMAIN sections
      /\ Section.name \in Special \/ at[2] \notin DOMAIN Section.entries
      /\ Pass(config, 0, NextSection)
  BY DEF EndEntries, Passing
<1>2. loaded = None /\ warnings \in Nat
  BY <1>1, InvFacts DEF ConfigInv, Phases
<1>3. at' = NextSection /\ warnings' = warnings /\ UNCHANGED <<config, loaded, pc, output, sections, task>>
  BY <1>1, <1>2 DEF Pass
<1>4. /\ at \in (Nat \ {0}) \X (Nat \ {0}) /\ Short(sections, Len(output))
      /\ warnings = 0 => LayersMade /\ Fulfilled(config, at)
  BY <1>1, <1>2 DEF Progress, Turn
<1>5. at' \in (Nat \ {0}) \X (Nat \ {0}) /\ Short(sections, Len(output))'
  BY <1>3, <1>4 DEF NextSection, Short
<1>6. Turn' = NextSection
  BY <1>1, <1>3 DEF Turn
<1>7. Fulfilled(config, at) => Fulfilled(config, NextSection)
  <2> SUFFICES ASSUME Fulfilled(config, at), NEW i \in DOMAIN config.layers
               PROVE  Done(config, i, NextSection)
    BY DEF Fulfilled
  <2> DEFINE w == config.layers[i].name
  <2>1. Done(config, i, at)
    BY DEF Fulfilled
  <2>2. ASSUME w \notin Special, NEW p \in LayerEntries(w)
        PROVE  Before(p, at) <=> Before(p, NextSection)
    <3>1. /\ p[1] \in Nat \ {0} /\ p[2] \in Nat \ {0}
          /\ sections[p[1]].name = w /\ p[2] \in DOMAIN sections[p[1]].entries
          /\ DOMAIN sections[p[1]].entries = 1 .. Len(sections[p[1]].entries)
          /\ Len(sections[p[1]].entries) \in Nat
      BY PlaceIs
    <3> DEFINE a == at[1]
               b == at[2]
               x == p[1]
               y == p[2]
    <3>2. a \in Nat /\ b \in Nat \ {0} /\ NextSection[1] = a + 1 /\ NextSection[2] = 1
      BY <1>4 DEF NextSection
    <3>3. x = a => y < b
      <4> SUFFICES ASSUME x = a PROVE y < b
        OBVIOUS
      <4> DEFINE k == Len(sections[a].entries)
      <4>1. b \notin 1 .. k /\ y \in 1 .. k /\ k \in Nat
        BY <1>1, <2>2, <3>1 DEF Section
      <4> HIDE DEF k
      <4> QED BY <3>2, <4>1
    <3>4. x \in Nat \ {0} /\ y \in Nat \ {0}
      BY <3>1
    <3> HIDE DEF a, b, x, y
    <3>5. (x < a \/ (x = a /\ y < b)) <=> (x < a + 1 \/ (x = a + 1 /\ y < 1))
      BY <3>2, <3>3, <3>4
    <3> QED BY <3>2, <3>5 DEF Before, a, b, x, y
  <2> HIDE DEF w
  <2>3. w \notin Special => \A p \in LayerEntries(w) : Before(p, at) <=> Before(p, NextSection)
    BY <2>2
  <2> QED BY <2>1, <2>3, DoneMoves DEF w
<1>8. LayersMade => LayersMade'
  BY <1>1, <1>3 DEF LayersMade
<1>9. Fulfilled(config, at) => Fulfilled(config, Turn)'
  <2> SUFFICES ASSUME Fulfilled(config, at) PROVE Fulfilled(config, Turn)'
    OBVIOUS
  <2>1. Fulfilled(config', Turn')
    BY <1>3, <1>6, <1>7
  <2> QED BY <1>3, <2>1, FulfilledNext
<1> QED BY <1>1, <1>3, <1>4, <1>5, <1>8, <1>9 DEF Progress

\* The entry that is parsed, and the place where parsing goes on.
LEMMA TurnIs ==
  ASSUME ConfigInv, Progress, pc = "parsing", loaded = None
  PROVE  /\ Turn \in LayerEntries(config.layers[task.layer].name) /\ NextTo(Turn, at)
         /\ config.layers[task.layer].name \notin Special
         /\ task.key = At(Turn).key /\ task.exp = At(Turn).val
<1> DEFINE a == at[1]
           b == at[2]
           s == sections[a]
           w == config.layers[task.layer].name
           k == Len(s.entries)
<1>1. /\ at \in (Nat \ {0}) \X (Nat \ {0}) /\ Short(sections, Len(output)) /\ Taken
  BY DEF Progress
<1>2. /\ a \in DOMAIN sections /\ s.name \notin Special /\ b - 1 \in DOMAIN s.entries /\ w = s.name
      /\ task.key = At(Turn).key /\ task.exp = At(Turn).val
  BY <1>1 DEF Taken
<1>3. Turn = <<a, b - 1>> /\ a \in Nat \ {0} /\ b \in Nat \ {0} /\ at = <<a, b>>
  BY <1>1 DEF Turn
<1>4. DOMAIN s.entries = 1 .. k /\ k \in Nat
  <2>1. s \in SectionOf(output)
    <3> DEFINE S == SectionOf(output)
    <3>1. sections \in Seq(S)
      BY InvFacts
    <3> HIDE DEF S
    <3>2. s \in S
      BY <1>2, <3>1
    <3> QED BY <3>2 DEF S
  <2> DEFINE E == Entries(output)
             t == s.entries
  <2>2. t \in Seq(E)
    BY <2>1 DEF SectionOf
  <2> HIDE DEF E, t
  <2>3. DOMAIN t = 1 .. Len(t) /\ Len(t) \in Nat
    BY <2>2
  <2> QED BY <2>3 DEF t
<1>5. k <= Len(output) /\ Len(output) \in Nat
  BY <1>1, <1>2, InvFacts DEF Short
<1>6. b - 1 \in 1 .. k
  BY <1>2, <1>4
<1> HIDE DEF a, b, k
<1>7. b - 1 \in 1 .. Len(output)
  BY <1>3, <1>4, <1>5, <1>6
<1>8. Turn[1] = a /\ Turn[2] = b - 1
  BY <1>3
<1>9. Turn \in LayerEntries(w)
  BY <1>2, <1>3, <1>7, <1>8 DEF LayerEntries
<1>10. NextTo(Turn, at)
  <2>1. ~Before(Turn, Turn)
    BY <1>3, <1>8 DEF Before
  <2>2. ASSUME NEW x, NEW p \in LayerEntries(x)
        PROVE  Before(p, at) <=> Before(p, Turn) \/ p = Turn
    <3>1. p = <<p[1], p[2]>> /\ p[1] \in Nat \ {0} /\ p[2] \in Nat \ {0}
      BY PlaceIs
    <3> DEFINE i == p[1]
               j == p[2]
    <3>2. p = <<i, j>> /\ i \in Nat \ {0} /\ j \in Nat \ {0}
      BY <3>1
    <3> HIDE DEF i, j
    <3>3. p = Turn <=> i = a /\ j = b - 1
      BY <1>3, <3>2
    <3>4. Before(p, at) <=> i < a \/ (i = a /\ j < b)
      BY <1>3, <3>2 DEF Before
    <3>5. Before(p, Turn) <=> i < a \/ (i = a /\ j < b - 1)
      BY <1>8, <3>2 DEF Before
    <3>6. j < b <=> j < b - 1 \/ j = b - 1
      BY <1>3, <3>2
    <3> QED BY <3>3, <3>4, <3>5, <3>6
  <2> QED BY <2>1, <2>2 DEF NextTo
<1> QED BY <1>2, <1>9, <1>10

LEMMA ParsedProgress ==
  ASSUME ConfigInv, Progress, Parsed
  PROVE  Progress'
<1>1. /\ pc = "parsing" /\ UNCHANGED <<loaded, output, sections, at>> /\ warnings <= warnings'
      /\ GoesFurther \/ IsRefused \/ IsSet
  BY DEF Parsed, Advances
<1>2. CASE loaded # None
  BY <1>1, <1>2 DEF Progress
<1>3. CASE loaded = None
  <2>1. /\ at \in (Nat \ {0}) \X (Nat \ {0}) /\ Short(sections, Len(output)) /\ Taken
        /\ warnings = 0 => LayersMade /\ Fulfilled(config, Turn)
    BY <1>1, <1>3 DEF Progress
  <2>2. at' \in (Nat \ {0}) \X (Nat \ {0}) /\ Short(sections, Len(output))'
    BY <1>1, <2>1 DEF Short
  <2>3. Resume = "entries" /\ Loading
    BY <1>3 DEF Resume, Loading
  <2>4. warnings \in Nat /\ (warnings' = 0 => warnings = 0)
    BY <1>1, InvFacts
  <2>5. Whole(config) /\ config \in ConfigType /\ task.layer \in DOMAIN config.layers /\ task.key \in Word
    BY <1>1, InvFacts, ParsingFacts
  <2>6. CASE GoesFurther
    <3>1. /\ UNCHANGED <<pc, task>> /\ Whole(config') /\ GrowsFrom(config, config')
          /\ config'.layers = config.layers /\ config'.aliases = config.aliases
      BY <2>6 DEF GoesFurther, Grown
    <3>2. Turn' = Turn /\ At(Turn)' = At(Turn)
      BY <1>1, <3>1 DEF Turn, At
    <3>3. Taken'
      BY <1>1, <2>1, <3>1, <3>2 DEF Taken
    <3>4. LayersMade => LayersMade'
      BY <1>1, <3>1 DEF LayersMade, HasLayer
    <3>5. Fulfilled(config, Turn) => Fulfilled(config, Turn)'
      <4> SUFFICES ASSUME Fulfilled(config, Turn) PROVE Fulfilled(config', Turn')
        BY <1>1, FulfilledNext
      <4>1. \A i \in DOMAIN config.layers : Done(config', i, Turn)
        BY <2>5, <3>1, DoneKept DEF Fulfilled
      <4> QED BY <3>1, <3>2, <4>1 DEF Fulfilled
    <3> QED BY <1>1, <2>1, <2>2, <2>4, <3>1, <3>3, <3>4, <3>5 DEF Progress
  <2>7. CASE IsRefused
    <3>1. pc' = "entries" /\ warnings' > warnings
      BY <2>3, <2>7 DEF IsRefused
    <3>2. warnings' # 0
      BY <2>4, <3>1
    <3> QED BY <2>2, <3>1, <3>2 DEF Progress
  <2>8. CASE IsSet
    <3> DEFINE l == task.layer
               w == config.layers[l].name
    <3>1. PICK c, d : /\ Grown(config, c) /\ d \in Descriptor
                      /\ ValidDescriptor(c, d, Len(c.descriptors))
                      /\ Meaning(c, d) = Says[task.exp]
                      /\ Settable(c, l, task.key)
                      /\ config' = SetEntry(c, l, task.key, d)
      BY <2>8 DEF IsSet
    <3>2. /\ Whole(c) /\ GrowsFrom(config, c)
          /\ c.layers = config.layers /\ c.aliases = config.aliases
      BY <3>1 DEF Grown
    <3>3. /\ Turn \in LayerEntries(w) /\ NextTo(Turn, at) /\ w \notin Special
          /\ task.key = At(Turn).key /\ task.exp = At(Turn).val
      BY <1>1, <1>3, TurnIs
    <3>4. pc' = "entries" /\ Turn' = at
      BY <1>1, <2>3, <2>8 DEF IsSet, Turn
    <3>5. ASSUME warnings' = 0 PROVE LayersMade' /\ Fulfilled(config, Turn)'
      <4>1. LayersMade /\ Fulfilled(config, Turn)
        BY <2>1, <2>4, <3>5
      <4>2. Fulfilled(c, Turn)
        <5>1. \A i \in DOMAIN config.layers : Done(c, i, Turn)
          BY <2>5, <3>2, <4>1, DoneKept DEF Fulfilled
        <5> QED BY <3>2, <5>1 DEF Fulfilled
      <4>3. /\ l \in DOMAIN c.layers /\ Turn \in LayerEntries(c.layers[l].name)
            /\ At(Turn).key \in Word /\ Settable(c, l, At(Turn).key)
            /\ Meaning(c, d) = Says[At(Turn).val] /\ c.layers[l].name \notin Special
        BY <2>5, <3>1, <3>2, <3>3
      <4> HIDE DEF l, w
      <4>4. /\ Fulfilled(SetEntry(c, l, At(Turn).key, d), at)
            /\ \A x : HasLayer(c, x) => HasLayer(SetEntry(c, l, At(Turn).key, d), x)
        BY <3>1, <3>2, <3>3, <4>2, <4>3, FulfilledSets
      <4>5. config' = SetEntry(c, l, At(Turn).key, d)
        BY <3>1, <3>3
      <4>6. Fulfilled(config', Turn')
        BY <3>4, <4>4, <4>5
      <4>7. Fulfilled(config, Turn)'
        BY <1>1, <4>6, FulfilledNext
      <4>8. \A x : HasLayer(config, x) => HasLayer(config', x)
        BY <3>2, <4>4, <4>5 DEF HasLayer
      <4>9. LayersMade'
        BY <1>1, <3>4, <4>1, <4>8 DEF LayersMade
      <4> QED BY <4>7, <4>9
    <3> QED BY <2>2, <3>4, <3>5 DEF Progress
  <2> QED BY <1>1, <2>6, <2>7, <2>8
<1> QED BY <1>2, <1>3

LEMMA ProgressStep ==
  ASSUME ConfigInv, Progress, [Next]_vars
  PROVE  Progress'
<1>1. CASE UNCHANGED vars
  BY <1>1, CrashProgress
<1>2. CASE (\E l \in Line : ReadLine(l)) \/ EndOfFile
  BY <1>2, ReadingProgress
<1>3. CASE FirstPass
  BY <1>3, FirstPassProgress
<1>4. CASE stack # <<>> /\ Expression(Top.exp)
  BY <1>4, ExpressionStep, ParsedProgress
<1>5. CASE ParseArgument \/ EndCall
  BY <1>5, ParseArgumentStep, EndCallStep, ParsedProgress
<1>6. CASE AddEntry
  BY <1>6, AddEntryProgress
<1>7. CASE EndEntries
  BY <1>7, EndEntriesProgress
<1>8. CASE Loaded
  <2>1. loaded' # None
    BY <1>8, InvFacts DEF Loaded
  <2> QED BY <2>1 DEF Progress
<1>9. CASE (\E b \in Bind : Eval(b)) \/ Reset
  <2>1. pc = "ready" /\ loaded' = loaded
    BY <1>9 DEF Eval, Reset
  <2>2. loaded' # None
    BY <2>1 DEF ConfigInv, Phases
  <2> QED BY <2>2 DEF Progress
<1> QED BY <1>1, <1>2, <1>3, <1>4, <1>5, <1>6, <1>7, <1>8, <1>9 DEF Next, Parse

\* Behind the last section every entry is before at.
LEMMA ProgressCompletes ==
  ASSUME ConfigInv, Progress
  PROVE  Complete
<1> SUFFICES ASSUME pc = "entries", at[1] \notin DOMAIN sections, warnings = 0,
                    NEW s \in Members(sections), s.name \notin Special
             PROVE  /\ LayerIndex(config, s.name) # 0
                    /\ \A p \in LayerEntries(s.name) :
                         /\ \A code \in Code : BindsLast(s.name, p, code) =>
                              Meaning(config, config.layers[LayerIndex(config, s.name)].keymap[code]) =
                                Says[At(p).val]
                         /\ AloneWithChord(s.name, p) =>
                              \E h \in Members(config.layers[LayerIndex(config, s.name)].chords) :
                                /\ Members(h.keys) = ChordKeys(p)
                                /\ Meaning(config, h.d) = Says[At(p).val]
  BY Zenon DEF Complete
<1> DEFINE w == s.name
           n == LayerIndex(config, w)
           l == config.layers[n]
<1>1. loaded = None /\ config \in ConfigType
  BY InvFacts DEF ConfigInv, Phases
<1>2. at \in (Nat \ {0}) \X (Nat \ {0}) /\ LayersMade /\ Fulfilled(config, at)
  BY <1>1 DEF Progress, Turn
<1>3. PICK i \in DOMAIN sections : s = sections[i]
  BY DEF Members
<1>4. HasLayer(config, w)
  BY <1>2, <1>3 DEF LayersMade
<1>5. n # 0 /\ n \in DOMAIN config.layers /\ l.name = w
  <2>1. n # 0
    BY <1>1, <1>4, LayerIndexFound DEF HasLayer
  <2> QED BY <1>1, <2>1, LayerIndexFound
<1>6. KeysDone(config, l, at) /\ ChordsDone(config, l, at)
  BY <1>2, <1>5 DEF Fulfilled, Done
<1>7. \A p \in LayerEntries(w) : Before(p, at)
  <2> SUFFICES ASSUME NEW p \in LayerEntries(w) PROVE Before(p, at)
    OBVIOUS
  <2>1. p[1] \in DOMAIN sections
    BY PlaceIs
  <2>2. DOMAIN sections = 1 .. Len(sections) /\ Len(sections) \in Nat
    BY InvFacts
  <2>3. at[1] \in Nat \ {0}
    BY <1>2
  <2>4. p[1] < at[1]
    BY <2>1, <2>2, <2>3
  <2> QED BY <2>4 DEF Before
<1> HIDE DEF l, n, w
<1>8. ASSUME NEW p \in LayerEntries(w)
      PROVE  /\ \A code \in Code : BindsLast(w, p, code) =>
                  Meaning(config, l.keymap[code]) = Says[At(p).val]
             /\ AloneWithChord(w, p) => \E h \in Members(l.chords) :
                                          /\ Members(h.keys) = ChordKeys(p)
                                          /\ Meaning(config, h.d) = Says[At(p).val]
  <2>1. \A code \in Code : BindsLast(w, p, code) => LastBefore(config, w, p, code, at)
    BY DEF BindsLast, LastBefore
  <2>2. AloneWithChord(w, p) => \E m \in DOMAIN l.chords : ChordSays(config, l, m, p)
    BY <1>5, <1>6, <1>7, <1>8 DEF ChordsDone
  <2>3. \A m \in DOMAIN l.chords : l.chords[m] \in Members(l.chords)
    BY DEF Members
  <2>4. \A code \in Code : BindsLast(w, p, code) => Meaning(config, l.keymap[code]) = Says[At(p).val]
    BY <1>5, <1>6, <1>7, <1>8, <2>1 DEF KeysDone
  <2> QED BY <2>2, <2>3, <2>4 DEF ChordSays
<1> QED BY <1>5, <1>8 DEF l, n, w

-----------------------------------------------------------------------------
(* The theorems.                                                           *)

LEMMA ConfigInvariant == Spec => []ConfigInv
<1>1. ConfigInv /\ [Next]_vars => ConfigInv'
  BY ConfigStep
<1> QED BY <1>1, InitConfig, PTL DEF Spec

\* The state of the parser keeps its types, whatever files and binds are parsed.
THEOREM ConfigTyped == Spec => []TypeOK
<1>1. ConfigInv => TypeOK
  BY DEF ConfigInv
<1> QED BY <1>1, ConfigInvariant, PTL

\* Every index in a config names an entry of the table it is used with, no descriptor
\* contains itself, and no table exceeds its limit: what parse_descriptor and set_layer_entry
\* must keep, since keyboard.c looks indexes up without a check.
THEOREM ValidCorrect == Spec => []Valid
<1>1. ConfigInv => Valid
  BY WholeIsValid DEF ConfigInv
<1> QED BY <1>1, ConfigInvariant, PTL

\* config_check_match finds the first of the ids that list or exclude a device.
LEMMA MatchHonours == config \in ConfigType => IdsHonoured
<1> SUFFICES ASSUME config \in ConfigType, NEW d \in Device
             PROVE  LET listed == Listing(config, d)
                        excluded == Excluding(config, d)
                    IN  /\ Match(config, d) = 2 => listed # {}
                        /\ Match(config, d) = 1 => config.wildcard /\ listed = {} /\ excluded = {}
                        /\ excluded # {} /\ listed = {} => Match(config, d) = 0
                        /\ config.wildcard /\ excluded = {} => Match(config, d) > 0
                        /\ \A i \in listed, j \in excluded :
                             (i < j /\ \A k \in excluded : j <= k) => Match(config, d) = 2
  BY DEF IdsHonoured
<1> DEFINE ids == config.ids
           listed == Listing(config, d)
           excluded == Excluding(config, d)
           hits == {i \in DOMAIN ids : /\ ids[i].id = d.id
                                       /\ ids[i].flags \cap (d.flags \cup {"excluded"}) # {}}
           first == CHOOSE i \in hits : \A j \in hits : i <= j
           m == Match(config, d)
<1>1. DOMAIN ids \subseteq Nat
  BY ConfigFields
<1>2. /\ listed \cup excluded = hits /\ hits \in SUBSET Nat
      /\ \A i \in hits : i \in excluded <=> "excluded" \in ids[i].flags
  BY <1>1 DEF Listing, Excluding
<1>3. hits # {} => first \in hits /\ \A j \in hits : first <= j
  BY <1>2, LeastOf
<1>4. /\ hits # {} => m = IF "excluded" \in ids[first].flags THEN 0 ELSE 2
      /\ hits = {} /\ config.wildcard => m = 1
      /\ hits = {} /\ ~config.wildcard => m = 0
  BY DEF Match
<1> HIDE DEF listed, excluded, hits, first, m, ids
<1>5. m = 2 => listed # {}
  BY <1>2, <1>3, <1>4
<1>6. m = 1 => config.wildcard /\ listed = {} /\ excluded = {}
  BY <1>2, <1>3, <1>4
<1>7. excluded # {} /\ listed = {} => m = 0
  BY <1>2, <1>3, <1>4
<1>8. config.wildcard /\ excluded = {} => m > 0
  <2>1. ASSUME config.wildcard, excluded = {} PROVE m = 1 \/ m = 2
    <3>1. CASE hits = {}
      BY <1>4, <2>1, <3>1
    <3>2. CASE hits # {}
      BY <1>2, <1>3, <1>4, <2>1, <3>2
    <3> QED BY <3>1, <3>2
  <2> QED BY <2>1
<1>9. ASSUME NEW i \in listed, NEW j \in excluded, i < j, \A k \in excluded : j <= k PROVE m = 2
  <2>1. i \in hits /\ first \in hits /\ first <= i
    BY <1>2, <1>3
  <2>2. first \notin excluded
    <3>1. i \in Nat /\ j \in Nat /\ first \in Nat
      BY <1>2, <2>1
    <3>2. first \in excluded => j <= first
      BY <1>9
    <3> QED BY <1>9, <2>1, <3>1, <3>2
  <2> QED BY <1>2, <1>4, <2>1, <2>2
<1> QED BY <1>5, <1>6, <1>7, <1>8, <1>9 DEF listed, excluded, m

\* A device is managed only if it is listed, or not excluded while there is a wildcard.
THEOREM IdsCorrect == Spec => []IdsHonoured
<1>1. ConfigInv => IdsHonoured
  BY MatchHonours DEF ConfigInv, TypeOK
<1> QED BY <1>1, ConfigInvariant, PTL

LEMMA ProgressInvariant == Spec => [](ConfigInv /\ Progress)
<1>1. ConfigInv /\ Progress /\ [Next]_vars => (ConfigInv /\ Progress)'
  BY ConfigStep, ProgressStep
<1> QED BY <1>1, InitConfig, InitProgress, PTL DEF Spec

\* A file that config_parse accepts without a warning has taken effect as a whole: each of
\* its sections has a layer, and each key and each chord that no other overlaps does what the
\* last entry for it says, whatever the file includes and in whatever order.
THEOREM CompleteCorrect == Spec => []Complete
<1>1. ConfigInv /\ Progress => Complete
  BY ProgressCompletes
<1> QED BY <1>1, ProgressInvariant, PTL

\* config.c implements Bindings, but for the answers that Bindings promises in the end: each
\* step of the parser is one that Bindings allows or changes nothing that Bindings knows.
\* So an entry is granted or refused as a whole, whatever its arguments left in the tables.
THEOREM PromiseKept == Spec => Promised!Init /\ [][Promised!Next]_Promised!vars
<1>1. ConfigInv /\ [Next]_vars => [Promised!Next]_Promised!vars
  BY ConfigStep DEF Promise
<1> QED BY <1>1, InitPromised, ConfigInvariant, PTL DEF Spec

-----------------------------------------------------------------------------
(* Where warnings are given: site is the place of the entry that is parsed. *)

PlaceOf(o) == Place(o.path, o.at)
Sited ==
  loaded = None => /\ pc = "layers" => site = None
                   /\ pc = "parsing" => site = PlaceOf(output[At(Turn).lnum])

\* An entry of a section stands where the line of output it was made of comes from.
LEMMA EntryStands ==
  ASSUME ConfigInv, NEW s \in Members(sections), NEW ent \in Members(s.entries)
  PROVE  \E l \in Standing(PlaceOf(output[ent.lnum]), file) : Gives(l, ent.key, ent.val)
<1>1. s \in SectionOf(output)
  <2> DEFINE S == SectionOf(output)
  <2>1. sections \in Seq(S)
    BY InvFacts
  <2> HIDE DEF S
  <2>2. PICK i \in DOMAIN sections : s = sections[i]
    BY DEF Members
  <2>3. s \in S
    BY <2>1, <2>2
  <2> QED BY <2>3 DEF S
<1>2. ent \in Entries(output)
  <2> DEFINE E == Entries(output)
  <2>1. s.entries \in Seq(E)
    BY <1>1 DEF SectionOf
  <2> HIDE DEF E
  <2>2. PICK j \in DOMAIN s.entries : ent = s.entries[j]
    BY DEF Members
  <2>3. ent \in E
    BY <2>1, <2>2
  <2> QED BY <2>3 DEF E
<1>3. PICK n \in Filing(output) : ent = Entry(output[n].line, n)
  BY <1>2 DEF Entries
<1> DEFINE o == output[n]
<1>4. ent.lnum = n /\ n \in DOMAIN output /\ o.line.kind \notin {"blank", "header"}
  BY <1>3 DEF Entry, Filing
<1>5. Gives(o.line, ent.key, ent.val)
  BY <1>3, <1>4 DEF Gives, Entry
<1>6. ComesFrom(file, o)
  BY <1>4 DEF ConfigInv, Texts
<1>7. PlaceOf(o).file = o.path /\ PlaceOf(o).line = o.at
  BY DEF PlaceOf, Place
<1> HIDE DEF o
<1>8. CASE o.path # None
  <2>1. o.line \in Standing(PlaceOf(o), file)
    BY <1>6, <1>7, <1>8 DEF Standing, ComesFrom
  <2> QED BY <1>4, <1>5, <2>1 DEF o
<1>9. CASE o.path = None
  <2>1. PICK p \in DOMAIN file : file[p] = o.line /\ p = o.at + 1 + SomeIncludes(file, p)
    BY <1>6, <1>9 DEF ComesFrom
  <2>2. file \in Seq(Line) /\ DOMAIN file = 1 .. Len(file) /\ Len(file) \in Nat
    BY InvFacts
  <2>3. ~Uncounted(file[p])
    BY <1>6, <1>9, <2>1 DEF ComesFrom, Uncounted
  <2>4. {m \in 1 .. p : Uncounted(file[m])} = {m \in 1 .. p - 1 : Uncounted(file[m])}
    BY <2>2, <2>3
  <2>5. p = o.at + 1 + Cardinality({m \in 1 .. p - 1 : Uncounted(file[m])})
    BY <2>1, <2>4 DEF SomeIncludes
  <2>6. o.line \in Standing(PlaceOf(o), file)
    BY <1>7, <1>9, <2>1, <2>5 DEF Standing
  <2> QED BY <1>4, <1>5, <2>6 DEF o
<1> QED BY <1>8, <1>9

LEMMA TurnStands ==
  ASSUME ConfigInv, NEW w, NEW p \in LayerEntries(w)
  PROVE  \E l \in Standing(PlaceOf(output[At(p).lnum]), file) : Gives(l, At(p).key, At(p).val)
<1>1. p[1] \in DOMAIN sections /\ p[2] \in DOMAIN sections[p[1]].entries
  BY PlaceIs
<1>2. sections[p[1]] \in Members(sections) /\ At(p) \in Members(sections[p[1]].entries)
  BY <1>1 DEF Members, At
<1> QED BY <1>2, EntryStands

\* A step of parse_descriptor leaves the place of warnings alone, and counts none of a bind.
LEMMA ParsingKeepsSite ==
  ASSUME ConfigInv, Expression(Top.exp) \/ ParseArgument \/ EndCall
  PROVE  UNCHANGED <<site, file>> /\ (loaded # None => warnings' = warnings)
<1> DEFINE e == Top.exp
<1>1. \/ ParseNothing(e) \/ ParseKey(e) \/ ParseCommand(e) \/ ParseMacro(e) \/ ParseUnknown(e)
      \/ ParseTooMany(e) \/ ExpandLettermod(e) \/ ParseCall(e) \/ ParseArgument \/ EndCall
  BY DEF Expression
<1>2. Elsewhere \/ Crash => UNCHANGED <<site, file>>
  BY DEF Elsewhere, Crash
<1>3. ASSUME loaded # None, NEW c, NEW n, Refuse(c, n) PROVE warnings' = warnings
  BY <1>3 DEF Refuse, Warned, Loading
<1>4. ASSUME loaded # None, NEW c, NEW d, NEW n, Yield(c, d, n) PROVE warnings' = warnings
  BY <1>3, <1>4 DEF Yield, Warned, Loading
<1>5. ASSUME NEW c, NEW n, Argument(c, n) PROVE warnings' = warnings
  BY <1>5 DEF Argument
<1> HIDE DEF e
<1>6. CASE ParseNothing(e)
  BY <1>2, <1>4, <1>6 DEF ParseNothing
<1>7. CASE ParseKey(e)
  BY <1>2, <1>4, <1>7, Zenon DEF ParseKey
<1>8. CASE ParseCommand(e)
  BY <1>2, <1>3, <1>4, <1>8, Zenon DEF ParseCommand
<1>9. CASE ParseMacro(e)
  BY <1>2, <1>3, <1>4, <1>9, Zenon DEF ParseMacro
<1>10. CASE ParseUnknown(e)
  BY <1>2, <1>3, <1>10 DEF ParseUnknown
<1>11. CASE ParseTooMany(e)
  BY <1>2, <1>11 DEF ParseTooMany, Crash
<1>12. CASE ExpandLettermod(e)
  BY <1>2, <1>12 DEF ExpandLettermod
<1>13. CASE ParseCall(e)
  <2>1. Elsewhere
    BY <1>13 DEF ParseCall
  <2>2. ASSUME loaded # None PROVE warnings' = warnings
    BY <1>3, <1>13, <2>2, Zenon DEF ParseCall, Warned, Loading
  <2> QED BY <1>2, <2>1, <2>2
<1>14. CASE ParseArgument
  <2>1. Elsewhere
    BY <1>14 DEF ParseArgument
  <2>2. ASSUME loaded # None PROVE warnings' = warnings
    <3> DEFINE type == Types(Top.exp.fn)[Top.left]
               arg == Top.exp.args[Top.left]
               c1 == [config EXCEPT !.macros = Append(@, arg)]
    <3>1. \/ Argument(config, NamedLayer(arg)) \/ Refuse(config, 0)
          \/ UNCHANGED <<config, pc, task, warnings>> \/ Argument(config, NumberOf(arg))
          \/ Argument(c1, Len(config.macros) + 1)
      <4>1. type \in ArgType
        BY <1>14, OpenedFacts DEF ParseArgument
      <4>2. type \in {"layer", "layout"} \/ type \in {"descriptor", "keysequence"}
            \/ type \in {"timeout", "sensitivity"} \/ type = "macro"
        BY <4>1 DEF ArgType
      <4> QED BY <1>14, <4>2, Zenon DEF ParseArgument
    <3> HIDE DEF type, arg, c1
    <3> QED BY <1>3, <1>5, <2>2, <3>1
  <2> QED BY <1>2, <2>1, <2>2
<1>15. CASE EndCall
  BY <1>2, <1>4, <1>15 DEF EndCall
<1> QED BY <1>1, <1>6, <1>7, <1>8, <1>9, <1>10, <1>11, <1>12, <1>13, <1>14, <1>15

\* The entry that is taken up gives the place.
LEMMA AddEntrySites ==
  ASSUME ConfigInv, Progress, AddEntry
  PROVE  /\ pc = "entries" /\ loaded = None /\ UNCHANGED <<loaded, output, file, sections>>
         /\ at \in LayerEntries(Section.name) /\ Ent = At(at)
         /\ site' = PlaceOf(output[At(at).lnum])
         /\ pc' \in {"entries", "parsing"} /\ (pc' = "parsing" => Turn' = at)
<1>1. /\ pc = "entries" /\ at[1] \in DOMAIN sections /\ at[2] \in DOMAIN Section.entries
      /\ at' = Following /\ UNCHANGED <<loaded, output, file, sections>>
      /\ site' = PlaceOf(output[Ent.lnum])
  BY DEF AddEntry, Passing, PlaceOf
<1>2. loaded = None
  BY <1>1 DEF ConfigInv, Phases
<1>3. at \in (Nat \ {0}) \X (Nat \ {0}) /\ Short(sections, Len(output))
  BY <1>2 DEF Progress
<1>4. Ent = At(at)
  BY DEF Ent, At, Section
<1>5. at \in LayerEntries(Section.name)
  <2> DEFINE a == at[1]
             b == at[2]
             k == Len(sections[a].entries)
  <2>1. DOMAIN sections[a].entries = 1 .. k /\ k \in Nat /\ k <= Len(output) /\ Len(output) \in Nat
    <3>1. sections[a] \in SectionOf(output)
      <4> DEFINE S == SectionOf(output)
      <4>1. sections \in Seq(S)
        BY InvFacts
      <4> HIDE DEF S
      <4>2. sections[a] \in S
        BY <1>1, <4>1
      <4> QED BY <4>2 DEF S
    <3> DEFINE E == Entries(output)
               t == sections[a].entries
    <3>2. t \in Seq(E)
      BY <3>1 DEF SectionOf
    <3> HIDE DEF E, t
    <3>3. DOMAIN t = 1 .. Len(t) /\ Len(t) \in Nat
      BY <3>2
    <3>4. Len(t) <= Len(output) /\ Len(output) \in Nat
      BY <1>1, <1>3, InvFacts DEF Short, t
    <3> QED BY <3>3, <3>4 DEF t
  <2>2. at = <<a, b>> /\ b \in 1 .. k
    BY <1>1, <1>3, <2>1 DEF Section
  <2>3. b \in 1 .. Len(output)
    BY <2>1, <2>2
  <2> QED BY <1>1, <2>2, <2>3 DEF LayerEntries, Section
<1>6. pc' \in {"entries", "parsing"}
  BY <1>1 DEF AddEntry, Begin
<1>7. pc' = "parsing" => Turn' = at
  <2>1. at'[1] = at[1] /\ at'[2] - 1 = at[2] /\ at = <<at[1], at[2]>>
    BY <1>1, <1>3 DEF Following
  <2> QED BY <2>1 DEF Turn
<1> QED BY <1>1, <1>2, <1>4, <1>5, <1>6, <1>7

LEMMA FirstPassKeepsSite ==
  ASSUME FirstPass
  PROVE  /\ pc = "layers" /\ UNCHANGED <<site, loaded>> /\ pc' \in {"layers", "entries"}
<1>1. CASE EndLayers
  BY <1>1 DEF EndLayers
<1>2. CASE ParseId \/ ParseAlias \/ ParseOption \/ AddLayer \/ EndSection
  <2>1. pc = "layers"
    BY <1>2 DEF ParseId, ParseAlias, ParseOption, AddLayer, EndSection, InSection, Passing
  <2>2. ASSUME NEW c, NEW n, NEW then, Pass(c, n, then) PROVE UNCHANGED <<site, loaded, pc>>
    BY <2>2 DEF Pass
  <2>3. Crash => UNCHANGED <<site, loaded, pc>>
    BY DEF Crash
  <2>4. ASSUME ParseId PROVE UNCHANGED <<site, loaded, pc>>
    BY <2>2, <2>3, <2>4, Zenon DEF ParseId
  <2>5. ASSUME ParseAlias PROVE UNCHANGED <<site, loaded, pc>>
    BY <2>2, <2>3, <2>5, Zenon DEF ParseAlias
  <2>6. ASSUME ParseOption PROVE UNCHANGED <<site, loaded, pc>>
    BY <2>2, <2>3, <2>6, Zenon DEF ParseOption
  <2>7. ASSUME AddLayer PROVE UNCHANGED <<site, loaded, pc>>
    BY <2>2, <2>3, <2>7, Zenon DEF AddLayer
  <2>8. ASSUME EndSection PROVE UNCHANGED <<site, loaded, pc>>
    BY <2>2, <2>8 DEF EndSection
  <2> QED BY <1>2, <2>1, <2>4, <2>5, <2>6, <2>7, <2>8
<1> QED BY <1>1, <1>2 DEF FirstPass

LEMMA SitedStep ==
  ASSUME ConfigInv, Progress, Sited, [Next]_vars
  PROVE  Sited'
<1>1. CASE UNCHANGED vars
  <2>1. UNCHANGED <<loaded, pc, site, output, sections, at>>
    BY <1>1 DEF vars
  <2> QED BY <2>1 DEF Sited, Turn, At
<1>2. CASE \E l \in Line : ReadLine(l)
  BY <1>2 DEF ReadLine, Sited
<1>3. CASE EndOfFile
  BY <1>3 DEF EndOfFile, Sited
<1>4. CASE FirstPass
  BY <1>4, FirstPassKeepsSite DEF Sited
<1>5. CASE (stack # <<>> /\ Expression(Top.exp)) \/ ParseArgument \/ EndCall
  <2>1. Advances /\ UNCHANGED site
    BY <1>5, ExpressionStep, ParseArgumentStep, EndCallStep, ParsingKeepsSite DEF Parsed
  <2>2. /\ pc = "parsing" /\ UNCHANGED <<loaded, output, sections, at, site>>
        /\ pc' \in {"parsing", Resume}
    BY <2>1 DEF Advances, GoesFurther, IsRefused, IsSet
  <2>3. pc' # "layers"
    BY <2>2 DEF Resume
  <2>4. pc' = "parsing" => Turn' = Turn /\ At(Turn)' = At(Turn)
    BY <2>2 DEF Turn, At
  <2> QED BY <2>2, <2>3, <2>4 DEF Sited
<1>6. CASE AddEntry
  <2>1. pc' = "parsing" => At(Turn)' = At(at)
    BY <1>6, AddEntrySites DEF At
  <2> QED BY <1>6, <2>1, AddEntrySites DEF Sited
<1>7. CASE EndEntries
  BY <1>7 DEF EndEntries, Passing, Pass, Sited
<1>8. CASE Loaded
  BY <1>8, InvFacts DEF Loaded, Sited
<1>9. CASE (\E b \in Bind : Eval(b)) \/ Reset
  <2>1. pc = "ready" /\ loaded' = loaded
    BY <1>9 DEF Eval, Reset
  <2>2. loaded' # None
    BY <2>1 DEF ConfigInv, Phases
  <2> QED BY <2>2 DEF Sited
<1> QED BY <1>1, <1>2, <1>3, <1>4, <1>5, <1>6, <1>7, <1>8, <1>9 DEF Next, Parse

\* What Attributed says of a step.
Attribution ==
  CASE pc = "reading" /\ pc' = "reading" -> file'[Len(file')] \in Standing(site', file')
    [] pc = "entries" -> \E l \in Standing(site', file) : Gives(l, Ent.key, Ent.val)
    [] pc = "parsing" -> \E l \in Standing(site', file) : Gives(l, task.key, task.exp)
    [] OTHER -> site' = None

\* An include that is missing is the last line read.
LEMMA MissingStands ==
  ASSUME ConfigInv, NEW l \in Line, ReadLine(l)
  PROVE  file'[Len(file')] \in Standing(site', file')
<1> DEFINE n == Len(file)
<1>1. pc = "reading" /\ file' = Append(file, l) /\ site' = Place(None, lineno)
  BY DEF ReadLine
<1>2. /\ file \in Seq(Line) /\ n \in Nat /\ lineno \in Nat /\ lineno + SomeIncludes(file, n) = n
      /\ SomeIncludes(file, n) \in Nat
  BY InvFacts, CountedTyped DEF ConfigInv, Texts
<1>3. /\ Len(file') = n + 1 /\ DOMAIN file' = 1 .. n + 1
      /\ \A m \in 1 .. n : file'[m] = file[m]
  BY <1>1, <1>2
<1> HIDE DEF n
<1>4. {m \in 1 .. (n + 1) - 1 : Uncounted(file'[m])} = {m \in 1 .. n : Uncounted(file[m])}
  BY <1>2, <1>3
<1> DEFINE k == Cardinality({m \in 1 .. (n + 1) - 1 : Uncounted(file'[m])})
<1>5. n + 1 = lineno + 1 + k
  <2>1. k = SomeIncludes(file, n)
    BY <1>4 DEF SomeIncludes
  <2> HIDE DEF k
  <2> QED BY <1>2, <2>1
<1>6. site'.file = None /\ site'.line = lineno
  BY <1>1 DEF Place
<1>7. n + 1 \in DOMAIN file'
  BY <1>2, <1>3
<1> QED BY <1>3, <1>5, <1>6, <1>7 DEF Standing

LEMMA AttributionStep ==
  ASSUME ConfigInv, Progress, Sited, Next, warnings' > warnings
  PROVE  Attribution
<1>0. warnings \in Nat
  BY InvFacts
<1>1. CASE \E l \in Line : ReadLine(l)
  <2>1. pc = "reading" /\ pc' = "reading"
    BY <1>1 DEF ReadLine
  <2> QED BY <1>1, <2>1, MissingStands DEF Attribution
<1>2. CASE EndOfFile
  <2>1. pc = "reading" /\ pc' # "reading" /\ site' = None
    BY <1>2 DEF EndOfFile
  <2> QED BY <2>1 DEF Attribution
<1>3. CASE FirstPass
  <2>1. pc = "layers" /\ site' = site
    BY <1>3, FirstPassKeepsSite
  <2>2. site = None
    BY <2>1 DEF Sited, ConfigInv, Phases
  <2> QED BY <2>1, <2>2 DEF Attribution
<1>4. CASE (stack # <<>> /\ Expression(Top.exp)) \/ ParseArgument \/ EndCall
  <2>1. UNCHANGED <<site, file>> /\ (loaded # None => warnings' = warnings)
    BY <1>4, ParsingKeepsSite
  <2>2. pc = "parsing"
    BY <1>4, ExpressionStep, ParseArgumentStep, EndCallStep DEF Parsed, Advances
  <2>3. loaded = None
    BY <1>0, <2>1
  <2>4. /\ Turn \in LayerEntries(config.layers[task.layer].name)
        /\ task.key = At(Turn).key /\ task.exp = At(Turn).val
    BY <2>2, <2>3, TurnIs
  <2>5. \E l \in Standing(site', file) : Gives(l, task.key, task.exp)
    BY <2>1, <2>2, <2>3, <2>4, TurnStands DEF Sited
  <2> QED BY <2>2, <2>5 DEF Attribution
<1>5. CASE AddEntry
  <2>1. \E l \in Standing(site', file) : Gives(l, Ent.key, Ent.val)
    BY <1>5, AddEntrySites, TurnStands
  <2> QED BY <1>5, <2>1, AddEntrySites DEF Attribution
<1>6. CASE EndEntries
  BY <1>0, <1>6 DEF EndEntries, Pass
<1>7. CASE Loaded
  BY <1>0, <1>7 DEF Loaded
<1>8. CASE \E b \in Bind : Eval(b)
  <2>1. loaded # None
    BY <1>8 DEF Eval, ConfigInv, Phases
  <2>2. warnings' = warnings
    BY <1>8, <2>1 DEF Eval, Begin, Warned, Loading
  <2> QED BY <1>0, <2>2
<1>9. CASE Reset
  BY <1>0, <1>9 DEF Reset
<1> QED BY <1>1, <1>2, <1>3, <1>4, <1>5, <1>6, <1>7, <1>8, <1>9 DEF Next, Parse

LEMMA SitedInvariant == Spec => [](ConfigInv /\ Progress /\ Sited)
<1>1. Init => Sited
  BY DEF Init, Sited
<1>2. ConfigInv /\ Progress /\ Sited /\ [Next]_vars => (ConfigInv /\ Progress /\ Sited)'
  BY ConfigStep, ProgressStep, SitedStep
<1> QED BY <1>1, <1>2, InitConfig, InitProgress, PTL DEF Spec

\* A warning that names a file and a line names the line it is about, whatever includes and
\* comments come before it; those of the first pass name none.
THEOREM AttributedCorrect == Spec => Attributed
<1>1. ConfigInv /\ Progress /\ Sited /\ [Next]_vars =>
        [warnings' > warnings => Attribution]_vars
  BY AttributionStep
<1>2. Spec => [][warnings' > warnings => Attribution]_vars
  BY <1>1, SitedInvariant, PTL DEF Spec
<1> QED BY <1>2 DEF Attributed, Attribution
=============================================================================
