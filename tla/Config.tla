------------------------------- MODULE Config -------------------------------
(***************************************************************************)
(* src/src/config.c and src/src/ini.c: how a config file becomes a struct  *)
(* config, and how a bind of a running daemon changes it.  A file is read, *)
(* its includes put in place of the lines that name them; a first pass     *)
(* over its sections makes the layers, a second one parses each entry.     *)
(* Parsing an entry is recursive: an action may have actions as arguments, *)
(* which go to tables of the config and are referred to by index.  stack   *)
(* holds one frame per activation of parse_descriptor, innermost first.    *)
(*                                                                         *)
(* Abstracted: strings are words, what the parsing functions make of each  *)
(* is a constant; a right-hand side comes as the tree its parentheses      *)
(* describe; modifiers of layers and key sequences and the limits on the   *)
(* length of names, lines and files are left out.  Tables count from 1.    *)
(* broken says that the program was stopped by an assertion or has no      *)
(* defined behaviour any more.                                             *)
(***************************************************************************)
EXTENDS Integers, Sequences, SequencesExt

CONSTANTS
  Code, NoCode,      \* key codes, and the absence of one
  Word,              \* names of keys, layers, files, options; numbers
  KeyOf,             \* [Word -> Code or NoCode]: lookup_keycode
  SequenceOf,        \* [Word -> Code or NoCode]: parse_key_sequence
  Glyph,             \* words of one character
  Number,            \* [Word -> Nat]: atoi
  Parts,             \* [Word -> Seq(Word)]: the word, split at every +
  Exp,               \* right-hand sides and their arguments
  Depth,             \* [Exp -> Nat]: how deep an expression nests actions
  Line,              \* lines a file may have
  Bind,              \* entries that clients bind
  Included,          \* [Word -> a file: its status and lines]
  Option,            \* the names of global options
  IdName, IdFlags,   \* [Word -> Word], [Word -> SUBSET Kind]: what a line of [ids] matches
  Device,            \* devices: their id and flags
  NoVal,             \* the value of a line without =
  None,
  MaxLayers, MaxDescriptors, MaxMacros, MaxCommands, MaxChords, MaxChordKeys,
  MaxConstituents, MaxMacroSize, MaxSections, MaxIds, MaxArgs,   \* limits of the tables
  MaxLines           \* bound: lines of the file that is loaded

Kind == {"mouse", "keyboard", "key", "excluded", "wildcard"}

(* An expression: a word, macro(...) with its size, command(...), or an    *)
(* action with its arguments.                                              *)
IsExp(e) ==
  \/ e.kind = "word" /\ e.word \in Word
  \/ e.kind = "macro" /\ e.size \in Nat
  \/ e.kind = "call" /\ e.args \in Seq(Exp)
  \/ e.kind \in {"command", "empty"}

Empty      == [kind |-> "empty"]
AWord(w)   == [kind |-> "word", word |-> w]
Call(f, a) == [kind |-> "call", fn |-> f, args |-> a]

VARIABLES config, loaded, pc, file, output, lineno, sections, at, task, stack, warnings, broken,
          site   \* current_file and current_line: the place a warning names, None for none
vars == <<config, loaded, pc, file, output, lineno, sections, at, task, stack, warnings, broken, site>>

-----------------------------------------------------------------------------
(* The table of actions, with the arguments each takes.                    *)

ArgTypes ==
  [swap      |-> <<"layer">>,          clear     |-> <<>>,
   oneshot   |-> <<"layer">>,          toggle    |-> <<"layer">>,
   clearm    |-> <<"macro">>,          swapm     |-> <<"layer", "macro">>,
   togglem   |-> <<"layer", "macro">>, layerm    |-> <<"layer", "macro">>,
   oneshotm  |-> <<"layer", "macro">>, oneshotk  |-> <<"layer", "keysequence">>,
   layer     |-> <<"layer">>,          overload  |-> <<"layer", "descriptor">>,
   overloadt  |-> <<"layer", "descriptor", "timeout">>,
   overloadt2 |-> <<"layer", "descriptor", "timeout">>,
   overloadi  |-> <<"descriptor", "descriptor", "timeout">>,
   timeout    |-> <<"descriptor", "timeout", "descriptor">>,
   macro2     |-> <<"timeout", "timeout", "macro">>,
   setlayout  |-> <<"layout">>,        repeat    |-> <<>>,
   scrollon   |-> <<"sensitivity">>,   scrolloff |-> <<>>,
   scrollt    |-> <<"sensitivity">>,   scroll    |-> <<"sensitivity">>]

Renamed == [overload2 |-> "overloadt", overload3 |-> "overloadt2",
            toggle2   |-> "togglem",   swap2     |-> "swapm"]

Known(f)  == f \in DOMAIN ArgTypes \cup DOMAIN Renamed
OpOf(f)   == IF f \in DOMAIN Renamed THEN Renamed[f] ELSE f
Types(f)  == ArgTypes[OpOf(f)]

\* lettermod(layer, key, idle, hold) is written out and parsed again.
IsLettermod(e) == e.kind = "call" /\ e.fn = "lettermod"
Lettermod(a)   == Call("overloadi", <<a[2], Call("overloadt2", <<a[1], a[2], a[4]>>), a[3]>>)

ASSUME ConfigAssumption ==
  /\ NoCode \notin Code
  /\ KeyOf \in [Word -> Code \cup {NoCode}] /\ SequenceOf \in [Word -> Code \cup {NoCode}]
  /\ Glyph \subseteq Word /\ Number \in [Word -> Nat] /\ Parts \in [Word -> Seq(Word)]
  /\ \A e \in Exp : IsExp(e)
  /\ Empty \in Exp
  /\ \A b \in Bind : b.layer \in Word /\ b.key \in Word /\ b.exp \in Exp
  /\ IdName \in [Word -> Word] /\ IdFlags \in [Word -> SUBSET Kind]
  /\ \A d \in Device : d.id \in Word /\ d.flags \subseteq Kind
  /\ NoVal \notin Exp

\* What parse_descriptor calls itself with nests less than what it was called with.
ASSUME NestingAssumption ==
  /\ Depth \in [Exp -> Nat]
  /\ \A e \in Exp : e.kind = "call" => \A i \in DOMAIN e.args : Depth[e.args[i]] < Depth[e]
  /\ \A e \in Exp : IsLettermod(e) /\ Len(e.args) = 4 =>
       Lettermod(e.args) \in Exp /\ Depth[Lettermod(e.args)] < Depth[e]

IsLine(l) == /\ l.kind \in {"blank", "header", "entry", "include"}
             /\ l.kind = "header"  => l.name \in Word /\ l.type \in {"none", "mods", "layout", "bogus"}
             /\ l.kind = "entry"   => l.key \in Word /\ l.val \in Exp \cup {NoVal}
             /\ l.kind = "include" => l.word \in Word

\* The lines of the file and of what it includes.
Written == Line \cup UNION {ToSet(Included[w].lines) : w \in Word}

ASSUME LineAssumption ==
  /\ \A l \in Written : IsLine(l)
  /\ \A w \in Word : Included[w].lines \in Seq(Written)
  /\ None \notin Word

ASSUME LimitAssumption ==
  /\ {MaxDescriptors, MaxMacros, MaxCommands, MaxChords, MaxChordKeys, MaxConstituents,
      MaxMacroSize, MaxSections, MaxIds, MaxArgs, MaxLines} \subseteq Nat
  /\ MaxLayers \in Nat /\ MaxLayers >= 6

\* A modifier's key, bound directly, means its layer.
ModifierLayer == [leftshift |-> "shift", leftcontrol |-> "control", leftmeta |-> "meta",
                  leftalt |-> "alt", rightalt |-> "altgr"]

\* Options are long, the arguments of a descriptor 16 bits wide.
ValueOf(e)  == IF e.kind = "word" THEN Number[e.word] ELSE 0
NumberOf(e) == ValueOf(e) % (2 ^ 16)

\* parse_macro_expression: what it accepts, and whether that fits a macro.
IsMacro(e)   == \/ e.kind = "macro"
                \/ e.kind = "word" /\ (SequenceOf[e.word] # NoCode \/ e.word \in Glyph)
MacroFits(e) == e.kind = "macro" => e.size <= MaxMacroSize

-----------------------------------------------------------------------------
(* The config.                                                             *)

Unbound   == [op |-> "none", code |-> NoCode, args |-> <<>>]
KeyTo(c)  == [op |-> "keysequence", code |-> c, args |-> <<>>]
LayerTo(i) == [op |-> "layer", code |-> NoCode, args |-> <<i>>]

Descriptor == [op   : DOMAIN ArgTypes \cup {"none", "keysequence", "macro", "command"},
               code : Code \cup {NoCode},
               args : Seq(Nat)]

NewLayer(w, type, parts) == [name |-> w, type |-> type, keymap |-> [c \in Code |-> Unbound],
                             chords |-> <<>>, constituents |-> parts]

Chord == [keys : Seq(Code), d : Descriptor]
Layer == [name : Word, type : {"normal", "layout", "composite"},
          keymap : [Code -> Descriptor], chords : Seq(Chord), constituents : Seq(Nat)]

ConfigType ==
  [layers : Seq(Layer), descriptors : Seq(Descriptor), macros : Seq(Exp), commands : Seq(Exp),
   aliases : [Code -> Exp \cup {NoVal}], ids : Seq([id : Word, flags : SUBSET Kind]),
   wildcard : BOOLEAN, options : [Option -> Nat]]

\* config_get_layer_index, 0 for a layer there is not.  Mutant: its callers forget that.
LayerIndexOrMinusOne(c, w) ==
  IF \E i \in DOMAIN c.layers : c.layers[i].name = w
  THEN CHOOSE i \in DOMAIN c.layers : c.layers[i].name = w
  ELSE -1
LayerIndex(c, w) ==
  IF \E i \in DOMAIN c.layers : c.layers[i].name = w
  THEN CHOOSE i \in DOMAIN c.layers : c.layers[i].name = w
  ELSE 0

\* config_init: the default config, with the modifiers' layers.
DefaultAlias == [leftshift |-> "shift", rightshift |-> "shift", leftalt |-> "alt",
                 rightalt |-> "altgr", leftmeta |-> "meta", rightmeta |-> "meta",
                 leftcontrol |-> "control", rightcontrol |-> "control"]
DefaultLayers == <<"main", "control", "shift", "meta", "alt", "altgr">>
DefaultIndex(w) == CHOOSE i \in DOMAIN DefaultLayers : DefaultLayers[i] = w

Default ==
  LET aliases == [c \in Code |-> IF c \in DOMAIN DefaultAlias THEN AWord(DefaultAlias[c]) ELSE NoVal]
      main == [NewLayer("main", "layout", <<>>) EXCEPT !.keymap =
                 [c \in Code |-> IF c \in DOMAIN DefaultAlias
                                 THEN LayerTo(DefaultIndex(DefaultAlias[c])) ELSE Unbound]]
  IN  [layers |-> [i \in DOMAIN DefaultLayers |->
                     IF i = 1 THEN main ELSE NewLayer(DefaultLayers[i], "normal", <<>>)],
       descriptors |-> <<>>, macros |-> <<>>, commands |-> <<>>, aliases |-> aliases,
       ids |-> <<>>, wildcard |-> FALSE, options |-> [o \in Option |-> 0]]

ASSUME DefaultAssumption ==
  /\ \A i \in DOMAIN DefaultLayers : DefaultLayers[i] \in Word
  /\ \A c \in Code \cap DOMAIN DefaultAlias : AWord(DefaultAlias[c]) \in Exp
  /\ None \notin ConfigType

-----------------------------------------------------------------------------
(* Reading the file, line by line, and splitting it into sections.         *)

Here(l, path, n) == [line |-> l, path |-> path, at |-> n]

\* The lines that stand for l in the text that is parsed.
Expansion(l) ==
  CASE l.kind # "include" -> <<Here(l, None, lineno)>>
    [] l.kind = "include" /\ Included[l.word].status = "found" ->
         [i \in DOMAIN Included[l.word].lines |-> Here(Included[l.word].lines[i], l.word, i - 1)]
    [] OTHER -> <<>>

\* An include that resolves but cannot be opened is not counted as a line.
Uncounted(l) == l.kind = "include" /\ Included[l.word].status = "unreadable"
Missing(l)   == l.kind = "include" /\ Included[l.word].status # "found"

\* The file itself goes by None, an include by its name.
Place(path, n) == [file |-> path, line |-> n]

ReadLine(l) ==
  /\ pc = "reading" /\ Len(file) < MaxLines
  /\ file' = Append(file, l)
  /\ output' = output \o Expansion(l)
  /\ lineno' = IF Uncounted(l) THEN lineno ELSE lineno + 1
  /\ site' = Place(None, lineno)
  /\ warnings' = IF Missing(l) THEN warnings + 1 ELSE warnings
  /\ UNCHANGED <<config, loaded, pc, sections, at, task, stack, broken>>

Special == {"ids", "aliases", "global"}

\* Mutant: an entry takes the number of the last line that was not blank.
EntryByCount(l, n) ==
  [key |-> IF l.kind = "include" THEN l.word ELSE l.key,
   val |-> IF l.kind = "include" THEN NoVal ELSE l.val,
   lnum |-> Cardinality({i \in 1 .. n : output[i].line.kind # "blank"})]
Entry(l, n) ==
  [key |-> IF l.kind = "include" THEN l.word ELSE l.key,
   val |-> IF l.kind = "include" THEN NoVal ELSE l.val,
   lnum |-> n]

\* ini_parse_string, line by line.
Filed(before, n) ==
  LET l == output[n].line
  IN  CASE l.kind = "blank"  -> before
        [] l.kind = "header" ->
             Append(before, [name |-> l.name, type |-> l.type, entries |-> <<>>])
        [] OTHER -> [before EXCEPT ![Len(before)].entries = Append(@, Entry(l, n))]
Sections == FoldLeft(Filed, <<>>, [n \in DOMAIN output |-> n])

\* An entry ahead of the first section makes the file invalid.
Sectioned == \A n \in DOMAIN output : output[n].line.kind \notin {"blank", "header"} =>
               \E i \in 1 .. n : output[i].line.kind = "header"

\* do_parse forgets the warnings about includes.  A file that expands to nothing is left
\* out: its text would be what the static buffer of read_config_file held before.
EndOfFile ==
  /\ pc = "reading" /\ output # <<>> /\ site' = None
  /\ IF Sectioned
     THEN /\ sections' = Sections
          /\ broken' = (Len(sections') > MaxSections)
          /\ pc' = "layers" /\ at' = <<1, 1>>
          /\ warnings' = 0
          /\ UNCHANGED <<loaded, file, output, lineno>>
     ELSE /\ pc' = "ready" /\ loaded' = config /\ warnings' = 1
          /\ file' = <<>> /\ output' = <<>> /\ lineno' = 0
          /\ UNCHANGED <<sections, at, broken>>
  /\ UNCHANGED <<config, task, stack>>

-----------------------------------------------------------------------------
(* The first pass: device ids, aliases, options and layers.                *)

Passing(phase) == ~broken /\ pc = phase /\ at[1] \in DOMAIN sections
Section == sections[at[1]]
Ent     == Section.entries[at[2]]

Following == <<at[1], at[2] + 1>>
NextSection == <<at[1] + 1, 1>>

\* The next state of a pass: the config, the warnings given, where it goes on.
Pass(c, warned, then) ==
  /\ config' = c /\ warnings' = warnings + warned /\ at' = then
  /\ UNCHANGED <<loaded, pc, file, output, lineno, sections, task, stack, broken, site>>

Crash ==
  /\ broken' = TRUE
  /\ UNCHANGED <<config, loaded, pc, file, output, lineno, sections, at, task, stack, warnings, site>>

InSection(name) == /\ Passing("layers") /\ Section.name = name
                   /\ at[2] \in DOMAIN Section.entries

\* parse_id_section
ParseId ==
  /\ InSection("ids")
  /\ LET flags == IdFlags[Ent.key]
     IN  CASE flags = {}           -> Pass(config, 1, Following)
           [] "wildcard" \in flags -> Pass([config EXCEPT !.wildcard = TRUE], 0, Following)
           [] OTHER -> IF Len(config.ids) < MaxIds
                       THEN Pass([config EXCEPT !.ids = Append(@, [id |-> IdName[Ent.key], flags |-> flags])],
                                 0, Following)
                       ELSE Crash

\* parse_alias_section; the name of a key is taken for that key in main.
ParseAlias ==
  /\ InSection("aliases")
  /\ LET code == KeyOf[Ent.key]
     IN  IF code = NoCode THEN Pass(config, 1, Following)
         ELSE IF Ent.val = NoVal THEN Crash
         ELSE LET aliased == [config EXCEPT !.aliases[code] = Ent.val]
              IN  Pass(IF Ent.val.kind = "word" /\ KeyOf[Ent.val.word] # NoCode
                       THEN [aliased EXCEPT !.layers[1].keymap[code] = KeyTo(KeyOf[Ent.val.word])]
                       ELSE aliased,
                       0, Following)

\* parse_global_section
ParseOption ==
  /\ InSection("global")
  /\ IF Ent.key \notin Option THEN Pass(config, 1, Following)
     ELSE IF Ent.val = NoVal THEN Crash
     ELSE Pass([config EXCEPT !.options[Ent.key] = ValueOf(Ent.val)], 0, Following)

Constituents(w) == [i \in DOMAIN Parts[w] |-> LayerIndex(config, Parts[w][i])]
IsComposite(w)  == Len(Parts[w]) # 1

\* config_add_layer and new_layer.  The constituents are never counted: the check of
\* their number cannot fail, and one too many is written past the end of the layer.
AddLayer ==
  /\ Passing("layers") /\ Section.name \notin Special
  /\ LET w == Section.name
         type == Section.type
         ids == Constituents(w)
         add(t, parts) == [config EXCEPT !.layers = Append(@, NewLayer(w, t, parts))]
     IN  CASE LayerIndex(config, w) # 0 -> Pass(config, 0, NextSection)
           [] LayerIndex(config, w) = 0 /\ Len(config.layers) >= MaxLayers ->
                Pass(config, 1, NextSection)
           [] LayerIndex(config, w) = 0 /\ Len(config.layers) < MaxLayers /\ IsComposite(w) ->
                IF type # "none" THEN Pass(config, 1, NextSection)
                ELSE IF \E n \in DOMAIN ids : n > MaxConstituents /\ \A i \in 1 .. n : ids[i] # 0
                THEN Crash
                ELSE IF \E i \in DOMAIN ids : ids[i] = 0 THEN Pass(config, 1, NextSection)
                ELSE Pass(add("composite", ids), 0, NextSection)
           [] OTHER ->
                Pass(add(IF type = "layout" THEN "layout" ELSE "normal", <<>>),
                     IF type = "bogus" THEN 1 ELSE 0, NextSection)

EndSection ==
  /\ Passing("layers") /\ Section.name \in Special
  /\ at[2] \notin DOMAIN Section.entries
  /\ Pass(config, 0, NextSection)

EndLayers ==
  /\ ~broken /\ pc = "layers" /\ at[1] \notin DOMAIN sections
  /\ pc' = "entries" /\ at' = <<1, 1>>
  /\ UNCHANGED <<config, loaded, file, output, lineno, sections, task, stack, warnings, broken, site>>

\* config_check_match: 2 for a device that is listed, 1 for one the wildcard stands for.  An
\* id stands for the devices whose id it begins; here it is the id of the one that is asked for.
\* Mutant: an exclusion does not end the search.
MatchPastExclusion(c, d) ==
  LET hits == {i \in DOMAIN c.ids : c.ids[i].id = d.id /\ c.ids[i].flags \cap d.flags # {}}
  IN  IF hits # {} THEN 2 ELSE IF c.wildcard THEN 1 ELSE 0
Match(c, d) ==
  LET hits == {i \in DOMAIN c.ids : /\ c.ids[i].id = d.id
                                   /\ c.ids[i].flags \cap (d.flags \cup {"excluded"}) # {}}
      first == CHOOSE i \in hits : \A j \in hits : i <= j
  IN  CASE hits # {} -> IF "excluded" \in c.ids[first].flags THEN 0 ELSE 2
        [] hits = {} /\ c.wildcard -> 1
        [] OTHER -> 0

-----------------------------------------------------------------------------
(* set_layer_entry: binding a key, the keys of an alias, or a chord.       *)

ChordCodes(key) == [i \in DOMAIN Parts[key] |-> KeyOf[Parts[key][i]]]
IsChord(key)    == Len(Parts[key]) # 1
Members(seq)    == {seq[i] : i \in DOMAIN seq}

AliasedCodes(c, key) == {code \in Code : c.aliases[code] = AWord(key)}

KeyCodes(c, key) == IF AliasedCodes(c, key) # {} THEN AliasedCodes(c, key)
                                                 ELSE {KeyOf[key]} \ {NoCode}

\* layer_lookup_chord: the first chord that has all the keys, and maybe more.
ChordOf(layer, keys) ==
  LET having == {i \in DOMAIN layer.chords : Members(keys) \subseteq Members(layer.chords[i].keys)}
  IN  IF having = {} THEN 0 ELSE CHOOSE i \in having : \A j \in having : i <= j

Settable(c, l, key) ==
  IF IsChord(key)
  THEN /\ NoCode \notin Members(ChordCodes(key)) /\ Len(ChordCodes(key)) <= MaxChordKeys
       /\ \/ ChordOf(c.layers[l], ChordCodes(key)) # 0
          \/ Len(c.layers[l].chords) < MaxChords
  ELSE KeyCodes(c, key) # {}

SetEntry(c, l, key, d) ==
  LET keys == ChordCodes(key)
      i == ChordOf(c.layers[l], keys)
  IN  CASE ~IsChord(key) ->
             [c EXCEPT !.layers[l].keymap =
                [code \in Code |-> IF code \in KeyCodes(c, key) THEN d ELSE @[code]]]
        [] IsChord(key) /\ i # 0 -> [c EXCEPT !.layers[l].chords[i].d = d]
        [] OTHER -> [c EXCEPT !.layers[l].chords = Append(@, [keys |-> keys, d |-> d])]

-----------------------------------------------------------------------------
(* config_add_entry and parse_descriptor.                                  *)

Loading == loaded = None
Resume  == IF Loading THEN "entries" ELSE "ready"
Warned(n) == warnings' = IF Loading THEN warnings + n ELSE warnings

NoTask == [layer |-> 0, key |-> None, exp |-> Empty]
Frame(e) == [exp |-> e, open |-> FALSE, left |-> 0, d |-> Unbound]

\* An entry is taken up: its layer must exist.
Begin(w, key, e) ==
  LET l == LayerIndex(config, w)
  IN  IF l = 0 THEN Warned(1) /\ UNCHANGED <<pc, task, stack>>
      ELSE /\ task' = [layer |-> l, key |-> key, exp |-> e]
           /\ stack' = <<Frame(e)>> /\ pc' = "parsing"
           /\ UNCHANGED warnings

\* The second pass of do_parse.  The source map says where a line of output comes from.
AddEntry ==
  /\ Passing("entries") /\ Section.name \notin Special /\ at[2] \in DOMAIN Section.entries
  /\ at' = Following
  /\ site' = Place(output[Ent.lnum].path, output[Ent.lnum].at)
  /\ IF Ent.val = NoVal THEN Warned(1) /\ UNCHANGED <<pc, task, stack>>
                        ELSE Begin(Section.name, Ent.key, Ent.val)
  /\ UNCHANGED <<config, loaded, file, output, lineno, sections, broken>>

EndEntries ==
  /\ Passing("entries") /\ (Section.name \in Special \/ at[2] \notin DOMAIN Section.entries)
  /\ Pass(config, 0, NextSection)

\* site is left as it is, though the source map it points into goes out of scope.
Loaded ==
  /\ ~broken /\ pc = "entries" /\ at[1] \notin DOMAIN sections
  /\ pc' = "ready" /\ loaded' = config
  /\ file' = <<>> /\ output' = <<>> /\ lineno' = 0 /\ sections' = <<>> /\ at' = <<1, 1>>
  /\ UNCHANGED <<config, task, stack, warnings, broken, site>>

\* kbd_eval: a client binds a key or undoes all binds.
Eval(b) ==
  /\ pc = "ready"
  /\ Begin(b.layer, b.key, b.exp)
  /\ UNCHANGED <<config, loaded, file, output, lineno, sections, at, broken, site>>

Reset ==
  /\ pc = "ready"
  /\ config' = loaded
  /\ UNCHANGED <<loaded, pc, file, output, lineno, sections, at, task, stack, warnings, broken, site>>

Top == Head(stack)

\* The entry is refused; what its arguments left in the tables stays there.  Mutants:
\* nobody is told; what it names is bound all the same.
RefuseUnbinding(c, warned) ==
  /\ config' = IF Settable(c, task.layer, task.key)
               THEN SetEntry(c, task.layer, task.key, Unbound) ELSE c
  /\ Warned(warned + 1)
  /\ pc' = Resume /\ task' = NoTask /\ stack' = <<>>
RefuseSilently(c, warned) ==
  /\ config' = c /\ UNCHANGED warnings
  /\ pc' = Resume /\ task' = NoTask /\ stack' = <<>>
Refuse(c, warned) ==
  /\ config' = c /\ Warned(warned + 1)
  /\ pc' = Resume /\ task' = NoTask /\ stack' = <<>>

\* d is what the expression of the innermost frame means.
Yield(c, d, warned) ==
  IF Tail(stack) = <<>>
  THEN IF Settable(c, task.layer, task.key)
       THEN /\ config' = SetEntry(c, task.layer, task.key, d) /\ Warned(warned)
            /\ pc' = Resume /\ task' = NoTask /\ stack' = <<>>
       ELSE Refuse(c, warned)
  ELSE LET caller == stack[2]
       IN  IF \/ Len(c.descriptors) >= MaxDescriptors
              \/ /\ Types(caller.exp.fn)[caller.left] = "keysequence"
                 /\ d.op # "keysequence"
           THEN Refuse(c, warned)
           ELSE /\ config' = [c EXCEPT !.descriptors = Append(@, d)]
                /\ stack' = <<[caller EXCEPT !.left = @ - 1,
                                 !.d.args = <<Len(c.descriptors) + 1>> \o @]>> \o Tail(Tail(stack))
                /\ Warned(warned) /\ UNCHANGED <<pc, task>>

\* parse_fn asserts that there are no more, whatever the function.
TooManyArgs(e) == e.kind = "call" /\ Len(e.args) > MaxArgs

Parsing(e) == ~broken /\ pc = "parsing" /\ ~Top.open /\ e = Top.exp /\ ~TooManyArgs(e)

Elsewhere == UNCHANGED <<loaded, file, output, lineno, sections, at, broken, site>>

Indexed(op, i) == [op |-> op, code |-> NoCode, args |-> <<i>>]

ParseNothing(e) ==
  /\ Parsing(e) /\ e.kind = "empty"
  /\ Yield(config, Unbound, 0) /\ Elsewhere

ParseKey(e) ==
  /\ Parsing(e) /\ e.kind = "word" /\ SequenceOf[e.word] # NoCode
  /\ LET code == SequenceOf[e.word]
     IN  IF code \in DOMAIN ModifierLayer
         THEN Yield(config, LayerTo(LayerIndex(config, ModifierLayer[code])), 1)
         ELSE Yield(config, KeyTo(code), 0)
  /\ Elsewhere

ParseCommand(e) ==
  /\ Parsing(e) /\ e.kind = "command"
  /\ IF Len(config.commands) >= MaxCommands THEN Refuse(config, 0)
     ELSE Yield([config EXCEPT !.commands = Append(@, e)],
                Indexed("command", Len(config.commands) + 1), 0)
  /\ Elsewhere

ParseMacro(e) ==
  /\ Parsing(e) /\ IsMacro(e) /\ ~(e.kind = "word" /\ SequenceOf[e.word] # NoCode)
  /\ IF ~MacroFits(e) \/ Len(config.macros) >= MaxMacros THEN Refuse(config, 0)
     ELSE Yield([config EXCEPT !.macros = Append(@, e)],
                Indexed("macro", Len(config.macros) + 1), 0)
  /\ Elsewhere

ParseUnknown(e) ==
  /\ Parsing(e)
  /\ \/ e.kind = "word" /\ SequenceOf[e.word] = NoCode /\ e.word \notin Glyph
     \/ e.kind = "call" /\ ~Known(e.fn) /\ ~(IsLettermod(e) /\ Len(e.args) = 4)
  /\ Refuse(config, 0) /\ Elsewhere

ParseTooMany(e) ==
  /\ ~broken /\ pc = "parsing" /\ ~Top.open /\ e = Top.exp /\ TooManyArgs(e)
  /\ Crash

ExpandLettermod(e) ==
  /\ Parsing(e) /\ IsLettermod(e) /\ Len(e.args) = 4
  /\ stack' = <<Frame(Lettermod(e.args))>> \o Tail(stack)
  /\ UNCHANGED <<config, pc, task, warnings>> /\ Elsewhere

ParseCall(e) ==
  /\ Parsing(e) /\ e.kind = "call" /\ Known(e.fn)
  /\ LET deprecated == IF e.fn \in DOMAIN Renamed THEN 1 ELSE 0
     IN  IF Len(e.args) # Len(Types(e.fn)) THEN Refuse(config, deprecated)
         ELSE /\ stack' = <<[Top EXCEPT !.open = TRUE, !.left = Len(e.args), !.d.op = OpOf(e.fn)]>>
                            \o Tail(stack)
              /\ Warned(deprecated) /\ UNCHANGED <<config, pc, task>>
  /\ Elsewhere

\* An argument is done: the one before it is next.
Argument(c, n) ==
  /\ config' = c
  /\ stack' = <<[Top EXCEPT !.left = @ - 1, !.d.args = <<n>> \o @]>> \o Tail(stack)
  /\ UNCHANGED <<pc, task, warnings>>

NamedLayer(e) == IF e.kind = "word" THEN LayerIndex(config, e.word) ELSE 0

\* Mutant: a layout is a layer like any other.
IsLayerArgNoLayout(e) == e # AWord("main") /\ NamedLayer(e) # 0
IsLayerArg(e)  == /\ e # AWord("main") /\ NamedLayer(e) # 0
                  /\ config.layers[NamedLayer(e)].type # "layout"
IsLayoutArg(e) == /\ NamedLayer(e) # 0
                  /\ NamedLayer(e) = 1 \/ config.layers[NamedLayer(e)].type = "layout"

\* The arguments, last one first.
ParseArgument ==
  /\ pc = "parsing" /\ Top.open /\ Top.left > 0
  /\ LET type == Types(Top.exp.fn)[Top.left]
         arg == Top.exp.args[Top.left]
     IN  CASE type \in {"layer", "layout"} ->
                IF IF type = "layer" THEN IsLayerArg(arg) ELSE IsLayoutArg(arg)
                THEN Argument(config, NamedLayer(arg)) ELSE Refuse(config, 0)
           [] type \in {"descriptor", "keysequence"} ->
                /\ stack' = <<Frame(arg)>> \o stack
                /\ UNCHANGED <<config, pc, task, warnings>>
           [] type \in {"timeout", "sensitivity"} -> Argument(config, NumberOf(arg))
           [] type = "macro" ->
                IF IsMacro(arg) /\ MacroFits(arg) /\ Len(config.macros) < MaxMacros
                THEN Argument([config EXCEPT !.macros = Append(@, arg)], Len(config.macros) + 1)
                ELSE Refuse(config, 0)
  /\ Elsewhere

EndCall ==
  /\ pc = "parsing" /\ Top.open /\ Top.left = 0
  /\ Yield(config, Top.d, 0) /\ Elsewhere

-----------------------------------------------------------------------------
Init ==
  /\ config = Default /\ loaded = None /\ pc = "reading"
  /\ file = <<>> /\ output = <<>> /\ lineno = 0
  /\ sections = <<>> /\ at = <<1, 1>>
  /\ task = NoTask /\ stack = <<>>
  /\ warnings = 0 /\ broken = FALSE /\ site = None

FirstPass == ParseId \/ ParseAlias \/ ParseOption \/ AddLayer \/ EndSection \/ EndLayers

Expression(e) == \/ ParseNothing(e) \/ ParseKey(e) \/ ParseCommand(e) \/ ParseMacro(e)
                 \/ ParseUnknown(e) \/ ParseTooMany(e) \/ ExpandLettermod(e) \/ ParseCall(e)

Parse == \/ (stack # <<>> /\ Expression(Top.exp)) \/ ParseArgument \/ EndCall
         \/ FirstPass \/ AddEntry \/ EndEntries \/ Loaded

Next == (\E l \in Line : ReadLine(l)) \/ EndOfFile \/ Parse \/ (\E b \in Bind : Eval(b)) \/ Reset

\* Parsing is not interrupted.
Spec == Init /\ [][Next]_vars /\ WF_vars(Parse)

-----------------------------------------------------------------------------
(* What a descriptor means, read back from the tables it refers to, and    *)
(* what an expression says.                                                *)

Nothing     == [kind |-> "nothing"]
Named(w)    == [kind |-> "layer", name |-> w]
Amount(n)   == [kind |-> "amount", n |-> n]
Typing(e)   == [kind |-> "types", what |-> e]
Does(op, m) == [kind |-> "does", op |-> op, args |-> m]

\* meaning has the meanings of the descriptors that d may refer to.
ReadBack(c, d, meaning) ==
  CASE d.op = "none"        -> Nothing
    [] d.op = "keysequence" -> [kind |-> "key", code |-> d.code]
    [] d.op = "macro"       -> Typing(c.macros[d.args[1]])
    [] d.op = "command"     -> [kind |-> "runs", what |-> c.commands[d.args[1]]]
    [] OTHER ->
         Does(d.op, [i \in DOMAIN d.args |->
           CASE ArgTypes[d.op][i] \in {"layer", "layout"} -> Named(c.layers[d.args[i]].name)
             [] ArgTypes[d.op][i] \in {"timeout", "sensitivity"} -> Amount(d.args[i])
             [] ArgTypes[d.op][i] = "macro" -> Typing(c.macros[d.args[i]])
             [] OTHER -> meaning[d.args[i]]])

Meanings(c) ==
  LET below[i \in 0 .. Len(c.descriptors)] ==
        IF i = 0 THEN Nothing ELSE ReadBack(c, c.descriptors[i], below)
  IN  below
Meaning(c, d) == ReadBack(c, d, Meanings(c))

\* says has what the expressions say that e nests.
Saying(e, says) ==
  CASE e.kind = "empty"   -> Nothing
    [] e.kind = "macro"   -> Typing(e)
    [] e.kind = "command" -> [kind |-> "runs", what |-> e]
    [] e.kind = "word" ->
         IF SequenceOf[e.word] = NoCode THEN Typing(e)
         ELSE IF SequenceOf[e.word] \in DOMAIN ModifierLayer
         THEN Does("layer", <<Named(ModifierLayer[SequenceOf[e.word]])>>)
         ELSE [kind |-> "key", code |-> SequenceOf[e.word]]
    [] IsLettermod(e) /\ Len(e.args) = 4 -> says[Lettermod(e.args)]
    [] e.kind = "call" /\ Known(e.fn) /\ Len(e.args) = Len(Types(e.fn)) ->
         Does(OpOf(e.fn), [i \in DOMAIN e.args |->
           CASE Types(e.fn)[i] \in {"layer", "layout"} ->
                  IF e.args[i].kind = "word" THEN Named(e.args[i].word) ELSE Nothing
             [] Types(e.fn)[i] \in {"timeout", "sensitivity"} -> Amount(NumberOf(e.args[i]))
             [] Types(e.fn)[i] = "macro" -> Typing(e.args[i])
             [] OTHER -> says[e.args[i]]])
    [] OTHER -> Nothing
Says[e \in Exp] == Saying(e, Says)

KeyTarget(code)   == [chord |-> FALSE, keys |-> {code}]
ChordTarget(keys) == [chord |-> TRUE, keys |-> Members(keys)]

Targets(c, l, key) ==
  LET i == ChordOf(c.layers[l], ChordCodes(key))
  IN  IF ~IsChord(key) THEN {KeyTarget(code) : code \in KeyCodes(c, key)}
      ELSE {ChordTarget(IF i = 0 THEN ChordCodes(key) ELSE c.layers[l].chords[i].keys)}

BindingsIn(c) ==
  LET of(l) ==
        {[layer |-> l.name, target |-> KeyTarget(code), action |-> Meaning(c, l.keymap[code])] :
           code \in {x \in Code : l.keymap[x].op # "none"}}
        \cup
        {[layer |-> l.name, target |-> ChordTarget(h.keys), action |-> Meaning(c, h.d)] :
           h \in {x \in Members(l.chords) : x.d.op # "none"}}
  IN  UNION {of(l) : l \in Members(c.layers)}

Actions == {Says[e] : e \in Exp} \cup {[kind |-> "key", code |-> c] : c \in Code}

Promised == INSTANCE Bindings WITH
  Layer   <- Word,
  Target  <- [chord : BOOLEAN, keys : SUBSET (Code \cup {NoCode})],
  Action  <- Actions,
  Preset  <- BindingsIn(Default),
  binding <- BindingsIn(config),
  request <- IF pc # "parsing" \/ broken THEN None
             ELSE [layer |-> config.layers[task.layer].name,
                   targets |-> Targets(config, task.layer, task.key),
                   action |-> Says[task.exp]],
  loaded  <- loaded # None,
  made    <- IF loaded = None THEN {} ELSE BindingsIn(loaded)

ASSUME NoneAssumption == None \notin Promised!Request

-----------------------------------------------------------------------------
(* Properties.                                                             *)

PhaseType == {"reading", "layers", "entries", "parsing", "ready"}

TypeOK ==
  /\ config \in ConfigType /\ loaded \in ConfigType \cup {None}
  /\ pc \in PhaseType /\ lineno \in Nat /\ warnings \in Nat /\ broken \in BOOLEAN
  /\ task \in [layer : Nat, key : Word \cup {None}, exp : Exp]
  /\ stack \in Seq([exp : Exp, open : BOOLEAN, left : Nat, d : Descriptor])

\* An entry is granted or refused as a whole: whatever tables its parsing touched and
\* wherever it failed, it binds what it names to what it says, or changes nothing that any
\* key means; reset restores the bindings that the file made; and each entry is answered.
Implements == Promised!Spec

ValidArg(c, type, n, below) ==
  CASE type = "layer"  -> n \in 2 .. Len(c.layers) /\ c.layers[n].type # "layout"
    [] type = "layout" -> n = 1 \/ (n \in DOMAIN c.layers /\ c.layers[n].type = "layout")
    [] type = "macro"  -> n \in DOMAIN c.macros
    [] type = "keysequence" -> n \in 1 .. below /\ c.descriptors[n].op = "keysequence"
    [] type = "descriptor"  -> n \in 1 .. below
    [] OTHER -> n < 2 ^ 16

ValidDescriptor(c, d, below) ==
  CASE d.op \in {"none", "keysequence"} -> d.args = <<>>
    [] d.op = "macro"   -> d.args[1] \in DOMAIN c.macros
    [] d.op = "command" -> d.args[1] \in DOMAIN c.commands
    [] OTHER -> /\ Len(d.args) = Len(ArgTypes[d.op])
                /\ \A i \in DOMAIN d.args : ValidArg(c, ArgTypes[d.op][i], d.args[i], below)

\* Every index in a config names an entry of the table it is used with, which keyboard.c
\* looks up without a check, and no descriptor contains itself; a composite layer consists
\* of layers that come before it ("must always be defined after the layers of which they are
\* comprised", keyd.scdoc:330).
Valid ==
  LET n == Len(config.descriptors)
  IN  /\ n <= MaxDescriptors /\ Len(config.macros) <= MaxMacros
      /\ Len(config.commands) <= MaxCommands /\ Len(config.layers) <= MaxLayers
      /\ \A i \in 1 .. n : ValidDescriptor(config, config.descriptors[i], i - 1)
      /\ \A i \in DOMAIN config.layers :
           LET l == config.layers[i]
           IN  /\ \A code \in Code : ValidDescriptor(config, l.keymap[code], n)
               /\ \A h \in Members(l.chords) : ValidDescriptor(config, h.d, n)
               /\ Len(l.chords) <= MaxChords /\ Len(l.constituents) <= MaxConstituents
               /\ \A m \in Members(l.constituents) : m \in 1 .. i - 1

LayerEntries(w) ==
  {p \in {<<i, j>> : i \in DOMAIN sections, j \in 1 .. Len(output)} :
     sections[p[1]].name = w /\ p[2] \in DOMAIN sections[p[1]].entries}
At(p) == sections[p[1]].entries[p[2]]
Before(p, q) == p[1] < q[1] \/ (p[1] = q[1] /\ p[2] < q[2])

BindsLast(w, p, code) ==
  /\ ~IsChord(At(p).key) /\ code \in KeyCodes(config, At(p).key)
  /\ \A q \in LayerEntries(w) : Before(p, q) =>
       IsChord(At(q).key) \/ code \notin KeyCodes(config, At(q).key)

ChordKeys(p) == Members(ChordCodes(At(p).key))

\* No chord of another entry has the chord's keys among its own, or the other way round.
AloneWithChord(w, p) ==
  /\ IsChord(At(p).key)
  /\ \A q \in LayerEntries(w) : q # p /\ IsChord(At(q).key) =>
       ~(ChordKeys(p) \subseteq ChordKeys(q)) /\ ~(ChordKeys(q) \subseteq ChordKeys(p))

\* config_parse returns "0 on success (no warning)" (config.c:1039): then every section has
\* its layer, every key does what the last entry for it says, in whatever order sections,
\* aliases and includes came, and so does every chord that overlaps no other.
Complete ==
  (~broken /\ pc = "entries" /\ at[1] \notin DOMAIN sections /\ warnings = 0) =>
    \A s \in Members(sections) : s.name \notin Special =>
      LET l == LayerIndex(config, s.name)
      IN  /\ l # 0
          /\ \A p \in LayerEntries(s.name) :
               /\ \A code \in Code : BindsLast(s.name, p, code) =>
                    Meaning(config, config.layers[l].keymap[code]) = Says[At(p).val]
               /\ AloneWithChord(s.name, p) =>
                    \E h \in Members(config.layers[l].chords) :
                      /\ Members(h.keys) = ChordKeys(p)
                      /\ Meaning(config, h.d) = Says[At(p).val]

\* The lines that a user may find at a place; an include that was not counted has the
\* number of the line after it.
Standing(place, f) ==
  IF place.file # None THEN {Included[place.file].lines[place.line + 1]}
  ELSE {f[p] : p \in {n \in DOMAIN f :
          n = place.line + 1 + Cardinality({m \in 1 .. n - 1 : Uncounted(f[m])})}}

Gives(l, key, val) == l.kind \notin {"blank", "header"} /\ Entry(l, 0).key = key /\ Entry(l, 0).val = val

\* Where config_warn names a file and a line, the line it is about stands there, whatever
\* includes and comments come before it, except that includes that could not be opened are
\* not counted: for an include that is missing that line names it, and for an entry of a
\* layer it gives the key and the action that were refused or have an old name.  The warnings
\* of the first pass, about ids, aliases, options and names of layers, name no place.
Attributed ==
  [][warnings' > warnings =>
       CASE pc = "reading" /\ pc' = "reading" -> file'[Len(file')] \in Standing(site', file')
         [] pc = "entries" -> \E l \in Standing(site', file) : Gives(l, Ent.key, Ent.val)
         [] pc = "parsing" -> \E l \in Standing(site', file) : Gives(l, task.key, task.exp)
         [] OTHER -> site' = None]_vars

Listing(c, d)   == {i \in DOMAIN c.ids : c.ids[i].id = d.id /\ c.ids[i].flags \cap d.flags # {}}
Excluding(c, d) == {i \in DOMAIN c.ids : c.ids[i].id = d.id /\ "excluded" \in c.ids[i].flags}

\* "The first form specifies a list of ids to be explicitly matched, while the second
\* matches any id which has not been explicitly excluded" (keyd.scdoc:98): a device is
\* managed only if it is listed, or not excluded and there is a wildcard; one that is both
\* listed and excluded is managed if it was listed first.
IdsHonoured ==
  \A d \in Device :
    LET listed == Listing(config, d)
        excluded == Excluding(config, d)
    IN  /\ Match(config, d) = 2 => listed # {}
        /\ Match(config, d) = 1 => config.wildcard /\ listed = {} /\ excluded = {}
        /\ excluded # {} /\ listed = {} => Match(config, d) = 0
        /\ config.wildcard /\ excluded = {} => Match(config, d) > 0
        /\ \A i \in listed, j \in excluded : (i < j /\ \A k \in excluded : j <= k) => Match(config, d) = 2
=============================================================================
