------------------------------- MODULE Output --------------------------------
(***************************************************************************)
(* What the daemon types: macros (src/src/macro.c), send_key, clear_vkbd   *)
(* and input (src/src/daemon.c), and the virtual keyboards they type on,   *)
(* that of uinput and that of the USB gadget (src/src/vkbd/), which shows  *)
(* the keys that are down in a report with few slots.                      *)
(*                                                                         *)
(* An output is a record of both.  Operators only: what is typed is a      *)
(* function of what is down and what is asked for.                         *)
(*                                                                         *)
(* Abstracted: characters are what the tables of keys.c and unicode.c make *)
(* of them, and time passes unseen.  Pointer motion is left out.           *)
(***************************************************************************)
EXTENDS Integers, Sequences, SequencesExt

CONSTANTS
  Code,            \* key codes, as numbers
  Scroll,          \* KEYD_SCROLL_*, which stand for no key
  Reported,        \* those with an entry in hid_table
  ModifierKeys,    \* the codes of get_modifier
  Modifiers,       \* the table modifiers: sequence of key codes
  Shift, Cancel,   \* KEYD_LEFTSHIFT, KEYD_CANCEL
  Spelling,        \* the three keys that spell the index of a codepoint
  Slots,           \* how many keys a report has
  MaxEntries       \* ARRAY_SIZE(macro->entries)

ASSUME OutputAssumption ==
  /\ Code \subseteq 1 .. 255 /\ Scroll \subseteq Code
  /\ Reported \subseteq Code \ Scroll /\ ModifierKeys \subseteq Code \ (Reported \cup Scroll)
  /\ Shift \in ModifierKeys /\ Cancel \in Code /\ Modifiers \in Seq(ModifierKeys)
  /\ DOMAIN Spelling \subseteq Nat
  /\ \A idx \in DOMAIN Spelling : Spelling[idx] \in [1 .. 3 -> Code]
  /\ Slots \in Nat \ {0} /\ MaxEntries \in Nat

Outputs == [keystate : SUBSET (1 .. 255),          \* the daemon's keystate
            uinput   : SUBSET (1 .. 255),          \* uinput: the keys down
            keys     : [1 .. Slots -> 0 .. 255],   \* usb-gadget: the report,
            mods     : SUBSET ModifierKeys]        \* ... with its modifiers

\* What a macro is made of, and a text.
Char == [type : {"key"}, code : Code, mods : SUBSET ModifierKeys]
          \cup [type : {"codepoint"}, idx : DOMAIN Spelling] \cup [type : {"other"}]
Part == [type : {"hold"}, code : Code] \cup [type : {"wait"}, ms : Nat] \cup [type : {"other"}]
Token == [type : {"key"}, code : Code, mods : SUBSET ModifierKeys]
           \cup [type : {"chord"}, parts : Seq(Part)]
           \cup [type : {"wait"}, ms : Nat] \cup [type : {"text"}, chars : Seq(Char)]

Silence == [keystate |-> {}, uinput |-> {}, keys |-> [i \in 1 .. Slots |-> 0], mods |-> {}]

-----------------------------------------------------------------------------
(* The virtual keyboards.                                                  *)

Toggled(set, code, pressed) == IF pressed THEN set \cup {code} ELSE set \ {code}

\* update_key_state: a key takes the first free slot, if there is one.  A key without
\* an entry in hid_table is the same as no key.
Slotted(keys, code, pressed) ==
  LET free == {i \in 1 .. Slots : keys[i] = 0}
  IN  CASE code \notin Reported -> keys
        [] code \in Reported /\ ~pressed ->
             [i \in 1 .. Slots |-> IF keys[i] = code THEN 0 ELSE keys[i]]
        [] code \in Reported /\ pressed /\ (code \in Range(keys) \/ free = {}) -> keys
        [] code \in Reported /\ pressed /\ code \notin Range(keys) /\ free # {} ->
             [keys EXCEPT ![CHOOSE i \in free : \A j \in free : i <= j] = code]

VkbdSendKey(out, code, pressed) ==
  [out EXCEPT !.uinput = Toggled(@, code, pressed),
              !.mods = IF code \in ModifierKeys THEN Toggled(@, code, pressed) ELSE @,
              !.keys = Slotted(@, code, pressed)]

\* Mutant: what is not in the keystate is not taken back by clear_vkbd.
SendKeyForgetful(out, code, pressed) ==
  VkbdSendKey([out EXCEPT !.keystate = @ \ {code}], code, pressed)

SendKey(out, code, pressed) ==
  LET known == [out EXCEPT !.keystate = Toggled(@, code, pressed)]
  IN  IF code \in Scroll THEN known ELSE VkbdSendKey(known, code, pressed)

TakenBack(code, out) == VkbdSendKey(out, code, FALSE)

ClearVkbd(out) == [FoldSet(TakenBack, out, out.keystate) EXCEPT !.keystate = {}]

-----------------------------------------------------------------------------
(* Macros.  A token is a key with modifiers, a chord of keys and waits, a  *)
(* wait, or text.                                                          *)

Entry(type, data) == [type |-> type, data |-> data, mods |-> {}]

\* A character of text: a key, perhaps shifted, or an index into the table of
\* codepoints.  Index 0 is taken for a failed lookup; other characters are skipped.
CharEntries(char) ==
  CASE char.type = "key" -> <<[Entry("keysequence", char.code) EXCEPT !.mods = char.mods]>>
    [] char.type = "codepoint" /\ char.idx > 0 -> <<Entry("unicode", char.idx)>>
    [] OTHER -> <<>>

Spelt(entries, char) == entries \o CharEntries(char)

PartEntry(part) ==
  IF part.type = "wait" THEN Entry("timeout", part.ms) ELSE Entry("hold", part.code)

TokenEntries(token) ==
  CASE token.type = "key" -> CharEntries(token)
    [] token.type = "chord" ->
         [i \in DOMAIN token.parts |-> PartEntry(token.parts[i])] \o <<Entry("release", 0)>>
    [] token.type = "wait" -> <<Entry("timeout", token.ms)>>
    [] token.type = "text" -> FoldLeft(Spelt, <<>>, token.chars)

\* macro_parse: what is not a key cannot be part of a chord, and a macro has its size.
Parsed(entries, token) == entries \o TokenEntries(token)

MacroParse(tokens) == FoldLeft(Parsed, <<>>, tokens)

Parses(tokens) ==
  /\ \A i \in DOMAIN tokens : tokens[i].type = "chord" =>
       \A j \in DOMAIN tokens[i].parts : tokens[i].parts[j].type # "other"
  /\ Len(MacroParse(tokens)) <= MaxEntries

Tap(out, code) == SendKey(SendKey(out, code, TRUE), code, FALSE)

\* Modifiers in the order of the table, both down and up.
ModSent(run, code) ==
  IF code \in run.mods THEN [run EXCEPT !.out = SendKey(@, code, run.pressed)] ELSE run

SendMods(out, mods, pressed) ==
  FoldLeft(ModSent, [out |-> out, mods |-> mods, pressed |-> pressed], Modifiers).out

UnicodeSequence(idx) == <<Cancel>> \o Spelling[idx]

\* A wait is let go as if its milliseconds were a code.
LetGo(out, e) == SendKey(out, e.data % 256, FALSE)

\* Mutant: the key that is held first is not let go.
ReleasedButFirst(out, held) == FoldLeft(LetGo, out, IF held = <<>> THEN held ELSE Tail(held))

\* All since the first held key is released.
Released(out, held) == FoldLeft(LetGo, out, held)

\* The macro so far: its output, and the entries since hold_start.
Executed(run, e) ==
  CASE e.type = "hold" -> [out |-> SendKey(run.out, e.data, TRUE), held |-> Append(run.held, e)]
    [] e.type = "release" -> [out |-> Released(run.out, run.held), held |-> <<>>]
    [] e.type = "unicode" -> [run EXCEPT !.out = FoldLeft(Tap, @, UnicodeSequence(e.data))]
    [] e.type = "keysequence" ->
         [run EXCEPT !.out = SendMods(Tap(SendMods(@, e.mods, TRUE), e.data), e.mods, FALSE)]
    [] e.type = "timeout" -> [run EXCEPT !.held = IF @ = <<>> THEN @ ELSE Append(@, e)]

MacroExecute(out, entries) ==
  FoldLeft(Executed, [out |-> out, held |-> <<>>], entries).out

-----------------------------------------------------------------------------
(* input: text typed past the keystate.                                    *)

VkbdTap(out, code) == VkbdSendKey(VkbdSendKey(out, code, TRUE), code, FALSE)

InputChar(out, char) ==
  CASE char.type = "key" /\ Shift \in char.mods ->
         VkbdSendKey(VkbdTap(VkbdSendKey(out, Shift, TRUE), char.code), Shift, FALSE)
    [] char.type = "key" /\ Shift \notin char.mods -> VkbdTap(out, char.code)
    [] char.type = "codepoint" -> FoldLeft(VkbdTap, out, UnicodeSequence(char.idx))

\* The first character that is in no table ends it, when those before it are typed.
Known(chars) ==
  LET unknown == {i \in DOMAIN chars : chars[i].type = "other"}
  IN  IF unknown = {} THEN chars
      ELSE SubSeq(chars, 1, (CHOOSE i \in unknown : \A j \in unknown : i <= j) - 1)

Input(out, chars) == FoldLeft(InputChar, out, Known(chars))
=============================================================================
