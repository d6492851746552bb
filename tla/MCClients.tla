------------------------------ MODULE MCClients ------------------------------
(* KEYD_A is 30 and KEYD_B 48: a wait of 48 ms in a chord releases the b.  *)
EXTENDS Clients

CONSTANTS k1, k2, nav, dvorak

MCLayersOf == [k \in {k1, k2} |-> IF k = k1 THEN {nav, Main, dvorak} ELSE {Main}]
MCCodesOf == [k \in {k1, k2} |-> IF k = k1 THEN {48, 177} ELSE {42}]

MCCode == {30, 42, 48, 177}
MCScroll == {177}
MCReported == {30, 48}
MCModifierKeys == {42}
MCModifiers == <<42>>
MCSpelling == [idx \in 0 .. 1 |-> IF idx = 0 THEN <<30, 30, 30>> ELSE <<30, 30, 48>>]

Key(code, mods) == [type |-> "key", code |-> code, mods |-> mods]
Codepoint(idx) == [type |-> "codepoint", idx |-> idx]
Other == [type |-> "other"]
Hold(code) == [type |-> "hold", code |-> code]
Wait(ms) == [type |-> "wait", ms |-> ms]

MacroOf(tokens) == [type |-> "macro", tokens |-> tokens]
TextOf(chars) == [type |-> "input", chars |-> chars]

\* a+48ms+shift S-b; two codepoints, the first of which is lost; a chord with what is no
\* key; one entry too many.
MCMacros ==
  {MacroOf(<<[type |-> "chord", parts |-> <<Hold(30), Wait(48), Hold(42)>>], Key(48, {42})>>),
   MacroOf(<<Wait(30), [type |-> "text", chars |-> <<Codepoint(0), Codepoint(1), Other>>]>>),
   MacroOf(<<[type |-> "chord", parts |-> <<Hold(48), Other>>]>>),
   MacroOf(<<[type |-> "text", chars |-> [i \in 1 .. 7 |-> Key(30, {})]]>>)}

MCTexts == {TextOf(<<Key(48, {42}), Codepoint(0)>>), TextOf(<<Key(30, {}), Other>>)}

MCRequests ==
  MCMacros \cup MCTexts
    \cup {[type |-> type] : type \in {"reload", "listen", "refused"}}
    \cup {[type |-> "bind", accepted |-> accepted] : accepted \in {{}, Kbd}}
=============================================================================
