------------------------------ MODULE MCConfig ------------------------------
(***************************************************************************)
(* Lines for checking Config: a file may be any few of them, in any order, *)
(* with an include that stands for several.  Entries nest actions, take    *)
(* deprecated names and alias names, overlap in their chords and exceed    *)
(* the tables, which are small.                                            *)
(***************************************************************************)
EXTENDS Config, TLC, FiniteSetsExt

MCCode  == {"a", "b", "leftshift"}
Names   == {"main", "control", "shift", "meta", "alt", "altgr", "nav", "nav+shift", "nav+alt+meta", "dvorak"}
Others  == {"ids", "aliases", "global", "*", "0123", "-0123", "m:0123", "oneshot_timeout", "common",
            "base", "more", "missing", "locked", "70000", "9", "%", "esc"}
Chords  == {"a+b", "b+a+leftshift", "+"}
MCWord  == Names \cup Others \cup Chords \cup MCCode

MCKeyOf      == [w \in MCWord |-> IF w \in MCCode THEN w ELSE NoCode]
MCSequenceOf == MCKeyOf
MCGlyph      == {"%"}
MCNumber     == [w \in MCWord |-> CASE w = "70000" -> 70000 [] w = "9" -> 9 [] OTHER -> 0]
MCParts      == [w \in MCWord |-> CASE w = "nav+shift" -> <<"nav", "shift">>
                                    [] w = "nav+alt+meta" -> <<"nav", "alt", "meta">>
                                    [] w = "a+b" -> <<"a", "b">>
                                    [] w = "b+a+leftshift" -> <<"b", "a", "leftshift">>
                                    [] w = "+" -> <<>>
                                    [] OTHER -> <<w>>]

W(w)    == AWord(w)
Text(n) == [kind |-> "macro", size |-> n]
Run     == [kind |-> "command"]

Nav     == Call("layer", <<W("nav")>>)
Over    == Call("overload", <<W("nav"), W("b")>>)
OverRun == Call("overloadt", <<W("shift"), Run, W("70000")>>)
Nested  == Call("timeout", <<Over, W("9"), Text(1)>>)
Mod     == Call("lettermod", <<W("shift"), W("a"), W("9"), W("9")>>)
Old     == Call("toggle2", <<W("nav"), W("%")>>)
Once    == Call("oneshotk", <<W("shift"), W("b")>>)
OnceNot == Call("oneshotk", <<W("shift"), Nav>>)
Lay     == Call("setlayout", <<W("dvorak")>>)
BadLay  == Call("layer", <<W("dvorak")>>)
TooFew  == Call("swap", <<>>)
TooMany == Call("timeout", <<W("a"), W("9"), W("a"), W("9"), W("a"), W("9")>>)

Closed(es) == es \cup UNION {{e.args[i] : i \in DOMAIN e.args} : e \in {x \in es : x.kind = "call"}}
MCExp == Closed(Closed({Empty, W("%"), W("9"), W("leftshift"), Text(1), Text(9), Nav, Over, OverRun,
                        Nested, Mod, Lettermod(Mod.args), Old, Once, OnceNot, Lay, BadLay, TooFew, TooMany}
                       \cup {W(w) : w \in {"a", "b", "esc", "shift", "dvorak", "main"}}))

MCDepth[e \in MCExp] ==
  IF e.kind # "call" THEN 0
  ELSE 1 + Max({0} \cup {MCDepth[e.args[i]] : i \in DOMAIN e.args}
                   \cup (IF IsLettermod(e) THEN {MCDepth[Lettermod(e.args)]} ELSE {}))

H(w, t) == [kind |-> "header", name |-> w, type |-> t]
E(k, e) == [kind |-> "entry", key |-> k, val |-> e]
Blank   == [kind |-> "blank"]
Inc(w)  == [kind |-> "include", word |-> w]

MCLine == {H("main", "none"), H("nav", "mods"), H("nav+shift", "none"), H("nav+alt+meta", "none"), H("dvorak", "layout"),
           Blank, Inc("common"), Inc("base"), Inc("more"), Inc("locked"),
           E("a", Over), E("shift", Nested), E("a+b", Lay), E("b", Mod), E("b", NoVal)}
Binding(l, k, e) == [layer |-> l, key |-> k, exp |-> e]
MCBind == {Binding("main", "a", OverRun), Binding("nav", "a", Nested), Binding("main", "a", Empty),
           Binding("main", "+", Once), Binding("main", "a+b", OnceNot),
           Binding("nav", "b", TooMany)}

Found(lines) == [status |-> "found", lines |-> lines]
MCIncluded == [w \in MCWord |->
  CASE w = "common" -> Found(<<Blank, H("nav", "none"), E("a", Old), E("b+a+leftshift", Run),
                               H("main", "none"), Inc("missing"), E("esc", OverRun)>>)
    [] w = "base" -> Found(<<H("ids", "none"), E("*", NoVal), E("-0123", NoVal), E("m:0123", NoVal),
                             H("aliases", "none"), E("a", W("b")), E("b", W("esc")),
                             E("leftshift", W("esc"))>>)
    [] w = "more" -> Found(<<H("global", "none"), E("oneshot_timeout", W("9")), E("9", W("9")),
                             H("ids", "none"), E("0123", NoVal), E("9", NoVal),
                             H("nav+shift", "none"), E("b", W("%")), E("a", TooFew), E("a", BadLay)>>)
    [] w = "locked" -> [status |-> "unreadable", lines |-> <<>>]
    [] OTHER -> [status |-> "unresolved", lines |-> <<>>]]

MCOption  == {"oneshot_timeout"}
MCIdName  == [w \in MCWord |-> IF w \in {"-0123", "m:0123"} THEN "0123" ELSE w]
MCIdFlags == [w \in MCWord |-> CASE w = "*"      -> {"wildcard"}
                                [] w = "-0123"  -> {"excluded"}
                                [] w = "m:0123" -> {"mouse"}
                                [] w = "0123"   -> {"keyboard", "key", "mouse"}
                                [] OTHER -> {}]
MCDevice  == {[id |-> i, flags |-> f] : i \in {"0123", "9"}, f \in {{"mouse"}, {"keyboard", "key"}}}
=============================================================================
