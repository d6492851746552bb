---------------------------- MODULE ClientsProofs ----------------------------
(***************************************************************************)
(* Clients, for any of them, any keyboards, requests, tables of keys and   *)
(* bounds: what they make the daemon type leaves no key down that was not  *)
(* down, what is down can be taken back, and a listener comes to believe   *)
(* what is so of the layers.  First what Output promises of each thing     *)
(* that is typed, then the state machine of Clients.                       *)
(***************************************************************************)
EXTENDS Clients, SequenceTheorems, FiniteSetTheorems, FunctionTheorems, TLAPS

\* TakenBack, as a step of a fold over codes.
BackStep(o, code) == TakenBack(code, o)

BackFold == INSTANCE FoldTheorems WITH Op <- BackStep
SpellFold == INSTANCE FoldTheorems WITH Op <- Spelt
ParseFold == INSTANCE FoldTheorems WITH Op <- Parsed
ModFold == INSTANCE FoldTheorems WITH Op <- ModSent
TapFold == INSTANCE FoldTheorems WITH Op <- Tap
LetGoFold == INSTANCE FoldTheorems WITH Op <- LetGo
RunFold == INSTANCE FoldTheorems WITH Op <- Executed
VkbdTapFold == INSTANCE FoldTheorems WITH Op <- VkbdTap
InputFold == INSTANCE FoldTheorems WITH Op <- InputChar

\* The folds of the model are those that the theorems are about.
LEMMA BackIsFold ==
  ASSUME NEW o, NEW S
  PROVE  FoldSet(TakenBack, o, S) = BackFold!SetFold(o, S)
BY DEF FoldSet, MapThenFoldSet, BackFold!SetFold, BackFold!Any, BackStep

LEMMA SpellIsFold ==
  ASSUME NEW b, NEW s
  PROVE  FoldLeft(Spelt, b, s) = SpellFold!Fold(b, s)
BY DEF SpellFold!Fold, FoldLeft, MapThenFoldSet, SpellFold!Top, Max

LEMMA ParseIsFold ==
  ASSUME NEW tokens
  PROVE  MacroParse(tokens) = ParseFold!Fold(<<>>, tokens)
BY DEF MacroParse, ParseFold!Fold, FoldLeft, MapThenFoldSet, ParseFold!Top, Max

LEMMA ModIsFold ==
  ASSUME NEW b, NEW s
  PROVE  FoldLeft(ModSent, b, s) = ModFold!Fold(b, s)
BY DEF ModFold!Fold, FoldLeft, MapThenFoldSet, ModFold!Top, Max

LEMMA TapIsFold ==
  ASSUME NEW b, NEW s
  PROVE  FoldLeft(Tap, b, s) = TapFold!Fold(b, s)
BY DEF TapFold!Fold, FoldLeft, MapThenFoldSet, TapFold!Top, Max

LEMMA LetGoIsFold ==
  ASSUME NEW b, NEW s
  PROVE  Released(b, s) = LetGoFold!Fold(b, s)
BY DEF Released, LetGoFold!Fold, FoldLeft, MapThenFoldSet, LetGoFold!Top, Max

LEMMA RunIsFold ==
  ASSUME NEW b, NEW s
  PROVE  FoldLeft(Executed, b, s) = RunFold!Fold(b, s)
BY DEF RunFold!Fold, FoldLeft, MapThenFoldSet, RunFold!Top, Max

LEMMA VkbdTapIsFold ==
  ASSUME NEW b, NEW s
  PROVE  FoldLeft(VkbdTap, b, s) = VkbdTapFold!Fold(b, s)
BY DEF VkbdTapFold!Fold, FoldLeft, MapThenFoldSet, VkbdTapFold!Top, Max

LEMMA InputIsFold ==
  ASSUME NEW b, NEW s
  PROVE  FoldLeft(InputChar, b, s) = InputFold!Fold(b, s)
BY DEF InputFold!Fold, FoldLeft, MapThenFoldSet, InputFold!Top, Max

-----------------------------------------------------------------------------
(* One key.                                                                *)

\* What the two virtual keyboards show agrees, and no slot shows a key twice.
Shown(o) ==
  /\ o \in Outputs
  /\ o.mods = o.uinput \cap ModifierKeys
  /\ \A i \in 1 .. Slots : o.keys[i] # 0 =>
       /\ o.keys[i] \in o.uinput /\ o.keys[i] \in Reported
       /\ \A j \in 1 .. Slots : o.keys[j] = o.keys[i] => i = j

\* What is down is in the keystate, so that clear_vkbd takes it back.
Good(o) == Shown(o) /\ o.uinput \subseteq o.keystate \ Scroll

LEMMA Codes ==
  /\ Code \subseteq 1 .. 255 /\ Scroll \subseteq Code /\ Reported \subseteq Code
  /\ ModifierKeys \subseteq Code /\ ModifierKeys \cap Scroll = {} /\ Reported \cap Scroll = {}
  /\ Modifiers \in Seq(ModifierKeys) /\ Shift \in Code /\ Cancel \in Code /\ Slots \in Nat
BY OutputAssumption

LEMMA ToggledType ==
  ASSUME NEW S \in SUBSET (1 .. 255), NEW code, NEW p \in BOOLEAN, p => code \in 1 .. 255
  PROVE  Toggled(S, code, p) \in SUBSET (1 .. 255)
BY DEF Toggled

Shows(keys, down) ==
  /\ keys \in [1 .. Slots -> 0 .. 255]
  /\ \A i \in 1 .. Slots : keys[i] # 0 =>
       /\ keys[i] \in down /\ keys[i] \in Reported
       /\ \A j \in 1 .. Slots : keys[j] = keys[i] => i = j

\* The report goes on showing what is down, each key once.
LEMMA SlottedShows ==
  ASSUME NEW o, Shown(o), NEW code, NEW p \in BOOLEAN, p => code \in Code
  PROVE  Shows(Slotted(o.keys, code, p), Toggled(o.uinput, code, p))
<1> DEFINE k == o.keys
           keys == Slotted(k, code, p)
           down == Toggled(o.uinput, code, p)
<1>1. /\ k \in [1 .. Slots -> 0 .. 255] /\ DOMAIN k = 1 .. Slots
      /\ \A i \in 1 .. Slots : k[i] # 0 =>
           /\ k[i] \in o.uinput /\ k[i] \in Reported
           /\ \A j \in 1 .. Slots : k[j] = k[i] => i = j
  BY DEF Shown, Outputs
<1> HIDE DEF k
<1> SUFFICES /\ keys \in [1 .. Slots -> 0 .. 255]
             /\ \A i \in 1 .. Slots : keys[i] # 0 =>
                  /\ keys[i] \in down /\ keys[i] \in Reported
                  /\ \A j \in 1 .. Slots : keys[j] = keys[i] => i = j
  BY DEF Shows, k
<1>2. CASE code \notin Reported
  <2>1. keys = k
    BY <1>2 DEF Slotted
  <2>2. \A i \in 1 .. Slots : k[i] # 0 => k[i] \in down
    BY <1>1, <1>2 DEF Toggled
  <2> HIDE DEF down
  <2> QED BY <1>1, <2>1, <2>2 DEF down, k
<1>3. CASE code \in Reported /\ ~p
  <2>1. keys = [i \in 1 .. Slots |-> IF k[i] = code THEN 0 ELSE k[i]]
    BY <1>3 DEF Slotted
  <2>2. down = o.uinput \ {code}
    BY <1>3 DEF Toggled
  <2> HIDE DEF down, keys
  <2>3. keys \in [1 .. Slots -> 0 .. 255]
    BY <1>1, <2>1
  <2>4. \A i \in 1 .. Slots : keys[i] # 0 => keys[i] = k[i] /\ k[i] # code /\ k[i] # 0
    BY <2>1
  <2>5. \A i \in 1 .. Slots : keys[i] # 0 =>
          /\ keys[i] \in down /\ keys[i] \in Reported
          /\ \A j \in 1 .. Slots : keys[j] = keys[i] => i = j
    BY <1>1, <2>2, <2>4
  <2> QED BY <2>3, <2>5 DEF keys, down, k
<1>4. CASE code \in Reported /\ p /\ (code \in Range(k) \/ {i \in 1 .. Slots : k[i] = 0} = {})
  <2>1. keys = k
    BY <1>4 DEF Slotted
  <2>2. o.uinput \subseteq down
    BY <1>4 DEF Toggled
  <2> HIDE DEF down, keys
  <2> QED BY <1>1, <2>1, <2>2 DEF keys, down, k
<1>5. CASE code \in Reported /\ p /\ code \notin Range(k) /\ {i \in 1 .. Slots : k[i] = 0} # {}
  <2> DEFINE free == {i \in 1 .. Slots : k[i] = 0}
             x == CHOOSE i \in free : \A j \in free : i <= j
  <2>1. keys = [k EXCEPT ![x] = code]
    BY <1>5 DEF Slotted
  <2>a. down = o.uinput \cup {code}
    BY <1>5 DEF Toggled
  <2>b. code \in Code
    BY <1>5
  <2>c. code \in 1 .. 255
    BY <2>b, Codes
  <2>2. down = o.uinput \cup {code} /\ code \in 0 .. 255
    BY <2>a, <2>c
  <2>3. \A i \in 1 .. Slots : k[i] # code
    BY <1>1, <1>5 DEF Range
  <2> HIDE DEF x, down, keys
  <2>4. \A i \in 1 .. Slots : keys[i] = IF i = x THEN code ELSE k[i]
    BY <1>1, <2>1
  <2>5. keys \in [1 .. Slots -> 0 .. 255]
    BY <1>1, <2>1, <2>2
  <2>6. ASSUME NEW i \in 1 .. Slots, keys[i] # 0
        PROVE  /\ keys[i] \in down /\ keys[i] \in Reported
               /\ \A j \in 1 .. Slots : keys[j] = keys[i] => i = j
    <3>1. CASE i = x
      BY <1>5, <2>2, <2>3, <2>4, <3>1
    <3>2. CASE i # x
      BY <1>1, <2>2, <2>3, <2>4, <2>6, <3>2
    <3> QED BY <3>1, <3>2
  <2> QED BY <2>5, <2>6 DEF keys, down, k
<1> QED BY <1>2, <1>3, <1>4, <1>5

LEMMA VkbdShows ==
  ASSUME NEW o, Shown(o), NEW code, NEW p \in BOOLEAN, p => code \in Code
  PROVE  LET r == VkbdSendKey(o, code, p)
         IN  /\ Shown(r) /\ r.keystate = o.keystate
             /\ r.uinput = Toggled(o.uinput, code, p)
<1> DEFINE down == Toggled(o.uinput, code, p)
           mods == IF code \in ModifierKeys THEN Toggled(o.mods, code, p) ELSE o.mods
           keys == Slotted(o.keys, code, p)
           r == [o EXCEPT !.uinput = down, !.mods = mods, !.keys = keys]
<1>1. /\ o \in Outputs /\ o.uinput \in SUBSET (1 .. 255) /\ o.mods \in SUBSET ModifierKeys
      /\ o.mods = o.uinput \cap ModifierKeys
  BY DEF Shown, Outputs
<1>2. down \in SUBSET (1 .. 255)
  <2>1. p => code \in 1 .. 255
    BY Codes
  <2>2. Toggled(o.uinput, code, p) \in SUBSET (1 .. 255)
    BY <1>1, <2>1, ToggledType
  <2> QED BY <2>2
<1>3. mods = down \cap ModifierKeys
  BY <1>1 DEF Toggled
<1>4. Shows(keys, down)
  BY SlottedShows
<1>5. VkbdSendKey(o, code, p) = r
  BY DEF VkbdSendKey
<1> HIDE DEF down, mods, keys
<1>a. keys \in [1 .. Slots -> 0 .. 255]
  BY <1>4 DEF Shows
<1>b. mods \in SUBSET ModifierKeys
  BY <1>3
<1>6. /\ r \in Outputs /\ r.uinput = down /\ r.mods = mods /\ r.keys = keys
      /\ r.keystate = o.keystate
  <2>1. r.uinput = down /\ r.mods = mods /\ r.keys = keys /\ r.keystate = o.keystate
    BY <1>1 DEF Outputs
  <2>2. r \in Outputs
    BY <1>1, <1>2, <1>a, <1>b, ZenonT(60) DEF Outputs
  <2> QED BY <2>1, <2>2
<1> HIDE DEF r
<1>7. Shown(r)
  BY <1>3, <1>4, <1>6 DEF Shown, Shows
<1> QED BY <1>5, <1>6, <1>7 DEF down

LEMMA SendGood ==
  ASSUME NEW o, Good(o), NEW code, NEW p \in BOOLEAN, p => code \in Code
  PROVE  LET r == SendKey(o, code, p)
         IN  /\ Good(r) /\ r.keystate = Toggled(o.keystate, code, p)
             /\ r.uinput = IF code \in Scroll THEN o.uinput ELSE Toggled(o.uinput, code, p)
<1> DEFINE state == Toggled(o.keystate, code, p)
           known == [o EXCEPT !.keystate = state]
           r == SendKey(o, code, p)
<1>1. /\ o \in Outputs /\ o.keystate \in SUBSET (1 .. 255) /\ Shown(o)
      /\ o.uinput \subseteq o.keystate \ Scroll
  BY DEF Good, Shown, Outputs
<1>2. state \in SUBSET (1 .. 255)
  BY <1>1, Codes, ToggledType, ZenonT(60)
<1>3. r = IF code \in Scroll THEN known ELSE VkbdSendKey(known, code, p)
  BY DEF SendKey
<1> HIDE DEF state
<1>4. /\ known \in Outputs /\ known.keystate = state /\ known.uinput = o.uinput
      /\ known.mods = o.mods /\ known.keys = o.keys
  BY <1>1, <1>2, ZenonT(60) DEF Outputs
<1> HIDE DEF known, r
<1>5. Shown(known)
  BY <1>1, <1>4 DEF Shown
<1>6. CASE code \in Scroll
  <2>1. r.uinput \subseteq state \ Scroll
    BY <1>1, <1>3, <1>4, <1>6 DEF state, Toggled
  <2> QED BY <1>3, <1>4, <1>5, <1>6, <2>1 DEF Good, r, state
<1>7. CASE code \notin Scroll
  <2>1. /\ Shown(r) /\ r.keystate = state /\ r.uinput = Toggled(o.uinput, code, p)
    BY <1>3, <1>4, <1>5, <1>7, VkbdShows
  <2>2. r.uinput \subseteq state \ Scroll
    BY <1>1, <1>7, <2>1 DEF state, Toggled
  <2> QED BY <1>7, <2>1, <2>2 DEF Good, r, state
<1> QED BY <1>6, <1>7

-----------------------------------------------------------------------------
(* What a macro leaves down.                                               *)

\* Since o0 nothing has come down but what is in D, and what is in D and stands for
\* no key is not on the virtual keyboard.
Left(o, o0, D) == /\ Good(o)
                  /\ o.keystate \subseteq o0.keystate \cup D
                  /\ o.uinput \subseteq o0.uinput \cup (D \ Scroll)

LEMMA LeftMore ==
  ASSUME NEW o, NEW o0, NEW D, NEW E, Left(o, o0, D), D \subseteq E
  PROVE  Left(o, o0, E)
BY DEF Left

LEMMA LeftPress ==
  ASSUME NEW o, NEW o0, NEW D, Left(o, o0, D), NEW code \in Code
  PROVE  Left(SendKey(o, code, TRUE), o0, D \cup {code})
<1> DEFINE r == SendKey(o, code, TRUE)
<1>1. Good(o) /\ o.keystate \subseteq o0.keystate \cup D /\ o.uinput \subseteq o0.uinput \cup (D \ Scroll)
  BY DEF Left
<1>2. /\ Good(r) /\ r.keystate = o.keystate \cup {code}
      /\ r.uinput = IF code \in Scroll THEN o.uinput ELSE o.uinput \cup {code}
  BY <1>1, SendGood DEF Toggled
<1> HIDE DEF r
<1>3. Left(r, o0, D \cup {code})
  BY <1>1, <1>2 DEF Left
<1> QED BY <1>3 DEF r

LEMMA LeftLift ==
  ASSUME NEW o, NEW o0, NEW D, Left(o, o0, D), NEW code
  PROVE  Left(SendKey(o, code, FALSE), o0, D \ {code})
<1> DEFINE r == SendKey(o, code, FALSE)
<1>1. Good(o) /\ o.keystate \subseteq o0.keystate \cup D /\ o.uinput \subseteq o0.uinput \cup (D \ Scroll)
  BY DEF Left
<1>2. /\ Good(r) /\ r.keystate = o.keystate \ {code}
      /\ r.uinput = IF code \in Scroll THEN o.uinput ELSE o.uinput \ {code}
  BY <1>1, SendGood DEF Toggled
<1> HIDE DEF r
<1>3. Left(r, o0, D \ {code})
  BY <1>1, <1>2 DEF Left
<1> QED BY <1>3 DEF r

LEMMA LeftTap ==
  ASSUME NEW o, NEW o0, NEW D, Left(o, o0, D), NEW code \in Code
  PROVE  Left(Tap(o, code), o0, D)
<1>1. Left(SendKey(o, code, TRUE), o0, D \cup {code})
  BY LeftPress
<1>2. Left(Tap(o, code), o0, (D \cup {code}) \ {code})
  BY <1>1, LeftLift DEF Tap
<1>3. (D \cup {code}) \ {code} \subseteq D
  OBVIOUS
<1> QED BY <1>2, <1>3, LeftMore

LEMMA GoodOutputs ==
  ASSUME NEW o, NEW o0, NEW D, Left(o, o0, D)
  PROVE  o \in Outputs
BY DEF Left, Good, Shown

LEMMA LeftTaps ==
  ASSUME NEW o, NEW o0, NEW D, Left(o, o0, D), NEW s \in Seq(Code)
  PROVE  Left(FoldLeft(Tap, o, s), o0, D)
<1> DEFINE B == {x \in Outputs : Left(x, o0, D)}
<1>1. o \in B
  BY GoodOutputs
<1>2. \A x \in B, code \in Code : Tap(x, code) \in B
  BY LeftTap, GoodOutputs
<1> HIDE DEF B
<1>3. TapFold!Fold(o, s) \in B
  BY <1>1, <1>2, TapFold!FoldType
<1> QED BY <1>3, TapIsFold DEF B

\* Of the modifiers those in the table are sent.
Sent(mods) == Range(Modifiers) \cap mods

LEMMA LeftMods ==
  ASSUME NEW o, NEW o0, NEW D, Left(o, o0, D), NEW mods \in SUBSET ModifierKeys,
         NEW p \in BOOLEAN
  PROVE  Left(SendMods(o, mods, p), o0, IF p THEN D \cup Sent(mods) ELSE D \ Sent(mods))
<1> DEFINE After(s) == IF p THEN D \cup (Range(s) \cap mods) ELSE D \ (Range(s) \cap mods)
           Runs == [out : Outputs, mods : {mods}, pressed : {p}]
           R == {q \in Seq(ModifierKeys) \X Runs : Left(q[2].out, o0, After(q[1]))}
           b == [out |-> o, mods |-> mods, pressed |-> p]
<1>1. <<<<>>, b>> \in R
  <2>1. Range(<<>>) = {}
    BY DEF Range
  <2>2. After(<<>>) = D
    BY <2>1
  <2>3. <<>> \in Seq(ModifierKeys) /\ o \in Outputs
    BY GoodOutputs
  <2> HIDE DEF After
  <2>4. Left(b.out, o0, After(<<>>)) /\ b \in Runs
    BY <2>2, <2>3
  <2> HIDE DEF b, Runs
  <2> QED BY <2>3, <2>4
<1>2. ASSUME NEW s \in Seq(ModifierKeys), NEW e \in ModifierKeys, NEW y, <<s, y>> \in R
      PROVE  <<Append(s, e), ModSent(y, e)>> \in R
  <2>1. y \in Runs /\ Left(y.out, o0, After(s))
    BY <1>2
  <2>2. Append(s, e) \in Seq(ModifierKeys) /\ Range(Append(s, e)) = Range(s) \cup {e}
    BY AppendProperties DEF Range
  <2>3. e \in Code
    BY Codes
  <2>4. CASE e \in mods
    <3> DEFINE sent == SendKey(y.out, e, p)
    <3>1. ModSent(y, e) = [y EXCEPT !.out = sent]
      BY <2>1, <2>4 DEF ModSent
    <3>2. Left(sent, o0, After(Append(s, e)))
      <4>1. CASE p
        <5>1. Left(sent, o0, After(s) \cup {e})
          BY <2>1, <2>3, <4>1, LeftPress
        <5>2. After(s) \cup {e} \subseteq After(Append(s, e))
          BY <2>2, <2>4, <4>1
        <5> HIDE DEF After, sent
        <5> QED BY <5>1, <5>2, LeftMore
      <4>2. CASE ~p
        <5>1. Left(sent, o0, After(s) \ {e})
          BY <2>1, <4>2, LeftLift
        <5>2. After(s) \ {e} \subseteq After(Append(s, e))
          BY <2>2, <2>4, <4>2
        <5> HIDE DEF After, sent
        <5> QED BY <5>1, <5>2, LeftMore
      <4> QED BY <4>1, <4>2
    <3> HIDE DEF After, sent
    <3>3. [y EXCEPT !.out = sent] \in Runs /\ [y EXCEPT !.out = sent].out = sent
      BY <2>1, <3>2, GoodOutputs
    <3> QED BY <2>2, <3>1, <3>2, <3>3
  <2>5. CASE e \notin mods
    <3>1. ModSent(y, e) = y
      BY <2>1, <2>5 DEF ModSent
    <3>2. After(Append(s, e)) = After(s)
      BY <2>2, <2>5
    <3> HIDE DEF After
    <3> QED BY <2>1, <2>2, <3>1, <3>2
  <2> QED BY <2>4, <2>5
<1>3. Modifiers \in Seq(ModifierKeys)
  BY Codes
<1> HIDE DEF R, b
<1>4. <<Modifiers, ModFold!Fold(b, Modifiers)>> \in R
  BY <1>1, <1>2, <1>3, ModFold!FoldInto
<1>5. SendMods(o, mods, p) = ModFold!Fold(b, Modifiers).out
  BY ModIsFold DEF SendMods, b
<1> QED BY <1>4, <1>5 DEF R, Sent

\* An entry of a macro that parses.
CalmEntry == [type : {"keysequence"}, data : Code, mods : SUBSET ModifierKeys]
               \cup [type : {"unicode"}, data : DOMAIN Spelling, mods : {{}}]
               \cup [type : {"timeout"}, data : Nat, mods : {{}}]
MacroEntry == CalmEntry \cup [type : {"hold"}, data : Code, mods : {{}}]
                        \cup [type : {"release"}, data : {0}, mods : {{}}]

\* The codes that are let go with the entries held.
Data(held) == {held[i].data % 256 : i \in DOMAIN held}

LEMMA DataAppend ==
  ASSUME NEW s \in Seq(MacroEntry), NEW e \in MacroEntry
  PROVE  /\ Append(s, e) \in Seq(MacroEntry)
         /\ Data(Append(s, e)) = Data(s) \cup {e.data % 256}
<1>1. /\ Append(s, e) \in Seq(MacroEntry) /\ DOMAIN s = 1 .. Len(s) /\ Len(s) \in Nat
      /\ DOMAIN Append(s, e) = 1 .. (Len(s) + 1)
      /\ \A i \in 1 .. Len(s) : Append(s, e)[i] = s[i]
      /\ Append(s, e)[Len(s) + 1] = e
  BY AppendProperties
<1> DEFINE t == Append(s, e)
<1> HIDE DEF t
<1>2. 1 .. (Len(s) + 1) = (1 .. Len(s)) \cup {Len(s) + 1}
  BY <1>1
<1>3. Data(t) = Data(s) \cup {e.data % 256}
  BY <1>1, <1>2 DEF Data, t
<1> QED BY <1>1, <1>3 DEF t

LEMMA LeftReleased ==
  ASSUME NEW o, NEW o0, NEW held \in Seq(MacroEntry), Left(o, o0, Data(held))
  PROVE  Left(Released(o, held), o0, {})
<1> DEFINE D == Data(held)
           R == {q \in Seq(MacroEntry) \X Outputs : Left(q[2], o0, D \ Data(q[1]))}
<1>1. <<<<>>, o>> \in R
  <2>1. D \ Data(<<>>) = D
    BY DEF Data
  <2>2. <<>> \in Seq(MacroEntry) /\ o \in Outputs
    BY GoodOutputs
  <2> HIDE DEF D
  <2> QED BY <2>1, <2>2 DEF D
<1>2. ASSUME NEW s \in Seq(MacroEntry), NEW e \in MacroEntry, NEW y, <<s, y>> \in R
      PROVE  <<Append(s, e), LetGo(y, e)>> \in R
  <2>1. Left(y, o0, D \ Data(s))
    BY <1>2
  <2>2. Append(s, e) \in Seq(MacroEntry) /\ D \ Data(Append(s, e)) = (D \ Data(s)) \ {e.data % 256}
    BY DataAppend
  <2>3. Left(LetGo(y, e), o0, (D \ Data(s)) \ {e.data % 256})
    BY <2>1, LeftLift, ZenonT(60) DEF LetGo
  <2> HIDE DEF D
  <2>4. Left(LetGo(y, e), o0, D \ Data(Append(s, e)))
    BY <2>2, <2>3
  <2>5. LetGo(y, e) \in Outputs
    BY <2>4, GoodOutputs
  <2> QED BY <2>2, <2>4, <2>5
<1> HIDE DEF R, D
<1>3. <<held, LetGoFold!Fold(o, held)>> \in R
  BY <1>1, <1>2, LetGoFold!FoldInto
<1>4. Released(o, held) = LetGoFold!Fold(o, held)
  BY LetGoIsFold
<1>5. Left(Released(o, held), o0, D \ Data(held))
  BY <1>3, <1>4 DEF R
<1>6. D \ Data(held) = {}
  BY DEF D
<1> QED BY <1>5, <1>6

\* A macro under way leaves down no more than what it is to let go; one at rest nothing.
Run == [out : Outputs, held : Seq(MacroEntry)]
UnderWay(o0) == {run \in Run : Left(run.out, o0, Data(run.held))}
AtRest(o0) == {run \in UnderWay(o0) : run.held = <<>>}

LEMMA DataEmpty == Data(<<>>) = {}
BY DEF Data

LEMMA SpelledCodes ==
  ASSUME NEW idx \in DOMAIN Spelling
  PROVE  UnicodeSequence(idx) \in Seq(Code)
<1>1. Spelling[idx] \in [1 .. 3 -> Code] /\ Cancel \in Code
  BY OutputAssumption
<1>2. Spelling[idx] \in Seq(Code)
  BY <1>1, SeqDef
<1>3. <<Cancel>> \in Seq(Code)
  BY <1>1
<1> QED BY <1>2, <1>3, ConcatProperties DEF UnicodeSequence

LEMMA ExecutedCalm ==
  ASSUME NEW o0, NEW run \in UnderWay(o0), NEW e \in CalmEntry
  PROVE  /\ Executed(run, e) \in UnderWay(o0)
         /\ run.held = <<>> => Executed(run, e).held = <<>>
<1>1. /\ run \in Run /\ Left(run.out, o0, Data(run.held)) /\ run.held \in Seq(MacroEntry)
  BY DEF UnderWay, Run
<1>2. CASE e.type = "keysequence"
  <2>1. e.data \in Code /\ e.mods \in SUBSET ModifierKeys
    BY <1>2 DEF CalmEntry
  <2> DEFINE held == Data(run.held)
             o1 == SendMods(run.out, e.mods, TRUE)
             o2 == Tap(o1, e.data)
             o3 == SendMods(o2, e.mods, FALSE)
  <2>2. Left(o1, o0, held \cup Sent(e.mods))
    BY <1>1, <2>1, LeftMods
  <2> HIDE DEF o1, held
  <2>3. Left(o2, o0, held \cup Sent(e.mods))
    BY <2>1, <2>2, LeftTap
  <2> HIDE DEF o2
  <2>4. Left(o3, o0, (held \cup Sent(e.mods)) \ Sent(e.mods))
    BY <2>1, <2>3, LeftMods
  <2>5. (held \cup Sent(e.mods)) \ Sent(e.mods) \subseteq held
    OBVIOUS
  <2> HIDE DEF o3
  <2>6. Left(o3, o0, held) /\ o3 \in Outputs
    BY <2>4, <2>5, LeftMore, GoodOutputs
  <2>7. Executed(run, e) = [run EXCEPT !.out = o3]
    BY <1>1, <1>2 DEF Executed, o1, o2, o3, Run
  <2>8. /\ [run EXCEPT !.out = o3] \in Run /\ [run EXCEPT !.out = o3].out = o3
        /\ [run EXCEPT !.out = o3].held = run.held
    BY <1>1, <2>6 DEF Run
  <2> QED BY <2>6, <2>7, <2>8 DEF UnderWay, held
<1>3. CASE e.type = "unicode"
  <2>1. e.data \in DOMAIN Spelling
    BY <1>3 DEF CalmEntry
  <2> DEFINE o3 == FoldLeft(Tap, run.out, UnicodeSequence(e.data))
  <2>6. Left(o3, o0, Data(run.held))
    BY <1>1, <2>1, SpelledCodes, LeftTaps
  <2> HIDE DEF o3
  <2>61. o3 \in Outputs
    BY <2>6, GoodOutputs
  <2>7. Executed(run, e) = [run EXCEPT !.out = o3]
    BY <1>1, <1>3 DEF Executed, o3, Run
  <2>8. /\ [run EXCEPT !.out = o3] \in Run /\ [run EXCEPT !.out = o3].out = o3
        /\ [run EXCEPT !.out = o3].held = run.held
    BY <1>1, <2>61 DEF Run
  <2> QED BY <2>6, <2>7, <2>8 DEF UnderWay
<1>4. CASE e.type = "timeout"
  <2> DEFINE h == IF run.held = <<>> THEN run.held ELSE Append(run.held, e)
  <2>1. Executed(run, e) = [run EXCEPT !.held = h]
    BY <1>1, <1>4 DEF Executed, Run
  <2>2. e \in MacroEntry
    BY DEF MacroEntry
  <2>3. h \in Seq(MacroEntry) /\ Data(run.held) \subseteq Data(h)
    BY <1>1, <2>2, DataAppend
  <2>4. run.held = <<>> => h = <<>>
    OBVIOUS
  <2> HIDE DEF h
  <2>5. /\ [run EXCEPT !.held = h] \in Run /\ [run EXCEPT !.held = h].held = h
        /\ [run EXCEPT !.held = h].out = run.out
    BY <1>1, <2>3 DEF Run
  <2>6. Left(run.out, o0, Data(h))
    BY <1>1, <2>3, LeftMore
  <2> QED BY <2>1, <2>4, <2>5, <2>6 DEF UnderWay
<1> QED BY <1>2, <1>3, <1>4 DEF CalmEntry

LEMMA ExecutedHold ==
  ASSUME NEW o0, NEW run \in UnderWay(o0),
         NEW e \in [type : {"hold"}, data : Code, mods : {{}}]
  PROVE  Executed(run, e) \in UnderWay(o0)
<1>1. /\ run \in Run /\ Left(run.out, o0, Data(run.held)) /\ run.held \in Seq(MacroEntry)
  BY DEF UnderWay, Run
<1> DEFINE h == Append(run.held, e)
           sent == SendKey(run.out, e.data, TRUE)
<1>2. Executed(run, e) = [out |-> sent, held |-> h]
  BY DEF Executed
<1>3. e \in MacroEntry /\ e.data \in Code
  BY DEF MacroEntry
<1>4. e.data % 256 = e.data
  <2>1. e.data \in 1 .. 255
    BY <1>3, Codes
  <2> QED BY <2>1
<1>5. h \in Seq(MacroEntry) /\ Data(h) = Data(run.held) \cup {e.data}
  BY <1>1, <1>3, <1>4, DataAppend
<1>6. Left(sent, o0, Data(run.held) \cup {e.data})
  BY <1>1, <1>3, LeftPress
<1> HIDE DEF h, sent
<1>7. sent \in Outputs
  BY <1>6, GoodOutputs
<1>8. Left(sent, o0, Data(h))
  BY <1>5, <1>6
<1> DEFINE r == [out |-> sent, held |-> h]
<1>9. r \in Run /\ r.out = sent /\ r.held = h
  BY <1>5, <1>7 DEF Run
<1> HIDE DEF r
<1>10. r \in UnderWay(o0)
  BY <1>8, <1>9 DEF UnderWay
<1> QED BY <1>2, <1>10 DEF r

LEMMA ExecutedRelease ==
  ASSUME NEW o0, NEW run \in UnderWay(o0),
         NEW e \in [type : {"release"}, data : {0}, mods : {{}}]
  PROVE  Executed(run, e) \in AtRest(o0)
<1>1. /\ run \in Run /\ Left(run.out, o0, Data(run.held)) /\ run.held \in Seq(MacroEntry)
  BY DEF UnderWay, Run
<1> DEFINE o == Released(run.out, run.held)
<1>2. Executed(run, e) = [out |-> o, held |-> <<>>]
  BY DEF Executed
<1>3. Left(o, o0, {})
  BY <1>1, LeftReleased
<1> HIDE DEF o
<1>4. o \in Outputs
  BY <1>3, GoodOutputs
<1>5. Left(o, o0, Data(<<>>)) /\ <<>> \in Seq(MacroEntry)
  BY <1>3, DataEmpty
<1> DEFINE r == [out |-> o, held |-> <<>>]
<1>6. r \in Run /\ r.out = o /\ r.held = <<>>
  BY <1>4, <1>5 DEF Run
<1> HIDE DEF r
<1>7. r \in AtRest(o0)
  BY <1>5, <1>6 DEF AtRest, UnderWay
<1> QED BY <1>2, <1>7 DEF r

LEMMA FoldUnderWay ==
  ASSUME NEW o0, NEW run \in UnderWay(o0), NEW s \in Seq(MacroEntry)
  PROVE  RunFold!Fold(run, s) \in UnderWay(o0)
<1> DEFINE B == UnderWay(o0)
<1>1. \A x \in B, e \in MacroEntry : Executed(x, e) \in B
  BY ExecutedCalm, ExecutedHold, ExecutedRelease DEF MacroEntry, AtRest
<1>2. run \in B
  OBVIOUS
<1> HIDE DEF B
<1>3. RunFold!Fold(run, s) \in B
  BY <1>1, <1>2, RunFold!FoldType
<1> QED BY <1>3 DEF B

LEMMA FoldAtRest ==
  ASSUME NEW o0, NEW run \in AtRest(o0), NEW s \in Seq(CalmEntry)
  PROVE  RunFold!Fold(run, s) \in AtRest(o0)
<1> DEFINE B == AtRest(o0)
<1>1. \A x \in B, e \in CalmEntry : Executed(x, e) \in B
  BY ExecutedCalm DEF AtRest
<1>2. run \in B
  OBVIOUS
<1> HIDE DEF B
<1>3. RunFold!Fold(run, s) \in B
  BY <1>1, <1>2, RunFold!FoldType
<1> QED BY <1>3 DEF B

\* A token that parses.
Proper(token) == /\ token \in Token
                 /\ token.type = "chord" =>
                      \A j \in DOMAIN token.parts : token.parts[j].type # "other"

HoldEntry == [type : {"hold"}, data : Code, mods : {{}}]
TimeoutEntry == [type : {"timeout"}, data : Nat, mods : {{}}]
ReleaseEntry == [type : {"release"}, data : {0}, mods : {{}}]

LEMMA CharCalm ==
  ASSUME NEW char, char.type = "key" => char.code \in Code /\ char.mods \in SUBSET ModifierKeys,
         char.type = "codepoint" => char.idx \in DOMAIN Spelling
  PROVE  CharEntries(char) \in Seq(CalmEntry)
<1>1. CASE char.type = "key"
  <2> DEFINE e == [Entry("keysequence", char.code) EXCEPT !.mods = char.mods]
  <2>1. e \in CalmEntry
    BY <1>1 DEF Entry, CalmEntry
  <2>2. CharEntries(char) = <<e>>
    BY <1>1 DEF CharEntries
  <2> HIDE DEF e
  <2> QED BY <2>1, <2>2
<1>2. CASE char.type = "codepoint" /\ char.idx > 0
  <2> DEFINE e == Entry("unicode", char.idx)
  <2>1. e \in CalmEntry
    BY <1>2 DEF Entry, CalmEntry
  <2>2. CharEntries(char) = <<e>>
    BY <1>2 DEF CharEntries
  <2> HIDE DEF e
  <2> QED BY <2>1, <2>2
<1>3. CASE ~(char.type = "key") /\ ~(char.type = "codepoint" /\ char.idx > 0)
  <2>1. CharEntries(char) = <<>>
    BY <1>3 DEF CharEntries
  <2> QED BY <2>1
<1> QED BY <1>1, <1>2, <1>3

LEMMA SpeltCalm ==
  ASSUME NEW chars \in Seq(Char)
  PROVE  FoldLeft(Spelt, <<>>, chars) \in Seq(CalmEntry)
<1> DEFINE B == Seq(CalmEntry)
<1>1. \A x \in B, char \in Char : Spelt(x, char) \in B
  <2> SUFFICES ASSUME NEW x \in B, NEW char \in Char PROVE Spelt(x, char) \in B
    OBVIOUS
  <2>1. CharEntries(char) \in B
    BY CharCalm DEF Char
  <2> QED BY <2>1, ConcatProperties DEF Spelt
<1>2. <<>> \in B
  OBVIOUS
<1> HIDE DEF B
<1>3. SpellFold!Fold(<<>>, chars) \in B
  BY <1>1, <1>2, SpellFold!FoldType
<1> QED BY <1>3, SpellIsFold DEF B

LEMMA TokenRests ==
  ASSUME NEW o0, NEW run \in AtRest(o0), NEW token, Proper(token)
  PROVE  /\ TokenEntries(token) \in Seq(MacroEntry)
         /\ RunFold!Fold(run, TokenEntries(token)) \in AtRest(o0)
<1> DEFINE es == TokenEntries(token)
<1>0. Seq(CalmEntry) \subseteq Seq(MacroEntry) /\ run \in UnderWay(o0)
  <2>1. CalmEntry \subseteq MacroEntry
    BY DEF MacroEntry
  <2> QED BY <2>1 DEF AtRest
<1>1. CASE token.type # "chord"
  <2>1. es \in Seq(CalmEntry)
    <3>1. CASE token.type = "key"
      <4>1. es = CharEntries(token)
        BY <3>1 DEF TokenEntries
      <4>2. token.code \in Code /\ token.mods \in SUBSET ModifierKeys
        BY <3>1 DEF Proper, Token
      <4> QED BY <3>1, <4>1, <4>2, CharCalm
    <3>2. CASE token.type = "wait"
      <4> DEFINE e == Entry("timeout", token.ms)
      <4>1. es = <<e>>
        BY <3>2 DEF TokenEntries
      <4>2. token.ms \in Nat
        BY <3>2 DEF Proper, Token
      <4>3. e \in CalmEntry
        BY <4>2 DEF Entry, CalmEntry
      <4> HIDE DEF e
      <4> QED BY <4>1, <4>3
    <3>3. CASE token.type = "text"
      <4>1. es = FoldLeft(Spelt, <<>>, token.chars)
        BY <3>3 DEF TokenEntries
      <4>2. token.chars \in Seq(Char)
        BY <3>3 DEF Proper, Token
      <4> QED BY <4>1, <4>2, SpeltCalm
    <3> QED BY <1>1, <3>1, <3>2, <3>3 DEF Proper, Token
  <2> HIDE DEF es
  <2> QED BY <1>0, <2>1, FoldAtRest DEF es
<1>2. CASE token.type = "chord"
  <2> DEFINE parts == [i \in DOMAIN token.parts |-> PartEntry(token.parts[i])]
             e == Entry("release", 0)
  <2>1. es = parts \o <<e>>
    BY <1>2 DEF TokenEntries
  <2>2. token.parts \in Seq(Part) /\ \A j \in DOMAIN token.parts : token.parts[j].type # "other"
    BY <1>2 DEF Proper, Token
  <2>3. \A i \in DOMAIN token.parts : PartEntry(token.parts[i]) \in MacroEntry
    <3> SUFFICES ASSUME NEW i \in DOMAIN token.parts
                 PROVE  PartEntry(token.parts[i]) \in MacroEntry
      OBVIOUS
    <3> DEFINE part == token.parts[i]
    <3>1. part \in Part /\ part.type # "other"
      BY <2>2
    <3> HIDE DEF part
    <3>2. PartEntry(part) \in MacroEntry
      BY <3>1 DEF PartEntry, Part, Entry, MacroEntry, CalmEntry
    <3> QED BY <3>2 DEF part
  <2>4. DOMAIN token.parts = 1 .. Len(token.parts) /\ Len(token.parts) \in Nat
    BY <2>2
  <2>5. parts \in [1 .. Len(token.parts) -> MacroEntry]
    BY <2>3, <2>4
  <2>6. parts \in Seq(MacroEntry)
    <3> HIDE DEF parts
    <3> QED BY <2>4, <2>5, SeqDef
  <2>7. e \in ReleaseEntry /\ e \in MacroEntry
    BY DEF Entry, ReleaseEntry, MacroEntry
  <2> HIDE DEF es, parts, e
  <2>8. es = Append(parts, e) /\ es \in Seq(MacroEntry)
    BY <2>1, <2>6, <2>7, AppendIsConcat, AppendProperties
  <2>9. RunFold!Fold(run, parts) \in UnderWay(o0)
    BY <1>0, <2>6, FoldUnderWay
  <2>10. RunFold!Fold(run, Append(parts, e)) = Executed(RunFold!Fold(run, parts), e)
    BY <2>6, <2>7, RunFold!FoldAppend
  <2>11. Executed(RunFold!Fold(run, parts), e) \in AtRest(o0)
    BY <2>7, <2>9, ExecutedRelease DEF ReleaseEntry
  <2> QED BY <2>8, <2>10, <2>11 DEF es
<1> QED BY <1>1, <1>2

LEMMA MacroLeaves ==
  ASSUME NEW o, Good(o), NEW tokens \in Seq(Token), Parses(tokens)
  PROVE  Left(MacroExecute(o, MacroParse(tokens)), o, {})
<1> DEFINE b == [out |-> o, held |-> <<>>]
           P == {token \in Token : Proper(token)}
           B == {es \in Seq(MacroEntry) : RunFold!Fold(b, es) \in AtRest(o)}
<1>1. b \in AtRest(o)
  <2>1. Left(o, o, Data(<<>>))
    BY DataEmpty DEF Left
  <2>2. b \in Run /\ b.out = o /\ b.held = <<>>
    BY <2>1, GoodOutputs DEF Run
  <2> HIDE DEF b
  <2> QED BY <2>1, <2>2 DEF AtRest, UnderWay
<1> HIDE DEF b
<1>2. <<>> \in B
  <2>1. RunFold!Fold(b, <<>>) = b
    BY RunFold!FoldEmpty
  <2> QED BY <1>1, <2>1
<1>3. \A es \in B, token \in P : Parsed(es, token) \in B
  <2> SUFFICES ASSUME NEW es \in B, NEW token \in P PROVE Parsed(es, token) \in B
    OBVIOUS
  <2> DEFINE ts == TokenEntries(token)
             run == RunFold!Fold(b, es)
  <2>1. run \in AtRest(o) /\ es \in Seq(MacroEntry) /\ Proper(token)
    OBVIOUS
  <2> HIDE DEF run
  <2>2. ts \in Seq(MacroEntry) /\ RunFold!Fold(run, ts) \in AtRest(o)
    BY <2>1, TokenRests
  <2> HIDE DEF ts
  <2>3. RunFold!Fold(b, es \o ts) = RunFold!Fold(RunFold!Fold(b, es), ts)
    BY <2>1, <2>2, RunFold!FoldConcat
  <2>4. es \o ts \in Seq(MacroEntry)
    BY <2>1, <2>2, ConcatProperties
  <2> QED BY <2>2, <2>3, <2>4 DEF Parsed, ts, run
<1>4. tokens \in Seq(P)
  <2>1. DOMAIN tokens = 1 .. Len(tokens) /\ Len(tokens) \in Nat
    OBVIOUS
  <2>2. \A i \in 1 .. Len(tokens) : tokens[i] \in P
    BY <2>1 DEF Parses, Proper
  <2>3. tokens = [i \in 1 .. Len(tokens) |-> tokens[i]]
    BY <2>1
  <2> HIDE DEF P
  <2>4. tokens \in [1 .. Len(tokens) -> P]
    BY <2>2, <2>3
  <2> QED BY <2>1, <2>4, SeqDef
<1> HIDE DEF B, P
<1>5. ParseFold!Fold(<<>>, tokens) \in B
  BY <1>2, <1>3, <1>4, ParseFold!FoldType
<1>6. RunFold!Fold(b, MacroParse(tokens)) \in AtRest(o)
  BY <1>5, ParseIsFold DEF B
<1>7. MacroExecute(o, MacroParse(tokens)) = RunFold!Fold(b, MacroParse(tokens)).out
  BY RunIsFold DEF MacroExecute, b
<1> QED BY <1>6, <1>7, DataEmpty DEF AtRest, UnderWay

-----------------------------------------------------------------------------
(* What text leaves down, and what clear_vkbd does.                        *)

\* The keystate does not change, and nothing has come down on the virtual keyboard.
Quiet(o, o0) == Shown(o) /\ o.keystate = o0.keystate /\ o.uinput \subseteq o0.uinput

LEMMA QuietTap ==
  ASSUME NEW o, Shown(o), NEW code \in Code
  PROVE  LET r == VkbdTap(o, code)
         IN  Shown(r) /\ r.keystate = o.keystate /\ r.uinput \subseteq o.uinput
<1> DEFINE o1 == VkbdSendKey(o, code, TRUE)
           o2 == VkbdSendKey(o1, code, FALSE)
<1>1. Shown(o1) /\ o1.keystate = o.keystate /\ o1.uinput = Toggled(o.uinput, code, TRUE)
  BY VkbdShows
<1> HIDE DEF o1
<1>2. Shown(o2) /\ o2.keystate = o1.keystate /\ o2.uinput = Toggled(o1.uinput, code, FALSE)
  BY <1>1, VkbdShows
<1> HIDE DEF o2
<1>3. o2.uinput \subseteq o.uinput
  BY <1>1, <1>2 DEF Toggled
<1> QED BY <1>1, <1>2, <1>3 DEF o1, o2, VkbdTap

LEMMA QuietTaps ==
  ASSUME NEW o, NEW o0, Quiet(o, o0), NEW s \in Seq(Code)
  PROVE  Quiet(FoldLeft(VkbdTap, o, s), o0)
<1> DEFINE B == {x \in Outputs : Quiet(x, o0)}
<1>1. \A x \in Outputs, code \in Code : Quiet(x, o0) => Quiet(VkbdTap(x, code), o0)
  BY QuietTap DEF Quiet
<1>2. \A x : Quiet(x, o0) => x \in Outputs
  BY DEF Quiet, Shown
<1>3. \A x \in B, code \in Code : VkbdTap(x, code) \in B
  BY <1>1, <1>2
<1>4. o \in B
  BY <1>2
<1> HIDE DEF B
<1>5. VkbdTapFold!Fold(o, s) \in B
  BY <1>3, <1>4, VkbdTapFold!FoldType
<1> QED BY <1>5, VkbdTapIsFold DEF B

KnownChar == [type : {"key"}, code : Code, mods : SUBSET ModifierKeys]
               \cup [type : {"codepoint"}, idx : DOMAIN Spelling]

LEMMA QuietChar ==
  ASSUME NEW o, NEW o0, Quiet(o, o0), NEW char \in KnownChar
  PROVE  Quiet(InputChar(o, char), o0)
<1>1. CASE char.type = "key" /\ Shift \in char.mods
  <2> DEFINE o1 == VkbdSendKey(o, Shift, TRUE)
             o2 == VkbdTap(o1, char.code)
             o3 == VkbdSendKey(o2, Shift, FALSE)
  <2>1. char.code \in Code /\ Shift \in Code
    BY <1>1, Codes DEF KnownChar
  <2>2. Shown(o1) /\ o1.keystate = o.keystate /\ o1.uinput = Toggled(o.uinput, Shift, TRUE)
    BY <2>1, VkbdShows DEF Quiet
  <2> HIDE DEF o1
  <2>3. Shown(o2) /\ o2.keystate = o1.keystate /\ o2.uinput \subseteq o1.uinput
    BY <2>1, <2>2, QuietTap
  <2> HIDE DEF o2
  <2>4. Shown(o3) /\ o3.keystate = o2.keystate /\ o3.uinput = Toggled(o2.uinput, Shift, FALSE)
    BY <2>3, VkbdShows
  <2> HIDE DEF o3
  <2>5. o3.uinput \subseteq o0.uinput
    BY <2>2, <2>3, <2>4 DEF Toggled, Quiet
  <2>6. InputChar(o, char) = o3
    BY <1>1 DEF InputChar, o1, o2, o3
  <2> QED BY <2>2, <2>3, <2>4, <2>5, <2>6 DEF Quiet
<1>2. CASE char.type = "key" /\ Shift \notin char.mods
  <2>1. char.code \in Code
    BY <1>2 DEF KnownChar
  <2>2. InputChar(o, char) = VkbdTap(o, char.code)
    BY <1>2 DEF InputChar
  <2> QED BY <2>1, <2>2, QuietTap DEF Quiet
<1>3. CASE char.type = "codepoint"
  <2>1. char.idx \in DOMAIN Spelling
    BY <1>3 DEF KnownChar
  <2>2. InputChar(o, char) = FoldLeft(VkbdTap, o, UnicodeSequence(char.idx))
    BY <1>3 DEF InputChar
  <2> QED BY <2>1, <2>2, SpelledCodes, QuietTaps
<1> QED BY <1>1, <1>2, <1>3 DEF KnownChar

LEMMA LeastOf ==
  ASSUME NEW S \in SUBSET Nat, S # {}
  PROVE  \E u \in S : \A v \in S : u <= v
<1> DEFINE R == OpToRel(<, Nat)
<1>1. IsWellFoundedOn(R, Nat)
  BY NatLessThanWellFounded
<1> HIDE DEF R
<1>2. PICK u \in S : \A v \in S : <<v, u>> \notin R
  BY <1>1, WFMin
<1>3. ASSUME NEW v \in S PROVE ~(v < u)
  <2>1. v < u => <<v, u>> \in R
    BY DEF R, OpToRel
  <2> QED BY <2>1, <1>2
<1> QED BY <1>3

LEMMA KnownKnown ==
  ASSUME NEW chars \in Seq(Char)
  PROVE  Known(chars) \in Seq(KnownChar)
<1> DEFINE unknown == {i \in DOMAIN chars : chars[i].type = "other"}
           n == Len(chars)
<1>1. DOMAIN chars = 1 .. n /\ n \in Nat /\ \A i \in 1 .. n : chars[i] \in Char
  OBVIOUS
<1>2. \A i \in (1 .. n) \ unknown : chars[i] \in KnownChar
  BY <1>1 DEF Char, KnownChar
<1>3. CASE unknown = {}
  <2>1. Known(chars) = chars
    BY <1>3 DEF Known
  <2>2. chars = [i \in 1 .. n |-> chars[i]]
    BY <1>1
  <2> HIDE DEF n
  <2>3. chars \in [1 .. n -> KnownChar]
    BY <1>2, <1>3, <2>2
  <2> QED BY <1>1, <2>1, <2>3, SeqDef
<1>4. CASE unknown # {}
  <2> DEFINE u == CHOOSE i \in unknown : \A j \in unknown : i <= j
             t == SubSeq(chars, 1, u - 1)
  <2>1. unknown \in SUBSET Nat
    BY <1>1
  <2>2. \E i \in unknown : \A j \in unknown : i <= j
    <3> HIDE DEF unknown
    <3> QED BY <1>4, <2>1, LeastOf
  <2>3. u \in unknown /\ \A j \in unknown : u <= j
    <3> HIDE DEF unknown
    <3> QED BY <2>2
  <2>4. Known(chars) = t
    BY <1>4 DEF Known
  <2>5. u \in 1 .. n
    BY <1>1, <2>3
  <2> HIDE DEF u, n
  <2>6. u - 1 \in 0 .. n
    BY <1>1, <2>5
  <2>7. t = [i \in 1 .. (u - 1) |-> chars[i]]
    <3>1. t = [i \in 1 .. ((u - 1) - 1 + 1) |-> chars[i + 1 - 1]]
      BY <1>1, <2>5, <2>6 DEF n
    <3> QED BY <1>1, <2>5, <3>1
  <2>8. \A i \in 1 .. (u - 1) : i \in 1 .. n /\ i \notin unknown
    <3> HIDE DEF unknown
    <3> QED BY <1>1, <2>3, <2>5
  <2>9. \A i \in 1 .. (u - 1) : chars[i] \in KnownChar
    <3> HIDE DEF unknown
    <3> QED BY <1>2, <2>8
  <2> HIDE DEF t
  <2>10. t \in [1 .. (u - 1) -> KnownChar] /\ u - 1 \in Nat
    BY <1>1, <2>5, <2>7, <2>9
  <2> QED BY <2>4, <2>10, SeqDef
<1> QED BY <1>3, <1>4

LEMMA InputQuiet ==
  ASSUME NEW o, Shown(o), NEW chars \in Seq(Char)
  PROVE  Quiet(Input(o, chars), o)
<1> DEFINE B == {x \in Outputs : Quiet(x, o)}
           s == Known(chars)
<1>1. \A x : Quiet(x, o) => x \in Outputs
  BY DEF Quiet, Shown
<1>2. \A x \in B, char \in KnownChar : InputChar(x, char) \in B
  BY <1>1, QuietChar
<1>3. o \in B
  BY <1>1 DEF Quiet
<1>4. s \in Seq(KnownChar)
  BY KnownKnown
<1> HIDE DEF B, s
<1>5. InputFold!Fold(o, s) \in B
  BY <1>2, <1>3, <1>4, InputFold!FoldType
<1> QED BY <1>5, InputIsFold DEF B, Input, s

\* clear_vkbd takes back all that is down.
LEMMA ClearedIsSilent ==
  ASSUME NEW o, Good(o)
  PROVE  LET r == ClearVkbd(o) IN Good(r) /\ r.uinput = {} /\ r.keystate = {}
<1> DEFINE S == o.keystate
           R == {q \in (SUBSET S) \X Outputs : /\ Shown(q[2]) /\ q[2].keystate = o.keystate
                                               /\ q[2].uinput \subseteq o.uinput \ q[1]}
<1>0. /\ o \in Outputs /\ S \in SUBSET (1 .. 255) /\ Shown(o) /\ o.uinput \subseteq S
  BY DEF Good, Shown, Outputs
<1>1. IsFiniteSet(S)
  <2> DEFINE lo == 1
             hi == 255
  <2>0. lo \in Int /\ hi \in Int
    OBVIOUS
  <2> HIDE DEF lo, hi
  <2>a. IsFiniteSet(lo .. hi)
    BY <2>0, FS_Interval
  <2>1. IsFiniteSet(1 .. 255)
    BY <2>a DEF lo, hi
  <2> HIDE DEF S
  <2> QED BY <1>0, <2>1, FS_Subset
<1>2. <<{}, o>> \in R
  BY <1>0
<1>3. ASSUME NEW t \in SUBSET S, NEW y, NEW x \in t, <<t \ {x}, y>> \in R
      PROVE  <<t, BackStep(y, x)>> \in R
  <2> DEFINE z == BackStep(y, x)
  <2>1. Shown(y) /\ y.keystate = o.keystate /\ y.uinput \subseteq o.uinput \ (t \ {x})
    BY <1>3
  <2>2. Shown(z) /\ z.keystate = y.keystate /\ z.uinput = Toggled(y.uinput, x, FALSE)
    BY <2>1, VkbdShows DEF BackStep, TakenBack
  <2> HIDE DEF z
  <2>3. z.uinput \subseteq o.uinput \ t /\ z \in Outputs
    BY <2>1, <2>2 DEF Toggled, Shown
  <2>4. <<t, z>> \in R
    BY <2>1, <2>2, <2>3
  <2> QED BY <2>4 DEF z
<1>31. \A t \in SUBSET S : \A x \in t : \A y :
        <<t \ {x}, y>> \in R => <<t, BackStep(y, x)>> \in R
  <2> HIDE DEF R
  <2> QED BY <1>3
<1> HIDE DEF R, S
<1>32. BackFold!IsFiniteSet(S)
  BY <1>1 DEF IsFiniteSet, BackFold!IsFiniteSet
<1> DEFINE f == BackFold!SetFold(o, S)
<1>4. <<S, f>> \in R
  BY <1>2, <1>31, <1>32, BackFold!SetFoldInto
<1>5. ClearVkbd(o) = [f EXCEPT !.keystate = {}]
  BY BackIsFold DEF ClearVkbd, S
<1> HIDE DEF f
<1>6. f \in Outputs /\ Shown(f) /\ f.uinput = {}
  BY <1>0, <1>4 DEF R
<1> DEFINE r == [f EXCEPT !.keystate = {}]
<1>7. /\ r \in Outputs /\ r.keystate = {} /\ r.uinput = f.uinput /\ r.mods = f.mods
      /\ r.keys = f.keys
  BY <1>6 DEF Outputs
<1> HIDE DEF r
<1>8. Shown(r)
  BY <1>6, <1>7 DEF Shown
<1> QED BY <1>5, <1>6, <1>7, <1>8 DEF Good, r

LEMMA SilenceGood == Good(Silence)
<1> DEFINE r == Silence
<1>1. /\ r \in Outputs /\ r.keystate = {} /\ r.uinput = {} /\ r.mods = {}
      /\ \A i \in 1 .. Slots : r.keys[i] = 0
  BY Codes DEF Silence, Outputs
<1> HIDE DEF r
<1> QED BY <1>1 DEF Good, Shown, r

LEMMA GoodRecoverable ==
  ASSUME NEW o, Good(o)
  PROVE  /\ o.uinput \subseteq o.keystate
         /\ o.mods = o.uinput \cap ModifierKeys
         /\ \A i \in 1 .. Slots : o.keys[i] # 0 =>
              /\ o.keys[i] \in o.uinput
              /\ \A j \in 1 .. Slots : o.keys[j] = o.keys[i] => i = j
BY DEF Good, Shown

\* What clients have typed, in three words.
LEMMA TypedGood ==
  ASSUME NEW o, Good(o)
  PROVE  /\ \A tokens \in Seq(Token) : Parses(tokens) =>
              LET r == MacroExecute(o, MacroParse(tokens))
              IN  Good(r) /\ r.uinput \subseteq o.uinput /\ r.keystate \subseteq o.keystate
         /\ \A chars \in Seq(Char) :
              LET r == Input(o, chars)
              IN  Good(r) /\ r.uinput \subseteq o.uinput /\ r.keystate \subseteq o.keystate
<1>1. ASSUME NEW tokens \in Seq(Token), Parses(tokens)
      PROVE  LET r == MacroExecute(o, MacroParse(tokens))
             IN  Good(r) /\ r.uinput \subseteq o.uinput /\ r.keystate \subseteq o.keystate
  <2> DEFINE r == MacroExecute(o, MacroParse(tokens))
  <2>1. Left(r, o, {})
    BY <1>1, MacroLeaves
  <2> HIDE DEF r
  <2>2. Good(r) /\ r.uinput \subseteq o.uinput /\ r.keystate \subseteq o.keystate
    BY <2>1 DEF Left
  <2> QED BY <2>2 DEF r
<1>2. ASSUME NEW chars \in Seq(Char)
      PROVE  LET r == Input(o, chars)
             IN  Good(r) /\ r.uinput \subseteq o.uinput /\ r.keystate \subseteq o.keystate
  <2> DEFINE r == Input(o, chars)
  <2>1. Quiet(r, o)
    BY InputQuiet DEF Good
  <2> HIDE DEF r
  <2>2. Good(r) /\ r.uinput \subseteq o.uinput /\ r.keystate \subseteq o.keystate
    BY <2>1 DEF Quiet, Good
  <2> QED BY <2>2 DEF r
<1> QED BY <1>1, <1>2

-----------------------------------------------------------------------------
(* What listeners are told.                                                *)

BelievingFold == INSTANCE FoldTheorems WITH Op <- Believing
KeptFold == INSTANCE FoldTheorems WITH Op <- Keeping

LEMMA BelievingIsFold ==
  ASSUME NEW b, NEW s
  PROVE  FoldLeft(Believing, b, s) = BelievingFold!Fold(b, s)
BY DEF BelievingFold!Fold, FoldLeft, MapThenFoldSet, BelievingFold!Top, Max

LEMMA KeptIsFold == Kept = KeptFold!Fold(<<>>, listeners)
BY DEF Kept, KeptFold!Fold, FoldLeft, MapThenFoldSet, KeptFold!Top, Max

LEMMA Constants ==
  /\ NoClient \notin Client /\ NoKbd \notin Kbd /\ Dangling \notin Kbd /\ Dangling # NoKbd
  /\ IsFiniteSet(Layer) /\ Main \in Layout /\ NoRequest \notin Requests
  /\ MaxListeners \in Nat /\ MaxActive \in Nat /\ MaxEvents \in Nat
BY ClientAssumption

LEMMA BelievingType ==
  ASSUME NEW b \in Belief, NEW line \in Line
  PROVE  Believing(b, line) \in Belief
<1>1. CASE line.sign = "+"
  BY <1>1 DEF Believing, Belief, Line
<1>2. CASE line.sign = "-"
  BY <1>2 DEF Believing, Belief, Line
<1>3. CASE line.sign = "/"
  BY <1>3 DEF Believing, Belief, Line
<1> QED BY <1>1, <1>2, <1>3 DEF Line

\* The lines that name a set of layers name each of them.
LEMMA SetListed ==
  ASSUME NEW S, IsFiniteSet(S)
  PROVE  SetToSeq(S) \in Seq(S) /\ Range(SetToSeq(S)) = S
<1> DEFINE n == Cardinality(S)
           f == SetToSeq(S)
<1>1. n \in Nat /\ ExistsBijection(1 .. n, S)
  BY FS_CardinalityType
<1>2. \E g \in [1 .. n -> S] : IsInjective(g)
  BY <1>1 DEF ExistsBijection, Bijection, Injection, IsInjective
<1>3. f \in [1 .. n -> S] /\ IsInjective(f)
  BY <1>2, Zenon DEF SetToSeq
<1> HIDE DEF f
<1>4. f \in Injection(1 .. n, S)
  BY <1>3 DEF Injection
<1>5. Cardinality(1 .. n) = n
  <2>1. ExistsBijection(1 .. n, 1 .. n)
    BY Fun_ExistsBijReflexive
  <2> HIDE DEF n
  <2> QED BY <1>1, <2>1, FS_CountingElements
<1>6. f \in Surjection(1 .. n, S)
  BY <1>4, <1>5, FS_Injection
<1>7. Range(f) = S
  BY <1>3, <1>6 DEF Surjection, Range
<1>8. f \in Seq(S)
  <2> HIDE DEF n
  <2> QED BY <1>1, <1>3, SeqDef
<1> QED BY <1>7, <1>8 DEF f

\* ... and a listener that reads them believes in these layers.
LEMMA SnapshotTold ==
  ASSUME NEW layout \in Layout, NEW on \in SUBSET Layer
  PROVE  /\ Snapshot(layout, on) \in Seq(Line)
         /\ FoldLeft(Believing, Unaware, Snapshot(layout, on))
              = [layout |-> layout, layers |-> on]
<1> DEFINE S == {[sign |-> "+", name |-> l] : l \in on}
           tail == SetToSeq(S)
           head == [sign |-> "/", name |-> layout]
           b == [layout |-> layout, layers |-> {}]
           Named(s) == {s[i].name : i \in DOMAIN s}
           R == {q \in Seq(S) \X Belief : q[2] = [layout |-> layout, layers |-> Named(q[1])]}
<1>1. IsFiniteSet(S)
  <2> DEFINE g == [l \in on |-> [sign |-> "+", name |-> l]]
  <2>1. g \in Surjection(on, S)
    BY DEF Surjection
  <2>2. IsFiniteSet(on)
    BY Constants, FS_Subset
  <2> HIDE DEF g, S
  <2> QED BY <2>1, <2>2, FS_Surjection
<1>2. tail \in Seq(S) /\ Range(tail) = S
  <2> HIDE DEF S
  <2> QED BY <1>1, SetListed
<1>3. S \subseteq Line /\ head \in Line
  BY DEF Line
<1> HIDE DEF tail
<1>4. tail \in Seq(Line) /\ <<head>> \in Seq(Line)
  <2> HIDE DEF S, head
  <2> QED BY <1>2, <1>3
<1>5. Named(tail) = on
  <2>1. Named(tail) = {e.name : e \in Range(tail)}
    BY DEF Range
  <2>2. {e.name : e \in S} = on
    <3>1. \A e \in S : e.name \in on
      OBVIOUS
    <3>2. ASSUME NEW l \in on PROVE \E e \in S : e.name = l
      <4> DEFINE e == [sign |-> "+", name |-> l]
      <4>1. e \in S /\ e.name = l
        OBVIOUS
      <4> HIDE DEF e, S
      <4> QED BY <4>1
    <3> HIDE DEF S
    <3> QED BY <3>1, <3>2
  <2> HIDE DEF S, Named
  <2> QED BY <1>2, <2>1, <2>2
<1>6. <<<<>>, b>> \in R
  <2>1. Named(<<>>) = {}
    OBVIOUS
  <2>2. b \in Belief /\ <<>> \in Seq(S)
    BY DEF Belief
  <2> HIDE DEF Named
  <2> QED BY <2>1, <2>2
<1>7. \A s \in Seq(S), e \in S : \A y : <<s, y>> \in R => <<Append(s, e), Believing(y, e)>> \in R
  <2> SUFFICES ASSUME NEW s \in Seq(S), NEW e \in S, NEW y, <<s, y>> \in R
               PROVE  <<Append(s, e), Believing(y, e)>> \in R
    OBVIOUS
  <2>1. PICK l \in on : e = [sign |-> "+", name |-> l]
    OBVIOUS
  <2>2. y = [layout |-> layout, layers |-> Named(s)] /\ Named(s) \in SUBSET Layer
    BY DEF Belief
  <2>3. e.sign = "+" /\ e.name = l
    BY <2>1
  <2> DEFINE r == Append(s, e)
  <2>4. /\ r \in Seq(S) /\ DOMAIN s = 1 .. Len(s) /\ Len(s) \in Nat
        /\ DOMAIN r = 1 .. (Len(s) + 1) /\ r[Len(s) + 1] = e
        /\ \A i \in 1 .. Len(s) : r[i] = s[i]
    <3> HIDE DEF S
    <3> QED BY AppendProperties
  <2> HIDE DEF r
  <2>5. Named(r) = Named(s) \cup {l}
    <3>1. 1 .. (Len(s) + 1) = (1 .. Len(s)) \cup {Len(s) + 1}
      BY <2>4
    <3> QED BY <2>3, <2>4, <3>1
  <2> HIDE DEF Named
  <2>6. Believing(y, e) = [layout |-> layout, layers |-> Named(r)]
    BY <2>2, <2>3, <2>5 DEF Believing
  <2>7. [layout |-> layout, layers |-> Named(r)] \in Belief
    BY <2>2, <2>5 DEF Belief
  <2> HIDE DEF S
  <2> QED BY <2>4, <2>6, <2>7 DEF r
<1> HIDE DEF R, S, b, Named
<1>8. <<tail, BelievingFold!Fold(b, tail)>> \in R
  BY <1>2, <1>6, <1>7, BelievingFold!FoldInto
<1> HIDE DEF head
<1> DEFINE first == <<head>>
<1>41. first \in Seq(Line) /\ tail \in Seq(Line)
  BY <1>4
<1> HIDE DEF first
<1>9. BelievingFold!Fold(Unaware, first \o tail) = BelievingFold!Fold(BelievingFold!Fold(Unaware, first), tail)
  BY <1>41, BelievingFold!FoldConcat
<1>10. BelievingFold!Fold(Unaware, first) = Believing(Unaware, head)
  BY BelievingFold!FoldOne DEF first
<1>11. Believing(Unaware, head) = b
  BY DEF Believing, Unaware, b, head
<1>12. BelievingFold!Fold(b, tail) = [layout |-> layout, layers |-> on]
  BY <1>5, <1>8 DEF R
<1>13. Snapshot(layout, on) = first \o tail
  BY DEF Snapshot, S, tail, first, head
<1>14. first \o tail \in Seq(Line)
  BY <1>41, ConcatProperties
<1> QED BY <1>9, <1>10, <1>11, <1>12, <1>13, <1>14, BelievingIsFold

\* Of the listeners those stay that a line can be written to.
LEMMA KeptWritable ==
  ASSUME listeners \in Seq(Client)
  PROVE  /\ Kept \in Seq(Client) /\ Len(Kept) <= Len(listeners)
         /\ Range(Kept) \subseteq {c \in Range(listeners) : Writable(c)}
<1> DEFINE R == {q \in Seq(Client) \X Seq(Client) :
                   /\ Len(q[2]) <= Len(q[1])
                   /\ Range(q[2]) \subseteq {c \in Range(q[1]) : Writable(c)}}
<1>0. \A s \in Seq(Client), c \in Client :
        /\ Append(s, c) \in Seq(Client) /\ Len(Append(s, c)) = Len(s) + 1 /\ Len(s) \in Nat
        /\ Range(Append(s, c)) = Range(s) \cup {c}
  BY AppendProperties DEF Range
<1>1. <<<<>>, <<>>>> \in R
  <2>1. Range(<<>>) = {}
    BY DEF Range
  <2>2. <<>> \in Seq(Client) /\ Len(<<>>) <= Len(<<>>)
    OBVIOUS
  <2> QED BY <2>1, <2>2
<1>2. \A s \in Seq(Client), c \in Client : \A y :
        <<s, y>> \in R => <<Append(s, c), Keeping(y, c)>> \in R
  <2> SUFFICES ASSUME NEW s \in Seq(Client), NEW c \in Client, NEW y, <<s, y>> \in R
               PROVE  <<Append(s, c), Keeping(y, c)>> \in R
    OBVIOUS
  <2>1. /\ y \in Seq(Client) /\ Len(y) <= Len(s)
        /\ Range(y) \subseteq {d \in Range(s) : Writable(d)}
    OBVIOUS
  <2>2. CASE Writable(c)
    <3>1. Keeping(y, c) = Append(y, c)
      BY <2>2 DEF Keeping
    <3>2. /\ Append(y, c) \in Seq(Client) /\ Len(Append(y, c)) <= Len(Append(s, c))
          /\ Range(Append(y, c)) \subseteq {d \in Range(Append(s, c)) : Writable(d)}
      BY <1>0, <2>1, <2>2
    <3> QED BY <1>0, <3>1, <3>2
  <2>3. CASE ~Writable(c)
    <3>1. Keeping(y, c) = y
      BY <2>3 DEF Keeping
    <3>2. /\ Append(s, c) \in Seq(Client) /\ Len(y) <= Len(Append(s, c))
          /\ Range(y) \subseteq {d \in Range(Append(s, c)) : Writable(d)}
      <4>1. Len(Append(s, c)) = Len(s) + 1 /\ Len(s) \in Nat /\ Len(y) \in Nat
        BY <1>0, <2>1
      <4> QED BY <1>0, <2>1, <4>1
    <3> QED BY <2>1, <3>1, <3>2
  <2> QED BY <2>2, <2>3
<1> HIDE DEF R
<1>3. <<listeners, KeptFold!Fold(<<>>, listeners)>> \in R
  BY <1>1, <1>2, KeptFold!FoldInto
<1> QED BY <1>3, KeptIsFold DEF R

-----------------------------------------------------------------------------
(* The inductive invariant.                                                *)

\* A client that is not yet answered has been told nothing.
SessionOK(s) == /\ s \in Session
                /\ s.at = "sent" => s.request \in Requests
                /\ s.at \in {"idle", "connected", "sent"} => s.lines = <<>> /\ s.told = Unaware

LayersOn(keyboard) == {l \in Layer : keyboard.count[l] > 0}

KeyboardOK(keyboard) == /\ keyboard \in Keyboard
                        /\ \A l \in Layer : keyboard.count[l] > 1 => l \in keyboard.shared

\* What a listener is to believe of the keyboard it has heard of.
TrueOf(belief, keyboard) ==
  /\ belief.layout = keyboard.layout
  /\ belief.layers \subseteq LayersOn(keyboard)
  /\ LayersOn(keyboard) \ belief.layers \subseteq keyboard.shared

BeliefOf(s) == BelievingFold!Fold(s.told, s.lines)

\* One that has heard of no keyboard began before any of them changed.
Hears(s, keyboards) ==
  ~s.gone =>
    /\ s.source = NoKbd => /\ s.lines = <<>> /\ s.told = Unaware
                           /\ \A k \in Kbd : keyboards[k] = NewKeyboard
    /\ s.source \in Kbd => TrueOf(BeliefOf(s), keyboards[s.source])

Sessions == client \in [Client -> Session] /\ \A c \in Client : SessionOK(client[c])

Queues == /\ backlog \in Seq(Client) /\ serving \in Client \cup {NoClient}
          /\ listeners \in Seq(Client) /\ Len(listeners) <= MaxListeners
          /\ exited \in BOOLEAN /\ events \in 0 .. MaxEvents

Keyboards == /\ kbd \in [Kbd -> Keyboard] /\ \A k \in Kbd : KeyboardOK(kbd[k])
             /\ active \in Kbd \cup {NoKbd, Dangling}
             /\ active = NoKbd => \A k \in Kbd : kbd[k] = NewKeyboard

Listening == \A c \in Range(listeners) : client[c].at = "listening" /\ Hears(client[c], kbd)

ClientsInv == Sessions /\ Queues /\ Keyboards /\ Listening /\ Good(out)

-----------------------------------------------------------------------------
(* One session.                                                            *)

LEMMA BeliefType ==
  ASSUME NEW s \in Session
  PROVE  BeliefOf(s) \in Belief
<1>1. s.told \in Belief /\ s.lines \in Seq(Line)
  BY DEF Session
<1>2. \A b \in Belief, line \in Line : Believing(b, line) \in Belief
  BY BelievingType
<1> QED BY <1>1, <1>2, BelievingFold!FoldType DEF BeliefOf

\* What one line less to read and one line read make the listener believe is the same.
LEMMA ReadHears ==
  ASSUME NEW s \in Session, SessionOK(s), s.lines # <<>>, NEW ks
  PROVE  LET r == [s EXCEPT !.told = Believing(@, Head(s.lines)), !.lines = Tail(@)]
         IN  /\ SessionOK(r) /\ r.at = s.at
             /\ Hears(s, ks) => Hears(r, ks)
<1> DEFINE r == [s EXCEPT !.told = Believing(@, Head(s.lines)), !.lines = Tail(@)]
<1>1. s.told \in Belief /\ s.lines \in Seq(Line)
  BY DEF Session
<1>2. Head(s.lines) \in Line /\ Tail(s.lines) \in Seq(Line)
  BY <1>1, HeadTailProperties
<1>3. Believing(s.told, Head(s.lines)) \in Belief
  BY <1>1, <1>2, BelievingType
<1>4. /\ r \in Session /\ r.at = s.at /\ r.gone = s.gone /\ r.source = s.source
      /\ r.told = Believing(s.told, Head(s.lines)) /\ r.lines = Tail(s.lines)
      /\ r.request = s.request
  BY <1>2, <1>3 DEF Session
<1>5. BelievingFold!Fold(s.told, s.lines)
        = BelievingFold!Fold(Believing(s.told, Head(s.lines)), Tail(s.lines))
  BY <1>1, BelievingFold!FoldTail
<1> HIDE DEF r
<1>6. BeliefOf(r) = BeliefOf(s)
  BY <1>4, <1>5 DEF BeliefOf
<1>7. SessionOK(r)
  BY <1>4 DEF SessionOK
<1>8. Hears(s, ks) => Hears(r, ks)
  BY <1>4, <1>6 DEF Hears
<1> QED BY <1>4, <1>7, <1>8 DEF r

\* Whoever begins to listen is told what is so.
LEMMA ListenHears ==
  ASSUME NEW s \in Session, SessionOK(s), s.at = "sent", Keyboards, NEW lines \in Snapshots
  PROVE  LET r == [s EXCEPT !.at = "listening", !.source = active, !.request = NoRequest,
                            !.lines = IF s.gone THEN @ ELSE lines]
         IN  SessionOK(r) /\ r.at = "listening" /\ Hears(r, kbd)
<1> DEFINE new == IF s.gone THEN s.lines ELSE lines
           r == [s EXCEPT !.at = "listening", !.source = active, !.request = NoRequest,
                          !.lines = new]
<1>1. s.lines = <<>> /\ s.told = Unaware /\ active \in Kbd \cup {NoKbd, Dangling}
  BY DEF SessionOK, Keyboards
<1>2. \A k \in Kbd : kbd[k].layout \in Layout /\ On(k) \in SUBSET Layer
  BY DEF Keyboards, Keyboard, On
<1>3. lines \in Seq(Line)
  <2>1. CASE active = NoKbd
    <3>1. lines = <<>>
      BY <2>1, Constants DEF Snapshots
    <3> QED BY <3>1
  <2>2. CASE active = Dangling
    <3>1. PICK layout \in Layout, on \in SUBSET Layer : lines = Snapshot(layout, on)
      BY <2>2, Constants DEF Snapshots
    <3> QED BY <3>1, SnapshotTold
  <2>3. CASE active \in Kbd
    <3>1. lines = Snapshot(kbd[active].layout, On(active))
      BY <2>3, Constants DEF Snapshots
    <3> QED BY <1>2, <2>3, <3>1, SnapshotTold
  <2> QED BY <1>1, <2>1, <2>2, <2>3
<1>4. /\ r \in Session /\ r.at = "listening" /\ r.gone = s.gone /\ r.source = active
      /\ r.told = s.told /\ r.lines = new
  <2>1. new \in Seq(Line)
    BY <1>1, <1>3
  <2> HIDE DEF new
  <2> QED BY <1>1, <2>1 DEF Session
<1> HIDE DEF r
<1>5. SessionOK(r)
  BY <1>4 DEF SessionOK
<1>6. Hears(r, kbd)
  <2>1. SUFFICES ASSUME ~r.gone
                 PROVE  /\ r.source = NoKbd => /\ r.lines = <<>> /\ r.told = Unaware
                                               /\ \A k \in Kbd : kbd[k] = NewKeyboard
                        /\ r.source \in Kbd => TrueOf(BeliefOf(r), kbd[r.source])
    BY DEF Hears
  <2>2. r.lines = lines /\ r.told = Unaware
    BY <1>1, <1>4, <2>1
  <2>3. ASSUME active = NoKbd PROVE lines = <<>> /\ \A k \in Kbd : kbd[k] = NewKeyboard
    <3>1. lines = <<>>
      BY <2>3, Constants DEF Snapshots
    <3> QED BY <2>3, <3>1 DEF Keyboards
  <2>4. ASSUME active \in Kbd PROVE TrueOf(BeliefOf(r), kbd[active])
    <3>1. lines = Snapshot(kbd[active].layout, On(active))
      BY <2>4, Constants DEF Snapshots
    <3>2. BeliefOf(r) = [layout |-> kbd[active].layout, layers |-> On(active)]
      BY <1>2, <2>2, <2>4, <3>1, SnapshotTold, BelievingIsFold DEF BeliefOf
    <3> QED BY <3>2 DEF TrueOf, LayersOn, On
  <2> QED BY <1>4, <2>2, <2>3, <2>4
<1> QED BY <1>4, <1>5, <1>6 DEF r

\* A line goes to the end of those that are not read.
LEMMA ToldHears ==
  ASSUME NEW s \in Session, SessionOK(s), s.at = "listening", ~s.gone, NEW ks, Hears(s, ks),
         NEW k \in Kbd, KeyboardOK(ks[k]), NEW line \in Line, NEW new
  PROVE  LET r == [s EXCEPT !.lines = Append(@, line),
                            !.source = IF @ \in {NoKbd, k} THEN k ELSE Dangling]
         IN  /\ SessionOK(r) /\ r.at = "listening"
             /\ (\A b \in Belief : TrueOf(b, ks[k]) => TrueOf(Believing(b, line), new[k]))
                  => Hears(r, new)
<1> DEFINE lines == Append(s.lines, line)
           source == IF s.source \in {NoKbd, k} THEN k ELSE Dangling
           r == [s EXCEPT !.lines = lines, !.source = source]
<1>1. s.lines \in Seq(Line) /\ s.told \in Belief /\ BeliefOf(s) \in Belief
  BY BeliefType DEF Session
<1>2. lines \in Seq(Line) /\ source \in Kbd \cup {NoKbd, Dangling}
  BY <1>1, AppendProperties
<1>3. BelievingFold!Fold(s.told, lines) = Believing(BelievingFold!Fold(s.told, s.lines), line)
  BY <1>1, BelievingFold!FoldAppend
<1> HIDE DEF lines, source
<1>4. /\ r \in Session /\ r.at = s.at /\ r.gone = s.gone /\ r.source = source
      /\ r.told = s.told /\ r.lines = lines
  BY <1>2 DEF Session
<1> HIDE DEF r
<1>5. SessionOK(r) /\ r.at = "listening"
  BY <1>4 DEF SessionOK
<1>6. BeliefOf(r) = Believing(BeliefOf(s), line)
  BY <1>3, <1>4 DEF BeliefOf
<1>7. ASSUME \A b \in Belief : TrueOf(b, ks[k]) => TrueOf(Believing(b, line), new[k])
      PROVE  Hears(r, new)
  <2>1. CASE s.source = k
    <3>1. TrueOf(BeliefOf(s), ks[k]) /\ source = k
      BY <2>1 DEF Hears, source
    <3>2. TrueOf(BeliefOf(r), new[k])
      BY <1>1, <1>6, <1>7, <3>1
    <3> QED BY <1>4, <3>1, <3>2, Constants DEF Hears
  <2>2. CASE s.source = NoKbd
    <3>1. ks[k] = NewKeyboard /\ s.lines = <<>> /\ s.told = Unaware /\ source = k
      BY <2>2 DEF Hears, source
    <3>2. BeliefOf(s) = Unaware
      BY <3>1, BelievingFold!FoldEmpty DEF BeliefOf
    <3>3. TrueOf(Unaware, NewKeyboard)
      BY DEF TrueOf, Unaware, NewKeyboard, LayersOn
    <3>4. TrueOf(BeliefOf(r), new[k])
      BY <1>1, <1>6, <1>7, <3>1, <3>2, <3>3
    <3> QED BY <1>4, <3>1, <3>4, Constants DEF Hears
  <2>3. CASE s.source \notin {NoKbd, k}
    <3>1. source = Dangling
      BY <2>3 DEF source
    <3> QED BY <1>4, <3>1, Constants DEF Hears
  <2> QED BY <2>1, <2>2, <2>3
<1> QED BY <1>5, <1>7 DEF r, lines, source

LEMMA SessionOKType == ASSUME NEW s, SessionOK(s) PROVE s \in Session
BY DEF SessionOK

LEMMA SessionsUpdate ==
  ASSUME Sessions, NEW c \in Client, NEW s, SessionOK(s), client' = [client EXCEPT ![c] = s]
  PROVE  /\ Sessions'
         /\ \A d \in Client : client'[d] = IF d = c THEN s ELSE client[d]
<1>1. s \in Session
  BY SessionOKType
<1>2. \A d \in Client : client'[d] = IF d = c THEN s ELSE client[d]
  BY DEF Sessions
<1>3. client' \in [Client -> Session]
  BY <1>1 DEF Sessions
<1> QED BY <1>2, <1>3 DEF Sessions

\* Listeners go on hearing when one client's session changes that is none, or hears.
LEMMA ListeningUpdate ==
  ASSUME Sessions, Queues, Listening, NEW c \in Client, NEW s, SessionOK(s),
         client' = [client EXCEPT ![c] = s], UNCHANGED <<kbd, listeners>>,
         c \in Range(listeners) => s.at = "listening" /\ Hears(s, kbd)
  PROVE  Sessions' /\ Listening'
<1>1. Sessions' /\ \A d \in Client : client'[d] = IF d = c THEN s ELSE client[d]
  BY SessionsUpdate
<1>2. Range(listeners) \subseteq Client
  BY DEF Queues, Range
<1>3. Listening'
  BY <1>1, <1>2 DEF Listening
<1> QED BY <1>1, <1>3

LEMMA Reply1 ==
  ASSUME Queues, NEW answer \in {"success", "fail"}, NEW sessions \in [Client -> Session],
         \A c \in Client : SessionOK(sessions[c]),
         serving \in Client, sessions[serving].at = "sent",
         \A c \in Range(listeners) : sessions[c].at = "listening" /\ Hears(sessions[c], kbd'),
         NEW typed, Good(typed), Reply(answer, sessions, typed),
         UNCHANGED <<listeners, backlog, events>>
  PROVE  Sessions' /\ Queues' /\ Listening' /\ Good(out')
<1>1. Range(listeners) \subseteq Client /\ serving \notin Range(listeners)
  BY DEF Queues, Range
<1>2. serving' = NoClient /\ exited' \in BOOLEAN
  BY DEF Reply, Queues
<1>3. Queues'
  BY <1>2 DEF Queues
<1>4. CASE sessions[serving].gone
  <2>1. client' = sessions /\ out' = typed
    BY <1>4 DEF Reply
  <2> QED BY <1>3, <2>1 DEF Sessions, Listening
<1>5. CASE ~sessions[serving].gone
  <2> DEFINE s == [sessions[serving] EXCEPT !.at = "answered", !.answer = answer,
                                            !.request = NoRequest]
  <2>1. client' = [sessions EXCEPT ![serving] = s] /\ out' = typed
    BY <1>5 DEF Reply
  <2>2. s \in Session /\ s.at = "answered"
    BY DEF Session
  <2> HIDE DEF s
  <2>3. SessionOK(s)
    BY <2>2 DEF SessionOK
  <2>4. \A c \in Client : client'[c] = IF c = serving THEN s ELSE sessions[c]
    BY <2>1
  <2>5. Sessions'
    BY <2>1, <2>2, <2>3, <2>4 DEF Sessions
  <2>6. Listening'
    BY <1>1, <2>4 DEF Listening
  <2> QED BY <1>3, <2>1, <2>5, <2>6
<1> QED BY <1>4, <1>5

\* What is answered and changes neither keyboards nor listeners.
LEMMA ReplyInv ==
  ASSUME ClientsInv, NEW answer \in {"success", "fail"},
         serving \in Client, client[serving].at = "sent",
         NEW typed, Good(typed), Reply(answer, client, typed),
         UNCHANGED <<listeners, backlog, events, kbd, active>>
  PROVE  ClientsInv'
<1>1. Sessions' /\ Queues' /\ Listening' /\ Good(out')
  BY Reply1 DEF ClientsInv, Sessions, Listening
<1>2. Keyboards'
  BY DEF ClientsInv, Keyboards
<1> QED BY <1>1, <1>2 DEF ClientsInv

LEMMA RequestedBy ==
  ASSUME ClientsInv, NEW type, Requested(type)
  PROVE  /\ serving \in Client /\ client[serving].at = "sent" /\ SessionOK(client[serving])
         /\ Request \in Requests /\ Request.type = type
         /\ serving \notin Range(listeners)
         /\ UNCHANGED <<backlog, events>>
BY DEF ClientsInv, Requested, Queues, Sessions, SessionOK, Listening, Request

LEMMA VerdictType == ASSUME NEW done PROVE Verdict(done) \in {"success", "fail"}
BY DEF Verdict

LEMMA RefuseInv == ASSUME ClientsInv, Refuse PROVE ClientsInv'
<1>1. /\ serving \in Client /\ client[serving].at = "sent" /\ UNCHANGED <<backlog, events>>
  BY RequestedBy DEF Refuse
<1> QED BY <1>1, ReplyInv, VerdictType DEF Refuse, ClientsInv

LEMMA BindInv == ASSUME ClientsInv, Bind PROVE ClientsInv'
<1>1. /\ serving \in Client /\ client[serving].at = "sent" /\ UNCHANGED <<backlog, events>>
  BY RequestedBy DEF Bind
<1> DEFINE v == Verdict(Request.accepted # {})
<1>2. v \in {"success", "fail"} /\ Good(out) /\ Reply(v, client, out)
      /\ UNCHANGED <<listeners, kbd, active>>
  BY VerdictType DEF Bind, ClientsInv
<1> HIDE DEF v
<1> QED BY <1>1, <1>2, ReplyInv

\* The output that is left, as the action property has it.
LeftDown(typed) == typed.uinput \subseteq out.uinput /\ typed.keystate \subseteq out.keystate

LEMMA ReplyOut ==
  ASSUME NEW answer, NEW sessions, NEW typed, LeftDown(typed), Reply(answer, sessions, typed)
  PROVE  LeftDown(out')
BY DEF Reply

LEMMA MacroInv == ASSUME ClientsInv, Macro PROVE ClientsInv' /\ LeftDown(out')
<1>1. /\ serving \in Client /\ client[serving].at = "sent" /\ UNCHANGED <<backlog, events>>
      /\ Request \in Requests /\ Request.type = "macro"
  BY RequestedBy DEF Macro
<1> DEFINE tokens == Request.tokens
           typed == IF Parses(tokens) THEN MacroExecute(out, MacroParse(tokens)) ELSE out
           v == Verdict(Parses(tokens))
<1>2. tokens \in Seq(Token)
  BY <1>1, ClientAssumption
<1>3. v \in {"success", "fail"} /\ Good(out) /\ Reply(v, client, typed)
      /\ UNCHANGED <<listeners, kbd, active>>
  BY VerdictType DEF Macro, ClientsInv
<1> HIDE DEF v, tokens
<1>4. Good(typed) /\ LeftDown(typed)
  BY <1>2, <1>3, TypedGood DEF LeftDown
<1> HIDE DEF typed
<1> QED BY <1>1, <1>3, <1>4, ReplyInv, ReplyOut

LEMMA InputTextInv == ASSUME ClientsInv, InputText PROVE ClientsInv' /\ LeftDown(out')
<1>1. /\ serving \in Client /\ client[serving].at = "sent" /\ UNCHANGED <<backlog, events>>
      /\ Request \in Requests /\ Request.type = "input"
  BY RequestedBy DEF InputText
<1> DEFINE chars == Request.chars
           typed == Input(out, chars)
           v == Verdict(Known(chars) = chars)
<1>2. chars \in Seq(Char)
  BY <1>1, ClientAssumption
<1>3. v \in {"success", "fail"} /\ Good(out) /\ Reply(v, client, typed)
      /\ UNCHANGED <<listeners, kbd, active>>
  BY VerdictType DEF InputText, ClientsInv
<1> HIDE DEF v, chars
<1>4. Good(typed) /\ LeftDown(typed)
  BY <1>2, <1>3, TypedGood DEF LeftDown
<1> HIDE DEF typed
<1> QED BY <1>1, <1>3, <1>4, ReplyInv, ReplyOut

LEMMA NewOK == KeyboardOK(NewKeyboard)
BY Constants DEF KeyboardOK, NewKeyboard, Keyboard

\* Whoever listened hears of a keyboard that is no more.
LEMMA ReloadInv == ASSUME ClientsInv, Reload PROVE ClientsInv' /\ LeftDown(out')
<1>1. /\ serving \in Client /\ client[serving].at = "sent" /\ UNCHANGED <<backlog, events>>
  BY RequestedBy DEF Reload
<1> DEFINE sessions == [c \in Client |-> [client[c] EXCEPT !.source = Dangling]]
           typed == ClearVkbd(out)
           v == Verdict(TRUE)
<1>2. v \in {"success", "fail"} /\ Good(out) /\ Reply(v, sessions, typed) /\ Sessions /\ Queues
      /\ UNCHANGED listeners
  BY VerdictType DEF Reload, ClientsInv
<1>3. Good(typed) /\ LeftDown(typed)
  BY <1>2, ClearedIsSilent DEF LeftDown
<1>4. \A c \in Client : /\ SessionOK(sessions[c]) /\ sessions[c] \in Session
                        /\ sessions[c].at = client[c].at /\ sessions[c].source = Dangling
  <2> SUFFICES ASSUME NEW c \in Client
               PROVE  /\ SessionOK(sessions[c]) /\ sessions[c] \in Session
                      /\ sessions[c].at = client[c].at /\ sessions[c].source = Dangling
    OBVIOUS
  <2> DEFINE s == client[c]
             r == [s EXCEPT !.source = Dangling]
  <2>1. SessionOK(s) /\ s \in Session
    BY <1>2 DEF Sessions
  <2> HIDE DEF s
  <2>2. /\ r \in Session /\ r.at = s.at /\ r.source = Dangling /\ r.lines = s.lines
        /\ r.told = s.told /\ r.request = s.request
    BY <2>1 DEF Session
  <2> HIDE DEF r
  <2>3. SessionOK(r)
    BY <2>1, <2>2 DEF SessionOK
  <2>4. sessions[c] = r
    BY DEF r, s
  <2> HIDE DEF sessions
  <2> QED BY <2>2, <2>3, <2>4 DEF s
<1>5. sessions \in [Client -> Session]
  BY <1>4
<1> HIDE DEF v, typed, sessions
<1>6. Range(listeners) \subseteq Client
  BY <1>2 DEF Queues, Range
<1>7. \A c \in Range(listeners) : sessions[c].at = "listening" /\ Hears(sessions[c], kbd')
  BY <1>4, <1>6, Constants DEF ClientsInv, Listening, Hears
<1>8. Sessions' /\ Queues' /\ Listening' /\ Good(out')
  BY <1>1, <1>2, <1>3, <1>4, <1>5, <1>7, Reply1
<1>9. Keyboards'
  <2>1. kbd' = [k \in Kbd |-> NewKeyboard] /\ active' \in Kbd \cup {NoKbd, Dangling}
    BY DEF Reload
  <2>2. NewKeyboard \in Keyboard
    BY NewOK DEF KeyboardOK
  <2> QED BY <2>1, <2>2, NewOK DEF Keyboards
<1> QED BY <1>2, <1>3, <1>8, <1>9, ReplyOut DEF ClientsInv

LEMMA AppendRange ==
  ASSUME NEW E, NEW s \in Seq(E), NEW e \in E
  PROVE  /\ Append(s, e) \in Seq(E) /\ Len(Append(s, e)) = Len(s) + 1 /\ Len(s) \in Nat
         /\ Range(Append(s, e)) = Range(s) \cup {e} /\ Range(s) \subseteq E
BY AppendProperties DEF Range

LEMMA ListenInv == ASSUME ClientsInv, Listen PROVE ClientsInv' /\ LeftDown(out')
<1>1. /\ serving \in Client /\ client[serving].at = "sent" /\ SessionOK(client[serving])
      /\ serving \notin Range(listeners) /\ UNCHANGED <<backlog, events>>
  BY RequestedBy DEF Listen
<1>2. /\ Sessions /\ Queues /\ Keyboards /\ Listening /\ Good(out)
      /\ UNCHANGED <<kbd, active>> /\ serving' = NoClient
  BY DEF ClientsInv, Listen
<1>3. Keyboards'
  BY <1>2 DEF Keyboards
<1> DEFINE s == client[serving]
           closed == [s EXCEPT !.at = "closed"]
<1>4. s \in Session
  BY <1>1, SessionOKType
<1>5. SessionOK(closed)
  BY <1>4 DEF SessionOK, Session
<1>6. CASE Full
  <2>1. /\ exited' \in BOOLEAN /\ client' = [client EXCEPT ![serving] = closed]
        /\ UNCHANGED <<listeners, out>>
    BY <1>4, <1>6 DEF Listen, Session
  <2> HIDE DEF closed
  <2>2. Sessions' /\ Listening'
    BY <1>1, <1>2, <1>5, <2>1, ListeningUpdate
  <2>3. Queues'
    BY <1>1, <1>2, <2>1 DEF Queues
  <2>4. Good(out') /\ LeftDown(out')
    BY <1>2, <2>1 DEF LeftDown
  <2> QED BY <1>3, <2>2, <2>3, <2>4 DEF ClientsInv
<1>7. CASE ~Full
  <2>1. UNCHANGED <<out, exited>>
    BY <1>7 DEF Listen
  <2>2. Good(out') /\ LeftDown(out')
    BY <1>2, <2>1 DEF LeftDown
  <2>3. PICK lines \in Snapshots :
          IF client[serving].gone /\ Len(lines) > 1
          THEN client' = [client EXCEPT ![serving].at = "closed"] /\ UNCHANGED listeners
          ELSE /\ client' = [client EXCEPT
                              ![serving].at = "listening", ![serving].source = active,
                              ![serving].request = NoRequest,
                              ![serving].lines = IF client[serving].gone THEN @ ELSE lines]
               /\ listeners' = Append(listeners, serving)
    BY <1>7 DEF Listen
  <2>4. CASE client[serving].gone /\ Len(lines) > 1
    <3>1. client' = [client EXCEPT ![serving] = closed] /\ UNCHANGED listeners
      BY <2>3, <2>4
    <3> HIDE DEF closed
    <3>2. Sessions' /\ Listening'
      BY <1>1, <1>2, <1>5, <3>1, ListeningUpdate
    <3>3. Queues'
      BY <1>1, <1>2, <2>1, <3>1 DEF Queues
    <3> QED BY <1>3, <2>2, <3>2, <3>3 DEF ClientsInv
  <2>5. CASE ~(client[serving].gone /\ Len(lines) > 1)
    <3> DEFINE r == [s EXCEPT !.at = "listening", !.source = active, !.request = NoRequest,
                              !.lines = IF s.gone THEN @ ELSE lines]
    <3>1. client' = [client EXCEPT ![serving] = r] /\ listeners' = Append(listeners, serving)
      BY <2>3, <2>5
    <3>2. SessionOK(r) /\ r.at = "listening" /\ Hears(r, kbd)
      BY <1>1, <1>2, <1>4, ListenHears
    <3> HIDE DEF r
    <3>3. Sessions' /\ \A d \in Client : client'[d] = IF d = serving THEN r ELSE client[d]
      BY <1>1, <1>2, <3>1, <3>2, SessionsUpdate
    <3>4. /\ listeners' \in Seq(Client) /\ Len(listeners') = Len(listeners) + 1
          /\ Len(listeners) \in Nat /\ Range(listeners') = Range(listeners) \cup {serving}
          /\ Range(listeners) \subseteq Client
      BY <1>1, <1>2, <3>1, AppendRange DEF Queues
    <3>5. Listening'
      BY <1>1, <1>2, <3>2, <3>3, <3>4 DEF Listening
    <3>6. Queues'
      BY <1>1, <1>2, <1>7, <2>1, <3>4, Constants DEF Queues, Full
    <3> QED BY <1>3, <2>2, <3>3, <3>5, <3>6 DEF ClientsInv
  <2> QED BY <2>4, <2>5
<1> QED BY <1>6, <1>7


-----------------------------------------------------------------------------
(* Events of devices.                                                      *)

LEMMA TurnedOn ==
  ASSUME NEW kb, KeyboardOK(kb), NEW l \in Layer, kb.count[l] < MaxActive
  PROVE  LET r == [kb EXCEPT !.count = [kb.count EXCEPT ![l] = @ + 1],
                             !.shared = IF kb.count[l] > 0 THEN @ \cup {l} ELSE @]
         IN  /\ KeyboardOK(r)
             /\ \A b \in Belief : TrueOf(b, kb)
                  => TrueOf(Believing(b, [sign |-> "+", name |-> l]), r)
<1> DEFINE count == [kb.count EXCEPT ![l] = @ + 1]
           shared == IF kb.count[l] > 0 THEN kb.shared \cup {l} ELSE kb.shared
           r == [kb EXCEPT !.count = count, !.shared = shared]
           line == [sign |-> "+", name |-> l]
<1>1. /\ kb \in Keyboard /\ kb.count \in [Layer -> 0 .. MaxActive]
      /\ \A m \in Layer : kb.count[m] > 1 => m \in kb.shared
      /\ kb.shared \in SUBSET Layer
  BY DEF KeyboardOK, Keyboard
<1>2. \A m \in Layer : count[m] = IF m = l THEN kb.count[m] + 1 ELSE kb.count[m]
  BY <1>1
<1>3. count \in [Layer -> 0 .. MaxActive] /\ shared \in SUBSET Layer
  BY <1>1, Constants
<1> HIDE DEF count
<1>4. /\ r \in Keyboard /\ r.count = count /\ r.shared = shared /\ r.layout = kb.layout
  BY <1>1, <1>3 DEF Keyboard
<1> HIDE DEF r
<1>5. KeyboardOK(r)
  BY <1>1, <1>2, <1>3, <1>4, Constants DEF KeyboardOK
<1>6. LayersOn(r) = LayersOn(kb) \cup {l}
  BY <1>1, <1>2, <1>4, Constants DEF LayersOn
<1>7. ASSUME NEW b \in Belief, TrueOf(b, kb) PROVE TrueOf(Believing(b, line), r)
  <2> DEFINE c == Believing(b, line)
  <2>1. c.layers = b.layers \cup {l} /\ c.layout = b.layout
    BY DEF Believing, Belief
  <2> HIDE DEF c
  <2>2. TrueOf(c, r)
    BY <1>4, <1>6, <1>7, <2>1 DEF TrueOf
  <2> QED BY <2>2 DEF c
<1> QED BY <1>5, <1>7 DEF r, count

LEMMA TurnedOff ==
  ASSUME NEW kb, KeyboardOK(kb), NEW l \in Layer, kb.count[l] > 0
  PROVE  LET r == [kb EXCEPT !.count = [kb.count EXCEPT ![l] = @ - 1],
                             !.shared = IF kb.count[l] = 1 THEN @ \ {l} ELSE @]
         IN  /\ KeyboardOK(r)
             /\ \A b \in Belief : TrueOf(b, kb)
                  => TrueOf(Believing(b, [sign |-> "-", name |-> l]), r)
<1> DEFINE count == [kb.count EXCEPT ![l] = @ - 1]
           shared == IF kb.count[l] = 1 THEN kb.shared \ {l} ELSE kb.shared
           r == [kb EXCEPT !.count = count, !.shared = shared]
           line == [sign |-> "-", name |-> l]
<1>1. /\ kb \in Keyboard /\ kb.count \in [Layer -> 0 .. MaxActive]
      /\ \A m \in Layer : kb.count[m] > 1 => m \in kb.shared
      /\ kb.shared \in SUBSET Layer
  BY DEF KeyboardOK, Keyboard
<1>2. \A m \in Layer : count[m] = IF m = l THEN kb.count[m] - 1 ELSE kb.count[m]
  BY <1>1
<1>3. count \in [Layer -> 0 .. MaxActive] /\ shared \in SUBSET Layer
  BY <1>1, Constants
<1> HIDE DEF count
<1>4. /\ r \in Keyboard /\ r.count = count /\ r.shared = shared /\ r.layout = kb.layout
  BY <1>1, <1>3 DEF Keyboard
<1> HIDE DEF r
<1>5. KeyboardOK(r)
  BY <1>1, <1>2, <1>3, <1>4, Constants DEF KeyboardOK
<1>6. /\ LayersOn(r) = IF kb.count[l] = 1 THEN LayersOn(kb) \ {l} ELSE LayersOn(kb)
      /\ kb.count[l] # 1 => l \in kb.shared
  BY <1>1, <1>2, <1>4, Constants DEF LayersOn
<1>7. ASSUME NEW b \in Belief, TrueOf(b, kb) PROVE TrueOf(Believing(b, line), r)
  <2> DEFINE c == Believing(b, line)
  <2>1. c.layers = b.layers \ {l} /\ c.layout = b.layout
    BY DEF Believing, Belief
  <2> HIDE DEF c
  <2>2. TrueOf(c, r)
    BY <1>4, <1>6, <1>7, <2>1 DEF TrueOf
  <2> QED BY <2>2 DEF c
<1> QED BY <1>5, <1>7 DEF r, count

LEMMA LaidOut ==
  ASSUME NEW kb, KeyboardOK(kb), NEW layout \in Layout
  PROVE  LET r == [kb EXCEPT !.layout = layout]
         IN  /\ KeyboardOK(r)
             /\ \A b \in Belief : TrueOf(b, kb)
                  => TrueOf(Believing(b, [sign |-> "/", name |-> layout]), r)
<1> DEFINE r == [kb EXCEPT !.layout = layout]
           line == [sign |-> "/", name |-> layout]
<1>1. /\ r \in Keyboard /\ r.count = kb.count /\ r.shared = kb.shared /\ r.layout = layout
  BY DEF KeyboardOK, Keyboard
<1> HIDE DEF r
<1>2. KeyboardOK(r) /\ LayersOn(r) = LayersOn(kb)
  BY <1>1 DEF KeyboardOK, LayersOn
<1>3. ASSUME NEW b \in Belief, TrueOf(b, kb) PROVE TrueOf(Believing(b, line), r)
  <2> DEFINE c == Believing(b, line)
  <2>1. c.layers = b.layers /\ c.layout = layout
    BY DEF Believing, Belief
  <2> HIDE DEF c
  <2>2. TrueOf(c, r)
    BY <1>1, <1>2, <1>3, <2>1 DEF TrueOf
  <2> QED BY <2>2 DEF c
<1> QED BY <1>2, <1>3 DEF r

\* A keyboard changes and listeners are told of it.
LEMMA TellingInv ==
  ASSUME ClientsInv, NEW k \in Kbd, Event(k), NEW line \in Line, OnLayerChange(k, line),
         UNCHANGED out, NEW kb, KeyboardOK(kb), kbd' = [kbd EXCEPT ![k] = kb],
         \A b \in Belief : TrueOf(b, kbd[k]) => TrueOf(Believing(b, line), kb)
  PROVE  ClientsInv'
<1>1. /\ Sessions /\ Queues /\ Keyboards /\ Listening /\ Good(out)
      /\ UNCHANGED <<backlog, serving, exited>> /\ events' = events + 1 /\ events < MaxEvents
      /\ active' = k /\ listeners' = Kept
  BY DEF ClientsInv, Event, OnLayerChange
<1>2. kb \in Keyboard /\ KeyboardOK(kbd[k]) /\ kbd'[k] = kb
  BY <1>1 DEF KeyboardOK, Keyboards
<1>3. /\ listeners \in Seq(Client) /\ listeners' \in Seq(Client)
      /\ Len(listeners') <= Len(listeners) /\ Len(listeners) \in Nat /\ Len(listeners') \in Nat
      /\ Range(Kept) \subseteq {c \in Range(listeners) : Writable(c)}
      /\ Range(listeners) \subseteq Client
  BY <1>1, KeptWritable, AppendRange DEF Queues, Range
<1>4. Queues'
  BY <1>1, <1>3, Constants DEF Queues
<1>5. Keyboards'
  BY <1>1, <1>2, Constants DEF Keyboards
<1> DEFINE told(c) == [client[c] EXCEPT !.lines = Append(@, line),
                                      !.source = IF @ \in {NoKbd, k} THEN k ELSE Dangling]
           closed(c) == [client[c] EXCEPT !.at = "closed"]
<1>6. ASSUME NEW c \in Range(Kept)
      PROVE  client'[c] = told(c) /\ SessionOK(told(c)) /\ told(c).at = "listening"
             /\ Hears(told(c), kbd')
  <2>1. c \in Client /\ c \in Range(listeners) /\ ~client[c].gone
    BY <1>3 DEF Writable
  <2>2. client'[c] = told(c)
    BY <2>1 DEF OnLayerChange
  <2> DEFINE s == client[c]
  <2>3. s \in Session /\ SessionOK(s) /\ s.at = "listening" /\ Hears(s, kbd) /\ ~s.gone
    BY <1>1, <2>1 DEF Sessions, Listening
  <2> HIDE DEF s
  <2>4. \A b \in Belief : TrueOf(b, kbd[k]) => TrueOf(Believing(b, line), kbd'[k])
    BY <1>2
  <2> DEFINE new == kbd'
  <2> HIDE DEF new
  <2> DEFINE r == [s EXCEPT !.lines = Append(@, line),
                            !.source = IF @ \in {NoKbd, k} THEN k ELSE Dangling]
  <2>5. SessionOK(r) /\ r.at = "listening" /\ Hears(r, new)
    BY <1>2, <2>3, <2>4, ToldHears DEF new
  <2> QED BY <2>2, <2>5 DEF s, new
<1>7. ASSUME NEW c \in Client PROVE SessionOK(client'[c])
  <2>0. SessionOK(client[c]) /\ client[c] \in Session
    BY <1>1 DEF Sessions
  <2>1. CASE c \in Range(Kept)
    BY <1>6, <2>1
  <2>2. CASE c \in Range(listeners) /\ c \notin Range(Kept)
    <3>1. client'[c] = closed(c)
      BY <2>2 DEF OnLayerChange
    <3> DEFINE s == client[c]
    <3> HIDE DEF s
    <3>2. SessionOK([s EXCEPT !.at = "closed"])
      BY <2>0 DEF SessionOK, Session, s
    <3> QED BY <3>1, <3>2 DEF s
  <2>3. CASE c \notin Range(listeners)
    <3>1. client'[c] = client[c]
      BY <1>3, <2>3 DEF OnLayerChange
    <3> QED BY <2>0, <3>1
  <2> QED BY <2>1, <2>2, <2>3
<1>8. Sessions'
  <2>1. client' = [c \in Client |-> client'[c]]
    BY DEF OnLayerChange
  <2>2. \A c \in Client : client'[c] \in Session
    BY <1>7, SessionOKType
  <2> QED BY <1>7, <2>1, <2>2 DEF Sessions
<1>9. Listening'
  BY <1>1, <1>6 DEF Listening
<1> QED BY <1>1, <1>4, <1>5, <1>8, <1>9 DEF ClientsInv

LEMMA KbdOK == ASSUME ClientsInv, NEW k \in Kbd PROVE KeyboardOK(kbd[k]) /\ kbd \in [Kbd -> Keyboard]
BY DEF ClientsInv, Keyboards

LEMMA ActivateLayerInv ==
  ASSUME ClientsInv, NEW k \in Kbd, NEW l \in Layer, ActivateLayer(k, l)
  PROVE  ClientsInv'
<1> DEFINE kb == kbd[k]
           r == [kb EXCEPT !.count = [kb.count EXCEPT ![l] = @ + 1],
                           !.shared = IF kb.count[l] > 0 THEN @ \cup {l} ELSE @]
           line == [sign |-> "+", name |-> l]
<1>1. KeyboardOK(kb) /\ kb.count[l] < MaxActive /\ kbd \in [Kbd -> Keyboard]
  BY KbdOK DEF ActivateLayer
<1>2. kbd' = [kbd EXCEPT ![k] = r]
  BY <1>1 DEF ActivateLayer, Keyboard
<1>3. Event(k) /\ OnLayerChange(k, line) /\ UNCHANGED out /\ line \in Line
  BY DEF ActivateLayer, Line
<1> HIDE DEF kb
<1>4. KeyboardOK(r) /\ \A b \in Belief : TrueOf(b, kb) => TrueOf(Believing(b, line), r)
  BY <1>1, TurnedOn
<1> HIDE DEF r, line
<1> QED BY <1>2, <1>3, <1>4, TellingInv DEF kb

LEMMA DeactivateLayerInv ==
  ASSUME ClientsInv, NEW k \in Kbd, NEW l \in Layer, DeactivateLayer(k, l)
  PROVE  ClientsInv'
<1> DEFINE kb == kbd[k]
           r == [kb EXCEPT !.count = [kb.count EXCEPT ![l] = @ - 1],
                           !.shared = IF kb.count[l] = 1 THEN @ \ {l} ELSE @]
           line == [sign |-> "-", name |-> l]
<1>1. KeyboardOK(kb) /\ kb.count[l] > 0 /\ kbd \in [Kbd -> Keyboard]
  BY KbdOK DEF DeactivateLayer
<1>2. kbd' = [kbd EXCEPT ![k] = r]
  BY <1>1 DEF DeactivateLayer, Keyboard
<1>3. Event(k) /\ OnLayerChange(k, line) /\ UNCHANGED out /\ line \in Line
  BY DEF DeactivateLayer, Line
<1> HIDE DEF kb
<1>4. KeyboardOK(r) /\ \A b \in Belief : TrueOf(b, kb) => TrueOf(Believing(b, line), r)
  BY <1>1, TurnedOff
<1> HIDE DEF r, line
<1> QED BY <1>2, <1>3, <1>4, TellingInv DEF kb

LEMMA SetLayoutInv ==
  ASSUME ClientsInv, NEW k \in Kbd, NEW layout \in Layout, SetLayout(k, layout)
  PROVE  ClientsInv'
<1> DEFINE kb == kbd[k]
           r == [kb EXCEPT !.layout = layout]
           line == [sign |-> "/", name |-> layout]
<1>1. KeyboardOK(kb) /\ kbd \in [Kbd -> Keyboard]
  BY KbdOK
<1>2. kbd' = [kbd EXCEPT ![k] = r]
  BY <1>1 DEF SetLayout, Keyboard
<1>3. Event(k) /\ OnLayerChange(k, line) /\ UNCHANGED out /\ line \in Line
  BY DEF SetLayout, Line
<1> HIDE DEF kb
<1>4. KeyboardOK(r) /\ \A b \in Belief : TrueOf(b, kb) => TrueOf(Believing(b, line), r)
  BY <1>1, LaidOut
<1> HIDE DEF r, line
<1> QED BY <1>2, <1>3, <1>4, TellingInv DEF kb

LEMMA TypeInv ==
  ASSUME ClientsInv, NEW k \in Kbd, NEW code \in CodesOf[k], NEW pressed \in BOOLEAN,
         Type(k, code, pressed)
  PROVE  ClientsInv'
<1>1. /\ Sessions /\ Queues /\ Keyboards /\ Listening /\ Good(out)
      /\ UNCHANGED <<backlog, serving, exited, client, listeners, kbd>>
      /\ events' = events + 1 /\ events < MaxEvents /\ active' = k
      /\ out' = SendKey(out, code, pressed)
  BY DEF ClientsInv, Event, Type
<1>2. code \in Code
  BY ClientAssumption
<1>3. Good(out')
  BY <1>1, <1>2, SendGood
<1>4. Queues'
  BY <1>1, Constants DEF Queues
<1>5. Keyboards'
  BY <1>1, Constants DEF Keyboards
<1>6. Sessions' /\ Listening'
  BY <1>1 DEF Sessions, Listening
<1> QED BY <1>3, <1>4, <1>5, <1>6 DEF ClientsInv

-----------------------------------------------------------------------------
(* Clients' steps.                                                         *)

LEMMA OneClientInv ==
  ASSUME ClientsInv, NEW c \in Client, NEW s, SessionOK(s), client' = [client EXCEPT ![c] = s],
         c \in Range(listeners) => s.at = "listening" /\ Hears(s, kbd),
         UNCHANGED <<serving, listeners, kbd, active, out, exited, events>>,
         backlog' \in Seq(Client)
  PROVE  ClientsInv'
<1>1. Sessions' /\ Listening'
  BY ListeningUpdate DEF ClientsInv
<1>2. Queues' /\ Keyboards' /\ Good(out')
  BY DEF ClientsInv, Queues, Keyboards
<1> QED BY <1>1, <1>2 DEF ClientsInv

LEMMA SessionFacts ==
  ASSUME ClientsInv, NEW c \in Client
  PROVE  /\ client[c] \in Session /\ SessionOK(client[c]) /\ backlog \in Seq(Client)
         /\ c \in Range(listeners) => client[c].at = "listening" /\ Hears(client[c], kbd)
BY DEF ClientsInv, Sessions, Listening, Queues

LEMMA ConnectInv == ASSUME ClientsInv, NEW c \in Client, Connect(c) PROVE ClientsInv'
<1> DEFINE s == client[c]
           r == [s EXCEPT !.at = "connected"]
<1>1. /\ s \in Session /\ SessionOK(s) /\ s.at = "idle" /\ c \notin Range(listeners)
      /\ backlog' \in Seq(Client)
  BY SessionFacts, AppendRange DEF Connect
<1>2. client' = [client EXCEPT ![c] = r]
  BY DEF Connect
<1> HIDE DEF s
<1>3. SessionOK(r)
  BY <1>1 DEF SessionOK, Session
<1> HIDE DEF r
<1> QED BY <1>1, <1>2, <1>3, OneClientInv DEF Connect

LEMMA SendInv == ASSUME ClientsInv, NEW c \in Client, Send(c) PROVE ClientsInv'
<1>1. PICK request \in Requests : client' = [client EXCEPT ![c].at = "sent", ![c].request = request]
  BY DEF Send
<1> DEFINE s == client[c]
           r == [s EXCEPT !.at = "sent", !.request = request]
<1>2. /\ s \in Session /\ SessionOK(s) /\ s.at = "connected" /\ c \notin Range(listeners)
      /\ backlog' \in Seq(Client)
  BY SessionFacts DEF Send
<1>3. client' = [client EXCEPT ![c] = r]
  BY <1>1
<1> HIDE DEF s
<1>4. SessionOK(r)
  BY <1>2 DEF SessionOK, Session
<1> HIDE DEF r
<1> QED BY <1>2, <1>3, <1>4, OneClientInv DEF Send

LEMMA VanishInv == ASSUME ClientsInv, NEW c \in Client, Vanish(c) PROVE ClientsInv'
<1> DEFINE s == client[c]
           r == [s EXCEPT !.gone = TRUE, !.lines = <<>>, !.told = Unaware]
<1>1. /\ s \in Session /\ SessionOK(s) /\ backlog' \in Seq(Client)
      /\ c \in Range(listeners) => s.at = "listening"
  BY SessionFacts DEF Vanish
<1>2. client' = [client EXCEPT ![c] = r]
  BY DEF Vanish
<1> HIDE DEF s
<1>3. /\ r \in Session /\ r.gone /\ r.at = s.at /\ r.lines = <<>> /\ r.told = Unaware
      /\ r.request = s.request
  <2>1. Unaware \in Belief /\ <<>> \in Seq(Line)
    BY Constants DEF Unaware, Belief
  <2> QED BY <1>1, <2>1 DEF Session
<1> HIDE DEF r
<1>4. SessionOK(r) /\ Hears(r, kbd)
  BY <1>1, <1>3 DEF SessionOK, Hears
<1> QED BY <1>1, <1>2, <1>3, <1>4, OneClientInv DEF Vanish

LEMMA ReadLineInv == ASSUME ClientsInv, NEW c \in Client, ReadLine(c) PROVE ClientsInv'
<1> DEFINE s == client[c]
           r == [s EXCEPT !.told = Believing(@, Head(s.lines)), !.lines = Tail(@)]
<1>1. /\ s \in Session /\ SessionOK(s) /\ backlog' \in Seq(Client) /\ s.lines # <<>>
      /\ c \in Range(listeners) => s.at = "listening" /\ Hears(s, kbd)
  BY SessionFacts DEF ReadLine
<1>2. client' = [client EXCEPT ![c] = r]
  BY DEF ReadLine
<1> HIDE DEF s
<1>3. SessionOK(r) /\ r.at = s.at /\ (Hears(s, kbd) => Hears(r, kbd))
  BY <1>1, ReadHears
<1> HIDE DEF r
<1> QED BY <1>1, <1>2, <1>3, OneClientInv DEF ReadLine

LEMMA AcceptInv == ASSUME ClientsInv, Accept PROVE ClientsInv'
<1>1. backlog' \in Seq(Client) /\ serving' \in Client
  BY HeadTailProperties DEF Accept, ClientsInv, Queues
<1>2. UNCHANGED <<client, listeners, kbd, active, out, exited, events>>
  BY DEF Accept
<1> QED BY <1>1, <1>2 DEF ClientsInv, Sessions, Queues, Keyboards, Listening

\* While the daemon waits for a key to be let go of it does nothing else.
LEMMA AwaitingInv == ASSUME ClientsInv, AwaitNeutral \/ Neutral PROVE ClientsInv' /\ UNCHANGED out
<1>1. /\ UNCHANGED <<client, backlog, serving, listeners, kbd, active, out, exited>>
      /\ events' = events \/ (events < MaxEvents /\ events' = events + 1)
  BY DEF AwaitNeutral, Neutral
<1>2. Queues'
  BY <1>1, Constants DEF ClientsInv, Queues
<1> QED BY <1>1, <1>2 DEF ClientsInv, Sessions, Keyboards, Listening

LEMMA AwaitingType ==
  ASSUME awaiting \in BOOLEAN, [Next]_vars
  PROVE  awaiting' \in BOOLEAN
<1>1. CASE Serve
  BY <1>1 DEF Serve, Accept, Refuse, Macro, InputText, Bind, Reload, Listen, Requested
<1>2. CASE \E c \in Client : Connect(c) \/ Send(c) \/ Vanish(c) \/ ReadLine(c)
  BY <1>2 DEF Connect, Send, Vanish, ReadLine
<1>3. CASE \E k \in Kbd : \E l \in LayersOf[k] \cap Layer : ActivateLayer(k, l) \/ DeactivateLayer(k, l)
  BY <1>3 DEF ActivateLayer, DeactivateLayer, Event
<1>4. CASE \E k \in Kbd : \E layout \in LayersOf[k] \cap Layout : SetLayout(k, layout)
  BY <1>4 DEF SetLayout, Event
<1>5. CASE \E k \in Kbd : \E code \in CodesOf[k], pressed \in BOOLEAN : Type(k, code, pressed)
  BY <1>5 DEF Type, Event
<1>6. CASE AwaitNeutral \/ Neutral
  BY <1>6 DEF AwaitNeutral, Neutral
<1>7. CASE UNCHANGED vars
  BY <1>7 DEF vars
<1> QED BY <1>1, <1>2, <1>3, <1>4, <1>5, <1>6, <1>7 DEF Next

-----------------------------------------------------------------------------
(* The theorems.                                                           *)

LEMMA InitInv == Init => ClientsInv
<1> SUFFICES ASSUME Init PROVE ClientsInv
  OBVIOUS
<1> DEFINE s == [at |-> "idle", gone |-> FALSE, request |-> NoRequest, answer |-> "none",
                 lines |-> <<>>, told |-> Unaware, source |-> NoKbd]
<1>1. SessionOK(s) /\ s \in Session
  BY Constants DEF SessionOK, Session, Unaware, Belief
<1>2. client = [c \in Client |-> s]
  BY DEF Init
<1> HIDE DEF s
<1>3. Sessions
  BY <1>1, <1>2 DEF Sessions
<1>4. Queues
  <2> DEFINE none == <<>>
  <2>1. none \in Seq(Client) /\ Len(none) = 0
    OBVIOUS
  <2>2. backlog = none /\ serving = NoClient /\ listeners = none /\ exited = FALSE /\ events = 0
    BY DEF Init
  <2> HIDE DEF none
  <2>3. events \in 0 .. MaxEvents
    BY <2>2, Constants
  <2>4. Len(listeners) <= MaxListeners
    BY <2>1, <2>2, Constants
  <2> QED BY <2>1, <2>2, <2>3, <2>4 DEF Queues
<1>5. NewKeyboard \in Keyboard
  BY NewOK DEF KeyboardOK
<1>6. Keyboards
  BY <1>5, NewOK DEF Init, Keyboards
<1>7. Listening
  BY DEF Init, Listening, Range
<1>8. Good(out)
  BY SilenceGood DEF Init
<1> QED BY <1>3, <1>4, <1>6, <1>7, <1>8 DEF ClientsInv

LEMMA StepInv == ClientsInv /\ [Next]_vars => ClientsInv'
<1> SUFFICES ASSUME ClientsInv, [Next]_vars PROVE ClientsInv'
  OBVIOUS
<1>1. CASE Serve
  BY <1>1, AcceptInv, RefuseInv, MacroInv, InputTextInv, BindInv, ReloadInv, ListenInv DEF Serve
<1>2. CASE \E c \in Client : Connect(c) \/ Send(c) \/ Vanish(c) \/ ReadLine(c)
  BY <1>2, ConnectInv, SendInv, VanishInv, ReadLineInv
<1>3. CASE \E k \in Kbd : \E l \in LayersOf[k] \cap Layer : ActivateLayer(k, l) \/ DeactivateLayer(k, l)
  BY <1>3, ActivateLayerInv, DeactivateLayerInv
<1>4. CASE \E k \in Kbd : \E layout \in LayersOf[k] \cap Layout : SetLayout(k, layout)
  BY <1>4, SetLayoutInv
<1>5. CASE \E k \in Kbd : \E code \in CodesOf[k], pressed \in BOOLEAN : Type(k, code, pressed)
  BY <1>5, TypeInv
<1>6. CASE AwaitNeutral \/ Neutral
  BY <1>6, AwaitingInv
<1>7. CASE UNCHANGED vars
  BY <1>7 DEF vars, ClientsInv, Sessions, Queues, Keyboards, Listening
<1> QED BY <1>1, <1>2, <1>3, <1>4, <1>5, <1>6, <1>7 DEF Next

\* The invariant that the others rest on.
THEOREM ClientsCorrect == Spec => []ClientsInv
<1> QED BY InitInv, StepInv, PTL DEF Spec

\* TypeOK: whatever clients ask for, and whenever they stop, handle_client and the listeners
\* keep to their types: never more listeners than there is room for, never a key code the
\* virtual keyboard does not have.
THEOREM ClientsTyped == Spec => []TypeOK
<1>1. ClientsInv /\ awaiting \in BOOLEAN => TypeOK
  BY DEF ClientsInv, Sessions, Queues, Keyboards, TypeOK, Good, Shown
<1>2. Init => awaiting \in BOOLEAN
  BY DEF Init
<1>3. awaiting \in BOOLEAN /\ [Next]_vars => (awaiting \in BOOLEAN)'
  BY AwaitingType
<1> QED BY <1>1, <1>2, <1>3, ClientsCorrect, PTL DEF Spec

\* Recoverable: after any macros, texts and keys clear_vkbd (daemon.c) knows of all that is
\* down, and the report of usb-gadget.c shows each key that is down at most once.
THEOREM RecoverableCorrect == Spec => []Recoverable
<1>1. ClientsInv => Recoverable
  BY GoodRecoverable DEF ClientsInv, Recoverable
<1> QED BY <1>1, ClientsCorrect, PTL

\* Informed: a listener that on_layer_change has told of one keyboard believes, when it has
\* read what add_listener and on_layer_change wrote to it, in no layer that is off.
THEOREM InformedCorrect == Spec => []Informed
<1>1. ASSUME ClientsInv PROVE Informed
  <2> SUFFICES ASSUME NEW c \in Range(listeners), client[c].source \in Kbd, ~client[c].gone
               PROVE  LET k == client[c].source
                          belief == FoldLeft(Believing, client[c].told, client[c].lines)
                      IN  /\ belief.layout = kbd[k].layout
                          /\ belief.layers \subseteq On(k)
                          /\ On(k) \ belief.layers \subseteq kbd[k].shared
    BY DEF Informed
  <2>1. TrueOf(BeliefOf(client[c]), kbd[client[c].source])
    BY <1>1 DEF ClientsInv, Listening, Hears
  <2> QED BY <2>1, BelievingIsFold DEF TrueOf, BeliefOf, LayersOn, On
<1> QED BY <1>1, ClientsCorrect, PTL

\* What is served types, and leaves no more down than was; the rest types only when nobody
\* is served.
LEMMA ServedLeaves ==
  ASSUME ClientsInv, [Next]_vars, serving # NoClient
  PROVE  LeftDown(out')
<1>1. CASE Serve
  <2>1. CASE Refuse
    <3>1. LeftDown(out) /\ Good(out)
      BY DEF LeftDown, ClientsInv
    <3> QED BY <2>1, <3>1, ReplyOut DEF Refuse
  <2>2. CASE Bind
    <3>1. LeftDown(out) /\ Good(out)
      BY DEF LeftDown, ClientsInv
    <3> QED BY <2>2, <3>1, ReplyOut DEF Bind
  <2>3. CASE Accept
    BY <2>3 DEF Accept
  <2> QED BY <1>1, <2>1, <2>2, <2>3, MacroInv, InputTextInv, ReloadInv, ListenInv DEF Serve
<1>2. CASE \E c \in Client : Connect(c) \/ Send(c) \/ Vanish(c) \/ ReadLine(c)
  BY <1>2 DEF Connect, Send, Vanish, ReadLine, LeftDown
<1>3. CASE \E k \in Kbd : \E l \in LayersOf[k] \cap Layer : ActivateLayer(k, l) \/ DeactivateLayer(k, l)
  BY <1>3 DEF ActivateLayer, DeactivateLayer, LeftDown
<1>4. CASE \E k \in Kbd : \E layout \in LayersOf[k] \cap Layout : SetLayout(k, layout)
  BY <1>4 DEF SetLayout, LeftDown
<1>5. CASE \E k \in Kbd : \E code \in CodesOf[k], pressed \in BOOLEAN : Type(k, code, pressed)
  BY <1>5 DEF Type, Event
<1>6. CASE AwaitNeutral \/ Neutral
  BY <1>6, AwaitingInv DEF LeftDown
<1>7. CASE UNCHANGED vars
  BY <1>7 DEF vars, LeftDown
<1> QED BY <1>1, <1>2, <1>3, <1>4, <1>5, <1>6, <1>7 DEF Next

\* NothingLeft: macro_execute and input leave down no key that was not, for any macro that
\* macro_parse accepts: what is held is let go by the release that ends its chord.
THEOREM NothingLeftCorrect == Spec => NothingLeft
<1>1. ClientsInv /\ [Next]_vars
        => [serving # NoClient => /\ out'.uinput \subseteq out.uinput
                                  /\ out'.keystate \subseteq out.keystate]_vars
  BY ServedLeaves DEF LeftDown
<1> QED BY <1>1, ClientsCorrect, PTL DEF Spec, NothingLeft
==============================================================================
