------------------------------- MODULE Clients -------------------------------
(***************************************************************************)
(* The daemon's clients: the socket of src/src/ipc.c, the requests that    *)
(* src/src/keyd.c sends, handle_client and the listeners of                *)
(* src/src/daemon.c, and what clients make it type (Output).  The daemon   *)
(* has one thread: while it serves a client, nobody else is served.        *)
(* Clients stop in the middle of a request, go away before the answer, or  *)
(* do not read what they are told; and a device to be grabbed keeps the    *)
(* daemon waiting for as long as one of its keys is held.                  *)
(*                                                                         *)
(* Abstracted: a keyboard turns layers on and off, changes its layout and  *)
(* types (how it comes to is in Layers and Pipeline); a bind is accepted   *)
(* by some of the configs (what it does is in Config and Layers); a reload *)
(* replaces the keyboards (which ones, and their devices, are in Daemon).  *)
(***************************************************************************)
EXTENDS Output

CONSTANTS
  Client, NoClient,
  Kbd, NoKbd,      \* keyboards, NULL
  Dangling,        \* what active_kbd is once its keyboard is freed
  Layer,           \* layers other than layouts
  Layout, Main,    \* layouts, and that of a new keyboard
  LayersOf,        \* the layers and layouts of each config
  CodesOf,         \* ... and the codes it sends
  Requests,        \* what clients may ask for
  NoRequest,
  MaxListeners,    \* ARRAY_SIZE(listeners)
  Buffer,          \* how many lines a client may leave unread
  MaxActive,       \* bound: how many keys hold one layer
  MaxEvents        \* bound: how many events of devices there are

Types == {"macro", "input", "reload", "listen", "bind", "refused"}

ASSUME ClientAssumption ==
  /\ NoClient \notin Client /\ NoKbd \notin Kbd /\ Dangling \notin Kbd \cup {NoKbd}
  /\ Layer \cap Layout = {} /\ IsFiniteSet(Layer) /\ LayersOf \in [Kbd -> SUBSET (Layer \cup Layout)]
  /\ CodesOf \in [Kbd -> SUBSET Code]
  /\ Main \in Layout /\ NoRequest \notin Requests
  /\ \A r \in Requests : /\ r.type \in Types
                         /\ r.type = "macro" => r.tokens \in Seq(Token)
                         /\ r.type = "input" => r.chars \in Seq(Char)
  /\ MaxListeners \in Nat /\ MaxActive \in Nat /\ MaxEvents \in Nat
  /\ Buffer \in Nat \ {0}

VARIABLES
  client,          \* the clients, with both ends of their sockets
  backlog,         \* those that wait to be accepted
  serving,         \* the one handle_client is called for
  listeners,
  kbd,             \* the keyboards of the configs
  active,          \* active_kbd
  out,             \* what it has last shown on the virtual keyboard
  awaiting,        \* device_grab waits for the keys of a device to be up
  exited,          \* the daemon is no more
  events           \* how many events of devices there were

vars == <<client, backlog, serving, listeners, kbd, active, out, awaiting, exited, events>>

\* A line that a listener is sent, and what it believes for it.
Line == [sign : {"+", "-"}, name : Layer] \cup [sign : {"/"}, name : Layout]
Belief == [layout : Layout, layers : SUBSET Layer]

Session ==
  [at      : {"idle", "connected", "sent", "listening", "answered", "closed"},
   gone    : BOOLEAN,                     \* the client has closed its end
   request : Requests \cup {NoRequest},
   answer  : {"none", "success", "fail"},
   lines   : Seq(Line),                   \* sent to it and not read
   told    : Belief,                      \* what it has made of the others
   source  : Kbd \cup {NoKbd, Dangling}]  \* history: whose layers it hears of, if one's

Keyboard == [layout : Layout, count : [Layer -> 0 .. MaxActive],
             shared : SUBSET Layer]       \* history: on since more than one key held it

TypeOK ==
  /\ client \in [Client -> Session]
  /\ backlog \in Seq(Client) /\ serving \in Client \cup {NoClient}
  /\ listeners \in Seq(Client) /\ Len(listeners) <= MaxListeners
  /\ kbd \in [Kbd -> Keyboard]
  /\ active \in Kbd \cup {NoKbd, Dangling}
  /\ out \in Outputs
  /\ awaiting \in BOOLEAN /\ exited \in BOOLEAN /\ events \in 0 .. MaxEvents

Unaware == [layout |-> Main, layers |-> {}]
NewKeyboard == [layout |-> Main, count |-> [l \in Layer |-> 0], shared |-> {}]
On(k) == {l \in Layer : kbd[k].count[l] > 0}

-----------------------------------------------------------------------------
(* Clients: ipc_exec and layer_listen.                                     *)

Connect(c) ==
  /\ client[c].at = "idle" /\ ~exited
  /\ client' = [client EXCEPT ![c].at = "connected"]
  /\ backlog' = Append(backlog, c)
  /\ UNCHANGED <<serving, listeners, kbd, active, out, awaiting, exited, events>>

Send(c) ==
  /\ client[c].at = "connected" /\ ~client[c].gone
  /\ \E r \in Requests : client' = [client EXCEPT ![c].at = "sent", ![c].request = r]
  /\ UNCHANGED <<backlog, serving, listeners, kbd, active, out, awaiting, exited, events>>

\* Whoever is interrupted closes the socket, half a request sent or more.
Vanish(c) ==
  /\ client[c].at \in {"connected", "sent", "listening"} /\ ~client[c].gone
  /\ client' = [client EXCEPT ![c].gone = TRUE, ![c].lines = <<>>,
                             ![c].told = Unaware]
  /\ UNCHANGED <<backlog, serving, listeners, kbd, active, out, awaiting, exited, events>>

Believing(belief, line) ==
  CASE line.sign = "+" -> [belief EXCEPT !.layers = @ \cup {line.name}]
    [] line.sign = "-" -> [belief EXCEPT !.layers = @ \ {line.name}]
    [] line.sign = "/" -> [belief EXCEPT !.layout = line.name]

ReadLine(c) ==
  /\ client[c].lines # <<>>
  /\ client' = [client EXCEPT ![c].told = Believing(@, Head(client[c].lines)),
                             ![c].lines = Tail(@)]
  /\ UNCHANGED <<backlog, serving, listeners, kbd, active, out, awaiting, exited, events>>

-----------------------------------------------------------------------------
(* The daemon: requests.                                                   *)

Attentive == ~exited /\ ~awaiting

Accept ==
  /\ Attentive /\ serving = NoClient /\ backlog # <<>>
  /\ serving' = Head(backlog) /\ backlog' = Tail(backlog)
  /\ UNCHANGED <<client, listeners, kbd, active, out, awaiting, exited, events>>

\* xread reads on until it has the whole request: there is no step without it.
Requested(type) ==
  /\ Attentive /\ serving # NoClient /\ client[serving].at = "sent"
  /\ client[serving].request.type = type
  /\ UNCHANGED <<backlog, awaiting, events>>

\* xwrite exits if nobody is there to be told.  What was typed has been typed; what
\* becomes of it when the daemon is gone is the kernel's (a uinput device is destroyed)
\* or the USB host's (it goes on seeing the last report) affair.
Reply(answer, sessions, typed) ==
  /\ serving' = NoClient /\ out' = typed
  /\ IF sessions[serving].gone
     THEN exited' = TRUE /\ client' = sessions
     ELSE /\ client' = [sessions EXCEPT ![serving].at = "answered", ![serving].answer = answer,
                                       ![serving].request = NoRequest]
          /\ UNCHANGED exited

Request == client[serving].request

\* Mutants: a refused macro is not answered; one more listener than there is room for.
VerdictLost(done) == IF done THEN "success" ELSE "none"
Verdict(done) == IF done THEN "success" ELSE "fail"
FullIfOver == Len(listeners) > MaxListeners
Full == Len(listeners) = MaxListeners

Refuse ==
  /\ Requested("refused")
  /\ Reply(Verdict(FALSE), client, out)
  /\ UNCHANGED <<listeners, kbd, active>>

Macro ==
  /\ Requested("macro")
  /\ LET tokens == Request.tokens
     IN  Reply(Verdict(Parses(tokens)), client,
               IF Parses(tokens) THEN MacroExecute(out, MacroParse(tokens)) ELSE out)
  /\ UNCHANGED <<listeners, kbd, active>>

InputText ==
  /\ Requested("input")
  /\ Reply(Verdict(Known(Request.chars) = Request.chars), client, Input(out, Request.chars))
  /\ UNCHANGED <<listeners, kbd, active>>

\* One config that accepts it is enough.
Bind ==
  /\ Requested("bind")
  /\ Reply(Verdict(Request.accepted # {}), client, out)
  /\ UNCHANGED <<listeners, kbd, active>>

\* Listeners are not told that every layer is off.  (The devices that it grabs are waited
\* for in AwaitNeutral, while nobody else is served.)
Reload ==
  /\ Requested("reload")
  /\ kbd' = [k \in Kbd |-> NewKeyboard]
  /\ active' = IF active = NoKbd THEN NoKbd ELSE Dangling
  /\ Reply(Verdict(TRUE), [c \in Client |-> [client[c] EXCEPT !.source = Dangling]], ClearVkbd(out))
  /\ UNCHANGED listeners

Snapshot(layout, on) ==
  <<[sign |-> "/", name |-> layout]>> \o SetToSeq({[sign |-> "+", name |-> l] : l \in on})

\* Mutant: of the layers that are on, a new listener is told of the layout only.
SnapshotsOfLayout ==
  IF active \in Kbd THEN {Snapshot(kbd[active].layout, {})} ELSE {<<>>}

\* What a new listener is told first: the layers of active_kbd, or whatever is where a
\* keyboard was.
Snapshots ==
  CASE active = NoKbd -> {<<>>}
    [] active = Dangling -> {Snapshot(layout, on) : layout \in Layout, on \in SUBSET Layer}
    [] active \in Kbd -> {Snapshot(kbd[active].layout, On(active))}

\* add_listener.  The refusal of one too many is written by xwrite; otherwise only a
\* layer that cannot be told (not the layout) shows that the client is gone.
Listen ==
  /\ Requested("listen") /\ serving' = NoClient
  /\ CASE Full ->
            /\ exited' = client[serving].gone
            /\ client' = [client EXCEPT ![serving].at = "closed"]
            /\ UNCHANGED listeners
       [] ~Full ->
            /\ \E lines \in Snapshots :
                 IF client[serving].gone /\ Len(lines) > 1
                 THEN client' = [client EXCEPT ![serving].at = "closed"] /\ UNCHANGED listeners
                 ELSE /\ client' = [client EXCEPT
                                     ![serving].at = "listening", ![serving].source = active,
                                     ![serving].request = NoRequest,
                                     ![serving].lines = IF client[serving].gone THEN @ ELSE lines]
                      /\ listeners' = Append(listeners, serving)
            /\ UNCHANGED exited
  /\ UNCHANGED <<kbd, active, out>>

-----------------------------------------------------------------------------
(* The daemon: events of devices, which name the active keyboard.          *)

Event(k) ==
  /\ Attentive /\ serving = NoClient /\ events < MaxEvents
  /\ events' = events + 1
  /\ active' = k
  /\ UNCHANGED <<backlog, serving, awaiting, exited>>

Writable(c) == ~client[c].gone /\ Len(client[c].lines) < Buffer

Keeping(kept, c) == IF Writable(c) THEN Append(kept, c) ELSE kept
Kept == FoldLeft(Keeping, <<>>, listeners)

\* on_layer_change: a listener that does not take the line at once is dropped, and
\* does not hear the end of it.
OnLayerChange(k, line) ==
  /\ listeners' = Kept
  /\ client' =
       [c \in Client |->
          CASE c \in Range(listeners) /\ c \in Range(Kept) ->
                 [client[c] EXCEPT !.lines = Append(@, line),
                                   !.source = IF @ \in {NoKbd, k} THEN k ELSE Dangling]
            [] c \in Range(listeners) /\ c \notin Range(Kept) ->
                 [client[c] EXCEPT !.at = "closed"]
            [] OTHER -> client[c]]

ActivateLayer(k, l) ==
  /\ Event(k) /\ kbd[k].count[l] < MaxActive
  /\ kbd' = [kbd EXCEPT ![k].count[l] = @ + 1,
                       ![k].shared = IF kbd[k].count[l] > 0 THEN @ \cup {l} ELSE @]
  /\ OnLayerChange(k, [sign |-> "+", name |-> l])
  /\ UNCHANGED out

\* Each deactivation is announced, also while another key still holds the layer.
DeactivateLayer(k, l) ==
  /\ Event(k) /\ kbd[k].count[l] > 0
  /\ kbd' = [kbd EXCEPT ![k].count[l] = @ - 1,
                       ![k].shared = IF kbd[k].count[l] = 1 THEN @ \ {l} ELSE @]
  /\ OnLayerChange(k, [sign |-> "-", name |-> l])
  /\ UNCHANGED out

SetLayout(k, layout) ==
  /\ Event(k)
  /\ kbd' = [kbd EXCEPT ![k].layout = layout]
  /\ OnLayerChange(k, [sign |-> "/", name |-> layout])
  /\ UNCHANGED out

\* (A keyboard lets go of what it has pressed.  What something else has released is up.)
Type(k, code, pressed) ==
  /\ pressed \/ code \in out.keystate
  /\ Event(k)
  /\ out' = SendKey(out, code, pressed)
  /\ UNCHANGED <<client, listeners, kbd>>

\* manage_device of a device that was plugged in, or that a reload finds a config for:
\* device_grab, while a key of it is held, looks again and again.
AwaitNeutral ==
  /\ Attentive /\ events < MaxEvents
  /\ serving # NoClient => client[serving].at = "sent" /\ client[serving].request.type = "reload"
  /\ awaiting' = TRUE /\ events' = events + 1
  /\ UNCHANGED <<client, backlog, serving, listeners, kbd, active, out, exited>>

\* The keys are let go of, or the device is gone.
Neutral ==
  /\ awaiting
  /\ awaiting' = FALSE
  /\ UNCHANGED <<client, backlog, serving, listeners, kbd, active, out, exited, events>>

Init ==
  /\ client = [c \in Client |-> [at |-> "idle", gone |-> FALSE, request |-> NoRequest,
                                 answer |-> "none", lines |-> <<>>, told |-> Unaware,
                                 source |-> NoKbd]]
  /\ backlog = <<>> /\ serving = NoClient /\ listeners = <<>>
  /\ kbd = [k \in Kbd |-> NewKeyboard] /\ active = NoKbd
  /\ out = Silence
  /\ awaiting = FALSE /\ exited = FALSE /\ events = 0

Serve == Accept \/ Refuse \/ Macro \/ InputText \/ Bind \/ Reload \/ Listen

Next ==
  \/ Serve
  \/ \E c \in Client : Connect(c) \/ Send(c) \/ Vanish(c) \/ ReadLine(c)
  \/ \E k \in Kbd : \E l \in LayersOf[k] \cap Layer : ActivateLayer(k, l) \/ DeactivateLayer(k, l)
  \/ \E k \in Kbd : \E layout \in LayersOf[k] \cap Layout : SetLayout(k, layout)
  \/ \E k \in Kbd : \E code \in CodesOf[k], pressed \in BOOLEAN : Type(k, code, pressed)
  \/ AwaitNeutral \/ Neutral

\* handle_client comes to its end once it has the request, whatever that asks for, unless
\* it waits for a key to be let go of.
Returns ==
  /\ Attentive /\ serving # NoClient /\ client[serving].at = "sent"
  /\ serving' = NoClient

\* The daemon does what it can.  Nothing makes a client send what it connected for, or
\* whoever holds a key let go of it.
Spec == Init /\ [][Next]_vars /\ WF_vars(Accept) /\ WF_serving(Returns)

-----------------------------------------------------------------------------
(* Properties.                                                             *)

\* Whatever is down on a virtual keyboard, after macros, text typed by clients and keys
\* in any order, clear_vkbd knows of and takes back: the report of the USB gadget shows
\* no key twice and none that is not down, though keys found no slot.
Recoverable ==
  /\ out.uinput \subseteq out.keystate
  /\ out.mods = out.uinput \cap ModifierKeys
  /\ \A i \in 1 .. Slots : out.keys[i] # 0 =>
       /\ out.keys[i] \in out.uinput
       /\ \A j \in 1 .. Slots : out.keys[j] = out.keys[i] => i = j

\* A macro or a text that a client asks for leaves no key down that was not down, on
\* the virtual keyboard or in the keystate, whatever it holds, waits for and releases.
NothingLeft == [][serving # NoClient => /\ out'.uinput \subseteq out.uinput
                                        /\ out'.keystate \subseteq out.keystate]_vars

\* What listeners are for, "layer state changes" (keyd.scdoc:17): one that has heard of
\* one keyboard only believes, when it has read all it was sent, in no layer that is
\* off and in the layout in force; and misses a layer that is on only if more than one
\* key has held it.  Others may be slow, go away or be dropped meanwhile.
Informed ==
  \A c \in Range(listeners) :
    LET k == client[c].source
        belief == FoldLeft(Believing, client[c].told, client[c].lines)
    IN  k \in Kbd /\ ~client[c].gone =>
          /\ belief.layout = kbd[k].layout
          /\ belief.layers \subseteq On(k)
          /\ On(k) \ belief.layers \subseteq kbd[k].shared

\* Who has sent a request is answered or heard of no more, unless the daemon has exited
\* because another was gone before its answer, or is stuck with its only thread: xread
\* waits for the rest of the request of a client that has stopped or gone away (util.c:18),
\* device_grab for a key to be let go of (device.c:356).
Waiting(c) == client[c].at = "sent" /\ ~client[c].gone
Stalled == serving # NoClient /\ client[serving].at = "connected"
Answered == \A c \in Client : Waiting(c) ~> (client[c].at = "listening" \/ client[c].answer # "none"
                                             \/ client[c].at = "closed" \/ client[c].gone
                                             \/ exited \/ []Stalled \/ []awaiting)
=============================================================================
