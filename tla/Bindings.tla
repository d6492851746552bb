------------------------------ MODULE Bindings ------------------------------
(***************************************************************************)
(* What a keyd config promises to whoever writes one or binds keys while   *)
(* the daemon runs: each entry is granted or refused as a whole.  One that *)
(* is granted binds what it names, and nothing else, to what it says; one  *)
(* that is refused changes no binding; reset brings back the bindings that *)
(* the file made.  Module Config shows that src/src/config.c keeps this    *)
(* promise although an entry is parsed in many steps, into tables that     *)
(* entries share by index and that a refused entry has written to.         *)
(***************************************************************************)
CONSTANTS
  Layer,      \* layer names
  Target,     \* what an entry binds in its layer: a key or a chord
  Action,     \* what a target may be bound to
  Nothing,    \* what an unbound target is bound to
  Preset,     \* the bindings of the default config
  None        \* no request

Binding == [layer : Layer, target : Target, action : Action]
Request == [layer : Layer, targets : SUBSET Target, action : Action]

VARIABLES binding, request, loaded, made   \* made: by the file, once it is loaded
vars == <<binding, request, loaded, made>>

TypeOK == /\ binding \subseteq Binding
          /\ request \in Request \cup {None}
          /\ loaded \in BOOLEAN /\ made \subseteq Binding

\* The bindings b with the targets of r bound to its action.
Granted(b, r) ==
  {x \in b : x.layer # r.layer \/ x.target \notin r.targets}
    \cup (IF r.action = Nothing THEN {}
          ELSE {[layer |-> r.layer, target |-> t, action |-> r.action] : t \in r.targets})

Init == binding = Preset /\ request = None /\ loaded = FALSE /\ made = {}

Ask == request = None /\ request' \in Request /\ UNCHANGED <<binding, loaded, made>>

Grant == /\ request # None /\ request' = None
         /\ binding' = Granted(binding, request)
         /\ UNCHANGED <<loaded, made>>

Refuse == request # None /\ request' = None /\ UNCHANGED <<binding, loaded, made>>

\* While the file is loaded, a binding made without parsing.
Alias == /\ request = None /\ ~loaded
         /\ \E b \in binding' :
              /\ b \in Binding
              /\ binding' = Granted(binding, [layer |-> b.layer, targets |-> {b.target},
                                              action |-> b.action])
         /\ UNCHANGED <<request, loaded, made>>

Load == /\ request = None /\ ~loaded
        /\ loaded' = TRUE /\ made' = binding
        /\ UNCHANGED <<binding, request>>

Reset == /\ request = None /\ loaded
         /\ binding' = made
         /\ UNCHANGED <<request, loaded, made>>

Next == Ask \/ Grant \/ Refuse \/ Load \/ Reset \/ Alias

\* Whoever asks gets an answer.
Answered == request # None ~> request = None

Spec == Init /\ [][Next]_vars /\ Answered
=============================================================================
