------------------------------- MODULE MCEvdev -------------------------------
(* A keyboard two of whose codes are one key to keyd, and a mouse.         *)
EXTENDS Evdev

CONSTANTS keyboard, mouse, prog1, touchpad, f21

MCKeyOf == [k \in {prog1, touchpad} |-> f21]
MCEmits == [n \in {keyboard, mouse} |-> IF n = mouse THEN {} ELSE {prog1, touchpad}]
MCPackets == [n \in {keyboard, mouse} |-> IF n = mouse THEN {<<1, 2>>} ELSE {}]
MCMatches == {{}, {keyboard}, {keyboard, mouse}}
=============================================================================
