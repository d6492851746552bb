------------------------------ MODULE MCDaemon ------------------------------
(***************************************************************************)
(* Directories for checking Daemon: two keyboards and a mouse, with one    *)
(* file for both keyboards, one that lists the mouse too, or one for each  *)
(* keyboard.  The first file times its key, the second does not.           *)
(***************************************************************************)
EXTENDS Daemon, TLC

CONSTANTS k1, k2, m, f, g, n

MakeRank(rows) == [file \in File |-> [d \in Device |->
                     IF file \in DOMAIN rows /\ d \in DOMAIN rows[file] THEN rows[file][d] ELSE 0]]
MCBind == [file \in File |-> [c \in Code |-> IF file = f THEN "timed" ELSE "key"]]

Directory(rows) == [rank |-> MakeRank(rows), bind |-> MCBind]

Linked == Directory(f :> (k1 :> 1 @@ k2 :> 1))
Mice   == Directory(f :> (k1 :> 2 @@ m :> 2))
Apart  == Directory(f :> (k1 :> 2) @@ g :> (k1 :> 1 @@ k2 :> 1))

MCSetups    == {Linked, Mice, Apart}
MCStray     == {-1, 0, 3}
ApartSetups == {Apart}
=============================================================================
