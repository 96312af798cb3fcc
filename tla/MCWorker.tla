------------------------------ MODULE MCWorker ------------------------------
(***************************************************************************)
(* Instances of Worker for TLC.                                            *)
(***************************************************************************)
EXTENDS Worker, TLC

CONSTANTS m1, m2, n1, n2, n3, r1, r2, r3

(* Both masters have a block of number 1 here; m1 has two other nodes        *)
(* in its reduction, and YAMA asks for that of m2 twice.                    *)
BloquesDos == (m1 :> {1}) @@ (m2 :> {1, 2})
OtrosDos == (m1 :> {n1, n2}) @@ (m2 :> {n3})
RondasDos == (m1 :> {r1}) @@ (m2 :> {r2, r3})

(* The two nodes and the two rounds are alike. *)
Iguales == Permutations({n1, n2}) \cup Permutations({r2, r3})

(* States after both masters' processes met are reached and not continued:  *)
(* what is said of a master then says nothing of either.                    *)
UnoCruza == cruces # Masters
=============================================================================
