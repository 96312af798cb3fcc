---------------------------- MODULE MCFsAlmacenar ----------------------------
(***************************************************************************)
(* Instances of FsAlmacenar for TLC.                                       *)
(***************************************************************************)
EXTENDS FsAlmacenar, TLC

CONSTANTS consola, w1, n1, n2, n3

ConErrores == {1, -1}

Orden3 == <<n1, n2, n3>>
Vacios == [n \in Nodos |-> {}]

Archivo(nombre, dir, cantidades) == [nombre |-> nombre, dir |-> dir, bloques |-> cantidades]

(* Two files from the console and one from a worker. *)
PedidosDos ==
  (consola :> <<Archivo("a", "d1", {2}), Archivo("b", "d2", {1})>>) @@
  (w1 :> <<Archivo("c", "d1", {1, 2})>>)
=============================================================================
