----------------------------- MODULE MCFsBloques -----------------------------
(* Instances of FsBloques for TLC. *)
EXTENDS FsBloques, TLC

CONSTANTS consola, w1, n1, n2, n3

Orden3 == <<n1, n2, n3>>
Vacios == [n \in Nodos |-> {}]
ConErrores == {1, -1}

Archivo(nombre, dir, cantidades) == [nombre |-> nombre, dir |-> dir, bloques |-> cantidades]

(* The console stores a file and a worker another, of one block each. *)
PedidosUnoYUno ==
  (consola :> <<Archivo("a", "d1", {1})>>) @@ (w1 :> <<Archivo("c", "d1", {1})>>)

(* Of two commands and a failure, two at most happen. *)
DosCosas == ordenes + fallos <= 2
=============================================================================
