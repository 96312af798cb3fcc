------------------------------ MODULE MCFsNodos ------------------------------
(***************************************************************************)
(* Instances of FsNodos for TLC.                                           *)
(***************************************************************************)
EXTENDS FsNodos

CONSTANTS n1, n2, yama1

Previo(limpio, nodosConBitmap, arch) ==
  [limpio |-> limpio, bitmaps |-> nodosConBitmap, archivos |-> arch]
Dir(bloques, mas) == [bloques |-> bloques, mas |-> mas]

(* --clean; the first run; a run with two known nodes and a directory whose  *)
(* blocks are on one node each or on both; one with a single known node and  *)
(* a directory of two files.                                                 *)
Arranques ==
  { Previo(TRUE, {}, <<>>),
    Previo(FALSE, {}, <<>>),
    Previo(FALSE, {n1, n2}, <<Dir({{n1}, {n1, n2}}, FALSE), Dir({{n2}}, FALSE)>>),
    Previo(FALSE, {n1}, <<Dir({{n1}}, TRUE)>>) }

(* Bounds: of the four things that the histories remember at most two        *)
(* happened, and the console formats next to one thread that does something. *)
Recuerdan == Cardinality({i \in 1..4 : <<carrera, choque, comparte, basura>>[i]})
Ocupados == Cardinality({t \in Hilos : hilo[t].pc \notin {"no", "lee", "fin"}})
PocasCosas ==
  /\ Recuerdan <= 2
  /\ consola.pc = "libre" \/ Ocupados <= 1
=============================================================================
