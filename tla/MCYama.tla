------------------------------- MODULE MCYama -------------------------------
(***************************************************************************)
(* Instances of Yama for TLC.  The files are laid over the nodes so that a *)
(* node may hold several blocks, a job has several groups, and a block's   *)
(* number means different nodes for the two masters.                       *)
(***************************************************************************)
EXTENDS Yama, TLC

CONSTANTS m1, m2

UnMaster == {m1}
DosMasters == {m1, m2}

(* Three blocks over three nodes. *)
ArchivoTres == (m1 :> ((0 :> <<1, 2>>) @@ (1 :> <<2, 3>>) @@ (2 :> <<3, 1>>)))
(* One block. *)
ArchivoUno == (m1 :> (0 :> <<1, 2>>))
(* A file of one block per master. *)
ArchivosDos == (m1 :> (0 :> <<1, 2>>)) @@ (m2 :> (0 :> <<2, 1>>))

Nros == 0..2
Basura == {SinBloque, 0}
=============================================================================
