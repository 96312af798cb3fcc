------------------------------ MODULE MCFsLeer ------------------------------
(* Two datanodes that may both die and come back, files of one and two       *)
(* blocks, and the commands that read them in every way.                     *)
EXTENDS FsLeer

CONSTANTS n1, n2, fa, fb, fc, r1, r2, otra

Tres(x, y, z) == [k \in 0..2 |-> IF k = 0 THEN x ELSE IF k = 1 THEN y ELSE z]

MCNodos == {n1, n2}
MCArchivos == {fa, fb, fc}
MCRutas == {r1, r2}
(* fa: two copies of each block; fb: the second copy is missing and there is *)
(* a third; fc: one copy of each block.                                      *)
MCCopias ==
  [f \in MCArchivos |->
     CASE f = fa -> [i \in 0..1 |-> IF i = 0 THEN Tres(<<n1, 0>>, <<n2, 0>>, Sin)
                                  ELSE Tres(<<n2, 1>>, <<n1, 1>>, Sin)]
       [] f = fb -> [i \in 0..0 |-> Tres(<<n2, 2>>, Sin, <<n1, 2>>)]
       [] f = fc -> [i \in 0..1 |-> IF i = 0 THEN Tres(<<n1, 3>>, Sin, Sin)
                                  ELSE Tres(Sin, <<n2, 3>>, Sin)]]
MCComandos ==
  {[op |-> "md5", a |-> fa, ruta |-> otra], [op |-> "md5", a |-> fc, ruta |-> otra],
   [op |-> "cat", a |-> fa, ruta |-> otra], [op |-> "cat", a |-> fb, ruta |-> otra],
   [op |-> "cpto", a |-> fa, ruta |-> r1], [op |-> "cpto", a |-> fb, ruta |-> r1],
   [op |-> "cpto", a |-> fb, ruta |-> r2]}
=============================================================================
