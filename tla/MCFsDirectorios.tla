--------------------------- MODULE MCFsDirectorios ---------------------------
(* An instance of FsDirectorios for TLC: the root and two entries, so that   *)
(* the table fills up, and paths of one and of two names.                    *)
EXTENDS FsDirectorios

CONSTANTS x, y

MCRutas == {<<>>, <<x>>, <<y>>, <<x, y>>}
MCBasuras == {0, 1}
=============================================================================
