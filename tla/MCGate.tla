-------------------------------- MODULE MCGate --------------------------------
(***************************************************************************)
(* Two versions of the source, one script that stops halfway, the trusted  *)
(* key and another one.                                                    *)
(***************************************************************************)
EXTENDS Gate

CONSTANTS k1, k2
===============================================================================
