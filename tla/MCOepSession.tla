---------------------------- MODULE MCOepSession ----------------------------
(***************************************************************************)
(* OepSession on small instances: its runs choose the constants.           *)
(***************************************************************************)
EXTENDS OepSession, TLC

Symmetry == Permutations(Sessions)
=============================================================================
