---------------------------- MODULE MCPortSpeed ----------------------------
(* A boot speed and one rate above it.                                     *)
EXTENDS PortSpeed
=============================================================================
