----------------------------- MODULE MCAmorcage -----------------------------
(* Small instances of Amorcage. No symmetry: its run checks liveness. *)
EXTENDS Amorcage
=============================================================================
