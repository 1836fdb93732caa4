--------------------------- MODULE MCSuperviseur ---------------------------
(* Small instances of Superviseur. No symmetry: its run checks liveness. *)
EXTENDS Superviseur
============================================================================
