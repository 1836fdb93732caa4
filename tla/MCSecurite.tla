---------------------------- MODULE MCSecurite ----------------------------
(* Small instances of Securite: its constants need no definition. *)
EXTENDS Securite
============================================================================
