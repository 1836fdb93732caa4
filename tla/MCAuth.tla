------------------------------ MODULE MCAuth ------------------------------
(* Small instances of Auth. *)
EXTENDS Auth, TLC

\* A body that reads as a device, and one that does not.
MCCorps == {Illisible, [paired_at |-> 0, last_seen_at |-> 0]}
MCUnCorps == {[paired_at |-> 0, last_seen_at |-> 0]}

Symetrie == Permutations(Requete) \cup Permutations(Token) \cup Permutations(Device)
============================================================================
