----------------------------- MODULE MCReseau -----------------------------
(* Small instances of Reseau. *)
EXTENDS Reseau, TLC

Symetrie == Permutations(Requete) \cup Permutations(Cle) \cup Permutations(Pubkey)
===========================================================================
