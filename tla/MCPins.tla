------------------------------ MODULE MCPins ------------------------------
(* Small instances of Pins. *)
EXTENDS Pins, TLC

CONSTANTS m1, c1, c2

Ouverte == [enabled |-> TRUE, max_mb |-> 0, default_ttl_hours |-> 1]
Fermee  == [enabled |-> FALSE, max_mb |-> 0, default_ttl_hours |-> 1]

SansModule(r) == [modules |-> << >>, default_rule |-> r]

\* PinPolicy::default(), and a policy that disables m1
MCPolitiqueDefaut == SansModule(Ouverte)
MCPolitiques == {MCPolitiqueDefaut,
                 [modules |-> (m1 :> Fermee), default_rule |-> Ouverte]}

MCTaille == [c \in Cid |-> IF c = c1 THEN 1 ELSE 2]

SymetrieRequetes == Permutations(Requete)
============================================================================
