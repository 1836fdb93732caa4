-------------------------------- MODULE Port --------------------------------
(***************************************************************************)
(* What the boot promises about the address the node listens on: in one    *)
(* life of the process the boot server may have it first, gives it up once *)
(* and for all, and only then the definitive server takes it, from nobody. *)
(* Other programs come and go on the address when it is free.              *)
(***************************************************************************)

VARIABLES
  tenant,   \* who listens: "libre", "tiers", "amorcage" or "definitif"
  tour      \* whose turn it is: "eteint", "amorce", "cede" or "servi"

vars == <<tenant, tour>>

\* The address once this process has closed its own listener.
Rendu == IF tenant = "tiers" THEN "tiers" ELSE "libre"

Lancer == tour = "eteint" /\ tour' = "amorce" /\ UNCHANGED tenant

Ouvrir == tour = "amorce" /\ tenant = "libre" /\ tenant' = "amorcage" /\ UNCHANGED tour

Ceder == tour = "amorce" /\ tour' = "cede" /\ tenant' = Rendu

Servir == tour = "cede" /\ tenant = "libre" /\ tenant' = "definitif" /\ tour' = "servi"

Finir == tour # "eteint" /\ tour' = "eteint" /\ tenant' = Rendu

Tiers ==
  /\ \/ tenant = "libre" /\ tenant' = "tiers"
     \/ tenant = "tiers" /\ tenant' = "libre"
  /\ UNCHANGED tour

Init == tenant \in {"libre", "tiers"} /\ tour = "eteint"

Next == Lancer \/ Ouvrir \/ Ceder \/ Servir \/ Finir \/ Tiers

Spec == Init /\ [][Next]_vars
=============================================================================
