----------------------------- MODULE Appairage -----------------------------
(***************************************************************************)
(* What pairing promises. A token is offered once and taken by at most one *)
(* caller, in the boot that offered it, and lets at most the device it was *)
(* taken for in. A request opens a session only for a device that is a     *)
(* member at that moment, and only a session whose signature was accepted  *)
(* changes the members: it puts its own device back, or adds or removes    *)
(* one device as it ends.                                                  *)
(***************************************************************************)
CONSTANTS Device, Token, Requete, None

VARIABLES
  jeton,    \* each token: "inedit", "offert" or "clos"
  prises,   \* the tokens taken and not concluded yet, with their device
  membre,   \* the devices that are in
  session,  \* the device a request speaks for, or None
  signees   \* the requests whose signature was accepted

vars == <<jeton, prises, membre, session, signees>>

\* Offered tokens may lapse whenever someone looks at them.
Caduques(j) ==
  {f \in [Token -> {"inedit", "offert", "clos"}] :
     \A t \in Token : f[t] = j[t] \/ (j[t] = "offert" /\ f[t] = "clos")}

-----------------------------------------------------------------------------
(* Tokens *)

Offrir(t) ==
  /\ jeton[t] = "inedit"
  /\ \E f \in Caduques(jeton) : jeton' = [f EXCEPT ![t] = "offert"]
  /\ UNCHANGED <<prises, membre, session, signees>>

Perdre ==
  /\ jeton' \in Caduques(jeton)
  /\ UNCHANGED <<prises, membre, session, signees>>

Prendre(t, d) ==
  /\ jeton[t] = "offert" /\ jeton'[t] = "clos"
  /\ jeton' \in Caduques(jeton)
  /\ prises' = prises \cup {<<t, d>>}
  /\ UNCHANGED <<membre, session, signees>>

\* The pairing ends, and lets its device in or not.
Conclure(t, d) ==
  /\ <<t, d>> \in prises
  /\ prises' = prises \ {<<t, d>>}
  /\ membre' \in {membre, membre \cup {d}}
  /\ UNCHANGED <<jeton, session, signees>>

-----------------------------------------------------------------------------
(* Sessions *)

Entrer(r) ==
  /\ session[r] = None
  /\ \E d \in membre : session' = [session EXCEPT ![r] = d]
  /\ UNCHANGED <<jeton, prises, membre, signees>>

Signer(r) ==
  /\ session[r] # None
  /\ signees' = signees \cup {r}
  /\ UNCHANGED <<jeton, prises, membre, session>>

Ranimer(r) ==
  /\ r \in signees
  /\ membre' = membre \cup {session[r]}
  /\ UNCHANGED <<jeton, prises, session, signees>>

\* The end of a session, with what it does to the members.
Sortir(r) ==
  /\ session' = [session EXCEPT ![r] = None]
  /\ signees' = signees \ {r}
  /\ \/ membre' = membre
     \/ r \in signees /\ \E d \in Device : membre' \in {membre \cup {d}, membre \ {d}}
  /\ UNCHANGED <<jeton, prises>>

-----------------------------------------------------------------------------

\* A new boot: nothing open survives, the members do.
Redemarrer ==
  /\ jeton' = [t \in Token |-> IF jeton[t] = "inedit" THEN "inedit" ELSE "clos"]
  /\ prises' = {}
  /\ session' = [r \in Requete |-> None]
  /\ signees' = {}
  /\ UNCHANGED membre

Init ==
  /\ jeton = [t \in Token |-> "inedit"]
  /\ prises = {}
  /\ membre = {}
  /\ session = [r \in Requete |-> None]
  /\ signees = {}

Next ==
  \/ \E t \in Token : Offrir(t)
  \/ Perdre
  \/ \E t \in Token, d \in Device : Prendre(t, d) \/ Conclure(t, d)
  \/ \E r \in Requete : Entrer(r) \/ Signer(r) \/ Ranimer(r) \/ Sortir(r)
  \/ Redemarrer

Spec == Init /\ [][Next]_vars
=============================================================================
