---------------------------- MODULE AuthProofs ----------------------------
(***************************************************************************)
(* Proofs about Auth, for any set of devices, tokens and concurrent        *)
(* requests, any clock and any number of restarts: its types, the single   *)
(* use of pairing tokens, the token behind every paired device, the        *)
(* lasting effect of a revocation, the window of a signed timestamp, and   *)
(* that Auth implements Appairage.                                         *)
(***************************************************************************)
EXTENDS Auth, TLAPS

\* What TypeOK says of one slot, in state e with request q.
SlotOK(e, q) ==
  /\ e \notin {"libre", "traiter"} => q.device \in Device
  /\ e \in {"ajout_lire", "ajout_ecrire"} => q.jeton \in Token
  /\ e \in {"ajout_ecrire", "touche_ecrire"} => q.valeur \in PairedDevice
  /\ q.op # "autre" => q.cible \in Device
  /\ q.op = "ecrire" => q.corps \in Corps

SlotsOK ==
  /\ etat \in [Requete -> Etats]
  /\ req \in [Requete -> Requetes]
  /\ \A r \in Requete : SlotOK(etat[r], req[r])

\* The empty slot is well formed.
LEMMA SansRequeteOK == SansRequete \in Requetes /\ SlotOK("libre", SansRequete)
BY DEF SansRequete, Requetes, SlotOK

\* A step that gives one slot a new state and a new request.
LEMMA SlotNouveau ==
  ASSUME SlotsOK, NEW r \in Requete, NEW e \in Etats, NEW q \in Requetes, SlotOK(e, q),
         Aller(r, e), req' = [req EXCEPT ![r] = q]
  PROVE  SlotsOK'
<1>1. etat' \in [Requete -> Etats] /\ req' \in [Requete -> Requetes]
  BY DEF SlotsOK, Aller
<1>2. ASSUME NEW s \in Requete PROVE SlotOK(etat'[s], req'[s])
  BY DEF SlotsOK, Aller
<1> QED  BY <1>1, <1>2 DEF SlotsOK

\* A step that gives one slot a new state and keeps its request.
LEMMA SlotAvance ==
  ASSUME SlotsOK, NEW r \in Requete, NEW e \in Etats, SlotOK(e, req[r]),
         Aller(r, e), UNCHANGED req
  PROVE  SlotsOK'
<1>1. etat' \in [Requete -> Etats] /\ req' \in [Requete -> Requetes]
  BY DEF SlotsOK, Aller
<1>2. ASSUME NEW s \in Requete PROVE SlotOK(etat'[s], req'[s])
  BY DEF SlotsOK, Aller
<1> QED  BY <1>1, <1>2 DEF SlotsOK

\* A request that ends frees its slot.
LEMMA SlotFini ==
  ASSUME SlotsOK, NEW r \in Requete, Finir(r)
  PROVE  SlotsOK'
BY SlotNouveau, SansRequeteOK DEF Finir, Etats

\* A vault write leaves the entries well typed.
LEMMA PutType ==
  ASSUME coffre \in [Device -> PairedDevice \cup {Illisible, None}],
         NEW d \in Device, NEW v \in PairedDevice \cup {Illisible, None}, Put(d, v)
  PROVE  /\ coffre' \in [Device -> PairedDevice \cup {Illisible, None}]
         /\ coffre'[d] \in {v, coffre[d]}
         /\ coffre' # coffre => coffre'[d] = v
         /\ \A e \in Device : e # d => coffre'[e] = coffre[e]
BY DEF Put

\* The tokens left by map.retain are some of those there were, unexpired.
LEMMA RetainLemma ==
  ASSUME NEW m \in [Token -> Nat \cup {None}], NEW t \in Nat
  PROVE  /\ retain(m, t) \in [Token -> Nat \cup {None}]
         /\ \A k \in Token : retain(m, t)[k] # None => retain(m, t)[k] = m[k] /\ m[k] > t
BY SentinelAssumption DEF retain

\* The rest of TypeOK.
DonneesOK ==
  /\ tokens \in [Token -> Nat \cup {None}]
  /\ coffre \in [Device -> PairedDevice \cup {Illisible, None}]
  /\ now \in Nat /\ relances \in Nat
  /\ emission \in [Token -> Instant \cup {None}]
  /\ usages \in [Token -> Nat]
  /\ dernier \in [Token -> Instant \cup {None}]
  /\ garant \in [Device -> Token \cup {None}]
  /\ poses \subseteq Device /\ revoques \subseteq Device
  /\ rejeu \in [Device -> [Horodatages -> [premier : Nat, dernier : Nat] \cup {None}]]

\* Types of requests, tokens, devices and histories, for any number of each.
THEOREM TypeCorrect == Spec => []TypeOK
<1>1. Init => TypeOK
  BY SansRequeteOK, AuthAssumption DEF Init, TypeOK, SansRequete, Etats, SlotOK
<1>2. TypeOK /\ [Next]_vars => TypeOK'
  <2> SUFFICES ASSUME SlotsOK, DonneesOK, [Next]_vars PROVE SlotsOK' /\ DonneesOK'
    BY DEF TypeOK, SlotsOK, DonneesOK, SlotOK
  <2> USE AuthAssumption, SentinelAssumption
  <2>1. ASSUME NEW t \in Token, CreatePairingToken(t) PROVE SlotsOK' /\ DonneesOK'
    <3>1. UNCHANGED <<etat, req>>
      BY <2>1 DEF CreatePairingToken
    <3>2. tokens' \in [Token -> Nat \cup {None}] /\ emission' \in [Token -> Instant \cup {None}]
      BY <2>1, RetainLemma DEF CreatePairingToken, DonneesOK, Instant
    <3> QED  BY <2>1, <3>1, <3>2 DEF CreatePairingToken, SlotsOK, DonneesOK
  <2>2. ASSUME NEW r \in Requete, NEW t \in Token, NEW d \in Device, PairComplete(r, t, d)
        PROVE  SlotsOK' /\ DonneesOK'
    <3>1. CASE consume(r, t, d)
      <4> DEFINE q == [SansRequete EXCEPT !.device = d, !.jeton = t]
      <4>1. q \in Requetes /\ SlotOK("ajout_lire", q)
        BY DEF SansRequete, Requetes, SlotOK
      <4>2. SlotsOK'
        BY <3>1, <4>1, SlotNouveau DEF consume, Etats
      <4>3. tokens' \in [Token -> Nat \cup {None}]
        BY <3>1, RetainLemma DEF consume, DonneesOK
      <4>4. usages' \in [Token -> Nat] /\ dernier' \in [Token -> Instant \cup {None}]
        BY <3>1 DEF consume, DonneesOK, Instant
      <4> QED  BY <2>2, <4>2, <4>3, <4>4 DEF PairComplete, DonneesOK
    <3>2. CASE tokens' = retain(tokens, now) /\ UNCHANGED <<etat, req, usages, dernier>>
      BY <2>2, <3>2, RetainLemma DEF PairComplete, SlotsOK, DonneesOK
    <3> QED  BY <2>2, <3>1, <3>2 DEF PairComplete
  <2>3. ASSUME NEW r \in Requete, NEW d \in Device, NEW ts \in Horodatages,
               NEW sig \in BOOLEAN, NEW o \in Operation, AuthMiddleware(r, d, ts, sig, o)
        PROVE  SlotsOK' /\ DonneesOK'
    <3> DEFINE q == [device |-> d, jeton |-> None, ts |-> ts, sig |-> sig,
                     op |-> o.op, cible |-> o.cible, corps |-> o.corps, valeur |-> None]
    <3>1. /\ o.op \in {"revoquer", "ecrire", "autre"}
          /\ o.cible \in Device \cup {None} /\ o.corps \in Corps \cup {None}
          /\ o.op # "autre" => o.cible \in Device
          /\ o.op = "ecrire" => o.corps \in Corps
      BY DEF Operation
    <3>2. q \in Requetes /\ SlotOK("lire", q)
      BY <3>1 DEF Requetes, SlotOK
    <3>3. SlotsOK'
      BY <2>3, <3>2, SlotNouveau DEF AuthMiddleware, Etats
    <3> QED  BY <2>3, <3>3 DEF AuthMiddleware, DonneesOK, histoire
  <2>4. ASSUME NEW r \in Requete, NEW d \in Device \cup {None}, NEW ts \in Horodatages,
               NEW sig \in BOOLEAN, AuthCompatMiddleware(r, d, ts, sig)
        PROVE  SlotsOK' /\ DonneesOK'
    <3>1. CASE d = None
      <4>1. SlotOK("traiter", SansRequete)
        BY DEF SlotOK, SansRequete
      <4> QED
        BY <2>4, <3>1, <4>1, SansRequeteOK, SlotNouveau
        DEF AuthCompatMiddleware, Etats, DonneesOK, histoire
    <3>2. CASE d \in Device
      <4> DEFINE q == [SansRequete EXCEPT !.device = d, !.ts = ts, !.sig = sig]
      <4>1. q \in Requetes /\ SlotOK("lire", q)
        BY <3>2 DEF SansRequete, Requetes, SlotOK
      <4>2. SlotsOK'
        BY <2>4, <3>2, <4>1, SlotNouveau DEF AuthCompatMiddleware, Etats
      <4> QED  BY <2>4, <4>2 DEF AuthCompatMiddleware, DonneesOK, histoire
    <3> QED  BY <3>1, <3>2
  <2>5. ASSUME NEW r \in Requete, AddDeviceGet(r) PROVE SlotsOK' /\ DonneesOK'
    <3>1. CASE Finir(r)
      BY <2>5, <3>1, SlotFini DEF AddDeviceGet, DonneesOK, histoire
    <3>2. CASE /\ req' = [req EXCEPT ![r].valeur = [paired_at |-> now, last_seen_at |-> now]]
               /\ Aller(r, "ajout_ecrire")
      <4> DEFINE q == [req[r] EXCEPT !.valeur = [paired_at |-> now, last_seen_at |-> now]]
      <4>1. req[r] \in Requetes /\ SlotOK("ajout_lire", req[r])
        BY <2>5 DEF AddDeviceGet, SlotsOK
      <4>2. [paired_at |-> now, last_seen_at |-> now] \in PairedDevice
        BY DEF DonneesOK, PairedDevice
      <4>3. q \in Requetes /\ SlotOK("ajout_ecrire", q)
        BY <4>1, <4>2 DEF Requetes, SlotOK
      <4>4. req' = [req EXCEPT ![r] = q]
        BY <3>2
      <4>5. SlotsOK'
        BY <3>2, <4>3, <4>4, SlotNouveau DEF Etats
      <4> QED  BY <2>5, <4>5 DEF AddDeviceGet, DonneesOK, histoire
    <3> QED  BY <2>5, <3>1, <3>2 DEF AddDeviceGet
  <2>6. ASSUME NEW r \in Requete, AddDevicePut(r) PROVE SlotsOK' /\ DonneesOK'
    <3>1. req[r].device \in Device /\ req[r].jeton \in Token /\ req[r].valeur \in PairedDevice
      BY <2>6 DEF AddDevicePut, SlotsOK, SlotOK
    <3>2. coffre' \in [Device -> PairedDevice \cup {Illisible, None}]
      BY <2>6, <3>1, PutType DEF AddDevicePut, DonneesOK
    <3>3. garant' \in [Device -> Token \cup {None}] /\ revoques' \subseteq Device
      BY <2>6, <3>1 DEF AddDevicePut, DonneesOK
    <3> QED  BY <2>6, <3>2, <3>3, SlotFini DEF AddDevicePut, DonneesOK
  <2>7. ASSUME NEW r \in Requete, GetDevice(r) PROVE SlotsOK' /\ DonneesOK'
    <3>1. CASE Finir(r)
      BY <2>7, <3>1, SlotFini DEF GetDevice, DonneesOK, histoire
    <3>2. CASE Aller(r, "verifier") /\ UNCHANGED req
      <4>1. SlotOK("verifier", req[r])
        BY <2>7 DEF GetDevice, SlotsOK, SlotOK
      <4> QED  BY <2>7, <3>2, <4>1, SlotAvance DEF GetDevice, DonneesOK, histoire, Etats
    <3> QED  BY <2>7, <3>1, <3>2 DEF GetDevice
  <2>8. ASSUME NEW r \in Requete, VerifySignature(r) PROVE SlotsOK' /\ DonneesOK'
    <3> DEFINE d == req[r].device
               ts == req[r].ts
               a == IF rejeu[d][ts] = None THEN now ELSE rejeu[d][ts].premier
    <3>1. CASE Finir(r) /\ UNCHANGED rejeu
      BY <2>8, <3>1, SlotFini DEF VerifySignature, DonneesOK
    <3>2. CASE /\ Aller(r, "touche_lire") /\ UNCHANGED req
               /\ rejeu' = [rejeu EXCEPT ![d][ts] =
                              [premier |-> IF @ = None THEN now ELSE @.premier,
                               dernier |-> now]]
      <4>1. SlotOK("touche_lire", req[r]) /\ d \in Device
        BY <2>8 DEF VerifySignature, SlotsOK, SlotOK
      <4>2. SlotsOK'
        BY <3>2, <4>1, SlotAvance DEF Etats
      <4>3. rejeu' \in [Device -> [Horodatages -> [premier : Nat, dernier : Nat] \cup {None}]]
        <5> DEFINE f == [rejeu[d] EXCEPT ![ts] = [premier |-> a, dernier |-> now]]
        <5>1. rejeu[d] \in [Horodatages -> [premier : Nat, dernier : Nat] \cup {None}]
          BY <4>1 DEF DonneesOK
        <5>2. ts \in Horodatages => a \in Nat
          BY <5>1 DEF DonneesOK
        <5>3. f \in [Horodatages -> [premier : Nat, dernier : Nat] \cup {None}]
          BY <5>1, <5>2 DEF DonneesOK
        <5>4. rejeu' = [rejeu EXCEPT ![d] = f]
          BY <3>2
        <5> HIDE DEF f
        <5> QED  BY <5>3, <5>4 DEF DonneesOK
      <4> QED  BY <2>8, <4>2, <4>3 DEF VerifySignature, DonneesOK
    <3> QED  BY <2>8, <3>1, <3>2 DEF VerifySignature
  <2>9. ASSUME NEW r \in Requete, ToucheGet(r) PROVE SlotsOK' /\ DonneesOK'
    <3>1. req[r] \in Requetes /\ SlotOK("touche_lire", req[r])
      BY <2>9 DEF ToucheGet, SlotsOK
    <3>2. CASE Aller(r, "traiter") /\ UNCHANGED req
      <4>1. SlotOK("traiter", req[r])
        BY <3>1 DEF SlotOK
      <4> QED  BY <2>9, <3>2, <4>1, SlotAvance DEF ToucheGet, DonneesOK, histoire, Etats
    <3>3. CASE /\ coffre[req[r].device] \in PairedDevice
               /\ req' = [req EXCEPT ![r].valeur =
                            [coffre[req[r].device] EXCEPT !.last_seen_at = now]]
               /\ Aller(r, "touche_ecrire")
      <4> DEFINE v == [coffre[req[r].device] EXCEPT !.last_seen_at = now]
                 q == [req[r] EXCEPT !.valeur = v]
      <4>1. v \in PairedDevice
        BY <3>3 DEF DonneesOK, PairedDevice
      <4>2. q \in Requetes /\ SlotOK("touche_ecrire", q)
        BY <3>1, <4>1 DEF Requetes, SlotOK
      <4>3. req' = [req EXCEPT ![r] = q]
        BY <3>3
      <4>4. SlotsOK'
        BY <3>3, <4>2, <4>3, SlotNouveau DEF Etats
      <4> QED  BY <2>9, <4>4 DEF ToucheGet, DonneesOK, histoire
    <3> QED  BY <2>9, <3>2, <3>3 DEF ToucheGet
  <2>10. ASSUME NEW r \in Requete, TouchePut(r) PROVE SlotsOK' /\ DonneesOK'
    <3>1. /\ req[r].device \in Device /\ req[r].valeur \in PairedDevice
          /\ SlotOK("traiter", req[r])
      BY <2>10 DEF TouchePut, SlotsOK, SlotOK
    <3>2. coffre' \in [Device -> PairedDevice \cup {Illisible, None}]
      BY <2>10, <3>1, PutType DEF TouchePut, DonneesOK
    <3>3. SlotsOK'
      BY <2>10, <3>1, SlotAvance DEF TouchePut, Etats
    <3> QED  BY <2>10, <3>2, <3>3 DEF TouchePut, DonneesOK, histoire
  <2>11. ASSUME NEW r \in Requete, Traiter(r) PROVE SlotsOK' /\ DonneesOK'
    <3>1. SlotsOK'
      BY <2>11, SlotFini DEF Traiter
    <3>2. SlotOK("traiter", req[r])
      BY <2>11 DEF Traiter, SlotsOK
    <3>3. CASE Revoquer(r)
      <4>1. req[r].cible \in Device
        BY <3>2, <3>3 DEF Revoquer, SlotOK
      <4>2. coffre' \in [Device -> PairedDevice \cup {Illisible, None}]
        BY <3>3, <4>1, PutType DEF Revoquer, DonneesOK
      <4> QED  BY <2>11, <3>1, <3>3, <4>1, <4>2 DEF Traiter, Revoquer, DonneesOK
    <3>4. CASE VaultPut(r)
      <4>1. req[r].cible \in Device /\ req[r].corps \in PairedDevice \cup {Illisible, None}
        BY <3>2, <3>4 DEF VaultPut, SlotOK
      <4>2. coffre' \in [Device -> PairedDevice \cup {Illisible, None}]
        BY <3>4, <4>1, PutType DEF VaultPut, DonneesOK
      <4> QED  BY <2>11, <3>1, <3>4, <4>1, <4>2 DEF Traiter, VaultPut, DonneesOK
    <3>5. CASE UNCHANGED <<coffre, poses, revoques>>
      BY <2>11, <3>1, <3>5 DEF Traiter, DonneesOK
    <3> QED  BY <2>11, <3>3, <3>4, <3>5 DEF Traiter
  <2>12. CASE Tick
    BY <2>12 DEF Tick, SlotsOK, DonneesOK, histoire
  <2>13. CASE Relancer
    BY <2>13, SansRequeteOK DEF Relancer, SlotsOK, DonneesOK, histoire, Etats
  <2>14. CASE UNCHANGED vars
    BY <2>14 DEF vars, histoire, SlotsOK, DonneesOK
  <2> QED
    BY <2>1, <2>2, <2>3, <2>4, <2>5, <2>6, <2>7, <2>8, <2>9, <2>10, <2>11, <2>12,
       <2>13, <2>14 DEF Next, Recevoir, Avancer
<1> QED  BY <1>1, <1>2, PTL DEF Spec

-----------------------------------------------------------------------------
(* Pairing tokens *)

\* The strengthening: a token in the map was created in this boot, has not
\* been used, and expires TTL after its creation; one that was never created
\* is neither in the map nor used.
JetonInv ==
  /\ JetonUnique
  /\ \A t \in Token : emission[t] = None => tokens[t] = None /\ usages[t] = 0
  /\ \A t \in Token : tokens[t] # None =>
       /\ emission[t] # None /\ emission[t].boot = relances
       /\ tokens[t] = emission[t].quand + TTL
       /\ usages[t] = 0

\* The steps of a request past its arrival leave the tokens alone.
LEMMA AvancerJetons ==
  ASSUME NEW r \in Requete, Avancer(r)
  PROVE  UNCHANGED <<tokens, emission, usages, dernier, now, relances>>
BY DEF Avancer, AddDeviceGet, AddDevicePut, GetDevice, VerifySignature, ToucheGet,
       TouchePut, Traiter, histoire

\* JetonInv is kept by every step.
LEMMA JetonStep == TypeOK /\ JetonInv /\ [Next]_vars => JetonInv'
<1> SUFFICES ASSUME TypeOK, JetonInv, [Next]_vars PROVE JetonInv'
  OBVIOUS
<1> USE AuthAssumption, SentinelAssumption
<1>1. ASSUME NEW t \in Token, CreatePairingToken(t) PROVE JetonInv'
  <2>1. /\ tokens' = [retain(tokens, now) EXCEPT ![t] = now + TTL]
        /\ emission' = [emission EXCEPT ![t] = [quand |-> now, boot |-> relances]]
        /\ emission[t] = None
        /\ UNCHANGED <<usages, dernier, relances>>
    BY <1>1 DEF CreatePairingToken
  <2>2. [quand |-> now, boot |-> relances] \in Instant
    BY DEF TypeOK, Instant
  <2>3. [quand |-> now, boot |-> relances] # None
    BY <2>2
  <2>4. \A k \in Token : k # t => /\ emission'[k] = emission[k]
                                  /\ tokens'[k] \in {None, tokens[k]}
    BY <2>1 DEF TypeOK, retain
  <2>5. /\ emission'[t] = [quand |-> now, boot |-> relances]
        /\ tokens'[t] = now + TTL /\ now + TTL # None
        /\ usages'[t] = 0
    BY <2>1 DEF TypeOK, JetonInv, retain
  <2>6. \A k \in Token : usages[k] # 0 => k # t /\ tokens'[k] = None
    BY <2>4, <2>5, <2>1 DEF JetonInv, JetonUnique
  <2> QED  BY <2>1, <2>3, <2>4, <2>5, <2>6 DEF JetonInv, JetonUnique
<1>2. ASSUME NEW r \in Requete, NEW t \in Token, NEW d \in Device, PairComplete(r, t, d)
      PROVE  JetonInv'
  <2>1. CASE consume(r, t, d)
    <3>1. /\ tokens[t] # None /\ now < tokens[t]
          /\ tokens'[t] = None
          /\ \A k \in Token : k # t => tokens'[k] \in {None, tokens[k]}
      BY <2>1, RetainLemma DEF consume, TypeOK, retain
    <3>2. /\ usages'[t] = 1
          /\ dernier'[t] = [quand |-> now, boot |-> relances]
          /\ \A k \in Token : k # t => usages'[k] = usages[k] /\ dernier'[k] = dernier[k]
      BY <2>1, <3>1 DEF consume, TypeOK, JetonInv
    <3>3. UNCHANGED <<emission, relances>>
      BY <1>2 DEF PairComplete
    <3>4. emission[t].boot = relances /\ now < emission[t].quand + TTL
      BY <3>1 DEF JetonInv
    <3> QED  BY <3>1, <3>2, <3>3, <3>4 DEF JetonInv, JetonUnique
  <2>2. CASE tokens' = retain(tokens, now) /\ UNCHANGED <<etat, req, usages, dernier>>
    <3>1. \A k \in Token : tokens'[k] \in {None, tokens[k]}
      BY <2>2 DEF retain
    <3>2. UNCHANGED <<emission, relances, usages, dernier>>
      BY <1>2, <2>2 DEF PairComplete
    <3> QED  BY <3>1, <3>2 DEF JetonInv, JetonUnique
  <2> QED  BY <1>2, <2>1, <2>2 DEF PairComplete
<1>3. CASE UNCHANGED <<tokens, emission, usages, dernier, relances>>
  BY <1>3 DEF JetonInv, JetonUnique
<1>4. CASE Relancer
  BY <1>4 DEF Relancer, histoire, JetonInv, JetonUnique
<1>5. ASSUME NEW r \in Requete, Recevoir(r) PROVE JetonInv'
  BY <1>2, <1>3, <1>5 DEF Recevoir, AuthMiddleware, AuthCompatMiddleware, histoire
<1>6. ASSUME NEW r \in Requete, Avancer(r) PROVE JetonInv'
  BY <1>3, <1>6, AvancerJetons
<1> QED
  BY <1>1, <1>3, <1>4, <1>5, <1>6 DEF Next, Tick, vars, histoire

\* A pairing token succeeds at most once, in the boot that created it and
\* before it expires, however many requests race for it.
THEOREM JetonCorrect == Spec => []JetonUnique
<1>1. Init => JetonInv
  BY DEF Init, JetonInv, JetonUnique
<1>2. JetonInv => JetonUnique
  BY DEF JetonInv
<1> QED  BY <1>1, <1>2, JetonStep, TypeCorrect, PTL DEF Spec

-----------------------------------------------------------------------------
(* The window of a signed timestamp *)

\* The strengthening: every acceptance of a timestamp was within SKEW of it.
FenetreInv ==
  \A d \in Device : \A ts \in Horodatages : rejeu[d][ts] # None =>
    /\ dans_la_fenetre(ts, rejeu[d][ts].premier)
    /\ dans_la_fenetre(ts, rejeu[d][ts].dernier)

\* The first and the last acceptance of one signed timestamp are at most two
\* windows apart: SKEW seconds on either side of it, not the one window that
\* session.rs:9-11 speaks of.
FenetreBornee ==
  \A d \in Device : \A ts \in Horodatages :
    rejeu[d][ts] # None => rejeu[d][ts].dernier - rejeu[d][ts].premier <= 2 * SKEW

\* One signed timestamp is accepted over at most twice the window, however
\* often it is sent and whatever the clock does in between.
THEOREM FenetreCorrect == Spec => []FenetreBornee
<1>1. Init => FenetreInv
  BY DEF Init, FenetreInv
<1>2. TypeOK /\ FenetreInv /\ [Next]_vars => FenetreInv'
  <2> SUFFICES ASSUME TypeOK, FenetreInv, [Next]_vars PROVE FenetreInv'
    OBVIOUS
  <2> USE SentinelAssumption
  <2>1. ASSUME NEW r \in Requete, VerifySignature(r), rejeu' # rejeu PROVE FenetreInv'
    <3> DEFINE d0 == req[r].device
               ts0 == req[r].ts
               a == [premier |-> IF rejeu[d0][ts0] = None THEN now ELSE rejeu[d0][ts0].premier,
                     dernier |-> now]
    <3>1. dans_la_fenetre(ts0, now) /\ rejeu' = [rejeu EXCEPT ![d0] = [rejeu[d0] EXCEPT ![ts0] = a]]
      BY <2>1 DEF VerifySignature
    <3> SUFFICES ASSUME NEW d \in Device, NEW ts \in Horodatages, rejeu'[d][ts] # None
                 PROVE  /\ dans_la_fenetre(ts, rejeu'[d][ts].premier)
                        /\ dans_la_fenetre(ts, rejeu'[d][ts].dernier)
      BY DEF FenetreInv, dans_la_fenetre
    <3>2. rejeu \in [Device -> [Horodatages -> [premier : Nat, dernier : Nat] \cup {None}]]
      BY DEF TypeOK
    <3>3. CASE d = d0 /\ ts = ts0
      <4>1. rejeu'[d][ts] = a
        BY <3>1, <3>2, <3>3
      <4>2. dans_la_fenetre(ts, now)
        BY ONLY <3>1, <3>3
      <4>3. /\ a.dernier = now
            /\ \/ a.premier = now
               \/ rejeu[d0][ts0] # None /\ a.premier = rejeu[d0][ts0].premier
        OBVIOUS
      <4>4. rejeu[d0][ts0] # None => dans_la_fenetre(ts, rejeu[d0][ts0].premier)
        BY <3>3 DEF FenetreInv
      <4> HIDE DEF a
      <4> QED  BY ONLY <4>1, <4>2, <4>3, <4>4
    <3>4. CASE ~(d = d0 /\ ts = ts0)
      <4>1. rejeu'[d][ts] = rejeu[d][ts]
        BY <3>1, <3>2, <3>4
      <4> QED  BY <4>1 DEF FenetreInv
    <3> QED  BY <3>3, <3>4
  <2>2. CASE UNCHANGED rejeu
    BY <2>2 DEF FenetreInv, dans_la_fenetre
  <2>3. ASSUME NEW r \in Requete, Avancer(r) PROVE FenetreInv'
    BY <2>1, <2>2, <2>3 DEF Avancer, AddDeviceGet, AddDevicePut, GetDevice, ToucheGet,
                            TouchePut, Traiter, histoire
  <2>4. ASSUME NEW r \in Requete, Recevoir(r) PROVE FenetreInv'
    BY <2>2, <2>4 DEF Recevoir, PairComplete, AuthMiddleware, AuthCompatMiddleware, histoire
  <2> QED
    BY <2>2, <2>3, <2>4 DEF Next, CreatePairingToken, Tick, Relancer, vars, histoire
<1>3. TypeOK /\ FenetreInv => FenetreBornee
  <2> SUFFICES ASSUME TypeOK, FenetreInv, NEW d \in Device, NEW ts \in Horodatages,
                      rejeu[d][ts] # None
               PROVE  rejeu[d][ts].dernier - rejeu[d][ts].premier <= 2 * SKEW
    BY DEF FenetreBornee
  <2>1. rejeu[d][ts].dernier \in Nat /\ rejeu[d][ts].premier \in Nat /\ ts \in Nat /\ SKEW \in Nat
    BY AuthAssumption DEF TypeOK
  <2> QED  BY <2>1 DEF FenetreInv, dans_la_fenetre
<1> QED  BY <1>1, <1>2, <1>3, TypeCorrect, PTL DEF Spec

-----------------------------------------------------------------------------
(* Revocation *)

\* The strengthening: no write-back of a revoked device's entry is pending.
RevocationInv ==
  /\ RevocationTient
  /\ \A r \in Requete : etat[r] = "touche_ecrire" => req[r].device \notin revoques

\* RevocationInv is kept by every step of a request past its arrival.
LEMMA RevocationAvance ==
  ASSUME TypeOK, RevocationInv, NEW r \in Requete, Avancer(r)
  PROVE  RevocationInv'
<1> USE SentinelAssumption
<1>1. \A s \in Requete : s # r => etat'[s] = etat[s] /\ req'[s] = req[s]
  BY DEF Avancer, AddDeviceGet, AddDevicePut, GetDevice, VerifySignature, ToucheGet,
         TouchePut, Traiter, Aller, Finir, TypeOK
<1>2. coffre \in [Device -> PairedDevice \cup {Illisible, None}] /\ revoques \subseteq Device
  BY DEF TypeOK
<1>3. CASE AddDeviceGet(r) \/ GetDevice(r) \/ VerifySignature(r)
  <2>1. etat'[r] # "touche_ecrire" /\ UNCHANGED <<coffre, revoques>>
    BY <1>3 DEF AddDeviceGet, GetDevice, VerifySignature, Aller, Finir, TypeOK, histoire
  <2> QED  BY <1>1, <2>1 DEF RevocationInv, RevocationTient
<1>4. CASE AddDevicePut(r)
  <2> DEFINE d == req[r].device
  <2>1. d \in Device /\ req[r].valeur \in PairedDevice
    BY <1>4 DEF AddDevicePut, TypeOK
  <2>2. \A e \in Device : e # d => coffre'[e] = coffre[e]
    BY <1>2, <1>4, <2>1, PutType DEF AddDevicePut
  <2>3. etat'[r] # "touche_ecrire"
    BY <1>4 DEF AddDevicePut, Aller, Finir, TypeOK
  <2>4. /\ revoques' \subseteq revoques
        /\ coffre' # coffre => d \notin revoques'
    BY <1>4 DEF AddDevicePut
  <2> QED  BY <1>1, <1>2, <2>1, <2>2, <2>3, <2>4 DEF RevocationInv, RevocationTient
<1>5. CASE ToucheGet(r)
  <2>1. UNCHANGED <<coffre, revoques>>
    BY <1>5 DEF ToucheGet, histoire
  <2>2. etat'[r] = "touche_ecrire" => /\ coffre[req[r].device] # None
                                      /\ req'[r].device = req[r].device
    BY <1>5 DEF ToucheGet, Aller, TypeOK, Requetes
  <2> QED  BY <1>1, <2>1, <2>2 DEF RevocationInv, RevocationTient
<1>6. CASE TouchePut(r)
  <2> DEFINE d == req[r].device
  <2>1. d \in Device /\ req[r].valeur \in PairedDevice /\ d \notin revoques
    BY <1>6 DEF TouchePut, TypeOK, RevocationInv
  <2>2. \A e \in Device : e # d => coffre'[e] = coffre[e]
    BY <1>2, <1>6, <2>1, PutType DEF TouchePut
  <2>3. etat'[r] # "touche_ecrire" /\ UNCHANGED revoques
    BY <1>6 DEF TouchePut, Aller, TypeOK, histoire
  <2> QED  BY <1>1, <1>2, <2>1, <2>2, <2>3 DEF RevocationInv, RevocationTient
<1>7. CASE Traiter(r)
  <2> DEFINE c == req[r].cible
  <2>1. etat'[r] # "touche_ecrire"
    BY <1>7 DEF Traiter, Aller, Finir, TypeOK
  <2>2. CASE Revoquer(r)
    <3>1. c \in Device
      BY <2>2 DEF Revoquer, TypeOK
    <3>2. \A e \in Device : e # c => coffre'[e] = coffre[e]
      BY <1>2, <2>2, <3>1, PutType DEF Revoquer
    <3>3. coffre'[c] \in {None, coffre[c]}
      BY <1>2, <2>2, <3>1, PutType DEF Revoquer
    <3>4. \/ revoques' = revoques
          \/ revoques' = revoques \cup {c} /\ coffre'[c] = None /\ ~TouchePendante(c)
      BY <2>2 DEF Revoquer
    <3>5. RevocationTient'
      BY <1>2, <3>1, <3>2, <3>3, <3>4 DEF RevocationInv, RevocationTient
    <3>6. ASSUME NEW s \in Requete, etat'[s] = "touche_ecrire"
          PROVE  req'[s].device \notin revoques'
      <4>1. s # r /\ etat[s] = "touche_ecrire" /\ req'[s] = req[s]
        BY <1>1, <2>1, <3>6
      <4> QED  BY <3>4, <4>1 DEF RevocationInv, TouchePendante
    <3> QED  BY <3>5, <3>6 DEF RevocationInv
  <2>3. CASE VaultPut(r)
    <3>1. c \in Device /\ req[r].corps \in PairedDevice \cup {Illisible, None}
      BY <2>3 DEF VaultPut, TypeOK
    <3>2. \A e \in Device : e # c => coffre'[e] = coffre[e]
      BY <1>2, <2>3, <3>1, PutType DEF VaultPut
    <3>3. /\ revoques' \subseteq revoques
          /\ coffre' # coffre => c \notin revoques'
      BY <2>3 DEF VaultPut
    <3> QED  BY <1>1, <1>2, <2>1, <3>2, <3>3 DEF RevocationInv, RevocationTient
  <2>4. CASE UNCHANGED <<coffre, poses, revoques>>
    BY <1>1, <2>1, <2>4 DEF RevocationInv, RevocationTient
  <2> QED  BY <1>7, <2>2, <2>3, <2>4 DEF Traiter
<1> QED  BY <1>3, <1>4, <1>5, <1>6, <1>7 DEF Avancer

\* A revocation that no pending touch could undo lasts until the device is
\* paired again or written into the vault, whatever requests are in flight.
THEOREM RevocationCorrect == Spec => []RevocationTient
<1>1. Init => RevocationInv
  BY DEF Init, RevocationInv, RevocationTient
<1>2. TypeOK /\ RevocationInv /\ [Next]_vars => RevocationInv'
  <2> SUFFICES ASSUME TypeOK, RevocationInv, [Next]_vars PROVE RevocationInv'
    OBVIOUS
  <2>1. ASSUME NEW r \in Requete, Recevoir(r) PROVE RevocationInv'
    <3>1. UNCHANGED <<coffre, revoques>>
      BY <2>1 DEF Recevoir, PairComplete, AuthMiddleware, AuthCompatMiddleware, histoire
    <3>2. \A s \in Requete : etat'[s] = "touche_ecrire" => etat[s] = "touche_ecrire" /\ req'[s] = req[s]
      <4>1. UNCHANGED <<etat, req>> \/ \E e, q : /\ e # "touche_ecrire"
                                                /\ etat' = [etat EXCEPT ![r] = e]
                                                /\ req' = [req EXCEPT ![r] = q]
        <5>1. ASSUME NEW t \in Token, NEW d \in Device, PairComplete(r, t, d)
              PROVE  \/ UNCHANGED <<etat, req>>
                     \/ \E e, q : /\ e # "touche_ecrire"
                                  /\ etat' = [etat EXCEPT ![r] = e]
                                  /\ req' = [req EXCEPT ![r] = q]
          BY <5>1 DEF PairComplete, consume, Aller
        <5>2. ASSUME NEW d \in Device, NEW ts \in Horodatages, NEW sig \in BOOLEAN,
                     NEW o \in Operation, AuthMiddleware(r, d, ts, sig, o)
              PROVE  \E e, q : /\ e # "touche_ecrire"
                               /\ etat' = [etat EXCEPT ![r] = e]
                               /\ req' = [req EXCEPT ![r] = q]
          BY <5>2 DEF AuthMiddleware, Aller
        <5>3. ASSUME NEW d \in Device \cup {None}, NEW ts \in Horodatages,
                     NEW sig \in BOOLEAN, AuthCompatMiddleware(r, d, ts, sig)
              PROVE  \E e, q : /\ e # "touche_ecrire"
                               /\ etat' = [etat EXCEPT ![r] = e]
                               /\ req' = [req EXCEPT ![r] = q]
          BY <5>3 DEF AuthCompatMiddleware, Aller
        <5> QED  BY <2>1, <5>1, <5>2, <5>3 DEF Recevoir
      <4> QED  BY <4>1 DEF TypeOK
    <3> QED  BY <3>1, <3>2 DEF RevocationInv, RevocationTient
  <2>2. CASE Relancer
    BY <2>2 DEF Relancer, histoire, RevocationInv, RevocationTient
  <2>3. CASE UNCHANGED <<coffre, etat, req, revoques>>
    BY <2>3 DEF RevocationInv, RevocationTient
  <2> QED
    BY <2>1, <2>2, <2>3, RevocationAvance DEF Next, CreatePairingToken, Tick, vars, histoire
<1>3. RevocationInv => RevocationTient
  BY DEF RevocationInv
<1> QED  BY <1>1, <1>2, <1>3, TypeCorrect, PTL DEF Spec

-----------------------------------------------------------------------------
(* The token behind a device *)

Ajout == {"ajout_lire", "ajout_ecrire"}

\* The strengthening: a pairing in progress holds a consumed token that no
\* other pairing in progress and no device has; the tokens of two devices
\* differ; and what is in the vault was paired or put there.
GarantInv ==
  /\ \A r \in Requete : etat[r] \in Ajout =>
       /\ usages[req[r].jeton] = 1
       /\ \A d \in Device : garant[d] # req[r].jeton
  /\ \A r, s \in Requete : r # s /\ etat[r] \in Ajout /\ etat[s] \in Ajout =>
       req[r].jeton # req[s].jeton
  /\ \A d \in Device : garant[d] # None => usages[garant[d]] = 1
  /\ \A d, e \in Device : d # e /\ garant[d] # None => garant[d] # garant[e]
  /\ \A d \in Device : coffre[d] # None => garant[d] # None \/ d \in poses
  /\ AccesApparie

\* POST /pair/complete: the token it consumes was nobody's.
LEMMA GarantPair ==
  ASSUME TypeOK, JetonInv, GarantInv,
         NEW r \in Requete, NEW t \in Token, NEW d \in Device, PairComplete(r, t, d)
  PROVE  GarantInv'
<1> USE SentinelAssumption DEF Ajout
<1>1. UNCHANGED <<coffre, garant, poses>>
  BY DEF PairComplete
<1>2. CASE consume(r, t, d)
  <2>1. tokens[t] # None
    BY <1>2, RetainLemma DEF consume, TypeOK
  <2>2. usages[t] = 0
    BY <2>1 DEF JetonInv
  <2>3. /\ usages'[t] = 1
        /\ \A k \in Token : k # t => usages'[k] = usages[k]
    BY <1>2, <2>2 DEF consume, TypeOK
  <2>4. /\ etat'[r] = "ajout_lire" /\ req'[r].jeton = t
        /\ \A s \in Requete : s # r => etat'[s] = etat[s] /\ req'[s] = req[s]
    BY <1>2 DEF consume, Aller, TypeOK, SansRequete
  <2>5. \A e \in Device : garant[e] # t /\ garant[e] \in Token \cup {None}
    BY <2>2 DEF GarantInv, TypeOK
  <2>6. \A s \in Requete : etat[s] \in Ajout => req[s].jeton \in Token /\ req[s].jeton # t
    BY <2>2 DEF GarantInv, TypeOK
  <2>7. AccesApparie'
    BY <1>1, <2>4 DEF GarantInv, AccesApparie
  <2> QED  BY <1>1, <2>3, <2>4, <2>5, <2>6, <2>7 DEF GarantInv
<1>3. CASE UNCHANGED <<etat, req, usages, dernier>>
  BY <1>1, <1>3 DEF GarantInv, AccesApparie
<1> QED  BY <1>2, <1>3 DEF PairComplete

\* The steps of a request past its arrival.
LEMMA GarantAvance ==
  ASSUME TypeOK, GarantInv, NEW r \in Requete, Avancer(r)
  PROVE  GarantInv'
<1> USE SentinelAssumption DEF Ajout
<1>1. /\ \A s \in Requete : s # r => etat'[s] = etat[s] /\ req'[s] = req[s]
      /\ UNCHANGED usages
  BY DEF Avancer, AddDeviceGet, AddDevicePut, GetDevice, VerifySignature, ToucheGet,
         TouchePut, Traiter, Aller, Finir, TypeOK, histoire
<1>2. /\ coffre \in [Device -> PairedDevice \cup {Illisible, None}]
      /\ garant \in [Device -> Token \cup {None}]
  BY DEF TypeOK
<1>3. CASE AddDeviceGet(r)
  <2>1. UNCHANGED <<coffre, garant, poses>>
    BY <1>3 DEF AddDeviceGet, histoire
  <2>2. /\ etat[r] \in Ajout
        /\ \/ etat'[r] = "libre"
           \/ etat'[r] = "ajout_ecrire" /\ req'[r].jeton = req[r].jeton
    <3>1. CASE Finir(r)
      BY <1>3, <3>1 DEF AddDeviceGet, Aller, Finir, TypeOK
    <3>2. CASE /\ req' = [req EXCEPT ![r].valeur = [paired_at |-> now, last_seen_at |-> now]]
               /\ Aller(r, "ajout_ecrire")
      <4>1. req[r] \in Requetes /\ req'[r] = [req[r] EXCEPT !.valeur = [paired_at |-> now, last_seen_at |-> now]]
        BY <3>2 DEF TypeOK
      <4>2. req'[r].jeton = req[r].jeton
        BY <4>1 DEF Requetes
      <4>3. etat[r] \in Ajout /\ etat'[r] = "ajout_ecrire"
        BY <1>3, <3>2 DEF AddDeviceGet, Aller, TypeOK
      <4> QED  BY <4>2, <4>3
    <3> QED  BY <1>3, <3>1, <3>2 DEF AddDeviceGet
  <2>3. AccesApparie'
    BY <1>1, <2>1, <2>2 DEF GarantInv, AccesApparie
  <2> QED  BY <1>1, <2>1, <2>2, <2>3 DEF GarantInv
<1>4. CASE AddDevicePut(r)
  <2> DEFINE d == req[r].device
             t == req[r].jeton
  <2>1. d \in Device /\ req[r].valeur \in PairedDevice /\ t \in Token /\ etat[r] \in Ajout
    BY <1>4 DEF AddDevicePut, TypeOK
  <2>2. etat'[r] = "libre" /\ UNCHANGED poses
    BY <1>4 DEF AddDevicePut, Aller, Finir, TypeOK
  <2>3. CASE coffre' = coffre
    <3>1. garant' = garant
      BY <1>2, <1>4, <2>3 DEF AddDevicePut
    <3> QED  BY <1>1, <2>2, <2>3, <3>1 DEF GarantInv, AccesApparie
  <2>4. CASE coffre' # coffre
    <3>1. garant'[d] = t /\ \A e \in Device : e # d => garant'[e] = garant[e]
      BY <1>2, <1>4, <2>1, <2>4 DEF AddDevicePut
    <3>2. \A e \in Device : e # d => coffre'[e] = coffre[e]
      BY <1>2, <1>4, <2>1, PutType DEF AddDevicePut
    <3>3. \A e \in Device : garant[e] # t
      BY <2>1 DEF GarantInv
    <3>4. AccesApparie'
      BY <1>1, <2>1, <2>2, <3>1 DEF GarantInv, AccesApparie, TypeOK
    <3>5. usages[t] = 1
      BY <2>1 DEF GarantInv
    <3>6. \A s \in Requete : s # r /\ etat[s] \in Ajout => req[s].jeton # t
      BY <2>1 DEF GarantInv
    <3> HIDE DEF d, t
    <3>7. \A s \in Requete : etat'[s] \in Ajout => /\ s # r /\ etat[s] \in Ajout
                                                   /\ req'[s] = req[s]
      BY <1>1, <2>2
    <3>8. \A s \in Requete : etat'[s] \in Ajout =>
            /\ usages'[req'[s].jeton] = 1
            /\ \A e \in Device : garant'[e] # req'[s].jeton
      BY <1>1, <3>1, <3>6, <3>7 DEF GarantInv
    <3>9. \A s, u \in Requete : s # u /\ etat'[s] \in Ajout /\ etat'[u] \in Ajout =>
            req'[s].jeton # req'[u].jeton
      BY <3>7 DEF GarantInv
    <3>10. \A e \in Device : garant'[e] # None => usages'[garant'[e]] = 1
      BY <1>1, <3>1, <3>5 DEF GarantInv
    <3>11. \A e, f \in Device : e # f /\ garant'[e] # None => garant'[e] # garant'[f]
      BY <3>1, <3>3 DEF GarantInv
    <3>12. \A e \in Device : coffre'[e] # None => garant'[e] # None \/ e \in poses'
      BY <2>1, <2>2, <3>1, <3>2 DEF GarantInv
    <3> QED  BY <3>4, <3>8, <3>9, <3>10, <3>11, <3>12 DEF GarantInv
  <2> QED  BY <2>3, <2>4
<1>5. CASE GetDevice(r)
  <2>1. UNCHANGED <<coffre, garant, poses>> /\ etat'[r] \notin Ajout
    BY <1>5 DEF GetDevice, histoire, Aller, Finir, TypeOK
  <2>2. \/ etat'[r] = "libre"
        \/ req'[r] = req[r] /\ coffre[req[r].device] # None /\ req[r].device \in Device
    BY <1>5 DEF GetDevice, Aller, Finir, TypeOK
  <2>3. AccesApparie'
    BY <1>1, <2>1, <2>2 DEF GarantInv, AccesApparie
  <2> QED  BY <1>1, <2>1, <2>3 DEF GarantInv
<1>6. CASE VerifySignature(r)
  <2>1. UNCHANGED <<coffre, garant, poses>> /\ etat'[r] \notin Ajout
    BY <1>6 DEF VerifySignature, Aller, Finir, TypeOK
  <2>2. etat[r] = "verifier" /\ (etat'[r] = "libre" \/ req'[r] = req[r])
    BY <1>6 DEF VerifySignature, Aller, Finir, TypeOK
  <2>3. AccesApparie'
    BY <1>1, <2>1, <2>2 DEF GarantInv, AccesApparie
  <2> QED  BY <1>1, <2>1, <2>3 DEF GarantInv
<1>7. CASE ToucheGet(r)
  <2>1. UNCHANGED <<coffre, garant, poses>> /\ etat'[r] \notin Ajout
    BY <1>7 DEF ToucheGet, histoire, Aller, TypeOK
  <2>2. etat[r] = "touche_lire" /\ req'[r].device = req[r].device /\ req'[r].op = req[r].op
    BY <1>7 DEF ToucheGet, Aller, TypeOK, Requetes
  <2>3. AccesApparie'
    BY <1>1, <2>1, <2>2 DEF GarantInv, AccesApparie
  <2> QED  BY <1>1, <2>1, <2>3 DEF GarantInv
<1>8. CASE TouchePut(r)
  <2> DEFINE d == req[r].device
  <2>1. d \in Device /\ req[r].valeur \in PairedDevice /\ etat[r] = "touche_ecrire"
    BY <1>8 DEF TouchePut, TypeOK
  <2>2. UNCHANGED <<garant, poses, req>> /\ etat'[r] = "traiter"
    BY <1>8 DEF TouchePut, histoire, Aller, TypeOK
  <2>3. garant[d] # None \/ d \in poses
    BY <2>1 DEF GarantInv, AccesApparie
  <2>4. \A e \in Device : e # d => coffre'[e] = coffre[e]
    BY <1>2, <1>8, <2>1, PutType DEF TouchePut
  <2>5. AccesApparie'
    BY <1>1, <2>1, <2>2 DEF GarantInv, AccesApparie
  <2> QED  BY <1>1, <2>2, <2>3, <2>4, <2>5 DEF GarantInv
<1>9. CASE Traiter(r)
  <2> DEFINE c == req[r].cible
  <2>1. etat'[r] = "libre" /\ UNCHANGED garant
    BY <1>9 DEF Traiter, Aller, Finir, TypeOK
  <2>2. poses \subseteq poses'
    BY <1>9 DEF Traiter, Revoquer, VaultPut
  <2>3. \A e \in Device : coffre'[e] # None => coffre[e] # None \/ e \in poses'
    <3>1. CASE Revoquer(r)
      BY <1>2, <3>1, PutType DEF Revoquer, TypeOK
    <3>2. CASE VaultPut(r)
      <4>1. c \in Device /\ req[r].corps \in PairedDevice \cup {Illisible, None}
        BY <3>2 DEF VaultPut, TypeOK
      <4> QED  BY <1>2, <3>2, <4>1, PutType DEF VaultPut
    <3> QED  BY <1>9, <3>1, <3>2 DEF Traiter
  <2>4. AccesApparie'
    BY <1>1, <2>1, <2>2 DEF GarantInv, AccesApparie
  <2> QED  BY <1>1, <2>1, <2>2, <2>3, <2>4 DEF GarantInv
<1> QED  BY <1>3, <1>4, <1>5, <1>6, <1>7, <1>8, <1>9 DEF Avancer

\* GarantInv is kept by every step.
LEMMA GarantStep == TypeOK /\ JetonInv /\ GarantInv /\ [Next]_vars => GarantInv'
<1> SUFFICES ASSUME TypeOK, JetonInv, GarantInv, [Next]_vars PROVE GarantInv'
  OBVIOUS
<1> USE SentinelAssumption DEF Ajout
<1>1. ASSUME NEW r \in Requete, NEW d \in Device \cup {None}, NEW e \in {"lire", "traiter"},
             etat' = [etat EXCEPT ![r] = e],
             \A s \in Requete : s # r => req'[s] = req[s],
             e = "traiter" => req'[r].device = None /\ req'[r].op = "autre",
             UNCHANGED <<coffre, garant, poses, usages>>
      PROVE  GarantInv'
  <2>1. etat'[r] = e /\ \A s \in Requete : s # r => etat'[s] = etat[s]
    BY <1>1 DEF TypeOK
  <2>2. AccesApparie'
    BY <1>1, <2>1 DEF GarantInv, AccesApparie
  <2> QED  BY <1>1, <2>1, <2>2 DEF GarantInv
<1>2. ASSUME NEW r \in Requete, NEW d \in Device, NEW ts \in Horodatages,
             NEW sig \in BOOLEAN, NEW o \in Operation, AuthMiddleware(r, d, ts, sig, o)
      PROVE  GarantInv'
  BY <1>1, <1>2 DEF AuthMiddleware, Aller, histoire, TypeOK
<1>3. ASSUME NEW r \in Requete, NEW d \in Device \cup {None}, NEW ts \in Horodatages,
             NEW sig \in BOOLEAN, AuthCompatMiddleware(r, d, ts, sig)
      PROVE  GarantInv'
  <2>1. CASE d = None
    BY <1>1, <1>3, <2>1 DEF AuthCompatMiddleware, Aller, histoire, TypeOK, SansRequete
  <2>2. CASE d # None
    BY <1>1, <1>3, <2>2 DEF AuthCompatMiddleware, Aller, histoire, TypeOK
  <2> QED  BY <2>1, <2>2
<1>4. CASE Relancer
  BY <1>4 DEF Relancer, histoire, GarantInv, AccesApparie
<1>5. CASE UNCHANGED <<coffre, etat, req, garant, poses, usages>>
  BY <1>5 DEF GarantInv, AccesApparie
<1> QED
  BY <1>2, <1>3, <1>4, <1>5, GarantPair, GarantAvance
  DEF Next, Recevoir, CreatePairingToken, Tick, vars, histoire

\* Every device in the vault that no vault write put there was let in by one
\* consumed token, and no token let in two devices.
THEOREM GarantCorrect == Spec => []GarantUnique
<1>1. Init => JetonInv /\ GarantInv
  BY DEF Init, JetonInv, JetonUnique, GarantInv, AccesApparie, Ajout
<1>2. TypeOK /\ GarantInv => GarantUnique
  BY DEF TypeOK, GarantInv, GarantUnique
<1> QED  BY <1>1, <1>2, JetonStep, GarantStep, TypeCorrect, PTL DEF Spec

\* A request past the strict middleware belongs to a device that was paired
\* by a token or written into the vault.
THEOREM AccesCorrect == Spec => []AccesApparie
<1>1. Init => JetonInv /\ GarantInv
  BY DEF Init, JetonInv, JetonUnique, GarantInv, AccesApparie, Ajout
<1>2. GarantInv => AccesApparie
  BY DEF GarantInv
<1> QED  BY <1>1, <1>2, JetonStep, GarantStep, TypeCorrect, PTL DEF Spec

-----------------------------------------------------------------------------
(* The promise of Appairage *)

EnSession == {"verifier", "touche_lire", "touche_ecrire", "traiter"}
Verifiee  == {"touche_lire", "touche_ecrire", "traiter"}

\* The types of the refinement mapping.
LEMMA VueType ==
  ASSUME TypeOK
  PROVE  /\ Jeton \in [Token -> {"inedit", "offert", "clos"}]
         /\ Session \in [Requete -> Device \cup {None}]
         /\ Signees \subseteq Requete /\ Membre \subseteq Device
BY DEF TypeOK, Jeton, Session, Signees, Membre, Requetes

\* A step that gives one slot a new state and a new request, seen through the
\* mapping: the other slots keep their session and their signature.
LEMMA VueSlot ==
  ASSUME TypeOK, NEW r \in Requete, NEW e, NEW q,
         etat' = [etat EXCEPT ![r] = e], req' = [req EXCEPT ![r] = q]
  PROVE  /\ Session' = [Session EXCEPT ![r] = IF e \in EnSession THEN q.device ELSE None]
         /\ e \in Verifiee /\ q.device # None => Signees' = Signees \cup {r}
         /\ ~(e \in Verifiee /\ q.device # None) => Signees' = Signees \ {r}
         /\ etat[r] \notin Ajout /\ e \notin Ajout => Prises' = Prises
<1>1. /\ etat'[r] = e /\ req'[r] = q
      /\ \A s \in Requete : s # r => etat'[s] = etat[s] /\ req'[s] = req[s]
  BY DEF TypeOK
<1>2. Session' = [Session EXCEPT ![r] = IF e \in EnSession THEN q.device ELSE None]
  <2> DEFINE v == IF e \in EnSession THEN q.device ELSE None
  <2>1. /\ Session = [s \in Requete |-> Session[s]]
        /\ Session' = [s \in Requete |-> Session'[s]]
    BY DEF Session
  <2>2. Session'[r] = v
    BY <1>1 DEF Session, EnSession
  <2>3. \A s \in Requete : s # r => Session'[s] = Session[s]
    BY <1>1 DEF Session
  <2> HIDE DEF v
  <2>4. Session' = [Session EXCEPT ![r] = v]
    BY <2>1, <2>2, <2>3
  <2> QED  BY <2>4 DEF v
<1>3. e \in Verifiee /\ q.device # None => Signees' = Signees \cup {r}
  BY <1>1 DEF Signees, Verifiee
<1>4. ~(e \in Verifiee /\ q.device # None) => Signees' = Signees \ {r}
  BY <1>1 DEF Signees, Verifiee
<1>5. etat[r] \notin Ajout /\ e \notin Ajout => Prises' = Prises
  BY <1>1 DEF Prises, Ajout
<1> QED  BY <1>2, <1>3, <1>4, <1>5

\* A step that leaves the tokens alone does so in the mapping.
LEMMA VueJetons ==
  ASSUME UNCHANGED <<tokens, emission>>
  PROVE  Jeton' = Jeton
BY DEF Jeton

\* A vault write on one device adds it, removes it, or leaves the members.
LEMMA VuePut ==
  ASSUME TypeOK, NEW d \in Device, NEW v \in PairedDevice \cup {Illisible, None}, Put(d, v)
  PROVE  /\ v # None => Membre' \in {Membre, Membre \cup {d}}
         /\ v = None => Membre' \in {Membre, Membre \ {d}}
<1>1. /\ coffre' = coffre \/ coffre'[d] = v
      /\ \A e \in Device : e # d => coffre'[e] = coffre[e]
  BY PutType DEF TypeOK
<1>2. CASE coffre' = coffre
  BY <1>2 DEF Membre
<1>3. CASE coffre'[d] = v
  BY <1>1, <1>3 DEF Membre
<1> QED  BY <1>1, <1>2, <1>3

\* The tokens that a look at the map drops lapse, the others stay.
LEMMA VueRetain ==
  ASSUME TypeOK, JetonInv, tokens' = retain(tokens, now), UNCHANGED emission
  PROVE  Jeton' \in Promesse!Caduques(Jeton)
<1> USE SentinelAssumption
<1>1. \A t \in Token : emission[t] = None => tokens[t] = None
  BY DEF JetonInv
<1>2. \A t \in Token : tokens'[t] \in {tokens[t], None}
  BY DEF retain
<1>3. Jeton' \in [Token -> {"inedit", "offert", "clos"}]
  BY DEF Jeton
<1>4. \A t \in Token : Jeton'[t] = Jeton[t] \/ (Jeton[t] = "offert" /\ Jeton'[t] = "clos")
  BY <1>1, <1>2 DEF Jeton
<1> QED  BY <1>3, <1>4 DEF Promesse!Caduques

\* A pairing that ends takes its token, and no other, off the pairings under
\* way: no other slot holds it.
LEMMA VueConclure ==
  ASSUME TypeOK, GarantInv, NEW r \in Requete, etat[r] \in Ajout, Finir(r)
  PROVE  /\ <<req[r].jeton, req[r].device>> \in Prises
         /\ Prises' = Prises \ {<<req[r].jeton, req[r].device>>}
         /\ UNCHANGED <<Session, Signees>>
<1>1. /\ etat'[r] = "libre"
      /\ \A s \in Requete : s # r => etat'[s] = etat[s] /\ req'[s] = req[s]
  BY DEF Finir, Aller, TypeOK
<1>2. Prises = {<<req[s].jeton, req[s].device>> : s \in {q \in Requete : etat[q] \in Ajout}}
  BY DEF Prises, Ajout
<1>3. Prises' = {<<req'[s].jeton, req'[s].device>> : s \in {q \in Requete : etat'[q] \in Ajout}}
  BY DEF Prises, Ajout
<1>4. \A s \in Requete : etat'[s] \in Ajout <=> s # r /\ etat[s] \in Ajout
  BY <1>1 DEF Ajout
<1>5. \A s \in Requete : s # r /\ etat[s] \in Ajout => req[s].jeton # req[r].jeton
  BY DEF GarantInv
<1>6. Prises' = Prises \ {<<req[r].jeton, req[r].device>>}
  BY <1>1, <1>2, <1>3, <1>4, <1>5
<1>7. Session' = [Session EXCEPT ![r] = None] /\ Signees' = Signees \ {r}
  <2>1. etat' = [etat EXCEPT ![r] = "libre"] /\ req' = [req EXCEPT ![r] = SansRequete]
    BY DEF Finir, Aller
  <2>2. "libre" \notin EnSession /\ "libre" \notin Verifiee
    BY DEF EnSession, Verifiee
  <2> QED  BY <2>1, <2>2, VueSlot
<1>8. Session[r] = None /\ r \notin Signees /\ Session \in [Requete -> Device \cup {None}]
  BY VueType DEF Session, Signees, Ajout
<1> QED  BY <1>2, <1>6, <1>7, <1>8

\* The steps of a pairing, from the lookup of the device to its write.
LEMMA PasAjout ==
  ASSUME TypeOK, GarantInv, NEW r \in Requete, AddDeviceGet(r) \/ AddDevicePut(r)
  PROVE  [Promesse!Next]_(Promesse!vars)
<1> DEFINE t == req[r].jeton
           d == req[r].device
<1>1. /\ etat[r] \in Ajout /\ t \in Token /\ d \in Device
      /\ UNCHANGED <<tokens, emission>>
  BY DEF AddDeviceGet, AddDevicePut, Ajout, TypeOK, histoire
<1>2. Jeton' = Jeton
  BY <1>1, VueJetons
<1>3. ASSUME Finir(r), Membre' \in {Membre, Membre \cup {d}}
      PROVE  Promesse!Conclure(t, d)
  BY <1>1, <1>2, <1>3, VueConclure DEF Promesse!Conclure
<1>4. CASE AddDeviceGet(r) /\ Finir(r)
  <2>1. Membre' = Membre
    BY <1>4 DEF AddDeviceGet, Membre
  <2> QED  BY <1>1, <1>3, <1>4, <2>1 DEF Promesse!Next
<1>5. CASE AddDeviceGet(r) /\ ~Finir(r)
  <2> DEFINE q == [req[r] EXCEPT !.valeur = [paired_at |-> now, last_seen_at |-> now]]
  <2>1. /\ req' = [req EXCEPT ![r] = q] /\ etat' = [etat EXCEPT ![r] = "ajout_ecrire"]
        /\ UNCHANGED coffre /\ etat[r] = "ajout_lire"
    BY <1>5 DEF AddDeviceGet, Aller
  <2>2. req[r] \in Requetes /\ q.jeton = t /\ q.device = d
    BY DEF TypeOK, Requetes
  <2>3. \A s \in Requete : /\ etat'[s] \in Ajout <=> etat[s] \in Ajout
                           /\ req'[s].jeton = req[s].jeton /\ req'[s].device = req[s].device
    BY <2>1, <2>2 DEF TypeOK, Ajout
  <2>4. Prises' = Prises
    BY <2>3 DEF Prises, Ajout
  <2>5. Session' = [Session EXCEPT ![r] = None] /\ Signees' = Signees \ {r}
    <3>1. "ajout_ecrire" \notin EnSession /\ "ajout_ecrire" \notin Verifiee
      BY DEF EnSession, Verifiee
    <3> HIDE DEF q
    <3> QED  BY <2>1, <3>1, VueSlot
  <2>6. Session[r] = None /\ r \notin Signees /\ Session \in [Requete -> Device \cup {None}]
    BY <2>1, VueType DEF Session, Signees
  <2>7. Membre' = Membre
    BY <2>1 DEF Membre
  <2> QED  BY <1>2, <2>4, <2>5, <2>6, <2>7 DEF Promesse!vars
<1>6. CASE AddDevicePut(r)
  <2>1. Finir(r) /\ Put(d, req[r].valeur) /\ req[r].valeur \in PairedDevice
    BY <1>6 DEF AddDevicePut, TypeOK
  <2>2. Membre' \in {Membre, Membre \cup {d}}
    BY <1>1, <2>1, VuePut, SentinelAssumption
  <2> QED  BY <1>1, <1>3, <2>1, <2>2 DEF Promesse!Next
<1> QED  BY <1>4, <1>5, <1>6

\* A request that ends closes its session.
LEMMA VueFini ==
  ASSUME TypeOK, NEW r \in Requete, etat[r] \notin Ajout, Finir(r)
  PROVE  /\ Session' = [Session EXCEPT ![r] = None]
         /\ Signees' = Signees \ {r} /\ Prises' = Prises
<1>1. etat' = [etat EXCEPT ![r] = "libre"] /\ req' = [req EXCEPT ![r] = SansRequete]
  BY DEF Finir, Aller
<1>2. "libre" \notin EnSession /\ "libre" \notin Verifiee /\ "libre" \notin Ajout
  BY DEF EnSession, Verifiee, Ajout
<1> QED  BY <1>1, <1>2, VueSlot

\* A request that moves on and keeps what it carries, but for the value it
\* will write.
LEMMA VueAvance ==
  ASSUME TypeOK, NEW r \in Requete, etat[r] \notin Ajout,
         NEW e, e \notin Ajout, etat' = [etat EXCEPT ![r] = e],
         NEW q, req' = [req EXCEPT ![r] = q], q.device = req[r].device
  PROVE  /\ Session' = [Session EXCEPT ![r] = IF e \in EnSession THEN req[r].device ELSE None]
         /\ e \in Verifiee /\ req[r].device # None => Signees' = Signees \cup {r}
         /\ ~(e \in Verifiee /\ req[r].device # None) => Signees' = Signees \ {r}
         /\ Prises' = Prises
BY VueSlot

\* The steps of a request past its arrival, from the lookup of its device to
\* the end of its handler.
LEMMA PasSession ==
  ASSUME TypeOK, GarantInv, NEW r \in Requete,
         GetDevice(r) \/ VerifySignature(r) \/ ToucheGet(r) \/ TouchePut(r) \/ Traiter(r)
  PROVE  [Promesse!Next]_(Promesse!vars)
<1> USE SentinelAssumption
<1> DEFINE d == req[r].device
<1>1. /\ etat[r] \in {"lire", "verifier", "touche_lire", "touche_ecrire", "traiter"}
      /\ etat[r] \notin Ajout
      /\ UNCHANGED <<tokens, emission>>
      /\ d \in Device \cup {None} /\ (etat[r] # "traiter" => d \in Device)
  BY DEF GetDevice, VerifySignature, ToucheGet, TouchePut, Traiter, TypeOK, Requetes,
         histoire, Ajout
<1>2. Jeton' = Jeton
  BY <1>1, VueJetons
<1>3. /\ Session[r] = IF etat[r] = "lire" THEN None ELSE d
      /\ r \in Signees <=> etat[r] \in Verifiee /\ d # None
      /\ Session \in [Requete -> Device \cup {None}]
  BY <1>1, VueType DEF Session, Signees, Verifiee
<1>4. req' = req => req' = [req EXCEPT ![r] = req[r]]
  BY DEF TypeOK
<1>5. ASSUME Finir(r), Membre' = Membre PROVE Promesse!Sortir(r)
  BY <1>1, <1>2, <1>5, VueFini DEF Promesse!Sortir
<1>6. CASE GetDevice(r)
  <2>1. UNCHANGED coffre /\ etat[r] = "lire"
    BY <1>6 DEF GetDevice
  <2>2. Membre' = Membre
    BY <2>1 DEF Membre
  <2>3. CASE Finir(r)
    BY <1>5, <2>2, <2>3 DEF Promesse!Next
  <2>4. CASE coffre[d] \in PairedDevice /\ Aller(r, "verifier") /\ UNCHANGED req
    <3>1. "verifier" \in EnSession /\ "verifier" \notin Verifiee /\ "verifier" \notin Ajout
      BY DEF EnSession, Verifiee, Ajout
    <3>2. /\ Session' = [Session EXCEPT ![r] = d] /\ Signees' = Signees \ {r}
          /\ Prises' = Prises
      BY <1>1, <1>4, <2>4, <3>1, VueAvance DEF Aller
    <3>3. d \in Membre /\ r \notin Signees /\ Session[r] = None
      BY <1>1, <1>3, <2>1, <2>4 DEF Membre, Verifiee
    <3>4. Promesse!Entrer(r)
      BY <1>2, <2>2, <3>2, <3>3 DEF Promesse!Entrer
    <3> QED  BY <3>4 DEF Promesse!Next
  <2> QED  BY <1>6, <2>3, <2>4 DEF GetDevice
<1>7. CASE VerifySignature(r)
  <2>1. UNCHANGED coffre /\ etat[r] = "verifier"
    BY <1>7 DEF VerifySignature
  <2>2. Membre' = Membre
    BY <2>1 DEF Membre
  <2>3. CASE Finir(r)
    BY <1>5, <2>2, <2>3 DEF Promesse!Next
  <2>4. CASE Aller(r, "touche_lire") /\ UNCHANGED req
    <3>1. "touche_lire" \in EnSession /\ "touche_lire" \in Verifiee /\ "touche_lire" \notin Ajout
      BY DEF EnSession, Verifiee, Ajout
    <3>2. d \in Device /\ Session[r] = d
      BY <1>1, <1>3, <2>1
    <3>3. /\ Session' = [Session EXCEPT ![r] = d] /\ Signees' = Signees \cup {r}
          /\ Prises' = Prises
      BY <1>1, <1>4, <2>4, <3>1, <3>2, VueAvance DEF Aller
    <3>4. Promesse!Signer(r)
      BY <1>2, <1>3, <2>2, <3>2, <3>3 DEF Promesse!Signer
    <3> QED  BY <3>4 DEF Promesse!Next
  <2> QED  BY <1>7, <2>3, <2>4 DEF VerifySignature
<1>8. ASSUME etat[r] \in {"touche_lire", "touche_ecrire"},
             NEW e \in {"touche_ecrire", "traiter"}, etat' = [etat EXCEPT ![r] = e],
             NEW q, req' = [req EXCEPT ![r] = q], q.device = d
      PROVE  UNCHANGED <<Prises, Session, Signees>> /\ r \in Signees /\ Session[r] = d
  <2>1. e \in EnSession /\ e \in Verifiee /\ e \notin Ajout
    BY <1>8 DEF EnSession, Verifiee, Ajout
  <2>2. d \in Device /\ Session[r] = d /\ r \in Signees
    BY <1>1, <1>3, <1>8 DEF Verifiee
  <2>3. /\ Session' = [Session EXCEPT ![r] = d] /\ Signees' = Signees \cup {r}
        /\ Prises' = Prises
    BY <1>1, <1>8, <2>1, <2>2, VueAvance
  <2> QED  BY <1>3, <2>2, <2>3
<1>9. CASE ToucheGet(r)
  <2>1. UNCHANGED coffre /\ etat[r] = "touche_lire"
    BY <1>9 DEF ToucheGet
  <2>2. Membre' = Membre
    BY <2>1 DEF Membre
  <2>3. CASE Aller(r, "traiter") /\ UNCHANGED req
    BY <1>2, <1>4, <1>8, <2>1, <2>2, <2>3 DEF Aller, Promesse!vars
  <2>4. CASE /\ req' = [req EXCEPT ![r].valeur =
                          [coffre[req[r].device] EXCEPT !.last_seen_at = now]]
             /\ Aller(r, "touche_ecrire")
    <3> DEFINE q == [req[r] EXCEPT !.valeur = [coffre[d] EXCEPT !.last_seen_at = now]]
    <3>1. req' = [req EXCEPT ![r] = q] /\ q.device = d
      BY <2>4 DEF TypeOK, Requetes
    <3> HIDE DEF q
    <3> QED  BY <1>2, <1>8, <2>1, <2>2, <2>4, <3>1 DEF Aller, Promesse!vars
  <2> QED  BY <1>9, <2>3, <2>4 DEF ToucheGet
<1>10. CASE TouchePut(r)
  <2>1. /\ Put(d, req[r].valeur) /\ Aller(r, "traiter") /\ UNCHANGED req
        /\ etat[r] = "touche_ecrire" /\ req[r].valeur \in PairedDevice /\ d \in Device
    BY <1>1, <1>10 DEF TouchePut, TypeOK
  <2>2. UNCHANGED <<Prises, Session, Signees>> /\ r \in Signees /\ Session[r] = d
    BY <1>4, <1>8, <2>1 DEF Aller
  <2>3. Membre' \in {Membre, Membre \cup {d}}
    BY <2>1, VuePut
  <2>4. CASE Membre' = Membre
    BY <1>2, <2>2, <2>4 DEF Promesse!vars
  <2>5. CASE Membre' = Membre \cup {d}
    <3>1. Promesse!Ranimer(r)
      BY <1>2, <2>2, <2>5 DEF Promesse!Ranimer
    <3> QED  BY <3>1 DEF Promesse!Next
  <2> QED  BY <2>3, <2>4, <2>5
<1>11. CASE Traiter(r)
  <2>1. Finir(r) /\ etat[r] = "traiter"
    BY <1>11 DEF Traiter
  <2>2. CASE UNCHANGED coffre
    <3>1. Membre' = Membre
      BY <2>2 DEF Membre
    <3> QED  BY <1>5, <2>1, <3>1 DEF Promesse!Next
  <2>3. CASE Revoquer(r) \/ VaultPut(r)
    <3> DEFINE c == req[r].cible
    <3>1. /\ c \in Device /\ req[r].op # "autre"
          /\ \E v \in PairedDevice \cup {Illisible, None} : Put(c, v)
      BY <2>3 DEF Revoquer, VaultPut, TypeOK
    <3>2. Membre' \in {Membre, Membre \cup {c}, Membre \ {c}}
      BY <3>1, VuePut
    <3>3. r \in Signees
      BY <1>3, <2>1, <3>1 DEF GarantInv, AccesApparie, Verifiee
    <3>4. Promesse!Sortir(r)
      BY <1>1, <1>2, <2>1, <3>1, <3>2, <3>3, VueFini DEF Promesse!Sortir
    <3> QED  BY <3>4 DEF Promesse!Next
  <2> QED  BY <1>11, <2>2, <2>3 DEF Traiter
<1> QED  BY <1>6, <1>7, <1>9, <1>10, <1>11

\* The creation of a token offers it; the expired ones lapse with it.
LEMMA PasCreation ==
  ASSUME TypeOK, JetonInv, NEW t \in Token, CreatePairingToken(t)
  PROVE  [Promesse!Next]_(Promesse!vars)
<1> USE SentinelAssumption
<1> DEFINE j == [k \in Token |-> IF k # t /\ emission[k] # None /\ retain(tokens, now)[k] = None
                                   THEN "clos" ELSE Jeton[k]]
<1>1. /\ emission[t] = None /\ tokens[t] = None
      /\ tokens' = [retain(tokens, now) EXCEPT ![t] = now + TTL]
      /\ emission' = [emission EXCEPT ![t] = [quand |-> now, boot |-> relances]]
      /\ UNCHANGED <<coffre, etat, req>>
  BY DEF CreatePairingToken, JetonInv
<1>2. /\ tokens'[t] # None /\ emission'[t] # None
      /\ \A k \in Token : k # t => /\ emission'[k] = emission[k]
                                   /\ tokens'[k] = retain(tokens, now)[k]
      /\ \A k \in Token : retain(tokens, now)[k] \in {tokens[k], None}
  <2>1. now + TTL \in Nat /\ [quand |-> now, boot |-> relances] \in Instant
    BY AuthAssumption DEF TypeOK, Instant
  <2> QED  BY <1>1, <2>1 DEF TypeOK, retain
<1>3. j \in Promesse!Caduques(Jeton)
  <2>1. Jeton \in [Token -> {"inedit", "offert", "clos"}]
    BY VueType
  <2>2. \A k \in Token : j[k] = Jeton[k] \/ (Jeton[k] = "offert" /\ j[k] = "clos")
    BY <1>2 DEF Jeton
  <2> QED  BY <2>1, <2>2 DEF Promesse!Caduques
<1>4. Jeton' = [j EXCEPT ![t] = "offert"]
  <2>1. /\ Jeton' = [k \in Token |-> Jeton'[k]]
        /\ Jeton = [k \in Token |-> Jeton[k]]
    BY DEF Jeton
  <2>2. Jeton'[t] = "offert"
    BY <1>2 DEF Jeton
  <2>3. \A k \in Token : k # t => Jeton'[k] = j[k]
    BY <1>2 DEF Jeton
  <2> QED  BY <2>1, <2>2, <2>3
<1>5. Jeton[t] = "inedit"
  BY <1>1 DEF Jeton
<1>6. UNCHANGED <<Prises, Membre, Session, Signees>>
  BY <1>1 DEF Prises, Membre, Session, Signees
<1> HIDE DEF j
<1>7. Promesse!Offrir(t)
  BY <1>3, <1>4, <1>5, <1>6 DEF Promesse!Offrir
<1> QED  BY <1>7 DEF Promesse!Next

\* POST /pair/complete takes its token, or finds none and lets the expired
\* ones lapse.
LEMMA PasPairComplete ==
  ASSUME TypeOK, JetonInv,
         NEW r \in Requete, NEW t \in Token, NEW d \in Device, PairComplete(r, t, d)
  PROVE  [Promesse!Next]_(Promesse!vars)
<1> USE SentinelAssumption
<1>1. etat[r] = "libre" /\ UNCHANGED <<coffre, emission>>
  BY DEF PairComplete
<1>2. Membre' = Membre
  BY <1>1 DEF Membre
<1>3. CASE consume(r, t, d)
  <2> DEFINE q == [SansRequete EXCEPT !.device = d, !.jeton = t]
             m == retain(tokens, now)
  <2>1. /\ m[t] # None /\ tokens' = [m EXCEPT ![t] = None]
        /\ req' = [req EXCEPT ![r] = q] /\ etat' = [etat EXCEPT ![r] = "ajout_lire"]
    BY <1>3 DEF consume, Aller
  <2>2. q.device = d /\ q.jeton = t
    BY DEF SansRequete
  <2> HIDE DEF q
  <2>3. \A k \in Token : m[k] \in {tokens[k], None}
    BY DEF retain
  <2>4. Jeton[t] = "offert" /\ Jeton'[t] = "clos" /\ Jeton' \in Promesse!Caduques(Jeton)
    <3>1. /\ tokens'[t] = None /\ tokens[t] # None
          /\ \A k \in Token : tokens'[k] \in {tokens[k], None}
      BY <2>1, <2>3 DEF retain
    <3>2. \A k \in Token : emission[k] = None => tokens[k] = None
      BY DEF JetonInv
    <3>3. Jeton[t] = "offert" /\ Jeton'[t] = "clos"
      BY <1>1, <3>1, <3>2 DEF Jeton
    <3>4. \A k \in Token : Jeton'[k] = Jeton[k] \/ (Jeton[k] = "offert" /\ Jeton'[k] = "clos")
      BY <1>1, <3>1, <3>2 DEF Jeton
    <3>5. Jeton' \in [Token -> {"inedit", "offert", "clos"}]
      BY DEF Jeton
    <3> QED  BY <3>3, <3>4, <3>5 DEF Promesse!Caduques
  <2>5. /\ etat'[r] = "ajout_lire" /\ req'[r] = q
        /\ \A s \in Requete : s # r => etat'[s] = etat[s] /\ req'[s] = req[s]
    BY <2>1 DEF TypeOK
  <2>6. Prises' = Prises \cup {<<t, d>>}
    <3>1. Prises = {<<req[s].jeton, req[s].device>> : s \in {u \in Requete : etat[u] \in Ajout}}
      BY DEF Prises, Ajout
    <3>2. Prises' = {<<req'[s].jeton, req'[s].device>> : s \in {u \in Requete : etat'[u] \in Ajout}}
      BY DEF Prises, Ajout
    <3>3. etat[r] \notin Ajout /\ etat'[r] \in Ajout
      BY <1>1, <2>5 DEF Ajout
    <3> QED  BY <2>2, <2>5, <3>1, <3>2, <3>3
  <2>7. Session' = [Session EXCEPT ![r] = None] /\ Signees' = Signees \ {r}
    <3>1. "ajout_lire" \notin EnSession /\ "ajout_lire" \notin Verifiee
      BY DEF EnSession, Verifiee
    <3> QED  BY <2>1, <3>1, VueSlot
  <2>8. Session[r] = None /\ r \notin Signees /\ Session \in [Requete -> Device \cup {None}]
    BY <1>1, VueType DEF Session, Signees
  <2>9. Promesse!Prendre(t, d)
    BY <1>2, <2>4, <2>6, <2>7, <2>8 DEF Promesse!Prendre
  <2> QED  BY <2>9 DEF Promesse!Next
<1>4. CASE tokens' = retain(tokens, now) /\ UNCHANGED <<etat, req, usages, dernier>>
  <2>1. Jeton' \in Promesse!Caduques(Jeton)
    BY <1>1, <1>4, VueRetain
  <2>2. UNCHANGED <<Prises, Session, Signees>>
    BY <1>4 DEF Prises, Session, Signees
  <2>3. Promesse!Perdre
    BY <1>2, <2>1, <2>2 DEF Promesse!Perdre
  <2> QED  BY <2>3 DEF Promesse!Next
<1> QED  BY <1>3, <1>4 DEF PairComplete

\* The arrival of a signed request, or of one to a legacy route, opens no
\* session.
LEMMA PasArrivee ==
  ASSUME TypeOK, NEW r \in Requete, etat[r] = "libre",
         NEW e \in {"lire", "traiter"}, etat' = [etat EXCEPT ![r] = e],
         NEW q, req' = [req EXCEPT ![r] = q], e = "traiter" => q.device = None,
         UNCHANGED <<tokens, emission, coffre>>
  PROVE  UNCHANGED Promesse!vars
<1>1. Jeton' = Jeton /\ Membre' = Membre
  BY VueJetons DEF Membre
<1>2. /\ Session[r] = None /\ r \notin Signees /\ etat[r] \notin Ajout
      /\ Session \in [Requete -> Device \cup {None}]
  BY VueType DEF Session, Signees, Ajout
<1>3. /\ e \notin Ajout /\ (e \in EnSession => e = "traiter")
      /\ (e \in Verifiee => e = "traiter")
  BY DEF Ajout, EnSession, Verifiee
<1>4. Session' = [Session EXCEPT ![r] = None] /\ Signees' = Signees \ {r} /\ Prises' = Prises
  BY <1>2, <1>3, VueSlot
<1> QED  BY <1>1, <1>2, <1>4 DEF Promesse!vars

\* One step of the node is a step of Appairage or leaves its state alone.
LEMMA PasDAppairage ==
  ASSUME TypeOK, JetonInv, GarantInv, [Next]_vars
  PROVE  [Promesse!Next]_(Promesse!vars)
<1>1. ASSUME NEW r \in Requete, NEW d \in Device, NEW ts \in Horodatages,
             NEW sig \in BOOLEAN, NEW o \in Operation, AuthMiddleware(r, d, ts, sig, o)
      PROVE  UNCHANGED Promesse!vars
  <2>1. /\ etat[r] = "libre" /\ etat' = [etat EXCEPT ![r] = "lire"]
        /\ \E q : req' = [req EXCEPT ![r] = q]
        /\ UNCHANGED <<tokens, emission, coffre>>
    BY <1>1 DEF AuthMiddleware, Aller, histoire
  <2> QED  BY <2>1, PasArrivee
<1>2. ASSUME NEW r \in Requete, NEW d \in Device \cup {None}, NEW ts \in Horodatages,
             NEW sig \in BOOLEAN, AuthCompatMiddleware(r, d, ts, sig)
      PROVE  UNCHANGED Promesse!vars
  <2>1. etat[r] = "libre" /\ UNCHANGED <<tokens, emission, coffre>>
    BY <1>2 DEF AuthCompatMiddleware, histoire
  <2>2. CASE Aller(r, "traiter") /\ req' = [req EXCEPT ![r] = SansRequete]
    <3>1. SansRequete.device = None
      BY DEF SansRequete
    <3> QED  BY <2>1, <2>2, <3>1, PasArrivee DEF Aller
  <2>3. CASE Aller(r, "lire") /\ \E q : req' = [req EXCEPT ![r] = q]
    BY <2>1, <2>3, PasArrivee DEF Aller
  <2> QED  BY <1>2, <2>2, <2>3 DEF AuthCompatMiddleware
<1>3. CASE Relancer
  <2>1. Jeton' = [t \in Token |-> IF Jeton[t] = "inedit" THEN "inedit" ELSE "clos"]
    <3>1. \A t \in Token : Jeton'[t] = IF Jeton[t] = "inedit" THEN "inedit" ELSE "clos"
      BY <1>3 DEF Relancer, histoire, Jeton
    <3>2. Jeton' = [t \in Token |-> Jeton'[t]]
      BY DEF Jeton
    <3> QED  BY <3>1, <3>2
  <2>2. Prises' = {} /\ Session' = [r \in Requete |-> None] /\ Signees' = {}
    BY <1>3 DEF Relancer, Prises, Session, Signees
  <2>3. Membre' = Membre
    BY <1>3 DEF Relancer, Membre
  <2>4. Promesse!Redemarrer
    BY <2>1, <2>2, <2>3 DEF Promesse!Redemarrer
  <2> QED  BY <2>4 DEF Promesse!Next
<1>4. CASE UNCHANGED <<tokens, emission, coffre, etat, req>>
  BY <1>4 DEF Promesse!vars, Jeton, Prises, Membre, Session, Signees
<1> QED
  BY <1>1, <1>2, <1>3, <1>4, PasCreation, PasPairComplete, PasAjout, PasSession
  DEF Next, Recevoir, Avancer, Tick, vars, histoire

\* Auth implements Appairage, for any devices, tokens, requests, clock and
\* number of restarts: what changes the paired devices is a taken token or a
\* request that was looked up and whose signature was accepted.
THEOREM AppairageCorrect == Spec => AppairageTenu
<1>1. Init => Promesse!Init
  BY SentinelAssumption
  DEF Init, Promesse!Init, Jeton, Prises, Membre, Session, Signees
<1>2. Init => JetonInv /\ GarantInv
  BY DEF Init, JetonInv, JetonUnique, GarantInv, AccesApparie, Ajout
<1>3. TypeOK /\ JetonInv /\ GarantInv /\ [Next]_vars => [Promesse!Next]_(Promesse!vars)
  BY PasDAppairage
<1> QED
  BY <1>1, <1>2, <1>3, JetonStep, GarantStep, TypeCorrect, PTL
  DEF Spec, AppairageTenu, Promesse!Spec

============================================================================
