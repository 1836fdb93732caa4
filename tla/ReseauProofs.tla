---------------------------- MODULE ReseauProofs ----------------------------
(***************************************************************************)
(* Proofs about Reseau, for any sets of keys, owners and requests: its     *)
(* types, that the vault's backup is a key the repository has had, and     *)
(* that no setting differs from what the daemons run with unless a restart *)
(* was announced or is about to be.                                        *)
(***************************************************************************)
EXTENDS Reseau, TLAPS

\* What a request brings, by the call it is at, and that it keeps it.
LEMMA SuiteType ==
  ASSUME NEW q, q \in EnCours
  PROVE  /\ q.op \in {"ecrire", "renommer", "sauver"} =>
              /\ q.val \in Cle
              /\ [op |-> "renommer", val |-> q.val] \in EnCours
              /\ [op |-> "sauver", val |-> q.val] \in EnCours
         /\ q.op = "effacer" => [op |-> "oublier", val |-> q.val] \in EnCours
         /\ q.op \in {"poser", "comparer"} =>
              q.val \in Pubkey /\ [op |-> "comparer", val |-> q.val] \in EnCours
BY DEF EnCours

\* A request that starts, moves or ends leaves the others alone.
LEMMA MajType ==
  ASSUME TypeOK, NEW r \in Requete, NEW v \in EnCours \cup {None},
         req' = [req EXCEPT ![r] = v]
  PROVE  req' \in [Requete -> EnCours \cup {None}]
BY DEF TypeOK

Kubos == [etat : {"absent", "lance", "ouvert", "mort"}, pnet : BOOLEAN, cle : Cle \cup {None}]

\* The daemon before its start and right after it.
LEMMA KuboType ==
  /\ KuboAbsent \in Kubos
  /\ \A b \in BOOLEAN : [KuboAbsent EXCEPT !.etat = "lance", !.pnet = b] \in Kubos
BY DEF KuboAbsent, Kubos

\* The relay that does not run, and the one that does.
LEMMA RelaisType ==
  /\ RelaisAbsent \in [marche : BOOLEAN, liste : Pubkey \cup {None}]
  /\ \A pk \in Pubkey \cup {None} :
       [marche |-> TRUE, liste |-> pk] \in [marche : BOOLEAN, liste : Pubkey \cup {None}]
BY DEF RelaisAbsent

\* Types of the settings, of the daemons and of the requests; the last are
\* there only while the server is.
THEOREM TypeCorrect == Spec => []TypeOK
<1>1. Init => TypeOK
  <2> SUFFICES ASSUME Init PROVE TypeOK
    OBVIOUS
  <2>1. kubo \in Kubos /\ relais \in [marche : BOOLEAN, liste : Pubkey \cup {None}]
    BY KuboType, RelaisType DEF Init
  <2>2. req = [r \in Requete |-> None] /\ req \in [Requete -> EnCours \cup {None}]
    BY DEF Init
  <2> QED  BY <2>1, <2>2 DEF Init, TypeOK, Kubos
<1>2. TypeOK /\ [Next]_vars => TypeOK'
  <2> SUFFICES ASSUME TypeOK, [Next]_vars PROVE TypeOK'
    OBVIOUS
  <2> USE SentinelAssumption
  <2>1. CASE LireProprietaire
    <3>1. lu' \in Pubkey \cup {None} /\ sourde' \in BOOLEAN
      BY <2>1 DEF LireProprietaire, TypeOK
    <3>2. req = [r \in Requete |-> None]
      BY <2>1 DEF LireProprietaire, TypeOK
    <3> QED  BY <2>1, <3>1, <3>2 DEF LireProprietaire, TypeOK, reglages
  <2>2. CASE LancerKubo
    <3>1. amorces' \in BOOLEAN
      BY <2>2 DEF LancerKubo, disable_public_bootstrap, TypeOK
    <3>2. (cleFichier # None) \in BOOLEAN
      OBVIOUS
    <3>3. kubo' \in Kubos
      BY <2>2, <3>2, KuboType DEF LancerKubo
    <3> QED  BY <2>2, <3>1, <3>3 DEF LancerKubo, TypeOK, Kubos
  <2>3. CASE LancerRelais
    <3>1. CASE EcrireConfig /\ relais' = [marche |-> TRUE, liste |-> config']
      BY <2>3, <3>1, RelaisType DEF LancerRelais, EcrireConfig, TypeOK
    <3>2. CASE relais' = RelaisAbsent
      BY <2>3, <3>2, RelaisType DEF LancerRelais, EcrireConfig, TypeOK
    <3> QED  BY <2>3, <3>1, <3>2 DEF LancerRelais
  <2>4. CASE KuboOuvre
    BY <2>4 DEF KuboOuvre, TypeOK, reglages
  <2>5. CASE Arreter
    <3>1. req' = [r \in Requete |-> None] /\ req' \in [Requete -> EnCours \cup {None}]
      BY <2>5 DEF Arreter
    <3>2. kubo' \in Kubos /\ relais' \in [marche : BOOLEAN, liste : Pubkey \cup {None}]
      BY <2>5, KuboType, RelaisType DEF Arreter
    <3>3. UNCHANGED <<cleFichier, cleTmp, cleCoffre, owner, config, amorces, cles, croisees>>
      BY <2>5 DEF Arreter, reglages
    <3>4. /\ phase' = "arret" /\ lu' = None /\ applied' = None /\ sourde' = FALSE
          /\ annonce' = {}
      BY <2>5 DEF Arreter
    <3>5. /\ {cleFichier', cleTmp', cleCoffre'} \subseteq Cle \cup {None}
          /\ {owner', config', lu', applied'} \subseteq Pubkey \cup {None}
          /\ amorces' \in BOOLEAN /\ cles' \subseteq Cle /\ croisees' \subseteq Cle
      BY <3>3, <3>4 DEF TypeOK
    <3> QED  BY ONLY <3>1, <3>2, <3>4, <3>5 DEF TypeOK, Kubos
  <2>6. ASSUME NEW r \in Requete, Api(r) PROVE TypeOK'
    <3>1. phase = "sert" /\ UNCHANGED noeud
      <4>1. phase = "sert" \/ req[r] # None
        BY <2>6 DEF Api, RecevoirCle, EcrireTmp, Renommer, SauverCle, RecevoirEffacement,
             EffacerCle, EffacerSauvegarde, RecevoirProprietaire, PoserProprietaire,
             RepondreProprietaire
      <4>2. UNCHANGED noeud
        BY <2>6 DEF Api, RecevoirCle, EcrireTmp, Renommer, SauverCle, RecevoirEffacement,
             EffacerCle, EffacerSauvegarde, RecevoirProprietaire, PoserProprietaire,
             RepondreProprietaire
      <4> QED  BY <4>1, <4>2 DEF TypeOK
    <3> DEFINE SuiteOK == /\ req' \in [Requete -> EnCours \cup {None}]
                          /\ {cleFichier, cleTmp, cleCoffre}' \subseteq Cle \cup {None}
                          /\ owner' \in Pubkey \cup {None} /\ UNCHANGED <<config, amorces>>
                          /\ cles' \subseteq Cle /\ croisees' \subseteq Cle
                          /\ annonce' \subseteq {"cle", "owner"}
    <3>2. SUFFICES SuiteOK
      BY <3>1 DEF TypeOK, noeud
    <3>3. req[r] # None => req[r] \in EnCours
      BY DEF TypeOK
    <3>4. ASSUME NEW k \in Cle, RecevoirCle(r, k) PROVE SuiteOK
      <4>1. [op |-> "ecrire", val |-> k] \in EnCours
        BY DEF EnCours
      <4>2. req' \in [Requete -> EnCours \cup {None}]
        BY <3>4, <4>1, MajType DEF RecevoirCle
      <4> QED  BY <3>4, <4>2 DEF RecevoirCle, TypeOK, reglages
    <3>5. CASE EcrireTmp(r)
      <4>1. req' \in [Requete -> EnCours \cup {None}]
        BY <3>3, <3>5, SuiteType, MajType DEF EcrireTmp, Repondre, Passer
      <4>2. cleTmp' \in Cle \cup {None}
        <5>1. req[r].val \in Cle
          BY <3>3, <3>5, SuiteType DEF EcrireTmp
        <5> QED  BY <3>5, <5>1 DEF EcrireTmp, TypeOK
      <4>3. \A q \in EnEcriture \cup {r} : req[q].val \in Cle
        BY <3>3, <3>5, SuiteType DEF EcrireTmp, EnEcriture, TypeOK
      <4>4. croisees' \subseteq Cle
        BY <3>5, <4>3 DEF EcrireTmp, TypeOK
      <4> QED  BY <3>5, <4>1, <4>2, <4>4 DEF EcrireTmp, TypeOK
    <3>6. CASE Renommer(r)
      <4>1. req' \in [Requete -> EnCours \cup {None}]
        BY <3>3, <3>6, SuiteType, MajType DEF Renommer, Repondre, Passer
      <4> QED  BY <3>6, <4>1 DEF Renommer, TypeOK
    <3>7. CASE SauverCle(r)
      <4>1. req' \in [Requete -> EnCours \cup {None}]
        BY <3>7, MajType DEF SauverCle, Repondre
      <4>2. req[r].val \in Cle
        BY <3>3, <3>7, SuiteType DEF SauverCle
      <4> QED  BY <3>7, <4>1, <4>2 DEF SauverCle, TypeOK
    <3>8. CASE RecevoirEffacement(r)
      <4>1. [op |-> "effacer", val |-> cleFichier] \in EnCours
        BY DEF EnCours, TypeOK
      <4>2. req' \in [Requete -> EnCours \cup {None}]
        BY <3>8, <4>1, MajType DEF RecevoirEffacement
      <4> QED  BY <3>8, <4>2 DEF RecevoirEffacement, TypeOK, reglages
    <3>9. CASE EffacerCle(r)
      <4>1. req' \in [Requete -> EnCours \cup {None}]
        BY <3>3, <3>9, SuiteType, MajType DEF EffacerCle, Repondre, Passer
      <4> QED  BY <3>9, <4>1 DEF EffacerCle, TypeOK
    <3>10. CASE EffacerSauvegarde(r)
      <4>1. req' \in [Requete -> EnCours \cup {None}]
        BY <3>10, MajType DEF EffacerSauvegarde, Repondre
      <4> QED  BY <3>10, <4>1 DEF EffacerSauvegarde, TypeOK
    <3>11. ASSUME NEW pk \in Pubkey, RecevoirProprietaire(r, pk) PROVE SuiteOK
      <4>1. [op |-> "poser", val |-> pk] \in EnCours
        BY DEF EnCours
      <4>2. req' \in [Requete -> EnCours \cup {None}]
        BY <3>11, <4>1, MajType DEF RecevoirProprietaire
      <4> QED  BY <3>11, <4>2 DEF RecevoirProprietaire, TypeOK, reglages
    <3>12. CASE PoserProprietaire(r)
      <4>1. req' \in [Requete -> EnCours \cup {None}]
        BY <3>3, <3>12, SuiteType, MajType DEF PoserProprietaire, Repondre, Passer
      <4>2. req[r].val \in Pubkey
        BY <3>3, <3>12, SuiteType DEF PoserProprietaire
      <4> QED  BY <3>12, <4>1, <4>2 DEF PoserProprietaire, TypeOK
    <3>13. CASE RepondreProprietaire(r)
      <4>1. req' \in [Requete -> EnCours \cup {None}]
        BY <3>13, MajType DEF RepondreProprietaire, Repondre
      <4> QED  BY <3>13, <4>1 DEF RepondreProprietaire, TypeOK, reglages
    <3> QED
      BY <2>6, <3>4, <3>5, <3>6, <3>7, <3>8, <3>9, <3>10, <3>11, <3>12, <3>13 DEF Api
  <2>7. CASE UNCHANGED vars
    BY <2>7 DEF vars, reglages, noeud, TypeOK
  <2> QED
    BY <2>1, <2>2, <2>3, <2>4, <2>5, <2>6, <2>7 DEF Next, Demarrage
<1> QED  BY <1>1, <1>2, PTL DEF Spec

-----------------------------------------------------------------------------
(* The backup *)

A(r, op) == req[r] # None /\ req[r].op = op

\* The strengthening: what a request saves was in the repository, unless it
\* met another; and a request that is about to rename finds its own key in
\* the temporary file, or none, unless it met another.
SauvegardeInv ==
  /\ SauvegardeVraie
  /\ \A r \in Requete :
       /\ A(r, "sauver") => req[r].val \in cles \cup croisees
       /\ A(r, "renommer") => cleTmp = None \/ cleTmp = req[r].val \/ req[r].val \in croisees

\* A step of a request, seen from all of them.
LEMMA Maj ==
  ASSUME TypeOK, NEW r \in Requete, NEW v, req' = [req EXCEPT ![r] = v]
  PROVE  req'[r] = v /\ \A q \in Requete \ {r} : req'[q] = req[q]
BY DEF TypeOK

\* The vault's copy of the swarm key is one that kubo's repository has had,
\* whatever failed or was cut, unless two writings met.
THEOREM SauvegardeCorrect == Spec => []SauvegardeVraie
<1>1. Init => SauvegardeInv
  BY DEF Init, SauvegardeInv, SauvegardeVraie, A
<1>2. TypeOK /\ SauvegardeInv /\ [Next]_vars => SauvegardeInv'
  <2> SUFFICES ASSUME TypeOK, SauvegardeInv, [Next]_vars PROVE SauvegardeInv'
    OBVIOUS
  <2> USE SentinelAssumption DEF SauvegardeInv, SauvegardeVraie, A
  <2>1. CASE Demarrage \/ KuboOuvre
    BY <2>1 DEF Demarrage, LireProprietaire, LancerKubo, LancerRelais, KuboOuvre, reglages
  <2>2. CASE Arreter
    BY <2>2 DEF Arreter, reglages
  <2>3. ASSUME NEW r \in Requete, NEW k \in Cle, RecevoirCle(r, k) PROVE SauvegardeInv'
    <3>1. /\ req'[r] = [op |-> "ecrire", val |-> k]
          /\ \A q \in Requete \ {r} : req'[q] = req[q]
      BY <2>3, Maj DEF RecevoirCle
    <3> QED  BY <2>3, <3>1 DEF RecevoirCle, reglages
  <2>4. ASSUME NEW r \in Requete, EcrireTmp(r) PROVE SauvegardeInv'
    <3>1. CASE /\ cleTmp' = req[r].val /\ Passer(r, "renommer")
               /\ croisees' = IF EnEcriture = {} THEN croisees
                               ELSE croisees \cup {req[q].val : q \in EnEcriture \cup {r}}
      <4>1. req'[r] = [op |-> "renommer", val |-> req[r].val] /\ \A q \in Requete \ {r} : req'[q] = req[q]
        BY <3>1, Maj DEF Passer
      <4>2. req'[r].op = "renommer" /\ req'[r].val = req[r].val
        BY <4>1
      <4>3. croisees \subseteq croisees'
        BY <2>4 DEF EcrireTmp
      <4>4. ASSUME NEW q \in Requete \ {r}, A(q, "renommer") PROVE req[q].val \in croisees'
        <5>1. q \in EnEcriture
          BY <4>4 DEF EnEcriture
        <5>2. croisees' = croisees \cup {req[t].val : t \in EnEcriture \cup {r}}
          BY <3>1, <5>1
        <5> QED  BY <5>1, <5>2
      <4> QED  BY <2>4, <3>1, <4>1, <4>2, <4>3, <4>4 DEF EcrireTmp
    <3>2. CASE Repondre(r) /\ UNCHANGED <<cleTmp, croisees>>
      BY <2>4, <3>2, Maj DEF EcrireTmp, Repondre
    <3> QED  BY <2>4, <3>1, <3>2 DEF EcrireTmp
  <2>5. ASSUME NEW r \in Requete, Renommer(r) PROVE SauvegardeInv'
    <3>1. CASE cleTmp # None /\ cleTmp' = None /\ cles' = cles \cup {cleTmp} /\ Passer(r, "sauver")
      <4>1. req'[r] = [op |-> "sauver", val |-> req[r].val] /\ \A q \in Requete \ {r} : req'[q] = req[q]
        BY <3>1, Maj DEF Passer
      <4>2. req'[r].op = "sauver" /\ req'[r].val = req[r].val
        BY <4>1
      <4>3. req[r].val \in cles' \cup croisees
        BY <2>5, <3>1 DEF Renommer
      <4> QED  BY <2>5, <3>1, <4>1, <4>2, <4>3 DEF Renommer
    <3>2. CASE Repondre(r) /\ UNCHANGED <<cleFichier, cleTmp, cles>>
      BY <2>5, <3>2, Maj DEF Renommer, Repondre
    <3> QED  BY <2>5, <3>1, <3>2 DEF Renommer
  <2>6. ASSUME NEW r \in Requete, SauverCle(r) PROVE SauvegardeInv'
    BY <2>6, Maj DEF SauverCle, Repondre
  <2>7. ASSUME NEW r \in Requete, RecevoirEffacement(r) PROVE SauvegardeInv'
    <3>1. /\ req'[r] = [op |-> "effacer", val |-> cleFichier]
          /\ \A q \in Requete \ {r} : req'[q] = req[q]
      BY <2>7, Maj DEF RecevoirEffacement
    <3> QED  BY <2>7, <3>1 DEF RecevoirEffacement, reglages
  <2>8. ASSUME NEW r \in Requete, EffacerCle(r) PROVE SauvegardeInv'
    <3>1. (req'[r] = None \/ req'[r].op = "oublier") /\ \A q \in Requete \ {r} : req'[q] = req[q]
      BY <2>8, Maj DEF EffacerCle, Repondre, Passer
    <3> QED  BY <2>8, <3>1 DEF EffacerCle
  <2>9. ASSUME NEW r \in Requete, EffacerSauvegarde(r) PROVE SauvegardeInv'
    BY <2>9, Maj DEF EffacerSauvegarde, Repondre
  <2>10. ASSUME NEW r \in Requete, NEW pk \in Pubkey, RecevoirProprietaire(r, pk) PROVE SauvegardeInv'
    <3>1. /\ req'[r] = [op |-> "poser", val |-> pk]
          /\ \A q \in Requete \ {r} : req'[q] = req[q]
      BY <2>10, Maj DEF RecevoirProprietaire
    <3> QED  BY <2>10, <3>1 DEF RecevoirProprietaire, reglages
  <2>11. ASSUME NEW r \in Requete, PoserProprietaire(r) PROVE SauvegardeInv'
    <3>1. (req'[r] = None \/ req'[r].op = "comparer") /\ \A q \in Requete \ {r} : req'[q] = req[q]
      BY <2>11, Maj DEF PoserProprietaire, Repondre, Passer
    <3> QED  BY <2>11, <3>1 DEF PoserProprietaire
  <2>12. ASSUME NEW r \in Requete, RepondreProprietaire(r) PROVE SauvegardeInv'
    BY <2>12, Maj DEF RepondreProprietaire, Repondre, reglages
  <2>13. CASE UNCHANGED vars
    BY <2>13 DEF vars, reglages
  <2> QED
    BY <2>1, <2>2, <2>3, <2>4, <2>5, <2>6, <2>7, <2>8, <2>9, <2>10, <2>11, <2>12, <2>13
       DEF Next, Api
<1> QED  BY <1>1, <1>2, TypeCorrect, PTL DEF Spec, SauvegardeInv

-----------------------------------------------------------------------------
(* The swarm key and the daemon *)

\* A restart was announced for the key, or a request that will is under way:
\* one that has written the key, or removed one it had found.
ClePromise ==
  \/ "cle" \in annonce
  \/ \E r \in Requete : A(r, "sauver") \/ (A(r, "oublier") /\ req[r].val # None)

\* The strengthening: a DELETE that found no key removes none, unless somebody
\* has written one since and says so.
CleInv ==
  /\ kubo.etat = "ouvert" /\ kubo.cle # cleFichier => ClePromise
  /\ \A r \in Requete : A(r, "effacer") /\ req[r].val = None => cleFichier = None \/ ClePromise

\* A step of one request that neither writes nor removes the key, nor is one
\* of the promises, keeps the promise.
LEMMA CleNeutre ==
  ASSUME TypeOK, CleInv, NEW r \in Requete, NEW v, req' = [req EXCEPT ![r] = v],
         ~A(r, "sauver"), ~(A(r, "oublier") /\ req[r].val # None),
         annonce \subseteq annonce'
  PROVE  ClePromise => ClePromise'
<1>1. ASSUME NEW q \in Requete, A(q, "sauver") \/ (A(q, "oublier") /\ req[q].val # None)
      PROVE  req'[q] = req[q]
  BY <1>1, Maj DEF A
<1> QED  BY <1>1 DEF ClePromise, A

\* While the daemon is in another network than the one its repository asks
\* for, a restart has been announced or is about to be, whatever requests
\* cross and fail.
THEOREM CleCorrect == Spec => []CleAnnoncee
<1>1. Init => CleInv
  BY DEF Init, CleInv, KuboAbsent, A
<1>2. TypeOK /\ CleInv /\ [Next]_vars => CleInv'
  <2> SUFFICES ASSUME TypeOK, CleInv, [Next]_vars PROVE CleInv'
    OBVIOUS
  <2> USE SentinelAssumption
  <2>1. CASE LireProprietaire \/ LancerRelais
    BY <2>1 DEF LireProprietaire, LancerRelais, reglages, CleInv, ClePromise, A
  <2>2. CASE LancerKubo
    <3>1. kubo'.etat # "ouvert"
      <4>1. kubo' = KuboAbsent
              \/ kubo' = [KuboAbsent EXCEPT !.etat = "lance", !.pnet = cleFichier # None]
        BY <2>2 DEF LancerKubo
      <4>2. CASE kubo' = KuboAbsent
        BY <4>2 DEF KuboAbsent
      <4>3. CASE kubo' = [KuboAbsent EXCEPT !.etat = "lance", !.pnet = cleFichier # None]
        BY <4>3 DEF KuboAbsent
      <4> QED  BY <4>1, <4>2, <4>3
    <3> QED  BY <2>2, <3>1 DEF LancerKubo, CleInv, ClePromise, A
  <2>3. CASE KuboOuvre
    <3>1. kubo'.etat = "ouvert" => kubo'.cle = cleFichier'
      BY <2>3 DEF KuboOuvre, reglages, TypeOK
    <3> QED  BY <2>3, <3>1 DEF KuboOuvre, reglages, CleInv, ClePromise, A
  <2>4. CASE Arreter
    <3>1. kubo'.etat # "ouvert"
      BY <2>4 DEF Arreter, KuboAbsent
    <3> QED  BY <2>4, <3>1 DEF Arreter, CleInv, A
  <2>5. ASSUME NEW r \in Requete, NEW v, req' = [req EXCEPT ![r] = v],
               v = None \/ v.op # "effacer",
               ~A(r, "sauver"), ~(A(r, "oublier") /\ req[r].val # None),
               annonce \subseteq annonce', UNCHANGED <<kubo, cleFichier>>
        PROVE  CleInv'
    <3>1. ClePromise => ClePromise'
      BY <2>5, CleNeutre
    <3>2. req'[r] = v /\ \A q \in Requete \ {r} : req'[q] = req[q]
      BY <2>5, Maj
    <3> QED  BY <2>5, <3>1, <3>2 DEF CleInv, A
  <2>6. ASSUME NEW r \in Requete, NEW k \in Cle, RecevoirCle(r, k) PROVE CleInv'
    <3>1. [op |-> "ecrire", val |-> k].op # "effacer"
      OBVIOUS
    <3> QED  BY <2>5, <2>6, <3>1 DEF RecevoirCle, noeud, reglages, A
  <2>7. ASSUME NEW r \in Requete, EcrireTmp(r) PROVE CleInv'
    <3>1. [op |-> "renommer", val |-> req[r].val].op # "effacer"
      OBVIOUS
    <3> QED  BY <2>5, <2>7, <3>1 DEF EcrireTmp, Passer, Repondre, noeud, A
  <2>8. ASSUME NEW r \in Requete, Renommer(r) PROVE CleInv'
    <3>1. CASE Passer(r, "sauver")
      <4>1. req'[r] = [op |-> "sauver", val |-> req[r].val]
        BY <3>1, Maj DEF Passer
      <4>2. req[r] \in EnCours /\ req[r].op = "renommer"
        BY <2>8 DEF Renommer, TypeOK
      <4>3. req'[r] # None /\ req'[r].op = "sauver"
        <5>1. [op |-> "sauver", val |-> req[r].val] \in EnCours
          BY <4>2, SuiteType
        <5>2. req'[r] # None
          BY <4>1, <5>1
        <5> QED  BY <4>1, <5>2
      <4> QED  BY <4>3 DEF CleInv, ClePromise, A
    <3>2. CASE Repondre(r) /\ UNCHANGED cleFichier
      BY <2>5, <2>8, <3>2 DEF Renommer, Repondre, noeud, A
    <3> QED  BY <2>8, <3>1, <3>2 DEF Renommer
  <2>9. ASSUME NEW r \in Requete, SauverCle(r) PROVE CleInv'
    BY <2>9 DEF SauverCle, CleInv, ClePromise
  <2>10. ASSUME NEW r \in Requete, RecevoirEffacement(r) PROVE CleInv'
    <3>1. ClePromise => ClePromise'
      BY <2>10, CleNeutre DEF RecevoirEffacement, A
    <3>2. req'[r] = [op |-> "effacer", val |-> cleFichier] /\ \A q \in Requete \ {r} : req'[q] = req[q]
      BY <2>10, Maj DEF RecevoirEffacement
    <3>3. req'[r].val = cleFichier
      BY <3>2
    <3> QED  BY <2>10, <3>1, <3>2, <3>3 DEF RecevoirEffacement, noeud, reglages, CleInv, A
  <2>11. ASSUME NEW r \in Requete, EffacerCle(r) PROVE CleInv'
    <3>1. CASE cleFichier' = None /\ Passer(r, "oublier")
      <4>1. req'[r] = [op |-> "oublier", val |-> req[r].val]
        BY <3>1, Maj DEF Passer
      <4>2. req[r] \in EnCours /\ req[r].op = "effacer"
        BY <2>11 DEF EffacerCle, TypeOK
      <4>3. req'[r] # None /\ req'[r].op = "oublier" /\ req'[r].val = req[r].val
        <5>1. [op |-> "oublier", val |-> req[r].val] \in EnCours
          BY <4>2, SuiteType
        <5>2. req'[r] # None
          BY <4>1, <5>1
        <5> QED  BY <4>1, <5>2
      <4>4. CASE req[r].val # None
        BY <3>1, <4>3, <4>4 DEF CleInv, ClePromise, A
      <4>5. CASE req[r].val = None
        <5>1. cleFichier = None \/ ClePromise
          BY <2>11, <4>5 DEF EffacerCle, CleInv, A
        <5>2. ClePromise => ClePromise'
          BY <2>11, <3>1, CleNeutre DEF EffacerCle, Passer, A
        <5> QED  BY <2>11, <3>1, <5>1, <5>2 DEF EffacerCle, noeud, CleInv
      <4> QED  BY <4>4, <4>5
    <3>2. CASE Repondre(r) /\ UNCHANGED cleFichier
      BY <2>5, <2>11, <3>2 DEF EffacerCle, Repondre, noeud, A
    <3> QED  BY <2>11, <3>1, <3>2 DEF EffacerCle
  <2>12. ASSUME NEW r \in Requete, EffacerSauvegarde(r) PROVE CleInv'
    <3>1. CASE req[r].val # None
      BY <2>12, <3>1 DEF EffacerSauvegarde, CleInv, ClePromise
    <3>2. CASE req[r].val = None
      BY <2>5, <2>12, <3>2 DEF EffacerSauvegarde, Repondre, noeud, A
    <3> QED  BY <3>1, <3>2
  <2>13. ASSUME NEW r \in Requete, NEW pk \in Pubkey, RecevoirProprietaire(r, pk) PROVE CleInv'
    <3>1. [op |-> "poser", val |-> pk].op # "effacer"
      OBVIOUS
    <3> QED  BY <2>5, <2>13, <3>1 DEF RecevoirProprietaire, noeud, reglages, A
  <2>14. ASSUME NEW r \in Requete, PoserProprietaire(r) PROVE CleInv'
    <3>1. [op |-> "comparer", val |-> req[r].val].op # "effacer"
      OBVIOUS
    <3> QED  BY <2>5, <2>14, <3>1 DEF PoserProprietaire, Passer, Repondre, noeud, A
  <2>15. ASSUME NEW r \in Requete, RepondreProprietaire(r) PROVE CleInv'
    BY <2>5, <2>15 DEF RepondreProprietaire, Repondre, noeud, reglages, A
  <2>16. CASE UNCHANGED vars
    BY <2>16 DEF vars, reglages, noeud, CleInv, ClePromise, A
  <2> QED
    BY <2>1, <2>2, <2>3, <2>4, <2>6, <2>7, <2>8, <2>9, <2>10, <2>11, <2>12, <2>13, <2>14,
       <2>15, <2>16 DEF Next, Demarrage, Api
<1>3. CleInv => CleAnnoncee
  BY DEF CleInv, ClePromise, CleAnnoncee, A
<1> QED  BY <1>1, <1>2, <1>3, TypeCorrect, PTL DEF Spec

-----------------------------------------------------------------------------
(* The owner and the relay *)

\* A restart was announced for the owner, or a request that will is under way.
ListePromise ==
  \/ "owner" \in annonce
  \/ \E r \in Requete : A(r, "comparer") /\ req[r].val # applied

\* The strengthening: what main read, and the vault answered, is the owner
\* until the server starts; the relay's list is the one the answers compare
\* with; and an owner the relay does not know is promised a restart.
ListeInv ==
  /\ phase \in {"kubo", "relais"} /\ ~sourde => lu = owner
  /\ relais.marche => phase = "sert" /\ relais.liste = applied
  /\ relais.marche /\ ~sourde /\ relais.liste # owner => ListePromise

\* The steps of the key's requests leave the owner, the relay and the
\* promises alone.
LEMMA ListeNeutre ==
  ASSUME TypeOK, ListeInv, NEW r \in Requete, NEW v, req' = [req EXCEPT ![r] = v],
         ~A(r, "comparer"), annonce \subseteq annonce', UNCHANGED <<noeud, owner>>
  PROVE  ListeInv'
<1>1. \A q \in Requete : A(q, "comparer") => req'[q] = req[q]
  BY Maj DEF A
<1>2. ListePromise => ListePromise'
  BY <1>1 DEF ListePromise, A, noeud
<1> QED  BY <1>2 DEF ListeInv, noeud

\* The relay lets the vault's owner write and nobody else, or a restart has
\* been announced or is about to be; unless the vault did not answer when the
\* node started.
THEOREM ListeCorrect == Spec => []ListeAnnoncee
<1>1. Init => ListeInv
  BY DEF Init, ListeInv, RelaisAbsent
<1>2. TypeOK /\ ListeInv /\ [Next]_vars => ListeInv'
  <2> SUFFICES ASSUME TypeOK, ListeInv, [Next]_vars PROVE ListeInv'
    OBVIOUS
  <2> USE SentinelAssumption
  <2>1. CASE LireProprietaire
    BY <2>1 DEF LireProprietaire, reglages, ListeInv
  <2>2. CASE LancerKubo
    BY <2>2 DEF LancerKubo, ListeInv
  <2>3. CASE LancerRelais
    <3>1. CASE relais' = [marche |-> TRUE, liste |-> config'] /\ config' = lu /\ applied' = lu
      BY <2>3, <3>1 DEF LancerRelais, ListeInv
    <3>2. CASE relais' = RelaisAbsent
      <4>1. ~relais'.marche
        BY <3>2 DEF RelaisAbsent
      <4> QED  BY <2>3, <4>1 DEF LancerRelais, ListeInv
    <3> QED  BY <2>3, <3>1, <3>2 DEF LancerRelais, EcrireConfig
  <2>4. CASE KuboOuvre
    BY <2>4 DEF KuboOuvre, reglages, ListeInv, ListePromise, A
  <2>5. CASE Arreter
    BY <2>5 DEF Arreter, RelaisAbsent, ListeInv
  <2>6. ASSUME NEW r \in Requete, NEW k \in Cle, RecevoirCle(r, k) PROVE ListeInv'
    BY <2>6, ListeNeutre DEF RecevoirCle, reglages, A
  <2>7. ASSUME NEW r \in Requete, EcrireTmp(r) PROVE ListeInv'
    BY <2>7, ListeNeutre DEF EcrireTmp, Passer, Repondre, A
  <2>8. ASSUME NEW r \in Requete, Renommer(r) PROVE ListeInv'
    BY <2>8, ListeNeutre DEF Renommer, Passer, Repondre, A
  <2>9. ASSUME NEW r \in Requete, SauverCle(r) PROVE ListeInv'
    BY <2>9, ListeNeutre DEF SauverCle, Repondre, A
  <2>10. ASSUME NEW r \in Requete, RecevoirEffacement(r) PROVE ListeInv'
    BY <2>10, ListeNeutre DEF RecevoirEffacement, reglages, A
  <2>11. ASSUME NEW r \in Requete, EffacerCle(r) PROVE ListeInv'
    BY <2>11, ListeNeutre DEF EffacerCle, Passer, Repondre, A
  <2>12. ASSUME NEW r \in Requete, EffacerSauvegarde(r) PROVE ListeInv'
    BY <2>12, ListeNeutre DEF EffacerSauvegarde, Repondre, A
  <2>13. ASSUME NEW r \in Requete, NEW pk \in Pubkey, RecevoirProprietaire(r, pk) PROVE ListeInv'
    BY <2>13, ListeNeutre DEF RecevoirProprietaire, reglages, A
  <2>14. ASSUME NEW r \in Requete, PoserProprietaire(r) PROVE ListeInv'
    <3>1. CASE owner' = req[r].val /\ Passer(r, "comparer")
      <4>1. req'[r] = [op |-> "comparer", val |-> req[r].val]
        BY <3>1, Maj DEF Passer
      <4>2. req[r] \in EnCours /\ req[r].op = "poser"
        BY <2>14 DEF PoserProprietaire, TypeOK
      <4>3. [op |-> "comparer", val |-> req[r].val] \in EnCours
        BY <4>2, SuiteType
      <4>4. req'[r] # None /\ req'[r].op = "comparer" /\ req'[r].val = owner'
        BY <3>1, <4>1, <4>3
      <4>5. phase = "sert" /\ UNCHANGED noeud
        BY <2>14 DEF PoserProprietaire, TypeOK
      <4> QED  BY <4>4, <4>5 DEF ListeInv, ListePromise, A, noeud
    <3>2. CASE Repondre(r) /\ UNCHANGED owner
      BY <2>14, <3>2, ListeNeutre DEF PoserProprietaire, Repondre, A
    <3> QED  BY <2>14, <3>1, <3>2 DEF PoserProprietaire
  <2>15. ASSUME NEW r \in Requete, RepondreProprietaire(r) PROVE ListeInv'
    <3>1. CASE restart_required(req[r].val)
      BY <2>15, <3>1 DEF RepondreProprietaire, ListeInv, ListePromise, noeud, reglages
    <3>2. CASE ~restart_required(req[r].val)
      <4>1. req[r].val = applied
        BY <3>2 DEF restart_required
      <4>2. \A q \in Requete \ {r} : req'[q] = req[q]
        BY <2>15, Maj DEF RepondreProprietaire, Repondre
      <4>3. ListePromise => ListePromise'
        BY <2>15, <4>1, <4>2 DEF RepondreProprietaire, ListePromise, A, noeud
      <4> QED  BY <2>15, <4>3 DEF RepondreProprietaire, ListeInv, noeud, reglages
    <3> QED  BY <3>1, <3>2
  <2>16. CASE UNCHANGED vars
    BY <2>16 DEF vars, reglages, noeud, ListeInv, ListePromise, A
  <2> QED
    BY <2>1, <2>2, <2>3, <2>4, <2>5, <2>6, <2>7, <2>8, <2>9, <2>10, <2>11, <2>12, <2>13, <2>14,
       <2>15, <2>16 DEF Next, Demarrage, Api
<1>3. ListeInv => ListeAnnoncee
  BY DEF ListeInv, ListePromise, ListeAnnoncee, A
<1> QED  BY <1>1, <1>2, <1>3, TypeCorrect, PTL DEF Spec

=============================================================================
