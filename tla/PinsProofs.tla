----------------------------- MODULE PinsProofs -----------------------------
(***************************************************************************)
(* Theorems about Pins, for every set of contents, modules and requests,   *)
(* every clock bound and every combination of kubo and disk failures.      *)
(***************************************************************************)
EXTENDS Pins, TLAPS

-----------------------------------------------------------------------------
(* The operations of the registry *)

\* What one write of pins.json leaves: the new table, the old file or an
\* unreadable one, and the flag says which (write_json, errors ignored).
LEMMA EcrireLemma ==
  ASSUME NEW p \in Registre, pinsFile \in Registre \cup {Illisible}, EcrirePins(p)
  PROVE  /\ pinsFile' \in Registre \cup {Illisible}
         /\ pinsFile' \in {p, pinsFile, Illisible}
         /\ ecrit' \in BOOLEAN
         /\ ecrit' => pinsFile' = p
BY DEF EcrirePins

\* A policy file holds a policy or nothing readable.
LEMMA EcrirePolicyLemma ==
  ASSUME NEW p \in Connues, policyFile \in Connues \cup {Illisible}, EcrirePolicy(p)
  PROVE  policyFile' \in Connues \cup {Illisible}
BY DEF EcrirePolicy

\* A table read back is a table (read_json, unwrap_or_default).
LEMMA ChargerLemma ==
  ASSUME NEW f \in Registre \cup {Illisible}
  PROVE  /\ ChargerPins(f) \in Registre
         /\ f # Illisible => ChargerPins(f) = f
         /\ Vide \in Registre
         /\ ChargerPins(Illisible) = Vide
BY DEF ChargerPins, Vide, Registre

\* upsert keeps the table well formed, its summary exact and its file no
\* older than the flag says; it changes one record.
LEMMA UpsertLemma ==
  ASSUME NEW c \in Cid, NEW rec \in PinRecord, TypeOK, upsert(c, rec)
  PROVE  /\ pins' \in Registre
         /\ pins'[c] = rec
         /\ \A d \in Cid : d # c => pins'[d] = pins[d]
         /\ ResumeExact'
         /\ Durable'
         /\ pinsFile' \in Registre \cup {Illisible}
         /\ pinsFile' \in {pins', pinsFile, Illisible}
         /\ ecrit' \in BOOLEAN
         /\ ordre' \in Ordres
         /\ neufs' = neufs \cup ({c} \cap EnPurge)
         /\ UNCHANGED <<policy, policyFile>>
<1>1. pins' \in Registre /\ pins'[c] = rec /\ \A d \in Cid : d # c => pins'[d] = pins[d]
  BY DEF upsert, TypeOK, Registre
<1>2. EcrirePins(pins') /\ pinsFile \in Registre \cup {Illisible}
  BY DEF upsert, TypeOK
<1>3. /\ pinsFile' \in Registre \cup {Illisible}
      /\ pinsFile' \in {pins', pinsFile, Illisible}
      /\ ecrit' \in BOOLEAN
      /\ ecrit' => pinsFile' = pins'
  BY <1>1, <1>2, EcrireLemma
<1>4. Durable'
  BY <1>1, <1>3, ChargerLemma, SentinelAssumption DEF Durable
<1>5. ordre' \in Ordres
  BY DEF upsert, TypeOK
<1>6. ResumeExact'
  BY DEF upsert, ResumeExact
<1> QED
  BY <1>1, <1>3, <1>4, <1>5, <1>6 DEF upsert

\* remove likewise, and it writes the file exactly when a record goes.
LEMMA RemoveLemma ==
  ASSUME NEW c \in Cid, TypeOK, Durable, remove(c)
  PROVE  /\ pins' \in Registre
         /\ pins'[c] = None
         /\ \A d \in Cid : d # c => pins'[d] = pins[d]
         /\ ResumeExact'
         /\ Durable'
         /\ pinsFile' \in Registre \cup {Illisible}
         /\ pinsFile' \in {pins', pinsFile, Illisible}
         /\ ecrit' \in BOOLEAN
         /\ UNCHANGED <<policy, policyFile, ordre, neufs>>
<1>1. pins' \in Registre /\ pins'[c] = None /\ \A d \in Cid : d # c => pins'[d] = pins[d]
  BY DEF remove, TypeOK, Registre
<1>2. pinsFile \in Registre \cup {Illisible} /\ ecrit \in BOOLEAN
  BY DEF TypeOK
<1>3. CASE pins[c] # None
  <2>1. EcrirePins(pins')
    BY <1>3 DEF remove
  <2>2. /\ pinsFile' \in Registre \cup {Illisible}
        /\ pinsFile' \in {pins', pinsFile, Illisible}
        /\ ecrit' \in BOOLEAN
        /\ ecrit' => pinsFile' = pins'
    BY <1>1, <1>2, <2>1, EcrireLemma
  <2>3. Durable'
    BY <1>1, <2>2, ChargerLemma, SentinelAssumption DEF Durable
  <2> QED
    BY <1>1, <2>2, <2>3 DEF remove, ResumeExact
<1>4. CASE pins[c] = None
  <2>1. pins' = pins
    BY <1>4 DEF remove, TypeOK, Registre
  <2>2. UNCHANGED <<pinsFile, ecrit>>
    BY <1>4 DEF remove
  <2> QED
    BY <1>1, <1>2, <2>1, <2>2 DEF remove, ResumeExact, Durable
<1> QED
  BY <1>3, <1>4

\* A grouped update changes sizes only, of records that are there, to the
\* size of their content.
LEMMA MajLemma ==
  ASSUME NEW S \in SUBSET Cid, TypeOK, ResumeExact, Durable, maj_tailles(S)
  PROVE  /\ pins' \in Registre
         /\ \A c \in Cid :
              \/ pins'[c] = pins[c]
              \/ /\ pins[c] # None /\ pins'[c] # None /\ c \in S
                 /\ pins'[c].size_bytes = Taille[c]
                 /\ pins'[c].pinned_at = pins[c].pinned_at
                 /\ pins'[c].ttl_secs = pins[c].ttl_secs
         /\ ResumeExact'
         /\ Durable'
         /\ pinsFile' \in Registre \cup {Illisible}
         /\ pinsFile' \in {pins', pinsFile, Illisible}
         /\ ecrit' \in BOOLEAN
         /\ UNCHANGED <<policy, policyFile, ordre, neufs>>
<1> DEFINE changes == {c \in S : pins[c] # None /\ pins[c].size_bytes # Taille[c]}
<1>1. pins' = [c \in Cid |-> IF c \in changes
                               THEN [pins[c] EXCEPT !.size_bytes = Taille[c]] ELSE pins[c]]
  BY DEF maj_tailles
<1>2. \A c \in Cid : pins[c] \in PinRecord \cup {None} /\ Taille[c] \in Nat
  BY PinsAssumption DEF TypeOK, Registre
<1>3. ASSUME NEW c \in Cid, c \in changes
      PROVE  /\ pins[c] # None /\ pins'[c] \in PinRecord /\ c \in S
             /\ pins'[c].size_bytes = Taille[c]
             /\ pins'[c].pinned_at = pins[c].pinned_at
             /\ pins'[c].ttl_secs = pins[c].ttl_secs
  <2>1. pins'[c] = [pins[c] EXCEPT !.size_bytes = Taille[c]] /\ pins[c] \in PinRecord
    BY <1>1, <1>2, <1>3
  <2> QED
    BY <1>2, <1>3, <2>1 DEF PinRecord
<1>4. \A c \in Cid : c \notin changes => pins'[c] = pins[c]
  BY <1>1
<1>5. pins' \in Registre
  <2>1. \A c \in Cid : pins'[c] \in PinRecord \cup {None}
    BY <1>2, <1>3, <1>4
  <2> QED
    BY <1>1, <2>1 DEF Registre
<1>6. pinsFile \in Registre \cup {Illisible} /\ ecrit \in BOOLEAN
  BY DEF TypeOK
<1>7. UNCHANGED <<policy, policyFile, ordre, neufs>>
  BY DEF maj_tailles
<1>8. CASE changes # {}
  <2>1. EcrirePins(pins') /\ resume' = calculer_resume(pins')
    BY <1>8 DEF maj_tailles
  <2>2. /\ pinsFile' \in Registre \cup {Illisible}
        /\ pinsFile' \in {pins', pinsFile, Illisible}
        /\ ecrit' \in BOOLEAN
        /\ ecrit' => pinsFile' = pins'
    BY <1>5, <1>6, <2>1, EcrireLemma
  <2>3. Durable'
    BY <1>5, <2>2, ChargerLemma, SentinelAssumption DEF Durable
  <2> QED
    BY <1>3, <1>4, <1>5, <1>7, <2>1, <2>2, <2>3, SentinelAssumption DEF ResumeExact
<1>9. CASE changes = {}
  <2>1. pins' = pins
    BY <1>1, <1>9 DEF TypeOK, Registre
  <2>2. UNCHANGED <<resume, pinsFile, ecrit>>
    BY <1>9 DEF maj_tailles
  <2> QED
    BY <1>4, <1>5, <1>6, <1>7, <1>9, <2>1, <2>2 DEF ResumeExact, Durable
<1> QED
  BY <1>8, <1>9

-----------------------------------------------------------------------------
(* Types *)

\* The parts of TypeOK that say a request and the janitor carry what their
\* next step needs.
LEMMA InitTypeOK == Init => TypeOK
<1> SUFFICES ASSUME Init PROVE TypeOK
  OBVIOUS
<1>1. Vide \in Registre
  BY DEF Vide, Registre
<1>2. SansRequete \in Requetes /\ SansRequete.cid = None
  BY DEF SansRequete, Requetes
<1>3. JanitorDort \in Janitors /\ JanitorDort.etat = "dort"
  BY DEF JanitorDort, Janitors
<1> QED
  BY <1>1, <1>2, <1>3, PinsAssumption DEF Init, TypeOK, EtatsRequete, Connues

\* A handler step that leaves the registry's types alone.
LEMMA RequeteTypeOK ==
  ASSUME TypeOK, NEW r \in Requete, NEW e \in EtatsRequete, NEW q \in Requetes,
         etat' = [etat EXCEPT ![r] = e], req' = [req EXCEPT ![r] = q],
         e # "libre" => q.cid \in Cid,
         e \in {"pin_add", "mesure", "dater", "upsert"} => q.module \in Module
  PROVE  /\ etat' \in [Requete -> EtatsRequete]
         /\ req' \in [Requete -> Requetes]
         /\ \A s \in Requete :
              /\ etat'[s] # "libre" => req'[s].cid \in Cid
              /\ etat'[s] \in {"pin_add", "mesure", "dater", "upsert"} => req'[s].module \in Module
<1>1. etat' \in [Requete -> EtatsRequete] /\ req' \in [Requete -> Requetes]
  BY DEF TypeOK
<1>2. ASSUME NEW s \in Requete
      PROVE  /\ etat'[s] # "libre" => req'[s].cid \in Cid
             /\ etat'[s] \in {"pin_add", "mesure", "dater", "upsert"} => req'[s].module \in Module
  <2>1. CASE s = r
    <3>1. etat'[s] = e /\ req'[s] = q
      BY <2>1 DEF TypeOK
    <3> QED BY <3>1
  <2>2. CASE s # r
    <3>1. etat'[s] = etat[s] /\ req'[s] = req[s]
      BY <2>2 DEF TypeOK
    <3> QED BY <3>1 DEF TypeOK
  <2> QED BY <2>1, <2>2
<1> QED
  BY <1>1, <1>2

\* A finished request frees its slot.
LEMMA FinirLemma ==
  ASSUME TypeOK, NEW r \in Requete, Finir(r)
  PROVE  /\ etat' \in [Requete -> EtatsRequete]
         /\ req' \in [Requete -> Requetes]
         /\ \A s \in Requete :
              /\ etat'[s] # "libre" => req'[s].cid \in Cid
              /\ etat'[s] \in {"pin_add", "mesure", "dater", "upsert"} => req'[s].module \in Module
<1>1. SansRequete \in Requetes /\ "libre" \in EtatsRequete
  BY DEF SansRequete, Requetes, EtatsRequete
<1> QED
  BY <1>1, RequeteTypeOK DEF Finir, Aller

\* The answers of kubo keep its pin set a set of contents.
LEMMA KuboLemma ==
  ASSUME TypeOK, NEW c \in Cid, NEW ok, pin_add(c, ok) \/ pin_rm(c, ok)
  PROVE  /\ kuboPins' \subseteq Cid
         /\ UNCHANGED <<kuboVivant, local, vus>>
BY DEF TypeOK, pin_add, pin_rm

\* A measure is a number of octets: that of the content, or zero.
LEMMA MesureLemma ==
  ASSUME TypeOK, NEW c \in Cid, NEW m \in taille_detenue(c)
  PROVE  /\ m.octets \in Nat
         /\ m.octets > 0 => c \in local /\ m.octets = Taille[c]
BY PinsAssumption DEF taille_detenue, Detenu, NonDetenu, Indeterminee

\* A policy always yields a rule (rule_for falls back on the default).
LEMMA TtlLemma ==
  ASSUME NEW p \in Connues, NEW m \in Module
  PROVE  rule_for(p, m) \in Regle
<1>1. EstPolitique(p)
  BY PinsAssumption
<1> QED
  BY <1>1 DEF EstPolitique, rule_for

\* ttl_secs is a number.
LEMMA ProduitLemma ==
  ASSUME NEW a \in Nat, NEW b \in Nat
  PROVE  a * b \in Nat
OBVIOUS

\* post_pin, up to its first await, keeps the types.
LEMMA PostPinTypeOK ==
  ASSUME TypeOK, NEW r \in Requete, NEW c \in Cid, NEW m \in Module, NEW h \in TtlHeures \cup {None},
         PostPin(r, c, m, h)
  PROVE  TypeOK'
<1> DEFINE heures == IF h = None THEN rule_for(policy, m).default_ttl_hours ELSE h
<1> DEFINE q == [cid |-> c, module |-> m, ttl_secs |-> heures * HEURE, size_bytes |-> 0,
                pinned_at |-> 0]
<1> DEFINE e == IF client THEN "pin_add" ELSE "dater"
<1>1. heures \in Nat
  BY TtlLemma, PinsAssumption DEF TypeOK, Regle
<1>2. heures * HEURE \in Nat
  BY <1>1, ProduitLemma, PinsAssumption
<1>3. q \in Requetes /\ q.cid \in Cid /\ q.module \in Module
  BY <1>2 DEF Requetes
<1>4. e \in EtatsRequete
  BY DEF EtatsRequete
<1>5. req' = [req EXCEPT ![r] = q] /\ etat' = [etat EXCEPT ![r] = e]
  BY DEF PostPin, Aller
<1> HIDE DEF q, e
<1>6. /\ etat' \in [Requete -> EtatsRequete]
      /\ req' \in [Requete -> Requetes]
      /\ \A s \in Requete :
           /\ etat'[s] # "libre" => req'[s].cid \in Cid
           /\ etat'[s] \in {"pin_add", "mesure", "dater", "upsert"} => req'[s].module \in Module
  BY <1>3, <1>4, <1>5, RequeteTypeOK
<1>7. croises' \subseteq Cid
  BY DEF PostPin, Croiser, TypeOK
<1> QED
  BY <1>6, <1>7 DEF PostPin, TypeOK, registre, kubo

\* So does the answer of pin/add.
LEMMA PostPinAddTypeOK ==
  ASSUME TypeOK, NEW r \in Requete, PostPinAdd(r)
  PROVE  TypeOK'
<1>1. req[r] \in Requetes /\ req[r].cid \in Cid /\ req[r].module \in Module
  BY DEF PostPinAdd, TypeOK
<1>2. kuboPins' \subseteq Cid /\ UNCHANGED <<kuboVivant, local, vus>>
  BY <1>1, KuboLemma DEF PostPinAdd
<1>3. croises' \subseteq Cid
  BY <1>2 DEF PostPinAdd, Croiser, TypeOK
<1>4. /\ etat' \in [Requete -> EtatsRequete]
      /\ req' \in [Requete -> Requetes]
      /\ \A s \in Requete :
           /\ etat'[s] # "libre" => req'[s].cid \in Cid
           /\ etat'[s] \in {"pin_add", "mesure", "dater", "upsert"} => req'[s].module \in Module
  <2>1. CASE Finir(r)
    BY <2>1, FinirLemma
  <2>2. CASE Aller(r, "mesure") /\ UNCHANGED req
    <3>1. req' = [req EXCEPT ![r] = req[r]] /\ "mesure" \in EtatsRequete
      BY <2>2 DEF TypeOK, EtatsRequete
    <3> QED
      BY <1>1, <2>2, <3>1, RequeteTypeOK DEF Aller
  <2> QED
    BY <2>1, <2>2 DEF PostPinAdd
<1> QED
  BY <1>2, <1>3, <1>4 DEF PostPinAdd, TypeOK, registre

\* So does the answer of files/stat.
LEMMA PostMesureTypeOK ==
  ASSUME TypeOK, NEW r \in Requete, PostMesure(r)
  PROVE  TypeOK'
<1>1. req[r] \in Requetes /\ req[r].cid \in Cid /\ req[r].module \in Module
  BY DEF PostMesure, TypeOK
<1>2. PICK m \in taille_detenue(req[r].cid) : req' = [req EXCEPT ![r].size_bytes = m.octets]
  BY DEF PostMesure
<1> DEFINE q == [req[r] EXCEPT !.size_bytes = m.octets]
<1>3. m.octets \in Nat
  BY <1>1, MesureLemma
<1>4. q \in Requetes /\ q.cid \in Cid /\ q.module \in Module
  BY <1>1, <1>3 DEF Requetes
<1>5. req' = [req EXCEPT ![r] = q]
  BY <1>2 DEF TypeOK
<1>6. etat' = [etat EXCEPT ![r] = "dater"] /\ "dater" \in EtatsRequete
  BY DEF PostMesure, Aller, EtatsRequete
<1> HIDE DEF q
<1>7. /\ etat' \in [Requete -> EtatsRequete]
      /\ req' \in [Requete -> Requetes]
      /\ \A s \in Requete :
           /\ etat'[s] # "libre" => req'[s].cid \in Cid
           /\ etat'[s] \in {"pin_add", "mesure", "dater", "upsert"} => req'[s].module \in Module
  BY <1>4, <1>5, <1>6, RequeteTypeOK
<1> QED
  BY <1>7 DEF PostMesure, TypeOK, registre, kubo

\* So does the reading of the clock.
LEMMA PostDaterTypeOK ==
  ASSUME TypeOK, NEW r \in Requete, PostDater(r)
  PROVE  TypeOK'
<1>1. req[r] \in Requetes /\ req[r].cid \in Cid /\ req[r].module \in Module /\ now \in Nat
  BY DEF PostDater, TypeOK
<1> DEFINE q == [req[r] EXCEPT !.pinned_at = now]
<1>2. q \in Requetes /\ q.cid \in Cid /\ q.module \in Module
  BY <1>1 DEF Requetes
<1>3. req' = [req EXCEPT ![r] = q]
  BY DEF PostDater, TypeOK
<1>4. etat' = [etat EXCEPT ![r] = "upsert"] /\ "upsert" \in EtatsRequete
  BY DEF PostDater, Aller, EtatsRequete
<1> HIDE DEF q
<1>5. /\ etat' \in [Requete -> EtatsRequete]
      /\ req' \in [Requete -> Requetes]
      /\ \A s \in Requete :
           /\ etat'[s] # "libre" => req'[s].cid \in Cid
           /\ etat'[s] \in {"pin_add", "mesure", "dater", "upsert"} => req'[s].module \in Module
  BY <1>2, <1>3, <1>4, RequeteTypeOK
<1> QED
  BY <1>5 DEF PostDater, TypeOK, registre, kubo

\* The record that post_pin writes is well formed.
LEMMA EnregistrementLemma ==
  ASSUME TypeOK, NEW r \in Requete, etat[r] = "upsert"
  PROVE  /\ req[r].cid \in Cid
         /\ [module |-> req[r].module, pinned_at |-> req[r].pinned_at, ttl_secs |-> req[r].ttl_secs,
             size_bytes |-> req[r].size_bytes] \in PinRecord
<1>1. req[r] \in Requetes /\ req[r].cid \in Cid /\ req[r].module \in Module
  BY DEF TypeOK
<1> QED
  BY <1>1 DEF Requetes, PinRecord

\* So does the record post_pin writes.
LEMMA PostUpsertTypeOK ==
  ASSUME TypeOK, NEW r \in Requete, PostUpsert(r)
  PROVE  TypeOK'
<1> DEFINE rec == [module |-> req[r].module, pinned_at |-> req[r].pinned_at, ttl_secs |-> req[r].ttl_secs,
                   size_bytes |-> req[r].size_bytes]
<1>1. req[r].cid \in Cid /\ rec \in PinRecord
  BY EnregistrementLemma DEF PostUpsert
<1>2. upsert(req[r].cid, rec) /\ Finir(r)
  BY DEF PostUpsert
<1> HIDE DEF rec
<1>3. /\ pins' \in Registre /\ pinsFile' \in Registre \cup {Illisible}
      /\ ecrit' \in BOOLEAN /\ ordre' \in Ordres /\ UNCHANGED <<policy, policyFile>>
      /\ neufs' \subseteq Cid
  BY <1>1, <1>2, UpsertLemma DEF TypeOK
<1> QED
  BY <1>2, <1>3, FinirLemma DEF PostUpsert, TypeOK, kubo

\* delete_pin, up to its await, keeps the types.
LEMMA DeletePinTypeOK ==
  ASSUME TypeOK, NEW r \in Requete, NEW c \in Cid, DeletePin(r, c)
  PROVE  TypeOK'
<1> DEFINE q == [SansRequete EXCEPT !.cid = c]
<1> DEFINE e == IF client THEN "pin_rm" ELSE "remove"
<1>1. q \in Requetes /\ q.cid \in Cid
  BY DEF Requetes, SansRequete
<1>2. e \in EtatsRequete /\ e \notin {"pin_add", "mesure", "dater", "upsert"}
  BY DEF EtatsRequete
<1>3. req' = [req EXCEPT ![r] = q] /\ etat' = [etat EXCEPT ![r] = e]
  BY DEF DeletePin, Aller
<1> HIDE DEF q, e
<1>4. /\ etat' \in [Requete -> EtatsRequete]
      /\ req' \in [Requete -> Requetes]
      /\ \A s \in Requete :
           /\ etat'[s] # "libre" => req'[s].cid \in Cid
           /\ etat'[s] \in {"pin_add", "mesure", "dater", "upsert"} => req'[s].module \in Module
  BY <1>1, <1>2, <1>3, RequeteTypeOK
<1>5. croises' \subseteq Cid
  BY DEF DeletePin, Croiser, TypeOK
<1> QED
  BY <1>4, <1>5 DEF DeletePin, TypeOK, registre, kubo

\* So does the answer of pin/rm.
LEMMA DeletePinRmTypeOK ==
  ASSUME TypeOK, NEW r \in Requete, DeletePinRm(r)
  PROVE  TypeOK'
<1>1. req[r] \in Requetes /\ req[r].cid \in Cid
  BY DEF DeletePinRm, TypeOK
<1>2. kuboPins' \subseteq Cid /\ UNCHANGED <<kuboVivant, local, vus>>
  BY <1>1, KuboLemma DEF DeletePinRm
<1>3. croises' \subseteq Cid
  BY <1>1 DEF DeletePinRm, Croiser, TypeOK
<1>4. req' = [req EXCEPT ![r] = req[r]] /\ "remove" \in EtatsRequete
  BY DEF DeletePinRm, TypeOK, EtatsRequete
<1>5. /\ etat' \in [Requete -> EtatsRequete]
      /\ req' \in [Requete -> Requetes]
      /\ \A s \in Requete :
           /\ etat'[s] # "libre" => req'[s].cid \in Cid
           /\ etat'[s] \in {"pin_add", "mesure", "dater", "upsert"} => req'[s].module \in Module
  BY <1>1, <1>4, RequeteTypeOK DEF DeletePinRm, Aller
<1> QED
  BY <1>2, <1>3, <1>5 DEF DeletePinRm, TypeOK, registre

\* So does the removal of the record.
LEMMA DeleteRemoveTypeOK ==
  ASSUME TypeOK, Durable, NEW r \in Requete, DeleteRemove(r)
  PROVE  TypeOK'
<1>1. req[r].cid \in Cid /\ remove(req[r].cid) /\ Finir(r)
  BY DEF DeleteRemove, TypeOK
<1>2. /\ pins' \in Registre /\ pinsFile' \in Registre \cup {Illisible}
      /\ ecrit' \in BOOLEAN /\ UNCHANGED <<policy, policyFile, ordre, neufs>>
  BY <1>1, RemoveLemma
<1> QED
  BY <1>1, <1>2, FinirLemma DEF DeleteRemove, TypeOK, kubo

\* Every step of the janitor keeps the types.
LEMMA JanitorTypeOK ==
  ASSUME TypeOK, Durable, ResumeExact, Janitor
  PROVE  TypeOK'
<1> USE DEF Janitors
<1>0. CASE JanitorHeure
  <2>1. jan' \in Janitors /\ jan'.etat = "scan"
    BY <1>0 DEF JanitorHeure, TypeOK
  <2> QED
    BY <1>0, <2>1 DEF JanitorHeure, TypeOK, registre, kubo
<1>1. CASE JanitorScan
  <2>1. jan' \in Janitors /\ jan'.etat = "purge"
    BY <1>1 DEF JanitorScan, TypeOK, expired_cids
  <2>2. croises' \subseteq Cid
    BY <1>1 DEF JanitorScan, TypeOK, expired_cids, Croiser
  <2> QED
    BY <1>1, <2>1, <2>2 DEF JanitorScan, TypeOK, registre, kubo
<1>2. ASSUME NEW c \in Cid, JanitorPinRm(c)
      PROVE  TypeOK'
  <2>1. kuboPins' \subseteq Cid /\ UNCHANGED <<kuboVivant, local, vus>>
    BY <1>2, KuboLemma DEF JanitorPinRm
  <2>2. jan' \in Janitors /\ (jan'.etat = "retire" => jan'.cible \in Cid)
    <3>1. jan \in Janitors /\ jan.etat = "purge"
      BY <1>2 DEF JanitorPinRm, TypeOK
    <3>2. \/ jan' = [jan EXCEPT !.etat = "retire", !.cible = c, !.file = @ \ {c}]
          \/ jan' = [jan EXCEPT !.file = @ \ {c}]
      BY <1>2 DEF JanitorPinRm
    <3> QED  BY <3>1, <3>2
  <2>3. croises' \subseteq Cid
    BY <1>2 DEF JanitorPinRm, TypeOK, Croiser
  <2> QED
    BY <1>2, <2>1, <2>2, <2>3 DEF JanitorPinRm, TypeOK, registre
<1>3. CASE JanitorRemove
  <2>1. jan.cible \in Cid /\ remove(jan.cible)
    BY <1>3 DEF JanitorRemove, TypeOK
  <2>2. /\ pins' \in Registre /\ pinsFile' \in Registre \cup {Illisible}
        /\ ecrit' \in BOOLEAN /\ UNCHANGED <<policy, policyFile, ordre, neufs>>
    BY <2>1, RemoveLemma
  <2>3. jan' \in Janitors /\ jan'.etat = "purge"
    BY <1>3 DEF JanitorRemove, TypeOK
  <2> QED
    BY <1>3, <2>2, <2>3 DEF JanitorRemove, TypeOK, kubo
<1>4. ASSUME NEW c \in Cid, JanitorRemoveSansKubo(c)
      PROVE  TypeOK'
  <2>1. /\ pins' \in Registre /\ pinsFile' \in Registre \cup {Illisible}
        /\ ecrit' \in BOOLEAN /\ UNCHANGED <<policy, policyFile, ordre, neufs>>
    BY <1>4, RemoveLemma DEF JanitorRemoveSansKubo
  <2>2. jan' \in Janitors /\ jan'.etat = "purge"
    BY <1>4 DEF JanitorRemoveSansKubo, TypeOK
  <2>3. croises' \subseteq Cid
    BY <1>4 DEF JanitorRemoveSansKubo, TypeOK, Croiser
  <2> QED
    BY <1>4, <2>1, <2>2, <2>3 DEF JanitorRemoveSansKubo, TypeOK, kubo
<1>5. CASE JanitorListe
  <2>1. Premiers(SansTaille) \subseteq Cid
    BY DEF Premiers, SansTaille
  <2>2. jan' \in Janitors /\ jan'.etat \in {"dort", "mesure"}
    <3>1. JanitorDort \in Janitors /\ JanitorDort.etat = "dort"
      BY DEF JanitorDort
    <3>2. ASSUME NEW S \in SUBSET Cid
          PROVE  LET j == [JanitorDort EXCEPT !.etat = "mesure", !.a_mesurer = S]
                 IN  j \in Janitors /\ j.etat = "mesure"
      BY DEF JanitorDort
    <3> HIDE DEF Janitors
    <3> QED
      BY <1>5, <2>1, <3>1, <3>2 DEF JanitorListe
  <2> QED
    BY <1>5, <2>2 DEF JanitorListe, TypeOK, kubo
<1>6. ASSUME NEW c \in Cid, JanitorMesure(c)
      PROVE  TypeOK'
  <2>1. jan' \in Janitors /\ jan'.etat = "mesure"
    <3>1. PICK m \in taille_detenue(c) :
            jan' = [jan EXCEPT !.a_mesurer = @ \ {c},
                               !.trouves = IF m.octets > 0 THEN @ \cup {c} ELSE @]
      BY <1>6 DEF JanitorMesure
    <3>2. jan \in Janitors /\ jan.etat = "mesure"
      BY <1>6 DEF JanitorMesure, TypeOK
    <3>3. CASE m.octets > 0
      BY <3>1, <3>2, <3>3
    <3>4. CASE ~(m.octets > 0)
      BY <3>1, <3>2, <3>4
    <3> QED
      BY <3>3, <3>4
  <2> QED
    BY <1>6, <2>1 DEF JanitorMesure, TypeOK, registre, kubo
<1>7. CASE JanitorMaj
  <2>1. jan.trouves \in SUBSET Cid /\ maj_tailles(jan.trouves)
    BY <1>7 DEF JanitorMaj, TypeOK
  <2>2. /\ pins' \in Registre /\ pinsFile' \in Registre \cup {Illisible}
        /\ ecrit' \in BOOLEAN /\ UNCHANGED <<policy, policyFile, ordre, neufs>>
    BY <2>1, MajLemma
  <2>3. jan' \in Janitors /\ jan'.etat = "dort"
    BY <1>7 DEF JanitorMaj, JanitorDort
  <2> QED
    BY <1>7, <2>2, <2>3 DEF JanitorMaj, TypeOK, kubo
<1> QED
  BY <1>0, <1>1, <1>2, <1>3, <1>4, <1>5, <1>6, <1>7 DEF Janitor

\* A restart keeps the types: what the files hold is a policy and a table.
LEMMA RelancerTypeOK ==
  ASSUME TypeOK, Relancer
  PROVE  TypeOK'
<1>1. pins' \in Registre /\ policy' \in Connues
  BY ChargerLemma, PinsAssumption DEF Relancer, Charger, TypeOK, ChargerPolicy, Connues
<1>2. SansRequete \in Requetes /\ JanitorDort \in Janitors /\ JanitorDort.etat = "dort"
  BY DEF SansRequete, Requetes, JanitorDort, Janitors
<1>3. croises' \subseteq Cid
  BY DEF Relancer, Croiser, TypeOK
<1>4. client' \in BOOLEAN /\ kuboVivant' \in BOOLEAN
  BY PinsAssumption DEF Relancer
<1>5. relances' \in Nat
  BY DEF Relancer, TypeOK
<1> QED
  BY <1>1, <1>2, <1>3, <1>4, <1>5 DEF Relancer, Charger, TypeOK, EtatsRequete

\* Events outside the companion keep the types.
LEMMA MondeTypeOK ==
  ASSUME TypeOK,
         \/ \E c \in Cid : OctetsArrivent(c)
         \/ GcKubo \/ KuboMeurt \/ Tick
         \/ \E p \in Politiques : PutPolicy(p)
  PROVE  TypeOK'
<1>1. ASSUME NEW c \in Cid, OctetsArrivent(c) PROVE TypeOK'
  BY <1>1 DEF OctetsArrivent, TypeOK, registre, taches
<1>2. CASE GcKubo
  BY <1>2 DEF GcKubo, TypeOK, registre, taches
<1>3. CASE KuboMeurt
  BY <1>3 DEF KuboMeurt, TypeOK, registre, taches
<1>4. CASE Tick
  BY <1>4 DEF Tick, TypeOK, registre, taches, kubo
<1>5. ASSUME NEW p \in Politiques, PutPolicy(p) PROVE TypeOK'
  <2>1. p \in Connues
    BY DEF Connues
  <2>2. policyFile' \in Connues \cup {Illisible}
    BY <1>5, <2>1, EcrirePolicyLemma DEF PutPolicy, TypeOK
  <2> QED
    BY <1>5, <2>1, <2>2 DEF PutPolicy, TypeOK, kubo, taches
<1> QED
  BY <1>1, <1>2, <1>3, <1>4, <1>5

-----------------------------------------------------------------------------
(* The registry: types, summary and file form one inductive invariant. The   *)
(* file is needed for the types (a reload must give a table), the types for  *)
(* the other two.                                                            *)

RegistreInv == TypeOK /\ ResumeExact /\ Durable

\* A fresh installation satisfies it: no file reads as an empty table.
LEMMA InitRegistre == Init => RegistreInv
<1> SUFFICES ASSUME Init PROVE ResumeExact /\ Durable
  BY InitTypeOK DEF RegistreInv
<1> QED
  BY DEF Init, ResumeExact, Durable, ChargerPins

\* Every step keeps it.
LEMMA RegistreStep ==
  ASSUME RegistreInv, [Next]_vars
  PROVE  RegistreInv'
<1> USE DEF RegistreInv
<1>1. CASE UNCHANGED registre
  <2>1. ResumeExact' /\ Durable'
    BY <1>1 DEF registre, ResumeExact, Durable
  <2>2. TypeOK'
    <3>1. ASSUME NEW r \in Requete, Recevoir(r) PROVE TypeOK'
      BY <3>1, PostPinTypeOK, DeletePinTypeOK DEF Recevoir
    <3>2. ASSUME NEW r \in Requete, Traiter(r) PROVE TypeOK'
      BY <3>2, PostPinAddTypeOK, PostMesureTypeOK, PostDaterTypeOK, PostUpsertTypeOK, DeletePinRmTypeOK,
         DeleteRemoveTypeOK DEF Traiter
    <3>3. CASE UNCHANGED vars
      BY <3>3 DEF vars, TypeOK, registre, kubo, taches
    <3> QED
      BY <3>1, <3>2, <3>3, JanitorTypeOK, RelancerTypeOK, MondeTypeOK DEF Next
  <2> QED BY <2>1, <2>2
<1>2. ASSUME NEW r \in Requete, PostUpsert(r) PROVE RegistreInv'
  <2> DEFINE rec == [module |-> req[r].module, pinned_at |-> req[r].pinned_at,
                     ttl_secs |-> req[r].ttl_secs, size_bytes |-> req[r].size_bytes]
  <2>1. req[r].cid \in Cid /\ rec \in PinRecord
    BY <1>2, EnregistrementLemma DEF PostUpsert
  <2>2. upsert(req[r].cid, rec)
    BY <1>2 DEF PostUpsert
  <2> HIDE DEF rec
  <2>3. ResumeExact' /\ Durable'
    BY <2>1, <2>2, UpsertLemma
  <2> QED BY <1>2, <2>3, PostUpsertTypeOK
<1>3. ASSUME NEW r \in Requete, DeleteRemove(r) PROVE RegistreInv'
  <2>1. req[r].cid \in Cid /\ remove(req[r].cid)
    BY <1>3 DEF DeleteRemove, TypeOK
  <2> QED BY <1>3, <2>1, RemoveLemma, DeleteRemoveTypeOK
<1>4. CASE JanitorRemove
  <2>1. jan.cible \in Cid /\ remove(jan.cible)
    BY <1>4 DEF JanitorRemove, TypeOK
  <2> QED BY <1>4, <2>1, RemoveLemma, JanitorTypeOK DEF Janitor
<1>5. ASSUME NEW c \in Cid, JanitorRemoveSansKubo(c) PROVE RegistreInv'
  <2>1. remove(c)
    BY <1>5 DEF JanitorRemoveSansKubo
  <2> QED BY <1>5, <2>1, RemoveLemma, JanitorTypeOK DEF Janitor
<1>6. CASE JanitorMaj
  <2>1. jan.trouves \in SUBSET Cid /\ maj_tailles(jan.trouves)
    BY <1>6 DEF JanitorMaj, TypeOK, Janitors
  <2> QED BY <1>6, <2>1, MajLemma, JanitorTypeOK DEF Janitor
<1>7. CASE Relancer
  <2>1. ResumeExact'
    BY <1>7 DEF Relancer, Charger, ResumeExact
  <2>2. Durable'
    BY <1>7 DEF Relancer, Charger, Durable
  <2> QED BY <1>7, <2>1, <2>2, RelancerTypeOK
<1>8. ASSUME NEW p \in Politiques, PutPolicy(p) PROVE RegistreInv'
  <2>1. ResumeExact' /\ Durable'
    BY <1>8 DEF PutPolicy, ResumeExact, Durable
  <2> QED BY <1>8, <2>1, MondeTypeOK
<1>9. CASE JanitorListe
  <2>1. ResumeExact' /\ Durable'
    BY <1>9 DEF JanitorListe, ResumeExact, Durable
  <2> QED BY <1>9, <2>1, JanitorTypeOK DEF Janitor
<1>10. \/ UNCHANGED registre
       \/ \E r \in Requete : PostUpsert(r) \/ DeleteRemove(r)
       \/ JanitorRemove \/ \E c \in Cid : JanitorRemoveSansKubo(c)
       \/ JanitorListe \/ JanitorMaj \/ Relancer \/ \E p \in Politiques : PutPolicy(p)
  BY DEF Next, vars, Recevoir, Traiter, Janitor, PostPin, PostPinAdd, PostMesure, PostDater, DeletePin,
         DeletePinRm, JanitorHeure, JanitorScan, JanitorPinRm, JanitorMesure,
         OctetsArrivent, GcKubo, KuboMeurt, Tick
<1> QED
  BY <1>1, <1>2, <1>3, <1>4, <1>5, <1>6, <1>7, <1>8, <1>9, <1>10

\* Whatever handlers, janitor, kubo, the disk and restarts do, the types, the
\* exact summary and the agreement of pins.json with the table hold.
LEMMA RegistreTheorem == Spec => []RegistreInv
BY InitRegistre, RegistreStep, PTL DEF Spec

\* The state of the pin service is always well typed.
THEOREM TypeCorrect == Spec => []TypeOK
<1>1. RegistreInv => TypeOK
  BY DEF RegistreInv
<1> QED BY <1>1, RegistreTheorem, PTL

\* The summary of PinTracker never drifts from its table.
THEOREM ResumeCorrect == Spec => []ResumeExact
<1>1. RegistreInv => ResumeExact
  BY DEF RegistreInv
<1> QED BY <1>1, RegistreTheorem, PTL

\* After a successful write, pins.json reloads as the table in memory.
THEOREM DurableCorrect == Spec => []Durable
<1>1. RegistreInv => Durable
  BY DEF RegistreInv
<1> QED BY <1>1, RegistreTheorem, PTL

-----------------------------------------------------------------------------
(* The purge. PurgeJustifiee is inductive once the janitor's list is known to *)
(* be empty outside a purge: what a pass has to drop then comes from its own  *)
(* scan, and a record written since is one of `neufs`.                        *)

JanitorForme ==
  /\ jan.etat \in {"dort", "scan", "mesure"} => jan.file = {}
  /\ jan.etat # "retire" => jan.cible = None

PurgeInv == RegistreInv /\ JanitorForme /\ PurgeJustifiee

\* A step that takes nothing new into the purge, forgets no content written
\* since, and changes no date or TTL but of records it drops or of such
\* contents, keeps the purge justified.
LEMMA PurgeGardee ==
  ASSUME PurgeJustifiee, EnPurge' \cap Cid \subseteq EnPurge, neufs \subseteq neufs',
         jan'.scan = jan.scan,
         \A c \in EnPurge \cap Cid :
           \/ pins'[c] = None
           \/ c \in neufs'
           \/ /\ pins[c] # None /\ pins'[c].pinned_at = pins[c].pinned_at
              /\ pins'[c].ttl_secs = pins[c].ttl_secs
  PROVE  PurgeJustifiee'
BY DEF PurgeJustifiee, Expire

\* The same, of a step that leaves the table alone.
LEMMA PurgeIdem ==
  ASSUME PurgeJustifiee, EnPurge' \cap Cid \subseteq EnPurge, neufs \subseteq neufs',
         jan'.scan = jan.scan, pins' = pins
  PROVE  PurgeJustifiee'
BY DEF PurgeJustifiee, Expire

\* Every step keeps it.
LEMMA PurgeStep ==
  ASSUME PurgeInv, [Next]_vars
  PROVE  PurgeInv'
<1> USE DEF PurgeInv
<1>0. RegistreInv'
  BY RegistreStep
<1>t. TypeOK /\ TypeOK' /\ None \notin Cid /\ jan \in Janitors
  BY <1>0, SentinelAssumption DEF RegistreInv, TypeOK
<1>a. SUFFICES JanitorForme' /\ PurgeJustifiee'
  BY <1>0
<1>1. CASE UNCHANGED <<jan, pins, neufs>>
  <2>1. EnPurge' = EnPurge
    BY <1>1 DEF EnPurge
  <2>2. PurgeJustifiee'
    BY <1>1, <2>1, PurgeIdem
  <2> QED BY <1>1, <2>2 DEF JanitorForme
<1>2. ASSUME NEW r \in Requete, PostUpsert(r)
      PROVE  JanitorForme' /\ PurgeJustifiee'
  <2> DEFINE rec == [module |-> req[r].module, pinned_at |-> req[r].pinned_at,
                     ttl_secs |-> req[r].ttl_secs, size_bytes |-> req[r].size_bytes]
  <2>1. req[r].cid \in Cid /\ rec \in PinRecord
    BY <1>2, <1>t, EnregistrementLemma DEF PostUpsert
  <2>2. upsert(req[r].cid, rec) /\ UNCHANGED jan
    BY <1>2 DEF PostUpsert
  <2> HIDE DEF rec
  <2>3. /\ \A d \in Cid : d # req[r].cid => pins'[d] = pins[d]
        /\ neufs' = neufs \cup ({req[r].cid} \cap EnPurge)
    BY <2>1, <2>2, <1>t, UpsertLemma
  <2>4. EnPurge' = EnPurge /\ JanitorForme'
    BY <2>2 DEF EnPurge, JanitorForme
  <2>5. ASSUME NEW c \in EnPurge \cap Cid
        PROVE  \/ pins'[c] = None
               \/ c \in neufs'
               \/ /\ pins[c] # None /\ pins'[c].pinned_at = pins[c].pinned_at
                  /\ pins'[c].ttl_secs = pins[c].ttl_secs
    BY <2>3
  <2>6. PurgeJustifiee'
    BY <2>2, <2>3, <2>4, <2>5, PurgeGardee
  <2> QED BY <2>4, <2>6
<1>3. ASSUME NEW c \in Cid, remove(c), EnPurge' \cap Cid \subseteq EnPurge, jan'.scan = jan.scan
      PROVE  PurgeJustifiee'
  <2>1. /\ pins'[c] = None /\ \A d \in Cid : d # c => pins'[d] = pins[d]
        /\ neufs' = neufs
    BY <1>3, <1>t, RemoveLemma DEF RegistreInv
  <2> QED
    BY <1>3, <2>1, PurgeGardee
<1>4. ASSUME NEW r \in Requete, DeleteRemove(r)
      PROVE  JanitorForme' /\ PurgeJustifiee'
  <2>1. req[r].cid \in Cid /\ remove(req[r].cid) /\ UNCHANGED jan
    BY <1>4, <1>t DEF DeleteRemove, TypeOK
  <2>2. EnPurge' = EnPurge
    BY <2>1 DEF EnPurge
  <2> QED
    BY <1>3, <2>1, <2>2 DEF JanitorForme
<1>5. CASE JanitorRemove
  <2>1. /\ jan.cible \in Cid /\ remove(jan.cible) /\ jan.etat = "retire"
        /\ jan' = [jan EXCEPT !.etat = "purge", !.cible = None]
    BY <1>5, <1>t DEF JanitorRemove, TypeOK
  <2>2. /\ jan'.file = jan.file /\ jan'.scan = jan.scan /\ jan'.cible = None
        /\ jan'.etat = "purge"
    BY <1>t, <2>1 DEF Janitors
  <2>3. EnPurge' \cap Cid \subseteq EnPurge
    BY <1>t, <2>2 DEF EnPurge
  <2> QED
    BY <1>3, <2>1, <2>2, <2>3 DEF JanitorForme
<1>6. ASSUME NEW c \in Cid, JanitorRemoveSansKubo(c)
      PROVE  JanitorForme' /\ PurgeJustifiee'
  <2>1. /\ remove(c) /\ jan'.file = jan.file \ {c} /\ jan'.scan = jan.scan
        /\ jan'.cible = jan.cible /\ jan'.etat = "purge" /\ jan.etat = "purge"
    BY <1>6, <1>t DEF JanitorRemoveSansKubo, Janitors
  <2>2. EnPurge' \cap Cid \subseteq EnPurge
    BY <2>1 DEF EnPurge
  <2> QED
    BY <1>3, <2>1, <2>2 DEF JanitorForme
<1>7. CASE JanitorHeure
  <2>1. /\ jan'.file = jan.file /\ jan'.cible = jan.cible /\ jan'.etat = "scan"
        /\ jan.etat = "dort"
    BY <1>7, <1>t DEF JanitorHeure, Janitors
  <2> QED
    BY <1>t, <2>1 DEF JanitorForme, PurgeJustifiee, EnPurge
<1>8. CASE JanitorScan
  <2>1. /\ jan'.file = expired_cids /\ jan'.scan = jan.scan /\ jan'.cible = jan.cible
        /\ jan'.etat = "purge" /\ jan.etat = "scan" /\ UNCHANGED pins
    BY <1>8, <1>t DEF JanitorScan, Janitors, registre
  <2>2. jan.cible = None
    BY <2>1 DEF JanitorForme
  <2> QED
    BY <1>t, <2>1, <2>2 DEF JanitorForme, PurgeJustifiee, EnPurge, expired_cids, Expire
<1>9. ASSUME NEW c \in Cid, JanitorPinRm(c)
      PROVE  JanitorForme' /\ PurgeJustifiee'
  <2>1. /\ jan'.file = jan.file \ {c} /\ jan'.scan = jan.scan /\ c \in jan.file
        /\ \/ jan'.cible = c /\ jan'.etat = "retire"
           \/ jan'.cible = jan.cible /\ jan'.etat = "purge" /\ jan.etat = "purge"
        /\ UNCHANGED <<pins, neufs>>
    <3>1. jan.etat = "purge" /\ c \in jan.file /\ UNCHANGED <<pins, neufs>>
      BY <1>9 DEF JanitorPinRm, EnTete, registre
    <3>2. \/ jan' = [jan EXCEPT !.etat = "retire", !.cible = c, !.file = @ \ {c}]
          \/ jan' = [jan EXCEPT !.file = @ \ {c}]
      BY <1>9 DEF JanitorPinRm
    <3> QED BY <1>t, <3>1, <3>2 DEF Janitors
  <2>2. EnPurge' \cap Cid \subseteq EnPurge
    BY <2>1 DEF EnPurge
  <2>3. PurgeJustifiee'
    BY <2>1, <2>2, PurgeIdem
  <2> QED
    BY <2>1, <2>3 DEF JanitorForme
<1>10. CASE JanitorListe \/ JanitorMaj \/ Relancer \/ \E c \in Cid : JanitorMesure(c)
  <2>1. jan'.file = {} /\ jan'.cible = None
    <3>1. CASE JanitorListe \/ JanitorMaj \/ Relancer
      <4>1. CASE jan' = JanitorDort
        BY <4>1 DEF JanitorDort
      <4>2. CASE jan' = [JanitorDort EXCEPT !.etat = "mesure", !.a_mesurer = Premiers(SansTaille)]
        BY <4>2 DEF JanitorDort
      <4> QED
        BY <3>1, <4>1, <4>2 DEF JanitorListe, JanitorMaj, Relancer
    <3>2. ASSUME NEW c \in Cid, JanitorMesure(c)
          PROVE  jan'.file = {} /\ jan'.cible = None
      <4>1. jan'.file = jan.file /\ jan'.cible = jan.cible /\ jan.etat = "mesure"
        BY <3>2, <1>t DEF JanitorMesure, Janitors
      <4> QED BY <4>1 DEF JanitorForme
    <3> QED BY <1>10, <3>1, <3>2
  <2> QED
    BY <1>t, <2>1 DEF JanitorForme, PurgeJustifiee, EnPurge
<1>11. \/ UNCHANGED <<jan, pins, neufs>>
       \/ \E r \in Requete : PostUpsert(r) \/ DeleteRemove(r)
       \/ Janitor \/ Relancer
  BY DEF Next, vars, Recevoir, Traiter, PostPin, PostPinAdd, PostMesure, PostDater, DeletePin,
         DeletePinRm, OctetsArrivent, GcKubo, KuboMeurt, Tick, PutPolicy, registre, taches
<1> QED
  BY <1>1, <1>2, <1>4, <1>5, <1>6, <1>7, <1>8, <1>9, <1>10, <1>11 DEF Janitor

\* A record the janitor is about to drop was expired at the instant its pass
\* read, or has been written anew since the scan, wherever the readings of the
\* clock and the locks of the registry fall.
THEOREM PurgeCorrect == Spec => []PurgeJustifiee
<1>1. Init => PurgeInv
  <2>2. Init => JanitorForme /\ PurgeJustifiee
    BY SentinelAssumption DEF Init, JanitorForme, JanitorDort, PurgeJustifiee, EnPurge
  <2> QED BY <2>2, InitRegistre DEF PurgeInv
<1>2. PurgeInv => PurgeJustifiee
  BY DEF PurgeInv
<1> QED BY <1>1, <1>2, PurgeStep, PTL DEF Spec

-----------------------------------------------------------------------------
(* Held contents. A size may reach the table from a request, from the list a *)
(* janitor pass collects or from the file: each of them must be proved.      *)

Prouve(p) ==
  \A c \in Cid : p[c] # None /\ p[c].size_bytes > 0
                  => c \in vus /\ p[c].size_bytes = Taille[c]

DetenuInv ==
  /\ RegistreInv
  /\ local \subseteq vus
  /\ Prouve(pins)
  /\ pinsFile # Illisible => Prouve(pinsFile)
  /\ \A r \in Requete : req[r].size_bytes > 0
                          => req[r].cid \in vus /\ req[r].size_bytes = Taille[req[r].cid]
  /\ jan.trouves \subseteq vus

\* Every step keeps it: only OctetsArrivent grows the set of contents seen,
\* only a measure of kubo produces a size, and the rest moves sizes around.
LEMMA DetenuStep ==
  ASSUME DetenuInv, [Next]_vars
  PROVE  DetenuInv'
<1> USE DEF DetenuInv
<1>0. RegistreInv'
  BY RegistreStep
<1>t. TypeOK /\ TypeOK'
  BY <1>0 DEF RegistreInv
<1>v. vus \subseteq vus'
  BY <1>t DEF Next, vars, Recevoir, Traiter, PostPin, PostPinAdd, PostMesure, PostDater, PostUpsert,
     DeletePin, DeletePinRm, DeleteRemove, Janitor, JanitorHeure, JanitorScan, JanitorPinRm, JanitorRemove,
     JanitorRemoveSansKubo, JanitorListe, JanitorMesure, JanitorMaj, OctetsArrivent, GcKubo,
     KuboMeurt, Tick, PutPolicy, Relancer, kubo, pin_add, pin_rm
<1>l. local' \subseteq vus'
  BY <1>t, <1>v DEF Next, vars, Recevoir, Traiter, PostPin, PostPinAdd, PostMesure, PostDater, PostUpsert,
     DeletePin, DeletePinRm, DeleteRemove, Janitor, JanitorHeure, JanitorScan, JanitorPinRm, JanitorRemove,
     JanitorRemoveSansKubo, JanitorListe, JanitorMesure, JanitorMaj, OctetsArrivent, GcKubo,
     KuboMeurt, Tick, PutPolicy, Relancer, kubo, pin_add, pin_rm
<1>r. \A r \in Requete : req'[r].size_bytes > 0
                         => req'[r].cid \in vus' /\ req'[r].size_bytes = Taille[req'[r].cid]
  <2>0. \A r \in Requete : req[r] \in Requetes
    BY <1>t DEF TypeOK
  <2>1. ASSUME NEW s \in Requete, NEW q, req' = [req EXCEPT ![s] = q],
               q.size_bytes > 0 => q.cid \in vus' /\ q.size_bytes = Taille[q.cid]
        PROVE  \A r \in Requete : req'[r].size_bytes > 0
                         => req'[r].cid \in vus' /\ req'[r].size_bytes = Taille[req'[r].cid]
    BY <1>t, <1>v, <2>1 DEF TypeOK
  <2>2. CASE UNCHANGED req
    BY <1>v, <2>2
  <2>3. ASSUME NEW s \in Requete, NEW c \in Cid, NEW m \in Module,
               NEW h \in TtlHeures \cup {None}, PostPin(s, c, m, h)
        PROVE  <1>r
    <3>1. PICK n : req' = [req EXCEPT ![s] = [cid |-> c, module |-> m, ttl_secs |-> n,
                                              size_bytes |-> 0, pinned_at |-> 0]]
      BY <2>3 DEF PostPin
    <3>2. ~([cid |-> c, module |-> m, ttl_secs |-> n, size_bytes |-> 0,
             pinned_at |-> 0].size_bytes > 0)
      OBVIOUS
    <3> QED BY <2>1, <3>1, <3>2
  <2>4. ASSUME NEW s \in Requete, NEW c \in Cid, DeletePin(s, c)
        PROVE  <1>r
    <3>1. ~([SansRequete EXCEPT !.cid = c].size_bytes > 0)
      BY DEF SansRequete
    <3> QED BY <2>1, <2>4, <3>1 DEF DeletePin
  <2>5. ASSUME NEW s \in Requete, Finir(s)
        PROVE  <1>r
    <3>1. ~(SansRequete.size_bytes > 0)
      BY DEF SansRequete
    <3> QED BY <2>1, <2>5, <3>1 DEF Finir
  <2>6. ASSUME NEW s \in Requete, PostMesure(s)
        PROVE  <1>r
    <3>1. req[s].cid \in Cid /\ req[s] \in Requetes
      BY <2>6, <1>t DEF PostMesure, TypeOK
    <3>2. PICK m \in taille_detenue(req[s].cid) : req' = [req EXCEPT ![s].size_bytes = m.octets]
      BY <2>6 DEF PostMesure
    <3>3. m.octets \in Nat /\ (m.octets > 0 => req[s].cid \in vus /\ m.octets = Taille[req[s].cid])
      BY <3>1, <1>t, MesureLemma
    <3>4. req' = [req EXCEPT ![s] = [req[s] EXCEPT !.size_bytes = m.octets]]
      BY <3>2, <1>t DEF TypeOK
    <3>5. LET q == [req[s] EXCEPT !.size_bytes = m.octets]
          IN  q.size_bytes = m.octets /\ q.cid = req[s].cid
      BY <3>1 DEF Requetes
    <3> QED
      BY <1>v, <2>1, <3>3, <3>4, <3>5
  <2>7. ASSUME NEW s \in Requete, PostDater(s)
        PROVE  <1>r
    <3>1. req' = [req EXCEPT ![s] = [req[s] EXCEPT !.pinned_at = now]] /\ req[s] \in Requetes
      BY <2>7, <1>t DEF PostDater, TypeOK
    <3>2. LET q == [req[s] EXCEPT !.pinned_at = now]
          IN  q.size_bytes = req[s].size_bytes /\ q.cid = req[s].cid
      BY <3>1 DEF Requetes
    <3> QED
      BY <1>v, <2>1, <3>1, <3>2
  <2>8. CASE Relancer
    BY <2>8 DEF Relancer, SansRequete
  <2>9. \/ UNCHANGED req \/ Relancer
        \/ \E s \in Requete : Finir(s) \/ PostMesure(s) \/ PostDater(s)
        \/ \E s \in Requete, c \in Cid : DeletePin(s, c)
        \/ \E s \in Requete, c \in Cid, m \in Module, h \in TtlHeures \cup {None} :
              PostPin(s, c, m, h)
    BY DEF Next, vars, Recevoir, Traiter, PostPinAdd, PostUpsert, DeletePinRm, DeleteRemove,
       Janitor, JanitorHeure, JanitorScan, JanitorPinRm, JanitorRemove, JanitorRemoveSansKubo, JanitorListe,
       JanitorMesure, JanitorMaj, OctetsArrivent, GcKubo, KuboMeurt, Tick, PutPolicy, taches
  <2> QED
    BY <2>2, <2>3, <2>4, <2>5, <2>6, <2>7, <2>8, <2>9
<1>j. jan'.trouves \subseteq vus'
  <2>1. CASE UNCHANGED jan
    BY <2>1, <1>v
  <2>2. CASE Janitor
    <3>1. ASSUME NEW c \in Cid, JanitorMesure(c) PROVE jan'.trouves \subseteq vus'
      <4>1. PICK m \in taille_detenue(c) :
              jan' = [jan EXCEPT !.a_mesurer = @ \ {c},
                                 !.trouves = IF m.octets > 0 THEN @ \cup {c} ELSE @]
        BY <3>1 DEF JanitorMesure
      <4>2. jan'.trouves = IF m.octets > 0 THEN jan.trouves \cup {c} ELSE jan.trouves
        BY <4>1, <1>t DEF TypeOK, Janitors
      <4>3. m.octets > 0 => c \in vus
        BY <1>t, MesureLemma
      <4> QED BY <1>v, <4>2, <4>3
    <3>2. CASE JanitorListe \/ JanitorMaj
      <4>1. \A S : [JanitorDort EXCEPT !.etat = "mesure", !.a_mesurer = S].trouves = {}
        BY DEF JanitorDort
      <4>2. JanitorDort.trouves = {}
        BY DEF JanitorDort
      <4> QED BY <3>2, <4>1, <4>2 DEF JanitorListe, JanitorMaj
    <3>3. CASE JanitorHeure \/ JanitorScan \/ JanitorRemove \/ \E c \in Cid : JanitorPinRm(c) \/ JanitorRemoveSansKubo(c)
      <4>1. jan'.trouves = jan.trouves
        BY <3>3, <1>t DEF JanitorHeure, JanitorScan, JanitorRemove, JanitorPinRm, JanitorRemoveSansKubo,
           TypeOK, Janitors
      <4> QED BY <4>1, <1>v
    <3> QED BY <2>2, <3>1, <3>2, <3>3 DEF Janitor
  <2>3. CASE Relancer
    BY <2>3 DEF Relancer, JanitorDort
  <2>4. UNCHANGED jan \/ Janitor \/ Relancer
    BY DEF Next, vars, Recevoir, Traiter, PostPin, PostPinAdd, PostMesure, PostDater, PostUpsert,
       DeletePin, DeletePinRm, DeleteRemove, OctetsArrivent, GcKubo, KuboMeurt, Tick,
       PutPolicy, taches
  <2> QED BY <2>1, <2>2, <2>3, <2>4
<1>p. Prouve(pins)' /\ (pinsFile' # Illisible => Prouve(pinsFile)')
  <2>0. \A c \in Cid : Taille[c] \in Nat
    BY PinsAssumption
  <2>1. ASSUME pinsFile' \in {pins', pinsFile, Illisible}, Prouve(pins)'
        PROVE  <1>p
    BY <1>v, <2>1 DEF Prouve
  <2>2. CASE UNCHANGED <<pins, pinsFile>>
    BY <1>v, <2>2 DEF Prouve
  <2>3. ASSUME NEW r \in Requete, PostUpsert(r) PROVE <1>p
    <3> DEFINE rec == [module |-> req[r].module, pinned_at |-> req[r].pinned_at,
                       ttl_secs |-> req[r].ttl_secs, size_bytes |-> req[r].size_bytes]
    <3>1. req[r].cid \in Cid /\ rec \in PinRecord /\ rec.size_bytes = req[r].size_bytes
      BY <2>3, <1>t, EnregistrementLemma DEF PostUpsert
    <3>2. upsert(req[r].cid, rec)
      BY <2>3 DEF PostUpsert
    <3> HIDE DEF rec
    <3>3. /\ pins'[req[r].cid] = rec /\ \A d \in Cid : d # req[r].cid => pins'[d] = pins[d]
          /\ pinsFile' \in {pins', pinsFile, Illisible}
      BY <3>1, <3>2, <1>t, UpsertLemma
    <3>4. Prouve(pins)'
      BY <1>v, <3>1, <3>3 DEF Prouve
    <3> QED BY <2>1, <3>3, <3>4
  <2>4. ASSUME NEW c \in Cid, remove(c) PROVE <1>p
    <3>1. /\ pins'[c] = None /\ \A d \in Cid : d # c => pins'[d] = pins[d]
          /\ pinsFile' \in {pins', pinsFile, Illisible}
      BY <2>4, <1>t, RemoveLemma DEF RegistreInv
    <3>2. Prouve(pins)'
      BY <1>v, <3>1 DEF Prouve
    <3> QED BY <2>1, <3>1, <3>2
  <2>5. CASE JanitorMaj
    <3>1. jan.trouves \in SUBSET Cid /\ maj_tailles(jan.trouves)
      BY <2>5, <1>t DEF JanitorMaj, TypeOK, Janitors
    <3>2. /\ \A c \in Cid : \/ pins'[c] = pins[c]
                            \/ c \in jan.trouves /\ pins'[c].size_bytes = Taille[c]
          /\ pinsFile' \in {pins', pinsFile, Illisible}
      BY <3>1, <1>t, MajLemma DEF RegistreInv
    <3>3. Prouve(pins)'
      BY <1>v, <3>2 DEF Prouve
    <3> QED BY <2>1, <3>2, <3>3
  <2>6. CASE Relancer
    <3>1. pins' = ChargerPins(pinsFile) /\ UNCHANGED <<pinsFile, vus>>
      BY <2>6 DEF Relancer, Charger
    <3> QED
      BY <3>1, <1>v DEF ChargerPins, Vide, Prouve
  <2>7. \/ UNCHANGED <<pins, pinsFile>> \/ JanitorMaj \/ Relancer
        \/ \E r \in Requete : PostUpsert(r)
        \/ \E c \in Cid : remove(c)
    BY <1>t DEF Next, vars, Recevoir, Traiter, PostPin, PostPinAdd, PostMesure, PostDater, DeletePin,
       DeletePinRm, DeleteRemove, Janitor, JanitorHeure, JanitorScan, JanitorPinRm, JanitorRemove,
       JanitorRemoveSansKubo, JanitorListe, JanitorMesure, OctetsArrivent, GcKubo,
       KuboMeurt, Tick, PutPolicy, registre, TypeOK
  <2> QED
    BY <2>2, <2>3, <2>4, <2>5, <2>6, <2>7
<1> QED
  BY <1>0, <1>l, <1>r, <1>j, <1>p

\* A content counted as held has been held by kubo, at the size recorded.
THEOREM DetenuCorrect == Spec => []DetenuProuve
<1>1. Init => DetenuInv
  <2>1. Init => /\ local \subseteq vus /\ Prouve(pins) /\ pinsFile = Illisible
                /\ jan.trouves \subseteq vus
                /\ \A r \in Requete : ~(req[r].size_bytes > 0)
    BY DEF Init, Prouve, Vide, JanitorDort, SansRequete
  <2> QED BY <2>1, InitRegistre DEF DetenuInv
<1>2. DetenuInv => DetenuProuve
  BY DEF DetenuInv, DetenuProuve, Prouve
<1> QED BY <1>1, <1>2, DetenuStep, PTL DEF Spec

-----------------------------------------------------------------------------
(* kubo and the registry. Accord speaks of contents at rest only; what makes *)
(* it inductive is where each content stands while a task is at work on it:  *)
(* one task only works on an undisturbed content, and how far it has come    *)
(* tells on which side the content may be missing.                           *)

\* A free slot carries no content.
Libres == \A r \in Requete : etat[r] = "libre" => req[r].cid = None

\* One task at most is at work on the content.
Seul(c) ==
  /\ \A r, s \in Requete : req[r].cid = c /\ req[s].cid = c => r = s
  /\ \A r \in Requete : req[r].cid = c => c \notin jan.file /\ c # jan.cible
  /\ c \in jan.file => c # jan.cible

\* Between the call to kubo and the change of the registry the content is
\* pinned, or is not; before the call and at rest kubo follows the registry.
Suit(c) ==
  /\ \A r \in Requete : req[r].cid = c =>
       /\ etat[r] \in {"mesure", "dater", "upsert"} => c \in kuboPins
       /\ etat[r] = "remove" => c \notin kuboPins
  /\ c = jan.cible => c \notin kuboPins
  /\ (\A r \in Requete : req[r].cid = c => etat[r] \in {"pin_add", "pin_rm"}) /\ c # jan.cible
       => (c \in kuboPins <=> pins[c] # None)

AccordInv == PurgeInv /\ Libres /\ \A c \in Cid \ croises : Seul(c) /\ Suit(c)

\* A step that does not work on a content leaves it where it stands.
LEMMA Ailleurs ==
  ASSUME NEW c \in Cid, Seul(c), Suit(c),
         \A r \in Requete : /\ req'[r].cid = c <=> req[r].cid = c
                            /\ req[r].cid = c => etat'[r] = etat[r],
         c \in jan'.file => c \in jan.file,
         c = jan'.cible <=> c = jan.cible,
         c \in kuboPins' <=> c \in kuboPins,
         pins'[c] # None <=> pins[c] # None
  PROVE  Seul(c)' /\ Suit(c)'
BY DEF Seul, Suit

\* A step of one slot leaves the others as they were.
LEMMA AutresSlots ==
  ASSUME TypeOK, NEW r \in Requete, NEW e, NEW q,
         etat' = [etat EXCEPT ![r] = e], req' = [req EXCEPT ![r] = q]
  PROVE  /\ etat'[r] = e /\ req'[r] = q
         /\ \A s \in Requete : s # r => etat'[s] = etat[s] /\ req'[s] = req[s]
BY DEF TypeOK

\* Arrival of a request: it works alone on an undisturbed content.
LEMMA ArriveeAccord ==
  ASSUME AccordInv, NEW r \in Requete, NEW d \in Cid, NEW e \in EtatsRequete, NEW q,
         etat[r] = "libre", q.cid = d,
         e \in {"pin_add", "pin_rm"} \/ d \in croises', e # "libre",
         etat' = [etat EXCEPT ![r] = e], req' = [req EXCEPT ![r] = q],
         croises \subseteq croises', ~Actif(d) \/ d \in croises',
         UNCHANGED <<pins, kuboPins, jan>>
  PROVE  Libres' /\ \A c \in Cid \ croises' : Seul(c)' /\ Suit(c)'
<1>1. /\ etat'[r] = e /\ req'[r] = q
      /\ \A s \in Requete : s # r => etat'[s] = etat[s] /\ req'[s] = req[s]
  BY AutresSlots DEF AccordInv, PurgeInv, RegistreInv
<1>2. Libres'
  BY <1>1 DEF AccordInv, Libres
<1>3. req[r].cid = None /\ None \notin Cid
  BY SentinelAssumption DEF AccordInv, Libres
<1>4. ASSUME NEW c \in Cid \ croises' PROVE Seul(c)' /\ Suit(c)'
  <2>1. Seul(c) /\ Suit(c)
    BY DEF AccordInv
  <2>2. CASE c # d
    BY <1>1, <1>3, <2>1, <2>2, Ailleurs
  <2>3. CASE c = d
    <3>1. ~Actif(c)
      BY <2>3
    <3> QED  BY <1>1, <2>1, <2>3, <3>1 DEF Actif, Seul, Suit
  <2> QED  BY <2>2, <2>3
<1> QED  BY <1>2, <1>4

\* A request on d that goes on to state e, or ends: d is left in accord with
\* its new state, and nothing else moves.
LEMMA SuiteAccord ==
  ASSUME AccordInv, NEW r \in Requete, NEW d \in Cid, NEW e, NEW q,
         etat[r] # "libre", req[r].cid = d,
         etat' = [etat EXCEPT ![r] = e], req' = [req EXCEPT ![r] = q],
         \/ e = "libre" /\ q = SansRequete
         \/ e \in {"mesure", "dater", "upsert", "remove"} /\ q.cid = d,
         croises \subseteq croises', UNCHANGED jan,
         \A c \in Cid : c # d => /\ c \in kuboPins' <=> c \in kuboPins
                                 /\ pins'[c] # None <=> pins[c] # None,
         d \notin croises' =>
           /\ e \in {"mesure", "dater", "upsert"} => d \in kuboPins'
           /\ e = "remove" => d \notin kuboPins'
           /\ e = "libre" => (d \in kuboPins' <=> pins'[d] # None)
  PROVE  Libres' /\ \A c \in Cid \ croises' : Seul(c)' /\ Suit(c)'
<1>1. /\ etat'[r] = e /\ req'[r] = q
      /\ \A s \in Requete : s # r => etat'[s] = etat[s] /\ req'[s] = req[s]
  BY AutresSlots DEF AccordInv, PurgeInv, RegistreInv
<1>2. SansRequete.cid = None /\ None \notin Cid
  BY SentinelAssumption DEF SansRequete
<1>3. Libres'
  BY <1>1, <1>2 DEF AccordInv, Libres
<1>4. ASSUME NEW c \in Cid \ croises' PROVE Seul(c)' /\ Suit(c)'
  <2>1. Seul(c) /\ Suit(c)
    BY DEF AccordInv
  <2>2. CASE c # d
    BY <1>1, <1>2, <2>1, <2>2, Ailleurs
  <2>3. CASE c = d
    <3>1. \A s \in Requete : s # r => req'[s].cid # c
      BY <1>1, <2>1, <2>3 DEF Seul
    <3>2. c \notin jan'.file /\ c # jan'.cible
      BY <2>1, <2>3 DEF Seul
    <3>3. Seul(c)'
      BY <3>1, <3>2 DEF Seul
    <3>4. Suit(c)'
      BY <1>1, <1>2, <2>3, <3>1, <3>2 DEF Suit
    <3> QED  BY <3>3, <3>4
  <2> QED  BY <2>2, <2>3
<1> QED  BY <1>3, <1>4

\* The same, of a request that ends.
LEMMA FinAccord ==
  ASSUME AccordInv, NEW r \in Requete, NEW d \in Cid,
         etat[r] # "libre", req[r].cid = d, Finir(r),
         croises \subseteq croises', UNCHANGED jan,
         \A c \in Cid : c # d => /\ c \in kuboPins' <=> c \in kuboPins
                                 /\ pins'[c] # None <=> pins[c] # None,
         d \notin croises' => (d \in kuboPins' <=> pins'[d] # None)
  PROVE  Libres' /\ \A c \in Cid \ croises' : Seul(c)' /\ Suit(c)'
<1>1. etat' = [etat EXCEPT ![r] = "libre"] /\ req' = [req EXCEPT ![r] = SansRequete]
  BY DEF Finir, Aller
<1> QED  BY <1>1, SuiteAccord

\* The same, of a request that goes on as it is.
LEMMA AvanceAccord ==
  ASSUME AccordInv, NEW r \in Requete, NEW d \in Cid, NEW e \in {"mesure", "remove"},
         etat[r] # "libre", req[r].cid = d, Aller(r, e), UNCHANGED <<req, jan>>,
         croises \subseteq croises',
         \A c \in Cid : c # d => /\ c \in kuboPins' <=> c \in kuboPins
                                 /\ pins'[c] # None <=> pins[c] # None,
         d \notin croises' =>
           /\ e = "mesure" => d \in kuboPins'
           /\ e = "remove" => d \notin kuboPins'
  PROVE  Libres' /\ \A c \in Cid \ croises' : Seul(c)' /\ Suit(c)'
<1>1. etat' = [etat EXCEPT ![r] = e]
  BY DEF Aller
<1>2. req' = [req EXCEPT ![r] = req[r]]
  BY DEF AccordInv, PurgeInv, RegistreInv, TypeOK
<1> DEFINE q == req[r]
<1>3. q.cid = d /\ req' = [req EXCEPT ![r] = q]
  BY <1>2
<1>4. /\ e # "libre" /\ e # "upsert"
      /\ e \in {"mesure", "dater", "upsert"} => e = "mesure"
  OBVIOUS
<1> HIDE DEF q
<1> QED  BY <1>1, <1>3, <1>4, SuiteAccord

\* The requests keep it: arrival, answers of kubo, and the registry.
LEMMA RequetesAccord ==
  ASSUME AccordInv, NEW r \in Requete, Recevoir(r) \/ Traiter(r)
  PROVE  Libres' /\ \A c \in Cid \ croises' : Seul(c)' /\ Suit(c)'
<1> DEFINE d == req[r].cid
<1>0. TypeOK /\ Durable /\ croises \subseteq Cid
  BY DEF AccordInv, PurgeInv, RegistreInv, TypeOK
<1>1. etat[r] # "libre" => d \in Cid /\ req[r] \in Requetes
  BY <1>0 DEF TypeOK
<1>2. d \notin croises /\ d \in Cid => Seul(d) /\ Suit(d)
  BY DEF AccordInv
<1>3. ASSUME NEW c \in Cid, NEW m \in Module, NEW h \in TtlHeures \cup {None}, PostPin(r, c, m, h)
      PROVE  Libres' /\ \A x \in Cid \ croises' : Seul(x)' /\ Suit(x)'
  <2> DEFINE heures == IF h = None THEN rule_for(policy, m).default_ttl_hours ELSE h
             q == [cid |-> c, module |-> m, ttl_secs |-> heures * HEURE, size_bytes |-> 0,
                   pinned_at |-> 0]
             e == IF client THEN "pin_add" ELSE "dater"
  <2>1. /\ etat[r] = "libre" /\ req' = [req EXCEPT ![r] = q] /\ etat' = [etat EXCEPT ![r] = e]
        /\ UNCHANGED <<pins, kuboPins, jan>>
    BY <1>3 DEF PostPin, Aller, registre, kubo
  <2>2. croises \subseteq croises' /\ (~Actif(c) \/ c \in croises') /\ (client \/ c \in croises')
    BY <1>3 DEF PostPin, Croiser
  <2>3. q.cid = c /\ e \in EtatsRequete /\ e # "libre" /\ (e \in {"pin_add", "pin_rm"} \/ c \in croises')
    BY <2>2 DEF EtatsRequete
  <2> HIDE DEF q, e
  <2> QED  BY <2>1, <2>2, <2>3, ArriveeAccord
<1>4. ASSUME NEW c \in Cid, DeletePin(r, c)
      PROVE  Libres' /\ \A x \in Cid \ croises' : Seul(x)' /\ Suit(x)'
  <2> DEFINE q == [SansRequete EXCEPT !.cid = c]
             e == IF client THEN "pin_rm" ELSE "remove"
  <2>1. /\ etat[r] = "libre" /\ req' = [req EXCEPT ![r] = q] /\ etat' = [etat EXCEPT ![r] = e]
        /\ UNCHANGED <<pins, kuboPins, jan>>
    BY <1>4 DEF DeletePin, Aller, registre, kubo
  <2>2. croises \subseteq croises' /\ (~Actif(c) \/ c \in croises') /\ (client \/ c \in croises')
    BY <1>4 DEF DeletePin, Croiser
  <2>3. q.cid = c /\ e \in EtatsRequete /\ e # "libre" /\ (e \in {"pin_add", "pin_rm"} \/ c \in croises')
    BY <2>2 DEF EtatsRequete, SansRequete
  <2> HIDE DEF q, e
  <2> QED  BY <2>1, <2>2, <2>3, ArriveeAccord
<1>5. CASE PostPinAdd(r)
  <2>1. etat[r] = "pin_add" /\ UNCHANGED <<pins, jan>> /\ d \in Cid
    BY <1>1, <1>5 DEF PostPinAdd, registre
  <2>2. CASE pin_add(d, TRUE) /\ Aller(r, "mesure") /\ UNCHANGED <<req, croises>>
    <3>1. kuboPins' = kuboPins \cup {d}
      BY <2>2 DEF pin_add
    <3>2. /\ croises \subseteq croises' /\ d \in kuboPins' /\ req[r].cid = d
          /\ \A c \in Cid : c # d => (c \in kuboPins' <=> c \in kuboPins)
                                  /\ (pins'[c] # None <=> pins[c] # None)
      BY <2>1, <2>2, <3>1
    <3> HIDE DEF d
    <3> QED  BY <2>1, <2>2, <3>2, AvanceAccord
  <2>3. CASE pin_add(d, FALSE) /\ Finir(r) /\ Croiser(kuboPins' \ kuboPins)
    <3>1. kuboPins' \in {kuboPins, kuboPins \cup {d}} /\ croises' = croises \cup (kuboPins' \ kuboPins)
      BY <2>3 DEF pin_add, Croiser
    <3>2. d \notin croises' => (d \in kuboPins' <=> pins'[d] # None)
      <4> SUFFICES ASSUME d \notin croises' PROVE d \in kuboPins' <=> pins'[d] # None
        OBVIOUS
      <4>1. d \in kuboPins' <=> d \in kuboPins
        BY <3>1
      <4>2. Seul(d) /\ Suit(d)
        BY <1>2, <2>1, <3>1
      <4> QED  BY <2>1, <4>1, <4>2 DEF Seul, Suit
    <3>3. \A c \in Cid : c # d => /\ c \in kuboPins' <=> c \in kuboPins
                                  /\ pins'[c] # None <=> pins[c] # None
      BY <2>1, <3>1
    <3> HIDE DEF d
    <3> QED  BY <2>1, <2>3, <3>1, <3>2, <3>3, FinAccord DEF d
  <2> QED  BY <1>5, <2>2, <2>3 DEF PostPinAdd
<1>6. CASE PostMesure(r)
  <2>1. /\ etat[r] = "mesure" /\ d \in Cid /\ UNCHANGED <<pins, kuboPins, jan, croises>>
        /\ etat' = [etat EXCEPT ![r] = "dater"]
    BY <1>1, <1>6 DEF PostMesure, Aller, registre, kubo
  <2>2. PICK m \in taille_detenue(d) : req' = [req EXCEPT ![r].size_bytes = m.octets]
    BY <1>6 DEF PostMesure
  <2>3. req' = [req EXCEPT ![r] = [req[r] EXCEPT !.size_bytes = m.octets]]
    BY <2>2
  <2>4. [req[r] EXCEPT !.size_bytes = m.octets].cid = d
    BY <1>1, <2>1 DEF Requetes
  <2>5. d \notin croises' => d \in kuboPins'
    BY <1>2, <2>1 DEF Suit
  <2> HIDE DEF d
  <2> QED  BY <2>1, <2>3, <2>4, <2>5, SuiteAccord DEF d
<1>7. CASE PostDater(r)
  <2>1. /\ etat[r] = "dater" /\ d \in Cid /\ UNCHANGED <<pins, kuboPins, jan, croises>>
        /\ etat' = [etat EXCEPT ![r] = "upsert"]
        /\ req' = [req EXCEPT ![r] = [req[r] EXCEPT !.pinned_at = now]]
    BY <1>1, <1>7 DEF PostDater, Aller, registre, kubo
  <2>2. [req[r] EXCEPT !.pinned_at = now].cid = d
    BY <1>1, <2>1 DEF Requetes
  <2>3. d \notin croises' => d \in kuboPins'
    BY <1>2, <2>1 DEF Suit
  <2> HIDE DEF d
  <2> QED  BY <2>1, <2>2, <2>3, SuiteAccord DEF d
<1>8. CASE PostUpsert(r)
  <2> DEFINE rec == [module |-> req[r].module, pinned_at |-> req[r].pinned_at,
                     ttl_secs |-> req[r].ttl_secs, size_bytes |-> req[r].size_bytes]
  <2>1. etat[r] = "upsert" /\ d \in Cid /\ UNCHANGED <<kuboPins, jan, croises>> /\ upsert(d, rec)
    BY <1>1, <1>8 DEF PostUpsert, kubo
  <2>2. Finir(r)
    BY <1>8 DEF PostUpsert
  <2>3. rec \in PinRecord
    BY <1>0, <2>1, EnregistrementLemma
  <2> HIDE DEF rec
  <2>4. pins'[d] = rec /\ \A c \in Cid : c # d => pins'[c] = pins[c]
    BY <1>0, <2>1, <2>3, UpsertLemma
  <2>5. pins'[d] # None
    BY <2>3, <2>4, SentinelAssumption
  <2>6. d \notin croises' => d \in kuboPins'
    BY <1>2, <2>1 DEF Suit
  <2>7. \A c \in Cid : c # d => /\ c \in kuboPins' <=> c \in kuboPins
                                /\ pins'[c] # None <=> pins[c] # None
    BY <2>1, <2>4
  <2> HIDE DEF d
  <2> QED  BY <2>1, <2>2, <2>5, <2>6, <2>7, FinAccord DEF d
<1>9. CASE DeletePinRm(r)
  <2>1. etat[r] = "pin_rm" /\ d \in Cid /\ UNCHANGED <<pins, req, jan>>
    BY <1>1, <1>9 DEF DeletePinRm, registre
  <2>2. Aller(r, "remove")
    BY <1>9 DEF DeletePinRm
  <2>3. kuboPins' \in {kuboPins, kuboPins \ {d}} /\ croises' = croises \cup ({d} \cap kuboPins')
    BY <1>9 DEF DeletePinRm, pin_rm, Croiser
  <2>4. /\ \A c \in Cid : c # d => /\ c \in kuboPins' <=> c \in kuboPins
                                   /\ pins'[c] # None <=> pins[c] # None
        /\ d \notin croises' => d \notin kuboPins'
        /\ croises \subseteq croises' /\ req[r].cid = d
    BY <2>1, <2>3
  <2> HIDE DEF d
  <2> QED  BY <2>1, <2>2, <2>4, AvanceAccord
<1>10. CASE DeleteRemove(r)
  <2>1. etat[r] = "remove" /\ d \in Cid /\ UNCHANGED <<kuboPins, jan, croises>> /\ remove(d)
    BY <1>1, <1>10 DEF DeleteRemove, kubo
  <2>2. Finir(r)
    BY <1>10 DEF DeleteRemove
  <2>3. pins'[d] = None /\ \A c \in Cid : c # d => pins'[c] = pins[c]
    BY <1>0, <2>1, RemoveLemma
  <2>4. d \notin croises' => d \notin kuboPins'
    BY <1>2, <2>1 DEF Suit
  <2>5. \A c \in Cid : c # d => /\ c \in kuboPins' <=> c \in kuboPins
                                /\ pins'[c] # None <=> pins[c] # None
    BY <2>1, <2>3
  <2> HIDE DEF d
  <2> QED  BY <2>1, <2>2, <2>3, <2>4, <2>5, FinAccord DEF d
<1> QED
  BY <1>3, <1>4, <1>5, <1>6, <1>7, <1>8, <1>9, <1>10 DEF Recevoir, Traiter

\* The janitor keeps it: it works on undisturbed contents alone, takes one at
\* a time off its list, and marks those that kubo leaves in doubt.
LEMMA JanitorAccord ==
  ASSUME AccordInv, Janitor
  PROVE  Libres' /\ \A c \in Cid \ croises' : Seul(c)' /\ Suit(c)'
<1>0. TypeOK /\ Durable /\ ResumeExact /\ jan \in Janitors /\ None \notin Cid
  BY SentinelAssumption DEF AccordInv, PurgeInv, RegistreInv, TypeOK
<1>1. JanitorForme /\ Libres /\ \A c \in Cid \ croises : Seul(c) /\ Suit(c)
  BY DEF AccordInv, PurgeInv
<1>2. UNCHANGED <<etat, req>>
  BY DEF Janitor, JanitorHeure, JanitorScan, JanitorPinRm, JanitorRemove, JanitorRemoveSansKubo, JanitorListe,
         JanitorMesure, JanitorMaj
<1>3. Libres'
  BY <1>1, <1>2 DEF Libres
<1>4. croises \subseteq croises'
  BY DEF Janitor, JanitorHeure, JanitorScan, JanitorPinRm, JanitorRemove, JanitorRemoveSansKubo, JanitorListe,
         JanitorMesure, JanitorMaj, Croiser
<1> SUFFICES ASSUME NEW c \in Cid \ croises' PROVE Seul(c)' /\ Suit(c)'
  BY <1>3
<1>5. Seul(c) /\ Suit(c)
  BY <1>1, <1>4
<1>h. CASE JanitorHeure
  <2>1. jan'.file = jan.file /\ jan'.cible = jan.cible /\ UNCHANGED <<pins, kuboPins>>
    BY <1>0, <1>h DEF JanitorHeure, Janitors, registre, kubo
  <2> QED  BY <1>2, <1>5, <2>1, Ailleurs
<1>6. CASE JanitorScan
  <2>1. /\ jan'.file = expired_cids /\ jan'.cible = jan.cible /\ jan.cible = None
        /\ UNCHANGED <<pins, kuboPins>>
    BY <1>0, <1>1, <1>6 DEF JanitorScan, Janitors, JanitorForme, registre, kubo
  <2>2. c \in jan'.file => ~Actif(c)
    BY <1>6, <2>1 DEF JanitorScan, Croiser
  <2>3. Suit(c)'
    BY <1>2, <1>5, <2>1 DEF Suit
  <2>4. Seul(c)'
    BY <1>0, <1>2, <1>5, <2>1, <2>2 DEF Seul, Actif
  <2> QED  BY <2>3, <2>4
<1>7. ASSUME NEW d \in Cid, JanitorPinRm(d) PROVE Seul(c)' /\ Suit(c)'
  <2>1. /\ jan.etat = "purge" /\ jan.cible = None /\ d \in jan.file /\ UNCHANGED pins
        /\ jan'.file = jan.file \ {d}
    BY <1>0, <1>1, <1>7 DEF JanitorPinRm, EnTete, Janitors, JanitorForme, registre
  <2>2. CASE pin_rm(d, TRUE) /\ jan'.cible = d
    <3>1. kuboPins' = kuboPins \ {d}
      BY <2>2 DEF pin_rm
    <3>2. CASE c # d
      BY <1>0, <1>2, <1>5, <2>1, <2>2, <3>1, <3>2, Ailleurs
    <3>3. CASE c = d
      <4>1. \A r \in Requete : req[r].cid # c
        BY <1>5, <2>1, <3>3 DEF Seul
      <4> QED  BY <1>2, <2>1, <2>2, <3>1, <3>3, <4>1 DEF Seul, Suit
    <3> QED  BY <3>2, <3>3
  <2>3. CASE jan'.cible = jan.cible /\ c \notin kuboPins \ kuboPins' /\ kuboPins' \subseteq kuboPins
    BY <1>2, <1>5, <2>1, <2>3, Ailleurs
  <2>4. \/ pin_rm(d, TRUE) /\ jan'.cible = d
        \/ /\ jan'.cible = jan.cible /\ kuboPins' \subseteq kuboPins
           /\ c \notin kuboPins \ kuboPins'
    <3>1. CASE pin_rm(d, TRUE) /\ jan' = [jan EXCEPT !.etat = "retire", !.cible = d, !.file = @ \ {d}]
      BY <1>0, <3>1 DEF Janitors
    <3>2. CASE pin_rm(d, FALSE) /\ jan' = [jan EXCEPT !.file = @ \ {d}] /\ Croiser(kuboPins \ kuboPins')
      <4>1. kuboPins' \subseteq kuboPins
        BY <3>2 DEF pin_rm
      <4> QED  BY <1>0, <3>2, <4>1 DEF Janitors, Croiser
    <3> QED  BY <1>7, <3>1, <3>2 DEF JanitorPinRm
  <2> QED  BY <2>2, <2>3, <2>4
<1>8. CASE JanitorRemove
  <2>1. /\ jan.cible \in Cid /\ remove(jan.cible) /\ UNCHANGED kuboPins
        /\ jan'.file = jan.file /\ jan'.cible = None
    BY <1>0, <1>8 DEF JanitorRemove, TypeOK, Janitors, kubo
  <2>2. pins'[jan.cible] = None /\ \A d \in Cid : d # jan.cible => pins'[d] = pins[d]
    BY <1>0, <2>1, RemoveLemma
  <2>3. CASE c # jan.cible
    BY <1>0, <1>2, <1>5, <2>1, <2>2, <2>3, Ailleurs
  <2>4. CASE c = jan.cible
    <3>1. \A r \in Requete : req[r].cid # c
      BY <1>5, <2>4 DEF Seul
    <3> QED  BY <1>2, <1>5, <2>1, <2>2, <2>4, <3>1 DEF Seul, Suit
  <2> QED  BY <2>3, <2>4
<1>9. ASSUME NEW d \in Cid, JanitorRemoveSansKubo(d) PROVE Seul(c)' /\ Suit(c)'
  <2>1. /\ remove(d) /\ UNCHANGED kuboPins /\ c # d
        /\ jan'.file = jan.file \ {d} /\ jan'.cible = jan.cible
    BY <1>0, <1>9 DEF JanitorRemoveSansKubo, Janitors, kubo, Croiser
  <2>2. pins'[c] = pins[c]
    BY <1>0, <2>1, RemoveLemma
  <2> QED  BY <1>2, <1>5, <2>1, <2>2, Ailleurs
<1>10. CASE JanitorListe
  <2>1. jan.file = {} /\ jan.cible = None /\ UNCHANGED <<pins, kuboPins>>
    BY <1>1, <1>10 DEF JanitorListe, JanitorForme, kubo
  <2>2. jan'.file = {} /\ jan'.cible = None
    <3>1. CASE jan' = JanitorDort
      BY <3>1 DEF JanitorDort
    <3>2. CASE jan' = [JanitorDort EXCEPT !.etat = "mesure", !.a_mesurer = Premiers(SansTaille)]
      BY <3>2 DEF JanitorDort
    <3> QED  BY <1>10, <3>1, <3>2 DEF JanitorListe
  <2> QED  BY <1>2, <1>5, <2>1, <2>2, Ailleurs
<1>11. ASSUME NEW d \in Cid, JanitorMesure(d) PROVE Seul(c)' /\ Suit(c)'
  <2>1. jan'.file = jan.file /\ jan'.cible = jan.cible /\ UNCHANGED <<pins, kuboPins>>
    BY <1>0, <1>11 DEF JanitorMesure, Janitors, registre, kubo
  <2> QED  BY <1>2, <1>5, <2>1, Ailleurs
<1>12. CASE JanitorMaj
  <2>1. jan.file = {} /\ jan.cible = None /\ jan'.file = {} /\ jan'.cible = None /\ UNCHANGED kuboPins
    BY <1>1, <1>12 DEF JanitorMaj, JanitorDort, JanitorForme, kubo
  <2>2. jan.trouves \in SUBSET Cid /\ maj_tailles(jan.trouves)
    BY <1>0, <1>12 DEF JanitorMaj, Janitors
  <2>3. pins'[c] # None <=> pins[c] # None
    BY <1>0, <2>2, MajLemma
  <2> QED  BY <1>2, <1>5, <2>1, <2>3, Ailleurs
<1> QED
  BY <1>h, <1>6, <1>7, <1>8, <1>9, <1>10, <1>11, <1>12 DEF Janitor

\* A restart loses the tasks: contents at work are disturbed, the others are
\* found in the file as they were in the table, if the last write succeeded.
LEMMA RelancerAccord ==
  ASSUME AccordInv, Relancer
  PROVE  Libres' /\ \A c \in Cid \ croises' : Seul(c)' /\ Suit(c)'
<1>1. req' = [r \in Requete |-> SansRequete] /\ jan' = JanitorDort /\ UNCHANGED kuboPins
  BY DEF Relancer
<1>2. SansRequete.cid = None /\ JanitorDort.file = {} /\ JanitorDort.cible = None /\ None \notin Cid
  BY SentinelAssumption DEF SansRequete, JanitorDort
<1>3. Libres' /\ \A c \in Cid : Seul(c)'
  BY <1>1, <1>2 DEF Libres, Seul
<1>4. ASSUME NEW c \in Cid \ croises' PROVE Suit(c)'
  <2>1. ecrit /\ ~Actif(c) /\ c \notin croises
    BY DEF Relancer, Croiser
  <2>2. pins' = pins
    BY <2>1 DEF Relancer, Charger, AccordInv, PurgeInv, RegistreInv, Durable
  <2>3. c \in kuboPins <=> pins[c] # None
    BY <2>1 DEF AccordInv, Suit, Actif
  <2> QED  BY <1>1, <1>2, <2>2, <2>3 DEF Suit
<1> QED  BY <1>3, <1>4

\* On every content that only undisturbed operations have touched, kubo's pins
\* and the registry agree once no task is at work on it, however the
\* operations on other contents, the janitor and restarts interleave.
THEOREM AccordCorrect == Spec => []Accord
<1>1. Init => AccordInv
  <2> SUFFICES ASSUME Init PROVE AccordInv
    OBVIOUS
  <2>1. JanitorForme /\ PurgeJustifiee
    BY SentinelAssumption DEF Init, JanitorForme, JanitorDort, PurgeJustifiee, EnPurge
  <2>2. SansRequete.cid = None /\ JanitorDort.file = {} /\ JanitorDort.cible = None /\ None \notin Cid
    BY SentinelAssumption DEF SansRequete, JanitorDort
  <2>3. Libres /\ \A c \in Cid : Seul(c)
    BY <2>2 DEF Init, Libres, Seul
  <2>4. \A c \in Cid : Suit(c)
    BY <2>2 DEF Init, Suit, Vide
  <2> QED  BY <2>1, <2>3, <2>4, InitRegistre DEF AccordInv, PurgeInv
<1>2. AccordInv /\ [Next]_vars => AccordInv'
  <2> SUFFICES ASSUME AccordInv, [Next]_vars
               PROVE  Libres' /\ \A c \in Cid \ croises' : Seul(c)' /\ Suit(c)'
    BY PurgeStep DEF AccordInv
  <2>1. CASE UNCHANGED <<pins, kuboPins, etat, req, jan, croises>>
    BY <2>1, Ailleurs DEF AccordInv, Libres
  <2>2. \/ UNCHANGED <<pins, kuboPins, etat, req, jan, croises>>
        \/ \E r \in Requete : Recevoir(r) \/ Traiter(r)
        \/ Janitor \/ Relancer
    BY DEF Next, vars, PutPolicy, OctetsArrivent, GcKubo, KuboMeurt, Tick, registre, kubo, taches
  <2> QED  BY <2>1, <2>2, RequetesAccord, JanitorAccord, RelancerAccord
<1>3. AccordInv => Accord
  <2> SUFFICES ASSUME AccordInv, NEW c \in Cid \ croises, ~Actif(c)
               PROVE  c \in kuboPins <=> pins[c] # None
    BY DEF Accord
  <2> QED  BY DEF AccordInv, Suit, Actif
<1> QED  BY <1>1, <1>2, <1>3, PTL DEF Spec

=============================================================================
