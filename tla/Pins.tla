------------------------------- MODULE Pins -------------------------------
(***************************************************************************)
(* The pin service: the PinTracker registry (src/src/pinning.rs), the HTTP *)
(* handlers that change it (post_pin, delete_pin, put_policy of            *)
(* src/src/main.rs), the hourly janitor task, the two JSON files, and the  *)
(* kubo daemon they all drive, which is external.                          *)
(*                                                                         *)
(* Handlers and janitor are tasks of a two-thread runtime: each is cut at  *)
(* every kubo request it awaits and at every release of the registry's     *)
(* mutex, so an action is what a task does between two such points. The    *)
(* step that consumes an answer of kubo is also the step in which kubo     *)
(* acts: nothing the task does lies between the two.                       *)
(***************************************************************************)
EXTENDS Naturals, FiniteSets, FiniteSetsExt

CONSTANTS
  Cid,               \* contents that can be pinned
  Module,            \* PWA modules asking for pins
  Requete,           \* slots of HTTP requests in flight at the same time
  None,              \* Rust's None
  Illisible,         \* a JSON file that serde refuses (truncated)
  Taille,            \* CumulativeSize kubo reports for a content it holds
  Trouvables,        \* contents that some peer serves to kubo
  Politiques,        \* policies that PUT /api/policy may send
  PolitiqueDefaut,   \* PinPolicy::default()
  TtlHeures,         \* values of ttl_hours a request may carry
  HEURE,             \* clock units in an hour: 3600 in the code
  PLAFOND_REMESURE,  \* re-measurements per janitor pass: 500 in the code
  PannesKubo,        \* ways a call to kubo may fail in this instance
  PannesDisque,      \* ways a write of a JSON file may fail
  KuboAuDepart,      \* possible values of pin_client.is_some() after a boot
  NonSuivis,         \* bound: contents whose history `croises` does not keep
  MaxNow,            \* bound: last instant of the clock
  MaxRelances        \* bound: number of restarts

Regle == [enabled : BOOLEAN, max_mb : Nat, default_ttl_hours : Nat]

EstPolitique(p) ==
  /\ p.default_rule \in Regle
  /\ DOMAIN p.modules \subseteq Module
  /\ \A m \in DOMAIN p.modules : p.modules[m] \in Regle

\* What policy.json may hold.
Connues == Politiques \cup {PolitiqueDefaut}

ASSUME PinsAssumption ==
  /\ Taille \in [Cid -> Nat]
  /\ Trouvables \subseteq Cid
  /\ NonSuivis \subseteq Cid
  /\ \A p \in Connues : EstPolitique(p)
  /\ TtlHeures \subseteq Nat
  /\ HEURE \in Nat
  /\ MaxNow \in Nat
  /\ MaxRelances \in Nat
  /\ PLAFOND_REMESURE \in Nat
  /\ PannesKubo \subseteq {"erreur", "perdue", "mort"}
  /\ PannesDisque \subseteq {"refus", "tronque"}
  /\ KuboAuDepart \in (SUBSET BOOLEAN) \ {{}}
  /\ IsFiniteSet(Cid)

PinRecord == [module : Module, pinned_at : Nat, ttl_secs : Nat, size_bytes : Nat]

\* The registry HashMap<cid, PinRecord>: None where there is no record.
Registre == [Cid -> PinRecord \cup {None}]

ASSUME SentinelAssumption ==
  /\ None \notin PinRecord
  /\ None \notin Cid
  /\ Illisible \notin Registre
  /\ Illisible \notin Connues

VARIABLES
  policy,      \* PinState.policy
  pins,        \* PinState.pins
  resume,      \* PinState.resume, the summary kept next to the table
  pinsFile,    \* pins.json
  policyFile,  \* policy.json
  client,      \* pin_client.is_some(): kubo was started at boot
  kuboVivant,  \* the kubo child still answers
  kuboPins,    \* recursive pins of kubo's repository
  local,       \* contents whose bytes are in kubo's repository
  etat,        \* where each request stands
  req,         \* what each request carries
  jan,         \* the janitor task
  ordre,       \* iteration order of the pins HashMap
  now,         \* unix_now()
  relances,    \* restarts so far
  ecrit,       \* history: the last write of pins.json succeeded
  neufs,       \* history: contents of the janitor's purge written anew since
               \* its scan
  vus,         \* history: contents kubo has held at some time
  croises      \* history: contents on which something other than one
               \* undisturbed operation at a time has happened, or which the
               \* instance does not follow

registre == <<policy, pins, resume, pinsFile, policyFile, ecrit, ordre, neufs>>
kubo     == <<kuboVivant, kuboPins, local, vus>>
taches   == <<etat, req, jan>>
vars     == <<registre, kubo, taches, client, now, relances, croises>>

-----------------------------------------------------------------------------
(* The registry *)

\* PinPolicy::rule_for
rule_for(p, m) ==
  IF m \in DOMAIN p.modules THEN p.modules[m] ELSE p.default_rule

Inscrits(p) == {c \in Cid : p[c] # None}

calculer_resume(p) ==
  [enregistres |-> Cardinality(Inscrits(p)),
   octets      |-> MapThenSumSet(LAMBDA c : p[c].size_bytes, Inscrits(p)),
   detenus     |-> Cardinality({c \in Inscrits(p) : p[c].size_bytes > 0})]

Vide == [c \in Cid |-> None]

\* read_json(..).unwrap_or_default(), for each of the two files
ChargerPins(f)   == IF f = Illisible THEN Vide ELSE f
ChargerPolicy(f) == IF f = Illisible THEN PolitiqueDefaut ELSE f

\* write_json of pins.json, its error ignored: the file may be refused and
\* keep its old content, or be truncated (disk full, or a kill in the middle
\* of std::fs::write, which truncates before it writes).
EcrirePins(p) ==
  \/ pinsFile' = p /\ ecrit' = TRUE
  \/ "refus" \in PannesDisque /\ pinsFile' = pinsFile /\ ecrit' = FALSE
  \/ "tronque" \in PannesDisque /\ pinsFile' = Illisible /\ ecrit' = FALSE

EcrirePolicy(p) ==
  \/ policyFile' = p
  \/ "refus" \in PannesDisque /\ policyFile' = policyFile
  \/ "tronque" \in PannesDisque /\ policyFile' = Illisible

\* The orders a HashMap may be walked in: fixed as long as nothing is
\* inserted, since only a growth of the table moves its entries.
Ordres == {o \in [Cid -> 1..Cardinality(Cid)] : \A c, d \in Cid : o[c] = o[d] => c = d}

\* What the janitor has left to unpin or to drop in this pass.
EnPurge == jan.file \cup {jan.cible}

upsert(c, rec) ==
  /\ pins' = [pins EXCEPT ![c] = rec]
  /\ resume' = calculer_resume(pins')
  /\ EcrirePins(pins')
  /\ IF pins[c] = None THEN ordre' \in Ordres ELSE UNCHANGED ordre
  /\ neufs' = neufs \cup ({c} \cap EnPurge)
  /\ UNCHANGED <<policy, policyFile>>

\* mutant: the record leaves the table, the file keeps it
remove_sans_ecrire(c) ==
  /\ pins' = [pins EXCEPT ![c] = None]
  /\ resume' = calculer_resume(pins')
  /\ UNCHANGED <<policy, policyFile, pinsFile, ecrit, ordre, neufs>>

remove(c) ==
  /\ pins' = [pins EXCEPT ![c] = None]
  /\ resume' = calculer_resume(pins')
  /\ IF pins[c] # None
       THEN EcrirePins(pins')
       ELSE UNCHANGED <<pinsFile, ecrit>>
  /\ UNCHANGED <<policy, policyFile, ordre, neufs>>

\* mutant: a grouped update that forgets the summary
maj_tailles_sans_resume(trouves) ==
  LET changes == {c \in trouves : pins[c] # None /\ pins[c].size_bytes # Taille[c]}
  IN  /\ pins' = [c \in Cid |-> IF c \in changes
                                  THEN [pins[c] EXCEPT !.size_bytes = Taille[c]]
                                  ELSE pins[c]]
      /\ IF changes # {} THEN EcrirePins(pins') ELSE UNCHANGED <<pinsFile, ecrit>>
      /\ UNCHANGED <<policy, policyFile, resume, ordre, neufs>>

\* Sizes measured in one janitor pass: a content has one size, so the set of
\* the contents found stands for the list of pairs.
maj_tailles(trouves) ==
  LET changes == {c \in trouves : pins[c] # None /\ pins[c].size_bytes # Taille[c]}
  IN  /\ pins' = [c \in Cid |-> IF c \in changes
                                  THEN [pins[c] EXCEPT !.size_bytes = Taille[c]]
                                  ELSE pins[c]]
      /\ IF changes # {}
           THEN resume' = calculer_resume(pins') /\ EcrirePins(pins')
           ELSE UNCHANGED <<resume, pinsFile, ecrit>>
      /\ UNCHANGED <<policy, policyFile, ordre, neufs>>

\* The filter of expired_cids; a ttl of 0 never expires.
Expire(rec, t) ==
  /\ rec # None
  /\ rec.ttl_secs > 0
  /\ rec.pinned_at + rec.ttl_secs < t

\* mutant: a TTL of zero expires at once
expired_cids_ttl_nul ==
  {c \in Cid : pins[c] # None /\ pins[c].pinned_at + pins[c].ttl_secs < jan.scan}

\* The clock has been read before the registry is locked: see JanitorHeure.
expired_cids == {c \in Cid : Expire(pins[c], jan.scan)}

-----------------------------------------------------------------------------
(* kubo, seen through KuboPinClient. "erreur": an HTTP error without        *)
(* effect; "perdue": the call took effect but its answer did not arrive     *)
(* within the client's 30 s; "mort": the child may die.                     *)

pin_add(c, ok) ==
  /\ \/ ok /\ kuboVivant /\ kuboPins' = kuboPins \cup {c}
     \/ ~ok /\ (~kuboVivant \/ "erreur" \in PannesKubo) /\ UNCHANGED kuboPins
     \/ ~ok /\ kuboVivant /\ "perdue" \in PannesKubo /\ kuboPins' = kuboPins \cup {c}
  /\ UNCHANGED <<kuboVivant, local, vus>>

\* kubo refuses to unpin what is not pinned.
pin_rm(c, ok) ==
  /\ \/ ok /\ kuboVivant /\ c \in kuboPins /\ kuboPins' = kuboPins \ {c}
     \/ /\ ~ok
        /\ ~kuboVivant \/ c \notin kuboPins \/ "erreur" \in PannesKubo
        /\ UNCHANGED kuboPins
     \/ ~ok /\ kuboVivant /\ "perdue" \in PannesKubo /\ kuboPins' = kuboPins \ {c}
  /\ UNCHANGED <<kuboVivant, local, vus>>

Detenu(n)    == [verdict |-> "detenu", octets |-> n]
NonDetenu    == [verdict |-> "non_detenu", octets |-> 0]
Indeterminee == [verdict |-> "indeterminee", octets |-> 0]

\* mutant: an offline probe that trusts the pin instead of the bytes
taille_detenue_epinglee(c) ==
  IF kuboVivant THEN {IF c \in kuboPins THEN Detenu(Taille[c]) ELSE NonDetenu}
                ELSE {Indeterminee}

\* The answers files/stat in offline mode may get, as interpreter_stat reads
\* them.
taille_detenue(c) ==
  (IF kuboVivant THEN {IF c \in local THEN Detenu(Taille[c]) ELSE NonDetenu} ELSE {})
    \cup (IF ~kuboVivant \/ "erreur" \in PannesKubo THEN {Indeterminee} ELSE {})

-----------------------------------------------------------------------------
(* Tasks at work on a content, and the history of disturbed contents *)

SansRequete == [cid |-> None, module |-> None, ttl_secs |-> 0, size_bytes |-> 0, pinned_at |-> 0]

JanitorDort == [etat |-> "dort", file |-> {}, cible |-> None, scan |-> 0,
                a_mesurer |-> {}, trouves |-> {}]

Actif(c) ==
  \/ \E r \in Requete : req[r].cid = c
  \/ c \in jan.file
  \/ c = jan.cible

Croiser(S) == croises' = croises \cup S

Aller(r, e) == etat' = [etat EXCEPT ![r] = e]

Finir(r) ==
  /\ Aller(r, "libre")
  /\ req' = [req EXCEPT ![r] = SansRequete]

-----------------------------------------------------------------------------
(* POST /api/pins. An empty cid (400) and a module the policy disables      *)
(* (403) are refused before anything changes.                               *)

PostPin(r, c, m, h) ==
  /\ etat[r] = "libre"
  /\ rule_for(policy, m).enabled
  /\ LET heures == IF h = None THEN rule_for(policy, m).default_ttl_hours ELSE h
     IN  req' = [req EXCEPT ![r] = [cid |-> c, module |-> m, ttl_secs |-> heures * HEURE,
                                    size_bytes |-> 0, pinned_at |-> 0]]
  /\ Aller(r, IF client THEN "pin_add" ELSE "dater")
  /\ Croiser(IF Actif(c) \/ ~client THEN {c} ELSE {})
  /\ UNCHANGED <<registre, kubo, jan, client, now, relances>>

PostPinAdd(r) ==
  /\ etat[r] = "pin_add"
  /\ LET c == req[r].cid IN
       \/ /\ pin_add(c, TRUE)
          /\ Aller(r, "mesure")
          /\ UNCHANGED <<req, croises>>
       \/ /\ pin_add(c, FALSE)                               \* 502
          /\ Finir(r)
          /\ Croiser(kuboPins' \ kuboPins)
  /\ UNCHANGED <<registre, jan, client, now, relances>>

PostMesure(r) ==
  /\ etat[r] = "mesure"
  /\ \E m \in taille_detenue(req[r].cid) :
       req' = [req EXCEPT ![r].size_bytes = m.octets]
  /\ Aller(r, "dater")
  /\ UNCHANGED <<registre, kubo, jan, client, now, relances, croises>>

\* The record is dated before the registry is locked: the janitor may come
\* in between.
PostDater(r) ==
  /\ etat[r] = "dater"
  /\ req' = [req EXCEPT ![r].pinned_at = now]
  /\ Aller(r, "upsert")
  /\ UNCHANGED <<registre, kubo, jan, client, now, relances, croises>>

\* 200 when size_bytes > 0, 202 otherwise.
PostUpsert(r) ==
  /\ etat[r] = "upsert"
  /\ upsert(req[r].cid, [module |-> req[r].module, pinned_at |-> req[r].pinned_at,
                         ttl_secs |-> req[r].ttl_secs,
                         size_bytes |-> req[r].size_bytes])
  /\ Finir(r)
  /\ UNCHANGED <<kubo, jan, client, now, relances, croises>>

(* DELETE /api/pins/:cid *)

DeletePin(r, c) ==
  /\ etat[r] = "libre"
  /\ req' = [req EXCEPT ![r] = [SansRequete EXCEPT !.cid = c]]
  /\ Aller(r, IF client THEN "pin_rm" ELSE "remove")
  /\ Croiser(IF Actif(c) \/ ~client THEN {c} ELSE {})
  /\ UNCHANGED <<registre, kubo, jan, client, now, relances>>

\* A refusal of kubo is only logged: the record goes all the same.
DeletePinRm(r) ==
  /\ etat[r] = "pin_rm"
  /\ \E ok \in BOOLEAN : pin_rm(req[r].cid, ok)
  /\ Aller(r, "remove")
  /\ Croiser({req[r].cid} \cap kuboPins')
  /\ UNCHANGED <<registre, req, jan, client, now, relances>>

DeleteRemove(r) ==
  /\ etat[r] = "remove"
  /\ remove(req[r].cid)
  /\ Finir(r)
  /\ UNCHANGED <<kubo, jan, client, now, relances, croises>>

(* PUT /api/policy *)
PutPolicy(p) ==
  /\ policy' = p
  /\ EcrirePolicy(p)
  /\ UNCHANGED <<pins, resume, pinsFile, ecrit, ordre, neufs, kubo, taches, client, now, relances, croises>>

-----------------------------------------------------------------------------
(* The janitor: one pass *)

\* The lists are built, and then followed, in the order of the HashMap.
EnTete(c, S) == c \in S /\ \A d \in S : ordre[c] <= ordre[d]

\* expired_cids reads the clock, then locks the registry.
JanitorHeure ==
  /\ jan.etat = "dort"
  /\ jan' = [jan EXCEPT !.etat = "scan", !.scan = now]
  /\ UNCHANGED <<registre, kubo, etat, req, client, now, relances, croises>>

JanitorScan ==
  /\ jan.etat = "scan"
  /\ jan' = [jan EXCEPT !.etat = "purge", !.file = expired_cids]
  /\ Croiser({c \in expired_cids : Actif(c)})
  /\ UNCHANGED <<registre, kubo, etat, req, client, now, relances>>

\* mutant: `break` for `continue`, the purge stops at the first refusal
JanitorPinRm_arret(c) ==
  /\ jan.etat = "purge" /\ client
  /\ EnTete(c, jan.file)
  /\ \/ /\ pin_rm(c, TRUE)
        /\ jan' = [jan EXCEPT !.etat = "retire", !.cible = c, !.file = @ \ {c}]
        /\ UNCHANGED croises
     \/ /\ pin_rm(c, FALSE)
        /\ jan' = [jan EXCEPT !.file = {}]
        /\ Croiser(kuboPins \ kuboPins')
  /\ UNCHANGED <<registre, etat, req, client, now, relances>>

\* mutant: the record is dropped even when kubo refuses to unpin
JanitorPinRm_purge_quand_meme(c) ==
  /\ jan.etat = "purge" /\ client
  /\ EnTete(c, jan.file)
  /\ \E ok \in BOOLEAN : pin_rm(c, ok)
  /\ jan' = [jan EXCEPT !.etat = "retire", !.cible = c, !.file = @ \ {c}]
  /\ UNCHANGED <<registre, etat, req, client, now, relances, croises>>

\* mutant: the pass loses track of the content it has just unpinned
JanitorPinRm_sans_cible(c) ==
  /\ jan.etat = "purge" /\ client
  /\ EnTete(c, jan.file)
  /\ pin_rm(c, TRUE)
  /\ jan' = [jan EXCEPT !.etat = "retire", !.file = @ \ {c}]
  /\ UNCHANGED <<registre, etat, req, client, now, relances, croises>>

\* With a client: unpin first; when kubo refuses, the record is kept.
JanitorPinRm(c) ==
  /\ jan.etat = "purge" /\ client
  /\ EnTete(c, jan.file)
  /\ \/ /\ pin_rm(c, TRUE)
        /\ jan' = [jan EXCEPT !.etat = "retire", !.cible = c, !.file = @ \ {c}]
        /\ UNCHANGED croises
     \/ /\ pin_rm(c, FALSE)
        /\ jan' = [jan EXCEPT !.file = @ \ {c}]
        /\ Croiser(kuboPins \ kuboPins')
  /\ UNCHANGED <<registre, etat, req, client, now, relances>>

\* tracker.remove(&cid): the record is not looked at again.
JanitorRemove ==
  /\ jan.etat = "retire"
  /\ remove(jan.cible)
  /\ jan' = [jan EXCEPT !.etat = "purge", !.cible = None]
  /\ UNCHANGED <<kubo, etat, req, client, now, relances, croises>>

\* Without a client the record goes without any unpin.
JanitorRemoveSansKubo(c) ==
  /\ jan.etat = "purge" /\ ~client
  /\ EnTete(c, jan.file)
  /\ remove(c)
  /\ jan' = [jan EXCEPT !.file = @ \ {c}]
  /\ Croiser({c})
  /\ UNCHANGED <<kubo, etat, req, client, now, relances>>

SansTaille == {c \in Cid : pins[c] # None /\ pins[c].size_bytes = 0}

\* The records still at zero, cut to the first PLAFOND_REMESURE in the order
\* the HashMap gives them.
Premiers(S) ==
  {c \in S : Cardinality({d \in S : ordre[d] < ordre[c]}) < PLAFOND_REMESURE}

\* mutant: the filter of the re-measurement is inverted
JanitorListe_inverse ==
  /\ jan.etat = "purge" /\ jan.file = {}
  /\ jan' = IF client
              THEN [JanitorDort EXCEPT !.etat = "mesure",
                                       !.a_mesurer = Premiers(Inscrits(pins) \ SansTaille)]
              ELSE JanitorDort
  /\ neufs' = {}
  /\ UNCHANGED <<policy, pins, resume, pinsFile, policyFile, ecrit, ordre, kubo, etat, req,
                 client, now, relances, croises>>

JanitorListe ==
  /\ jan.etat = "purge" /\ jan.file = {}
  /\ \/ /\ client
        /\ jan' = [JanitorDort EXCEPT !.etat = "mesure", !.a_mesurer = Premiers(SansTaille)]
     \/ /\ ~client
        /\ jan' = JanitorDort
  /\ neufs' = {}
  /\ UNCHANGED <<policy, pins, resume, pinsFile, policyFile, ecrit, ordre, kubo, etat, req,
                 client, now, relances, croises>>

JanitorMesure(c) ==
  /\ jan.etat = "mesure"
  /\ EnTete(c, jan.a_mesurer)
  /\ \E m \in taille_detenue(c) :
       jan' = [jan EXCEPT !.a_mesurer = @ \ {c},
                          !.trouves = IF m.octets > 0 THEN @ \cup {c} ELSE @]
  /\ UNCHANGED <<registre, kubo, etat, req, client, now, relances, croises>>

JanitorMaj ==
  /\ jan.etat = "mesure" /\ jan.a_mesurer = {}
  /\ maj_tailles(jan.trouves)
  /\ jan' = JanitorDort
  /\ UNCHANGED <<kubo, etat, req, client, now, relances, croises>>

-----------------------------------------------------------------------------
(* The rest of the world *)

\* The bytes of a pinned content arrive.
OctetsArrivent(c) ==
  /\ kuboVivant
  /\ c \in (kuboPins \cap Trouvables) \ local
  /\ local' = local \cup {c}
  /\ vus' = vus \cup {c}
  /\ UNCHANGED <<registre, taches, kuboVivant, kuboPins, client, now, relances, croises>>

\* ipfs repo gc, run by the user: unpinned bytes go.
GcKubo ==
  /\ kuboVivant
  /\ ~(local \subseteq kuboPins)
  /\ local' = local \cap kuboPins
  /\ UNCHANGED <<registre, taches, kuboVivant, kuboPins, vus, client, now, relances, croises>>

KuboMeurt ==
  /\ "mort" \in PannesKubo
  /\ kuboVivant
  /\ kuboVivant' = FALSE
  /\ UNCHANGED <<registre, taches, kuboPins, local, vus, client, now, relances, croises>>

Tick ==
  /\ now < MaxNow
  /\ now' = now + 1
  /\ UNCHANGED <<registre, kubo, taches, client, relances, croises>>

\* mutant: the summary starts at zero over the reloaded table
Charger_sans_resume ==
  /\ pins' = ChargerPins(pinsFile)
  /\ resume' = calculer_resume(Vide)
  /\ policy' = ChargerPolicy(policyFile)
  /\ ecrit' = TRUE
  /\ neufs' = {}
  /\ ordre' \in Ordres
  /\ UNCHANGED <<pinsFile, policyFile>>

\* PinTracker::load
Charger ==
  /\ pins' = ChargerPins(pinsFile)
  /\ resume' = calculer_resume(pins')
  /\ policy' = ChargerPolicy(policyFile)
  /\ ecrit' = TRUE
  /\ neufs' = {}
  /\ ordre' \in Ordres
  /\ UNCHANGED <<pinsFile, policyFile>>

\* The process stops anywhere (quit, kill, crash) and boots again: tasks are
\* lost, kubo's repository survives, kubo is found or not.
Relancer ==
  /\ relances < MaxRelances
  /\ relances' = relances + 1
  /\ Charger
  /\ etat' = [r \in Requete |-> "libre"]
  /\ req' = [r \in Requete |-> SansRequete]
  /\ jan' = JanitorDort
  /\ client' \in KuboAuDepart
  /\ kuboVivant' = client'
  /\ Croiser(IF ecrit THEN {c \in Cid : Actif(c)} ELSE Cid)
  /\ UNCHANGED <<kuboPins, local, vus, now>>

-----------------------------------------------------------------------------

\* A fresh installation: an empty kubo repository and no file yet, which
\* read_json treats as it does an unreadable one.
Init ==
  /\ policy = PolitiqueDefaut
  /\ pins = Vide
  /\ resume = calculer_resume(Vide)
  /\ pinsFile = Illisible
  /\ policyFile = Illisible
  /\ ecrit = TRUE
  /\ neufs = {}
  /\ ordre \in Ordres
  /\ client \in KuboAuDepart
  /\ kuboVivant = client
  /\ kuboPins = {}
  /\ local = {}
  /\ vus = {}
  /\ etat = [r \in Requete |-> "libre"]
  /\ req = [r \in Requete |-> SansRequete]
  /\ jan = JanitorDort
  /\ now = 0
  /\ relances = 0
  /\ croises = NonSuivis

Traiter(r) ==
  \/ PostPinAdd(r)
  \/ PostMesure(r)
  \/ PostDater(r)
  \/ PostUpsert(r)
  \/ DeletePinRm(r)
  \/ DeleteRemove(r)

Janitor ==
  \/ JanitorHeure
  \/ JanitorScan
  \/ \E c \in Cid : JanitorPinRm(c)
  \/ JanitorRemove
  \/ \E c \in Cid : JanitorRemoveSansKubo(c)
  \/ JanitorListe
  \/ \E c \in Cid : JanitorMesure(c)
  \/ JanitorMaj

Recevoir(r) ==
  \/ \E c \in Cid, m \in Module, h \in TtlHeures \cup {None} : PostPin(r, c, m, h)
  \/ \E c \in Cid : DeletePin(r, c)

Next ==
  \/ \E r \in Requete : Recevoir(r)
  \/ \E r \in Requete : Traiter(r)
  \/ \E p \in Politiques : PutPolicy(p)
  \/ Janitor
  \/ \E c \in Cid : OctetsArrivent(c)
  \/ GcKubo
  \/ KuboMeurt
  \/ Tick
  \/ Relancer

Spec == Init /\ [][Next]_vars

\* What kubo grants the janitor: an unpin, a measure that finds the bytes.
JanitorDepingle(c) == JanitorPinRm(c) /\ jan'.cible = c
JanitorTrouve(c)   == JanitorMesure(c) /\ c \in jan'.trouves

\* The runtime polls every ready task, every kubo call ends within the 30 s
\* of the client and the janitor's sleep lasts an hour: a task that can go on
\* does (weak fairness). A live kubo that is asked again and again for what it
\* can do does not fail every time (strong fairness): this one is an assumption
\* on kubo. Nothing is assumed of clients, of the clock, of the bytes, nor of a
\* kubo that is dead.
Equite ==
  /\ \A r \in Requete : WF_vars(Traiter(r))
  /\ WF_vars(Janitor)
  /\ \A c \in Cid : SF_vars(JanitorDepingle(c)) /\ SF_vars(JanitorTrouve(c))

FairSpec == Spec /\ Equite

-----------------------------------------------------------------------------
(* Properties *)

EtatsRequete == {"libre", "pin_add", "mesure", "dater", "upsert", "pin_rm", "remove"}

Requetes ==
  [cid : Cid \cup {None}, module : Module \cup {None}, ttl_secs : Nat, size_bytes : Nat,
   pinned_at : Nat]

Janitors ==
  [etat : {"dort", "scan", "purge", "retire", "mesure"}, file : SUBSET Cid,
   cible : Cid \cup {None}, scan : Nat, a_mesurer : SUBSET Cid, trouves : SUBSET Cid]

\* Types of the registry, of kubo and of the tasks; a request past its
\* arrival carries a content, and an upsert a module.
TypeOK ==
  /\ policy \in Connues /\ policyFile \in Connues \cup {Illisible}
  /\ pins \in Registre /\ pinsFile \in Registre \cup {Illisible}
  /\ ordre \in Ordres
  /\ ecrit \in BOOLEAN /\ client \in BOOLEAN /\ kuboVivant \in BOOLEAN
  /\ kuboPins \subseteq Cid /\ local \subseteq Cid
  /\ vus \subseteq Cid /\ croises \subseteq Cid /\ neufs \subseteq Cid
  /\ etat \in [Requete -> EtatsRequete]
  /\ req \in [Requete -> Requetes]
  /\ jan \in Janitors
  /\ now \in Nat /\ relances \in Nat
  /\ \A r \in Requete :
       /\ etat[r] # "libre" => req[r].cid \in Cid
       /\ etat[r] \in {"pin_add", "mesure", "dater", "upsert"} => req[r].module \in Module
  /\ jan.etat = "retire" => jan.cible \in Cid

\* The summary that every reader of the registry is given (handshake, stream,
\* tray) is the one a full scan of the table would compute, after any mix of
\* handlers, janitor passes and reloads.
ResumeExact == resume = calculer_resume(pins)

\* When the last write of pins.json succeeded, the file would reload as the
\* table in memory: no path changes the table and skips the file.
Durable == ecrit => ChargerPins(pinsFile) = pins

\* A record counted as held carries the size of its content, and kubo has
\* held those bytes: no failed probe and no late re-measure turns a request
\* into a held content (nor does a reload: PinsProofs!DetenuCorrect).
DetenuProuve ==
  \A c \in Cid : pins[c] # None /\ pins[c].size_bytes > 0
                  => c \in vus /\ pins[c].size_bytes = Taille[c]

\* What the janitor is about to unpin and drop was expired at the instant its
\* pass read, or has been written anew since the registry was scanned: a record
\* that never expires, or had not expired, is in danger through one thing only,
\* a POST that lands during the pass (SeulsLesExpires shows that one).
PurgeJustifiee ==
  \A c \in EnPurge \cap Cid :
    pins[c] = None \/ Expire(pins[c], jan.scan) \/ c \in neufs

\* The janitor unpins and drops the records whose pinned_at + ttl_secs < now
\* (pinning.rs:25-27): one that has not expired survives its steps.
SeulsLesExpires ==
  [][ \A c \in Cid :
        (JanitorRemove \/ JanitorRemoveSansKubo(c)) /\ pins[c] # None /\ pins'[c] = None
          => Expire(pins[c], now) ]_vars

\* kubo and the registry agree on every content that only undisturbed
\* operations have touched, one at a time: pinned if and only if recorded,
\* however the operations on other contents interleave.
Accord ==
  \A c \in Cid \ croises : ~Actif(c) => (c \in kuboPins <=> pins[c] # None)

Perime(c) == Expire(pins[c], now)

\* kubo has answered for good that it cannot unpin the content: it is dead, or
\* no longer pins it, and refuses at every pass. The janitor then keeps the
\* record, expired, for ever.
Bloque(c) == client /\ (~kuboVivant \/ c \notin kuboPins)

\* An expired record leaves the registry, or is renewed, unless kubo is in no
\* state to unpin its content: no error, no lost answer and no refusal on
\* another content keeps it there.
PurgeFinie == \A c \in Cid : Perime(c) ~> ~Perime(c) \/ Bloque(c)

SansMesure(c) ==
  /\ client /\ kuboVivant /\ c \in local
  /\ pins[c] # None /\ pins[c].size_bytes = 0

\* A request recorded at zero whose bytes a live kubo holds ends up counted as
\* held, unless the record or the bytes go first, or there are more records at
\* zero than a pass measures and it is not among the first (the same ones are
\* first at every pass, as long as nothing is inserted).
TaillesConvergent ==
  \A c \in Cid : Taille[c] > 0 =>
    (SansMesure(c) ~> ~SansMesure(c) \/ c \notin Premiers(SansTaille))

=============================================================================
