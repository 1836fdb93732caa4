------------------------------- MODULE Reseau -------------------------------
(***************************************************************************)
(* The two settings a device changes while the node runs and that the      *)
(* backends only take up at the next start: the swarm key that closes the  *)
(* IPFS network (ipfs_api.rs, ipfs_private.rs), kept in kubo's repository  *)
(* and copied to the vault, and the owner of the NOSTR relay               *)
(* (relay_api.rs, nostr_relay.rs), kept in the vault and written into the  *)
(* relay's configuration at every start.                                   *)
(*                                                                         *)
(* Handlers run on two threads and hold nothing between two calls; the     *)
(* node may stop between any two of its own. The daemons end with it:      *)
(* Superviseur is about those that do not.                                 *)
(***************************************************************************)
EXTENDS Naturals

CONSTANTS
  Cle,      \* swarm keys
  Pubkey,   \* owners
  Requete,  \* slots for requests in progress
  None,     \* nothing
  Pannes    \* "disque": the repository may not be written; "coffre": a call
            \*   to the vault may fail; "ipfs": `ipfs bootstrap` may fail

\* A request between two of its calls: the key or the owner it brings, or the
\* key that DELETE found, None when there was none.
EnCours ==
  [op : {"ecrire", "renommer", "sauver"}, val : Cle]
    \cup [op : {"effacer", "oublier"}, val : Cle \cup {None}]
    \cup [op : {"poser", "comparer"}, val : Pubkey]

ASSUME SentinelAssumption ==
  None \notin Cle /\ None \notin Pubkey /\ None \notin EnCours

VARIABLES
  cleFichier,  \* <repo>/swarm.key
  cleTmp,      \* <repo>/swarm.key.tmp, the same for all requests
  cleCoffre,   \* vault, ipfs/swarm-key
  owner,       \* vault, nostr/owner-pubkey
  amorces,     \* kubo's configuration has its public bootstrap nodes
  config,      \* the whitelist in the relay's config.toml
  phase,       \* where main stands
  lu,          \* nostr_relay_owner, what main has read, until the relay's start
  kubo,        \* the daemon, its environment, the network it has joined
  relais,      \* whether the relay runs, and its whitelist
  applied,     \* AppState.nostr_relay_owner
  req,         \* requests in progress
  cles,        \* history: the keys the repository has had
  croisees,    \* history: keys whose writing met another one's
  sourde,      \* history: the vault did not answer when main asked
  annonce      \* history: settings for which a restart was announced

reglages == <<cleFichier, cleTmp, cleCoffre, owner, amorces, config>>
noeud    == <<phase, lu, kubo, relais, applied, sourde>>
vars     == <<reglages, noeud, req, cles, croisees, annonce>>

KuboAbsent   == [etat |-> "absent", pnet |-> FALSE, cle |-> None]
RelaisAbsent == [marche |-> FALSE, liste |-> None]

-----------------------------------------------------------------------------
(* The start *)

\* read_owner_pubkey_from_vault: an error counts as "never set".
LireProprietaire ==
  /\ phase = "arret"
  /\ phase' = "kubo"
  /\ \/ lu' = owner /\ sourde' = FALSE
     \/ "coffre" \in Pannes /\ lu' = None /\ sourde' = TRUE
  /\ UNCHANGED <<reglages, kubo, relais, applied, req, cles, croisees, annonce>>

\* A private repository loses its bootstrap nodes; nothing gives them back.
disable_public_bootstrap ==
  \/ amorces' = FALSE
  \/ "ipfs" \in Pannes /\ UNCHANGED amorces

\* KuboBackend::try_start: with a swarm key in the repository the daemon gets
\* LIBP2P_FORCE_PNET. Without the binary, the repository or its ports nothing
\* is done; the daemon may also not survive its start.
LancerKubo ==
  /\ phase = "kubo"
  /\ phase' = "relais"
  /\ \/ kubo' = KuboAbsent /\ UNCHANGED amorces
     \/ /\ IF cleFichier # None THEN disable_public_bootstrap ELSE UNCHANGED amorces
        /\ kubo' \in {KuboAbsent,
                      [KuboAbsent EXCEPT !.etat = "lance", !.pnet = cleFichier # None]}
  /\ UNCHANGED <<cleFichier, cleTmp, cleCoffre, owner, config, lu, relais, applied, sourde,
                 req, cles, croisees, annonce>>

\* mutant: a configuration that exists is kept
EcrireConfig_si_absente == config' = IF config = None THEN lu ELSE config

\* config.toml is rewritten at every start.
EcrireConfig == config' = lu

\* try_start_with_config, then the server: without the relay, no owner is
\* applied.
LancerRelais ==
  /\ phase = "relais"
  /\ phase' = "sert"
  /\ \/ /\ EcrireConfig
        /\ relais' = [marche |-> TRUE, liste |-> config']
        /\ applied' = lu
     \/ /\ EcrireConfig \/ UNCHANGED config
        /\ relais' = RelaisAbsent
        /\ applied' = None
  /\ lu' = None
  /\ UNCHANGED <<cleFichier, cleTmp, cleCoffre, owner, amorces, kubo, sourde, req, cles,
                 croisees, annonce>>

\* The daemon opens its repository, when it likes: it joins the network of
\* the key it finds, and refuses to run without one when it is told to.
KuboOuvre ==
  /\ kubo.etat = "lance"
  /\ kubo' = IF kubo.pnet /\ cleFichier = None
               THEN [kubo EXCEPT !.etat = "mort"]
               ELSE [kubo EXCEPT !.etat = "ouvert", !.cle = cleFichier]
  /\ UNCHANGED <<reglages, phase, lu, relais, applied, sourde, req, cles, croisees, annonce>>

\* The node stops, cleanly or not, and its daemons with it.
Arreter ==
  /\ phase # "arret"
  /\ phase' = "arret"
  /\ lu' = None
  /\ kubo' = KuboAbsent
  /\ relais' = RelaisAbsent
  /\ applied' = None
  /\ sourde' = FALSE
  /\ req' = [r \in Requete |-> None]
  /\ annonce' = {}
  /\ UNCHANGED <<reglages, cles, croisees>>

-----------------------------------------------------------------------------
(* POST /ipfs/private/swarm-key *)

Passer(r, op) == req' = [req EXCEPT ![r] = [op |-> op, val |-> req[r].val]]

Repondre(r) == req' = [req EXCEPT ![r] = None]

\* Generated or imported; a malformed one is refused at once.
RecevoirCle(r, k) ==
  /\ phase = "sert" /\ req[r] = None
  /\ req' = [req EXCEPT ![r] = [op |-> "ecrire", val |-> k]]
  /\ UNCHANGED <<reglages, noeud, cles, croisees, annonce>>

EnEcriture == {r \in Requete : req[r] # None /\ req[r].op = "renommer"}

\* mutant: a write that fails is only logged
EcrireTmp_sans_erreur(r) ==
  /\ req[r] # None /\ req[r].op = "ecrire"
  /\ \/ /\ cleTmp' = req[r].val
        /\ Passer(r, "renommer")
     \/ /\ "disque" \in Pannes
        /\ Passer(r, "sauver")
        /\ UNCHANGED cleTmp
  /\ UNCHANGED <<cleFichier, cleCoffre, owner, amorces, config, noeud, cles, croisees, annonce>>

\* write_swarm_key_to_repo: a temporary file, whose name all requests share
\* (its writing is taken as one step),
EcrireTmp(r) ==
  /\ req[r] # None /\ req[r].op = "ecrire"
  /\ \/ /\ cleTmp' = req[r].val
        /\ Passer(r, "renommer")
        /\ croisees' = IF EnEcriture = {} THEN croisees
                        ELSE croisees \cup {req[q].val : q \in EnEcriture \cup {r}}
     \/ /\ "disque" \in Pannes
        /\ Repondre(r)
        /\ UNCHANGED <<cleTmp, croisees>>
  /\ UNCHANGED <<cleFichier, cleCoffre, owner, amorces, config, noeud, cles, annonce>>

\* ... takes the name of the key's. It is an error 500 when the file cannot
\* be renamed, or when another request has done so.
Renommer(r) ==
  /\ req[r] # None /\ req[r].op = "renommer"
  /\ \/ /\ cleTmp # None
        /\ cleFichier' = cleTmp
        /\ cleTmp' = None
        /\ cles' = cles \cup {cleTmp}
        /\ Passer(r, "sauver")
     \/ /\ cleTmp = None \/ "disque" \in Pannes
        /\ Repondre(r)
        /\ UNCHANGED <<cleFichier, cleTmp, cles>>
  /\ UNCHANGED <<cleCoffre, owner, amorces, config, noeud, croisees, annonce>>

\* The backup, whose failure is only logged; the answer asks for a restart.
SauverCle(r) ==
  /\ req[r] # None /\ req[r].op = "sauver"
  /\ \/ cleCoffre' = req[r].val
     \/ "coffre" \in Pannes /\ UNCHANGED cleCoffre
  /\ annonce' = annonce \cup {"cle"}
  /\ Repondre(r)
  /\ UNCHANGED <<cleFichier, cleTmp, owner, amorces, config, noeud, cles, croisees>>

(* DELETE /ipfs/private/swarm-key *)

\* was_private is read first,
RecevoirEffacement(r) ==
  /\ phase = "sert" /\ req[r] = None
  /\ req' = [req EXCEPT ![r] = [op |-> "effacer", val |-> cleFichier]]
  /\ UNCHANGED <<reglages, noeud, cles, croisees, annonce>>

\* ... then the file goes. A file that another request removed between
\* exists() and remove_file() is an error 500, as is any other failure.
EffacerCle(r) ==
  /\ req[r] # None /\ req[r].op = "effacer"
  /\ \/ /\ cleFichier' = None
        /\ Passer(r, "oublier")
     \/ /\ "disque" \in Pannes \/ (req[r].val # None /\ cleFichier = None)
        /\ Repondre(r)
        /\ UNCHANGED cleFichier
  /\ UNCHANGED <<cleTmp, cleCoffre, owner, amorces, config, noeud, cles, croisees, annonce>>

\* mutant: was_private is looked up after the file has gone
EffacerSauvegarde_tardive(r) ==
  /\ req[r] # None /\ req[r].op = "oublier"
  /\ \/ cleCoffre' = None
     \/ "coffre" \in Pannes /\ UNCHANGED cleCoffre
  /\ annonce' = annonce \cup (IF cleFichier # None THEN {"cle"} ELSE {})
  /\ Repondre(r)
  /\ UNCHANGED <<cleFichier, cleTmp, owner, amorces, config, noeud, cles, croisees>>

\* The backup is wiped, a failure ignored; restart_required is was_private.
EffacerSauvegarde(r) ==
  /\ req[r] # None /\ req[r].op = "oublier"
  /\ \/ cleCoffre' = None
     \/ "coffre" \in Pannes /\ UNCHANGED cleCoffre
  /\ annonce' = annonce \cup (IF req[r].val # None THEN {"cle"} ELSE {})
  /\ Repondre(r)
  /\ UNCHANGED <<cleFichier, cleTmp, owner, amorces, config, noeud, cles, croisees>>

(* POST /relay/private/owner *)

\* mutant: a request before the server
RecevoirProprietaire_trop_tot(r, pk) ==
  /\ req[r] = None
  /\ req' = [req EXCEPT ![r] = [op |-> "poser", val |-> pk]]
  /\ UNCHANGED <<reglages, noeud, cles, croisees, annonce>>

\* A malformed key is refused at once.
RecevoirProprietaire(r, pk) ==
  /\ phase = "sert" /\ req[r] = None
  /\ req' = [req EXCEPT ![r] = [op |-> "poser", val |-> pk]]
  /\ UNCHANGED <<reglages, noeud, cles, croisees, annonce>>

\* The vault, or an error 500.
PoserProprietaire(r) ==
  /\ req[r] # None /\ req[r].op = "poser"
  /\ \/ /\ owner' = req[r].val
        /\ Passer(r, "comparer")
     \/ /\ "coffre" \in Pannes
        /\ Repondre(r)
        /\ UNCHANGED owner
  /\ UNCHANGED <<cleFichier, cleTmp, cleCoffre, amorces, config, noeud, cles, croisees, annonce>>

\* restart_required: the relay was started without owner, or with another.
restart_required(pk) == applied = None \/ applied # pk

RepondreProprietaire(r) ==
  /\ req[r] # None /\ req[r].op = "comparer"
  /\ annonce' = annonce \cup (IF restart_required(req[r].val) THEN {"owner"} ELSE {})
  /\ Repondre(r)
  /\ UNCHANGED <<reglages, noeud, cles, croisees>>

-----------------------------------------------------------------------------

Init ==
  /\ cleFichier = None /\ cleTmp = None /\ cleCoffre = None /\ owner = None
  /\ amorces = TRUE /\ config = None
  /\ phase = "arret" /\ lu = None /\ sourde = FALSE
  /\ kubo = KuboAbsent /\ relais = RelaisAbsent /\ applied = None
  /\ req = [r \in Requete |-> None]
  /\ cles = {} /\ croisees = {} /\ annonce = {}

Demarrage == LireProprietaire \/ LancerKubo \/ LancerRelais

Api(r) ==
  \/ \E k \in Cle : RecevoirCle(r, k)
  \/ EcrireTmp(r)
  \/ Renommer(r)
  \/ SauverCle(r)
  \/ RecevoirEffacement(r)
  \/ EffacerCle(r)
  \/ EffacerSauvegarde(r)
  \/ \E pk \in Pubkey : RecevoirProprietaire(r, pk)
  \/ PoserProprietaire(r)
  \/ RepondreProprietaire(r)

Next == Demarrage \/ KuboOuvre \/ Arreter \/ \E r \in Requete : Api(r)

Spec == Init /\ [][Next]_vars

-----------------------------------------------------------------------------
(* Properties *)

\* Types; requests only while the server is there.
TypeOK ==
  /\ {cleFichier, cleTmp, cleCoffre} \subseteq Cle \cup {None}
  /\ {owner, config, lu, applied} \subseteq Pubkey \cup {None}
  /\ amorces \in BOOLEAN
  /\ phase \in {"arret", "kubo", "relais", "sert"}
  /\ kubo \in [etat : {"absent", "lance", "ouvert", "mort"}, pnet : BOOLEAN,
               cle : Cle \cup {None}]
  /\ relais \in [marche : BOOLEAN, liste : Pubkey \cup {None}]
  /\ req \in [Requete -> EnCours \cup {None}]
  /\ cles \subseteq Cle /\ croisees \subseteq Cle
  /\ sourde \in BOOLEAN
  /\ annonce \subseteq {"cle", "owner"}
  /\ phase # "sert" => req = [r \in Requete |-> None]

\* The backup restores a key of this node: whatever failed or was cut, it is
\* one the repository has had, unless its writing met another one's over the
\* temporary file.
SauvegardeVraie == cleCoffre # None => cleCoffre \in cles \cup croisees

\* As long as the daemon is in another network than the one its repository
\* asks for, somebody has been told to restart, or is about to be.
CleAnnoncee ==
  kubo.etat = "ouvert" /\ kubo.cle # cleFichier =>
    \/ "cle" \in annonce
    \/ \E r \in Requete : req[r] # None /\ (req[r].op = "sauver" \/ req[r].op = "oublier")

\* The same of the relay: it lets the vault's owner write and nobody else,
\* or a restart was announced; unless the vault did not answer at the start.
ListeAnnoncee ==
  relais.marche /\ ~sourde /\ relais.liste # owner =>
    \/ "owner" \in annonce
    \/ \E r \in Requete : req[r] # None /\ req[r].op = "comparer"

(* What the comments of the code say, and the code does not do *)

\* Without its swarm key the node is back in the public mode: its daemon has
\* the bootstrap nodes of the public network.
RetourPublic == kubo.etat = "ouvert" /\ kubo.cle = None => amorces

=============================================================================
