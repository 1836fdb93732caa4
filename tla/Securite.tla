----------------------------- MODULE Securite -----------------------------
(***************************************************************************)
(* The security stack of a boot: security::init (src/src/security.rs) with *)
(* the passphrase in the OS keychain, Vault::create and Vault::open        *)
(* (src/crates/vault), Identity::load and Identity::create                 *)
(* (src/crates/identity).                                                  *)
(*                                                                         *)
(* One thread does it all, but over three stores that share no             *)
(* transaction: the keychain, the vault's database file and its sidecar    *)
(* file. An action is one call that reads or changes one of them; any call *)
(* may fail, and the process may be stopped between any two.               *)
(***************************************************************************)
EXTENDS Naturals

CONSTANTS
  None,       \* nothing there
  Vide,       \* the database file exists, with no page in it yet
  Pannes,     \* "trousseau", "disque": calls that may fail; "arret": the
              \* process may be stopped
  MaxPannes   \* bound: failures and stops

ASSUME SecuriteAssumption ==
  /\ Pannes \subseteq {"trousseau", "disque", "arret"}
  /\ MaxPannes \in Nat

\* The key of a database is derived from a passphrase and a salt.
Cle == [phrase : Nat, sel : Nat]

ASSUME SentinelAssumption ==
  None \notin Nat /\ None \notin Cle /\ Vide \notin Cle /\ None # Vide

VARIABLES
  trousseau,  \* keychain: the boot passphrase
  graine,     \* keychain: the seed of the identity
  base,       \* vault.ifv: None, Vide, or the key it is encrypted with
  sidecar,    \* vault.ifv.salt.json: the salt
  meta,       \* vault: <name>:metadata, the public key of the identity
  pub,        \* vault: <name>:public_key
  phase,      \* where the boot stands
  phrase,     \* the passphrase in memory
  tirage,     \* values OsRng has drawn so far: each is new
  pannes,     \* failures and stops so far
  identite,   \* the identity of the running node
  premier     \* history: the identity of the first boot that succeeded

disque == <<trousseau, graine, base, sidecar, meta, pub>>
vars   == <<disque, phase, phrase, tirage, pannes, identite, premier>>

\* The boot returns an error: main prints it and exits.
Echouer == phase' = "arret" /\ phrase' = None

\* The same, because a call failed.
Panne(quoi) ==
  /\ quoi \in Pannes /\ pannes < MaxPannes
  /\ pannes' = pannes + 1
  /\ Echouer

Aller(p) == phase' = p /\ UNCHANGED <<phrase, pannes>>

Tirer == tirage' = tirage + 1

-----------------------------------------------------------------------------

\* The process starts; ensure_data_dir may fail.
Lancer ==
  /\ phase = "arret"
  /\ Aller("phrase") \/ Panne("disque")
  /\ UNCHANGED <<disque, tirage, identite, premier>>

\* mutant: a keychain entry is generated at every boot
EnsureBootPassphrase_toujours ==
  /\ phase = "phrase"
  /\ trousseau' = tirage /\ phrase' = tirage /\ Tirer
  /\ phase' = "coffre"
  /\ UNCHANGED <<graine, base, sidecar, meta, pub, pannes, identite, premier>>

\* ensure_boot_passphrase
EnsureBootPassphrase ==
  /\ phase = "phrase"
  /\ \/ /\ trousseau # None
        /\ phrase' = trousseau
        /\ phase' = "coffre"
        /\ UNCHANGED <<trousseau, tirage, pannes>>
     \/ /\ trousseau = None
        /\ trousseau' = tirage /\ phrase' = tirage /\ Tirer
        /\ phase' = "coffre"
        /\ UNCHANGED pannes
     \/ Panne("trousseau") /\ UNCHANGED <<trousseau, tirage>>
  /\ UNCHANGED <<graine, base, sidecar, meta, pub, identite, premier>>

\* vault_path.exists(): Vault::open. Without its sidecar the vault is
\* NotFound, with another key it is WrongPassphrase.
VaultOpen ==
  /\ phase = "coffre" /\ base # None
  /\ \/ /\ sidecar # None
        /\ base \in {Vide, [phrase |-> phrase, sel |-> sidecar]}
        /\ base' = [phrase |-> phrase, sel |-> sidecar]
        /\ Aller("identite")
     \/ /\ sidecar = None \/ base \notin {Vide, [phrase |-> phrase, sel |-> sidecar]}
        /\ Echouer
        /\ UNCHANGED <<base, pannes>>
     \/ Panne("disque") /\ UNCHANGED base
  /\ UNCHANGED <<trousseau, graine, sidecar, meta, pub, tirage, identite, premier>>

\* mutant: the sidecar is written before the schema
VaultCreate_sans_schema ==
  /\ phase = "coffre" /\ base = None
  /\ base' = Vide
  /\ Aller("sidecar")
  /\ UNCHANGED <<trousseau, graine, sidecar, meta, pub, tirage, identite, premier>>

\* Otherwise Vault::create, refused when there is a sidecar (AlreadyExists).
\* Opening the connection creates the file.
VaultCreate ==
  /\ phase = "coffre" /\ base = None
  /\ \/ IF sidecar = None
          THEN base' = Vide /\ Aller("schema")
          ELSE Echouer /\ UNCHANGED <<base, pannes>>
     \/ Panne("disque") /\ UNCHANGED base
  /\ UNCHANGED <<trousseau, graine, sidecar, meta, pub, tirage, identite, premier>>

\* store.init_schema()?: the first pages, encrypted. On an error the file
\* stays as it is.
InitSchema ==
  /\ phase = "schema"
  /\ \/ base' = [phrase |-> phrase, sel |-> tirage] /\ Tirer /\ Aller("sidecar")
     \/ Panne("disque") /\ UNCHANGED <<base, tirage>>
  /\ UNCHANGED <<trousseau, graine, sidecar, meta, pub, identite, premier>>

\* mutant: the sidecar gets a salt of its own
WriteSidecar_autre_sel ==
  /\ phase = "sidecar"
  /\ sidecar' = tirage /\ Tirer
  /\ Aller("identite")
  /\ UNCHANGED <<trousseau, graine, base, meta, pub, identite, premier>>

\* write_sidecar_atomic, a rename; on an error the database is removed, if
\* that succeeds.
WriteSidecar ==
  /\ phase = "sidecar"
  /\ \/ sidecar' = base.sel /\ Aller("identite") /\ UNCHANGED base
     \/ Panne("disque") /\ base' \in {None, base} /\ UNCHANGED sidecar
  /\ UNCHANGED <<trousseau, graine, meta, pub, tirage, identite, premier>>

Pret(k) ==
  /\ identite' = k
  /\ premier' = IF premier = None THEN k ELSE premier

\* mutant: the pair is not compared after the seed has been read
IdentityLoad_sans_comparer ==
  /\ phase = "identite"
  /\ \/ meta # None /\ graine # None /\ Pret(meta) /\ Aller("pret")
     \/ (meta = None \/ graine = None) /\ Aller("creer") /\ UNCHANGED <<identite, premier>>
  /\ UNCHANGED <<disque, tirage>>

\* Identity::load: metadata, then seed, then their comparison. NotFound, and
\* it alone, leads to create.
IdentityLoad ==
  /\ phase = "identite"
  /\ \/ /\ meta # None /\ graine = meta
        /\ Pret(meta)
        /\ Aller("pret")
     \/ /\ meta = None \/ graine = None
        /\ Aller("creer")
        /\ UNCHANGED <<identite, premier>>
     \/ /\ meta # None /\ graine # None /\ graine # meta             \* KeyMismatch
        /\ Echouer
        /\ UNCHANGED <<pannes, identite, premier>>
     \/ Panne("trousseau") /\ UNCHANGED <<identite, premier>>
  /\ UNCHANGED <<disque, tirage>>

\* Identity::create: refuses to replace anything, then writes the seed.
IdentityCreate ==
  /\ phase = "creer"
  /\ \/ pub = None /\ graine = None /\ graine' = tirage /\ Tirer /\ Aller("meta")
     \/ /\ pub # None \/ graine # None                               \* AlreadyExists
        /\ Echouer
        /\ UNCHANGED <<graine, tirage, pannes>>
     \/ Panne("trousseau") /\ UNCHANGED <<graine, tirage>>
  /\ UNCHANGED <<trousseau, base, sidecar, meta, pub, identite, premier>>

\* The rollback of create: the seed is deleted, if the keychain agrees.
Defaire == Panne("disque") /\ graine' \in {None, graine}

\* persist_metadata, first write
PersistMetadata ==
  /\ phase = "meta"
  /\ \/ meta' = graine /\ Aller("pub") /\ UNCHANGED graine
     \/ Defaire /\ UNCHANGED meta
  /\ UNCHANGED <<trousseau, base, sidecar, pub, tirage, identite, premier>>

\* persist_metadata, second write
PersistPublicKey ==
  /\ phase = "pub"
  /\ \/ /\ pub' = graine /\ UNCHANGED graine
        /\ Pret(graine)
        /\ Aller("pret")
     \/ Defaire /\ UNCHANGED <<pub, identite, premier>>
  /\ UNCHANGED <<trousseau, base, sidecar, meta, tirage>>

\* The process is stopped: a quit, a kill, a power cut.
Mourir ==
  /\ phase # "arret"
  /\ Panne("arret")
  /\ identite' = None
  /\ UNCHANGED <<disque, tirage, premier>>

Init ==
  /\ trousseau = None /\ graine = None
  /\ base = None /\ sidecar = None
  /\ meta = None /\ pub = None
  /\ phase = "arret"
  /\ phrase = None
  /\ tirage = 0
  /\ pannes = 0
  /\ identite = None
  /\ premier = None

Amorcer ==
  \/ Lancer
  \/ EnsureBootPassphrase
  \/ VaultOpen
  \/ VaultCreate
  \/ InitSchema
  \/ WriteSidecar
  \/ IdentityLoad
  \/ IdentityCreate
  \/ PersistMetadata
  \/ PersistPublicKey

Next == Amorcer \/ Mourir

Spec == Init /\ [][Next]_vars

\* The main thread goes on, and a node that stopped is launched again.
FairSpec == Spec /\ WF_vars(Amorcer)

-----------------------------------------------------------------------------
(* Properties *)

Phases == {"arret", "phrase", "coffre", "schema", "sidecar", "identite", "creer",
           "meta", "pub", "pret"}

\* Types; a passphrase is in memory once it has been read.
TypeOK ==
  /\ trousseau \in Nat \cup {None} /\ graine \in Nat \cup {None}
  /\ base \in Cle \cup {None, Vide} /\ sidecar \in Nat \cup {None}
  /\ meta \in Nat \cup {None} /\ pub \in Nat \cup {None}
  /\ phase \in Phases
  /\ phrase \in Nat \cup {None}
  /\ tirage \in Nat /\ pannes \in Nat
  /\ identite \in Nat \cup {None} /\ premier \in Nat \cup {None}
  /\ phase \notin {"arret", "phrase"} => phrase \in Nat
  /\ phase = "sidecar" => base \in Cle
  /\ phase \in {"meta", "pub"} => graine \in Nat

\* The database is encrypted with a key the node can derive again: from the
\* passphrase of the keychain and the salt of the sidecar, when there is one.
\* No failure or stop makes WrongPassphrase out of a vault.
PhraseFidele ==
  base \in Cle => base.phrase = trousseau /\ sidecar \in {None, base.sel}

\* Every boot that succeeds runs the identity of the first one that did, and
\* the keychain and the vault agree on it: launching the node again replaces
\* neither key, whatever failed in between.
IdentiteStable ==
  phase = "pret" => identite = premier /\ graine = identite /\ meta = identite

\* A node that has booted once boots again, as soon as no call fails.
RelanceReussit == premier # None ~> phase = "pret"

=============================================================================
