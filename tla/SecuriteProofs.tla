-------------------------- MODULE SecuriteProofs --------------------------
(***************************************************************************)
(* Proofs about Securite: its types, that the vault always stays openable  *)
(* with what the keychain and the sidecar hold, that every boot that       *)
(* succeeds runs the identity of the first one, and that after a first     *)
(* success nothing but a failing call or a stop keeps a boot from ending   *)
(* well; for any number of failures and stops.                             *)
(***************************************************************************)
EXTENDS Securite, TLAPS

\* Every way out of a handler: an error, a failed call or the next phase.
LEMMA SortiesType ==
  ASSUME TypeOK
  PROVE  /\ Echouer => phase' = "arret" /\ phrase' = None
         /\ \A quoi : Panne(quoi) => phase' = "arret" /\ phrase' = None /\ pannes' \in Nat
         /\ \A p : Aller(p) => phase' = p /\ phrase' = phrase /\ pannes' = pannes
         /\ Tirer => tirage' \in Nat
BY DEF TypeOK, Echouer, Panne, Aller, Tirer

\* Types of the boot and of the three stores, for any number of failures.
THEOREM TypeCorrect == Spec => []TypeOK
<1>1. Init => TypeOK
  BY SentinelAssumption DEF Init, TypeOK, Phases
<1>2. TypeOK /\ [Next]_vars => TypeOK'
  <2> SUFFICES ASSUME TypeOK, [Next]_vars PROVE TypeOK'
    OBVIOUS
  <2> USE SentinelAssumption, SortiesType
  <2>1. CASE Lancer
    BY <2>1 DEF Lancer, TypeOK, Phases, disque
  <2>2. CASE EnsureBootPassphrase
    BY <2>2 DEF EnsureBootPassphrase, TypeOK, Phases
  <2>3. CASE VaultOpen
    <3>1. phrase \in Nat
      BY <2>3 DEF VaultOpen, TypeOK
    <3>2. CASE /\ sidecar # None
               /\ base' = [phrase |-> phrase, sel |-> sidecar]
               /\ Aller("identite")
      <4>1. base' \in Cle
        BY <3>1, <3>2 DEF TypeOK, Cle
      <4> QED  BY <2>3, <3>2, <4>1 DEF VaultOpen, TypeOK, Phases
    <3>3. CASE Echouer /\ UNCHANGED <<base, pannes>>
      BY <2>3, <3>3 DEF VaultOpen, TypeOK, Phases
    <3>4. CASE Panne("disque") /\ UNCHANGED base
      BY <2>3, <3>4 DEF VaultOpen, TypeOK, Phases
    <3> QED  BY <2>3, <3>2, <3>3, <3>4 DEF VaultOpen
  <2>4. CASE VaultCreate
    BY <2>4 DEF VaultCreate, TypeOK, Phases
  <2>5. CASE InitSchema
    <3>1. phrase \in Nat
      BY <2>5 DEF InitSchema, TypeOK
    <3>2. CASE base' = [phrase |-> phrase, sel |-> tirage] /\ Tirer /\ Aller("sidecar")
      <4>1. base' \in Cle
        BY <3>1, <3>2 DEF TypeOK, Cle
      <4> QED  BY <2>5, <3>2, <4>1 DEF InitSchema, TypeOK, Phases
    <3>3. CASE Panne("disque") /\ UNCHANGED <<base, tirage>>
      BY <2>5, <3>3 DEF InitSchema, TypeOK, Phases
    <3> QED  BY <2>5, <3>2, <3>3 DEF InitSchema
  <2>6. CASE WriteSidecar
    <3>1. base \in Cle /\ base.sel \in Nat
      BY <2>6 DEF WriteSidecar, TypeOK, Cle
    <3> QED  BY <2>6, <3>1 DEF WriteSidecar, TypeOK, Phases
  <2>7. CASE IdentityLoad
    BY <2>7 DEF IdentityLoad, Pret, TypeOK, Phases, disque
  <2>8. CASE IdentityCreate
    BY <2>8 DEF IdentityCreate, TypeOK, Phases
  <2>9. CASE PersistMetadata
    BY <2>9 DEF PersistMetadata, Defaire, TypeOK, Phases
  <2>10. CASE PersistPublicKey
    BY <2>10 DEF PersistPublicKey, Defaire, Pret, TypeOK, Phases
  <2>11. CASE Mourir
    BY <2>11 DEF Mourir, TypeOK, Phases, disque
  <2>12. CASE UNCHANGED vars
    BY <2>12 DEF vars, disque, TypeOK, Phases
  <2> QED
    BY <2>1, <2>2, <2>3, <2>4, <2>5, <2>6, <2>7, <2>8, <2>9, <2>10, <2>11, <2>12
    DEF Next, Amorcer
<1> QED  BY <1>1, <1>2, PTL DEF Spec

-----------------------------------------------------------------------------
(* The passphrase *)

\* The strengthening: the passphrase in memory is the one of the keychain,
\* and a database gets its first pages only while there is no sidecar.
PhraseInv ==
  /\ PhraseFidele
  /\ phase \notin {"arret", "phrase"} => phrase = trousseau
  /\ phase = "schema" => sidecar = None

\* PhraseInv is kept by every step.
LEMMA PhraseStep == TypeOK /\ PhraseInv /\ [Next]_vars => PhraseInv'
<1> SUFFICES ASSUME TypeOK, PhraseInv, [Next]_vars PROVE PhraseInv'
  OBVIOUS
<1> USE SentinelAssumption, SortiesType DEF PhraseInv, PhraseFidele
<1>1. CASE Lancer
  BY <1>1 DEF Lancer, disque
<1>2. CASE EnsureBootPassphrase
  <2>1. base \in Cle => trousseau # None
    BY DEF Cle
  <2> QED  BY <1>2, <2>1 DEF EnsureBootPassphrase
<1>3. CASE VaultOpen
  BY <1>3 DEF VaultOpen, TypeOK
<1>4. CASE VaultCreate
  BY <1>4 DEF VaultCreate, TypeOK
<1>5. CASE InitSchema
  BY <1>5 DEF InitSchema, TypeOK
<1>6. CASE WriteSidecar
  BY <1>6 DEF WriteSidecar, TypeOK
<1>7. CASE IdentityLoad
  BY <1>7 DEF IdentityLoad, disque
<1>8. CASE IdentityCreate
  BY <1>8 DEF IdentityCreate
<1>9. CASE PersistMetadata
  BY <1>9 DEF PersistMetadata, Defaire
<1>10. CASE PersistPublicKey
  BY <1>10 DEF PersistPublicKey, Defaire
<1>11. CASE Mourir
  BY <1>11 DEF Mourir, disque
<1>12. CASE UNCHANGED vars
  BY <1>12 DEF vars, disque
<1> QED
  BY <1>1, <1>2, <1>3, <1>4, <1>5, <1>6, <1>7, <1>8, <1>9, <1>10, <1>11, <1>12
  DEF Next, Amorcer

\* No sequence of failures and stops separates a vault from the passphrase of
\* the keychain and the salt of the sidecar.
THEOREM PhraseCorrect == Spec => []PhraseFidele
<1>1. Init => PhraseInv
  BY SentinelAssumption DEF Init, PhraseInv, PhraseFidele
<1>2. PhraseInv => PhraseFidele
  BY DEF PhraseInv
<1> QED  BY <1>1, <1>2, PhraseStep, TypeCorrect, PTL DEF Spec

-----------------------------------------------------------------------------
(* The identity *)

\* The strengthening: past the vault, the sidecar has the salt of the
\* database; once a boot has succeeded, keychain and vault hold its identity
\* and no later boot gets as far as creating anything.
IdentiteInv ==
  /\ phase \in {"identite", "creer", "meta", "pub", "pret"} => base \in Cle /\ sidecar = base.sel
  /\ phase = "pub" => meta = graine
  /\ phase = "pret" => premier # None /\ identite = premier
  /\ premier # None =>
       /\ graine = premier /\ meta = premier
       /\ base \in Cle /\ sidecar = base.sel
       /\ phase \in {"arret", "phrase", "coffre", "identite", "pret"}

\* IdentiteInv is kept by every step.
LEMMA IdentiteStep ==
  TypeOK /\ PhraseInv /\ IdentiteInv /\ [Next]_vars => IdentiteInv'
<1> SUFFICES ASSUME TypeOK, PhraseInv, IdentiteInv, [Next]_vars PROVE IdentiteInv'
  OBVIOUS
<1> USE SentinelAssumption, SortiesType DEF IdentiteInv
<1>1. CASE Lancer
  BY <1>1 DEF Lancer, disque
<1>2. CASE EnsureBootPassphrase
  BY <1>2 DEF EnsureBootPassphrase
<1>3. CASE VaultOpen
  <2>1. phrase \in Nat
    BY <1>3 DEF VaultOpen, TypeOK
  <2>2. CASE /\ sidecar # None
             /\ base' = [phrase |-> phrase, sel |-> sidecar]
             /\ Aller("identite")
    <3>1. base' \in Cle /\ base'.sel = sidecar
      BY <2>1, <2>2 DEF TypeOK, Cle
    <3> QED  BY <1>3, <2>2, <3>1 DEF VaultOpen
  <2>3. CASE phase' = "arret" /\ UNCHANGED base
    BY <1>3, <2>3 DEF VaultOpen
  <2> QED  BY <1>3, <2>2, <2>3 DEF VaultOpen
<1>4. CASE VaultCreate
  BY <1>4 DEF VaultCreate
<1>5. CASE InitSchema
  BY <1>5 DEF InitSchema
<1>6. CASE WriteSidecar
  BY <1>6 DEF WriteSidecar, TypeOK
<1>7. CASE IdentityLoad
  BY <1>7 DEF IdentityLoad, Pret, disque
<1>8. CASE IdentityCreate
  BY <1>8 DEF IdentityCreate
<1>9. CASE PersistMetadata
  BY <1>9 DEF PersistMetadata, Defaire
<1>10. CASE PersistPublicKey
  BY <1>10 DEF PersistPublicKey, Defaire, Pret, TypeOK
<1>11. CASE Mourir
  BY <1>11 DEF Mourir, disque
<1>12. CASE UNCHANGED vars
  BY <1>12 DEF vars, disque
<1> QED
  BY <1>1, <1>2, <1>3, <1>4, <1>5, <1>6, <1>7, <1>8, <1>9, <1>10, <1>11, <1>12
  DEF Next, Amorcer

\* Every boot that succeeds runs the identity of the first one that did, and
\* keychain and vault agree on it, for any number of failures and stops.
THEOREM IdentiteCorrect == Spec => []IdentiteStable
<1>1. Init => PhraseInv /\ IdentiteInv
  BY SentinelAssumption DEF Init, PhraseInv, PhraseFidele, IdentiteInv
<1>2. IdentiteInv => IdentiteStable
  BY DEF IdentiteInv, IdentiteStable
<1> QED  BY <1>1, <1>2, PhraseStep, IdentiteStep, TypeCorrect, PTL DEF Spec

-----------------------------------------------------------------------------
(* The boots after the first success *)

\* Once a boot has succeeded, no boot writes anything new to the keychain or
\* the vault, and a step in which no call fails and nobody stops the process
\* takes the boot one stage further: passphrase, vault, identity, ready. No
\* state left on disk by earlier failures is a dead end (WrongPassphrase,
\* NotFound, AlreadyExists, KeyMismatch), whatever the number of failures.
Suite == {<<"arret", "phrase">>, <<"phrase", "coffre">>, <<"coffre", "identite">>,
          <<"identite", "pret">>}

RelanceSansImpasse ==
  [][premier # None =>
       /\ UNCHANGED disque /\ premier' = premier
       /\ pannes' = pannes => <<phase, phase'>> \in Suite]_vars

\* A failed call, or a stop, is counted.
LEMMA PanneCompte ==
  ASSUME TypeOK, NEW quoi, Panne(quoi)
  PROVE  pannes' # pannes
BY DEF TypeOK, Panne

\* The node that has booted once has only failed calls and stops against it,
\* and they leave keychain and vault as they were.
THEOREM RelanceCorrect == Spec => RelanceSansImpasse
<1>1. Init => PhraseInv /\ IdentiteInv
  BY SentinelAssumption DEF Init, PhraseInv, PhraseFidele, IdentiteInv
<1>2. TypeOK /\ PhraseInv /\ IdentiteInv /\ [Next]_vars =>
        [premier # None =>
           /\ UNCHANGED disque /\ premier' = premier
           /\ pannes' = pannes => <<phase, phase'>> \in Suite]_vars
  <2> SUFFICES ASSUME TypeOK, PhraseInv, IdentiteInv, Next, premier # None
               PROVE  /\ UNCHANGED disque /\ premier' = premier
                      /\ pannes' = pannes => <<phase, phase'>> \in Suite
    OBVIOUS
  <2> USE PanneCompte, SentinelAssumption DEF disque, Suite
  <2>1. /\ graine = premier /\ meta = premier
        /\ base \in Cle /\ sidecar = base.sel /\ base.phrase = trousseau
        /\ phase \in {"arret", "phrase", "coffre", "identite", "pret"}
    BY DEF IdentiteInv, PhraseInv, PhraseFidele
  <2>2. trousseau \in Nat /\ sidecar \in Nat /\ base = [phrase |-> trousseau, sel |-> sidecar]
    BY <2>1 DEF Cle
  <2>3. CASE Lancer
    BY <2>3 DEF Lancer, Aller
  <2>4. CASE EnsureBootPassphrase
    BY <2>2, <2>4 DEF EnsureBootPassphrase
  <2>5. CASE VaultOpen
    <3>1. phrase = trousseau
      BY <2>5 DEF VaultOpen, PhraseInv
    <3> QED  BY <2>2, <2>5, <3>1 DEF VaultOpen, Aller
  <2>6. CASE IdentityLoad
    BY <2>1, <2>6 DEF IdentityLoad, Pret, Aller
  <2>7. CASE Mourir
    BY <2>7 DEF Mourir
  <2>8. ~(VaultCreate \/ InitSchema \/ WriteSidecar \/ IdentityCreate \/ PersistMetadata
            \/ PersistPublicKey)
    BY <2>1 DEF VaultCreate, InitSchema, WriteSidecar, IdentityCreate, PersistMetadata,
       PersistPublicKey
  <2> QED  BY <2>3, <2>4, <2>5, <2>6, <2>7, <2>8 DEF Next, Amorcer
<1> QED
  BY <1>1, <1>2, PhraseStep, IdentiteStep, TypeCorrect, PTL DEF Spec, RelanceSansImpasse

============================================================================
