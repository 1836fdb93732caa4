------------------------------- MODULE Auth -------------------------------
(***************************************************************************)
(* Pairing and request authentication: the crate infinity-auth             *)
(* (src/crates/auth), the middlewares and handlers of src/src/api.rs that  *)
(* drive it, and the namespace "auth" of the vault, where the paired       *)
(* devices live. PUT and DELETE /vault/:ns/:key take any namespace, so     *)
(* they are handlers of this state too.                                    *)
(*                                                                         *)
(* Handlers run in parallel on the two workers of the runtime. The token   *)
(* map has a mutex and so has the vault's connection, each taken for one   *)
(* call only: an action is what a handler does up to the end of one such   *)
(* call.                                                                   *)
(***************************************************************************)
EXTENDS Integers, FiniteSets

CONSTANTS
  Device,        \* device public keys
  Token,         \* pairing tokens: OsRng never draws one twice
  Requete,       \* slots of HTTP requests in flight at the same time
  None,          \* Rust's None
  Illisible,     \* a value that is not the JSON of a PairedDevice
  TTL,           \* DEFAULT_PAIRING_TTL
  SKEW,          \* MAX_TIMESTAMP_SKEW_SECS
  Horodatages,   \* timestamps a client may sign
  Corps,         \* bodies a PUT into the namespace may carry
  PannesCoffre,  \* {TRUE} where the vault may refuse a write, else {}
  MaxNow,        \* bound: last instant of the clock
  MaxRelances    \* bound: number of restarts

ASSUME AuthAssumption ==
  /\ TTL \in Nat
  /\ SKEW \in Nat
  /\ Horodatages \subseteq Nat
  /\ PannesCoffre \subseteq {TRUE}
  /\ MaxNow \in Nat
  /\ MaxRelances \in Nat

PairedDevice == [paired_at : Nat, last_seen_at : Nat]

\* For the histories: when, and in which boot.
Instant == [quand : Nat, boot : Nat]

ASSUME SentinelAssumption ==
  /\ None \notin PairedDevice /\ Illisible \notin PairedDevice
  /\ None # Illisible
  /\ Corps \subseteq PairedDevice \cup {Illisible}
  /\ None \notin Device /\ None \notin Token /\ None \notin Nat
  /\ None \notin Instant

VARIABLES
  tokens,    \* PairingTokenStore.tokens: expiry, or None
  coffre,    \* vault, namespace "auth": what is stored for each device
  etat,      \* where each request stands
  req,       \* what each request carries
  now,       \* now_unix()
  relances,  \* restarts so far
  emission,  \* history: when and in which boot each token was created
  usages,    \* history: successful consumptions of each token
  dernier,   \* history: when and in which boot each token was last consumed
  garant,    \* history: the token by which each device was last paired
  poses,     \* history: devices a vault write has put there
  revoques,  \* history: devices revoked while no touch of theirs was pending
  rejeu      \* history: first and last acceptance of each signed timestamp

histoire == <<emission, usages, dernier, garant, poses, revoques, rejeu>>
vars     == <<tokens, coffre, etat, req, now, relances, histoire>>

\* What a protected request asks for: a removal (DELETE /auth/devices/:pubkey
\* and DELETE /vault/auth/device:... do the same), a PUT of a body, or
\* something that is not about this state.
Operation ==
  [op : {"revoquer"}, cible : Device, corps : {None}]
    \cup [op : {"ecrire"}, cible : Device, corps : Corps]
    \cup [op : {"autre"}, cible : {None}, corps : {None}]

SansRequete == [device |-> None, jeton |-> None, ts |-> 0, sig |-> FALSE,
                op |-> "autre", cible |-> None, valeur |-> None, corps |-> None]

Aller(r, e) == etat' = [etat EXCEPT ![r] = e]

Finir(r) ==
  /\ Aller(r, "libre")
  /\ req' = [req EXCEPT ![r] = SansRequete]

\* ns.put of the entry of d; the vault may refuse, and the caller goes on.
Put(d, v) ==
  \/ coffre' = [coffre EXCEPT ![d] = v]
  \/ PannesCoffre # {} /\ UNCHANGED coffre

-----------------------------------------------------------------------------
(* Pairing tokens *)

\* mutant: a token still counts at the very instant it expires
retain_inclus(m, t) ==
  [k \in Token |-> IF m[k] # None /\ m[k] >= t THEN m[k] ELSE None]

\* map.retain(|_, exp| *exp > now)
retain(m, t) ==
  [k \in Token |-> IF m[k] # None /\ m[k] > t THEN m[k] ELSE None]

\* "Appairer" in the tray: PairingTokenStore::create. It computes the expiry
\* before it locks the map; nobody knows the token before it returns.
CreatePairingToken(t) ==
  /\ emission[t] = None
  /\ tokens' = [retain(tokens, now) EXCEPT ![t] = now + TTL]
  /\ emission' = [emission EXCEPT ![t] = [quand |-> now, boot |-> relances]]
  /\ UNCHANGED <<coffre, etat, req, now, relances, usages, dernier, garant,
                 poses, revoques, rejeu>>

\* mutant: the token stays in the map until the device is written
consume_sans_retrait(r, t, d) ==
  /\ retain(tokens, now)[t] # None
  /\ tokens' = retain(tokens, now)
  /\ usages' = [usages EXCEPT ![t] = @ + 1]
  /\ dernier' = [dernier EXCEPT ![t] = [quand |-> now, boot |-> relances]]
  /\ req' = [req EXCEPT ![r] = [SansRequete EXCEPT !.device = d, !.jeton = t]]
  /\ Aller(r, "ajout_lire")

\* PairingTokenStore::consume, when it finds the token
consume(r, t, d) ==
  /\ retain(tokens, now)[t] # None
  /\ tokens' = [retain(tokens, now) EXCEPT ![t] = None]
  /\ usages' = [usages EXCEPT ![t] = @ + 1]
  /\ dernier' = [dernier EXCEPT ![t] = [quand |-> now, boot |-> relances]]
  /\ req' = [req EXCEPT ![r] = [SansRequete EXCEPT !.device = d, !.jeton = t]]
  /\ Aller(r, "ajout_lire")

\* POST /pair/complete; an unknown or expired token gets 401, and the expired
\* ones are dropped on the way. A bad key or label is refused before (400).
PairComplete(r, t, d) ==
  /\ etat[r] = "libre"
  /\ \/ consume(r, t, d)
     \/ /\ retain(tokens, now)[t] = None
        /\ tokens' = retain(tokens, now)
        /\ UNCHANGED <<etat, req, usages, dernier>>
  /\ UNCHANGED <<coffre, now, relances, emission, garant, poses, revoques, rejeu>>

\* mutant: the record to write is not built before the write
AddDeviceGet_sans_valeur(r) ==
  /\ etat[r] = "ajout_lire"
  /\ Aller(r, "ajout_ecrire")
  /\ UNCHANGED <<tokens, coffre, req, now, relances, histoire>>

\* add_device, the lookup: an entry already there, readable or not, is
\* DeviceAlreadyPaired, and the token is lost.
AddDeviceGet(r) ==
  /\ etat[r] = "ajout_lire"
  /\ \/ coffre[req[r].device] # None /\ Finir(r)
     \/ /\ coffre[req[r].device] = None
        /\ req' = [req EXCEPT ![r].valeur = [paired_at |-> now, last_seen_at |-> now]]
        /\ Aller(r, "ajout_ecrire")
  /\ UNCHANGED <<tokens, coffre, now, relances, histoire>>

\* add_device, the write
AddDevicePut(r) ==
  /\ etat[r] = "ajout_ecrire"
  /\ LET d == req[r].device IN
       /\ Put(d, req[r].valeur)
       /\ garant' = [garant EXCEPT ![d] = IF coffre' = coffre THEN @ ELSE req[r].jeton]
       /\ revoques' = IF coffre' = coffre THEN revoques ELSE revoques \ {d}
  /\ Finir(r)
  /\ UNCHANGED <<tokens, now, relances, emission, usages, dernier, poses, rejeu>>

-----------------------------------------------------------------------------
(* Signed requests *)

\* A request to a protected route, with a header SignatureHeader::parse
\* accepts; one without it gets 401 and changes nothing.
AuthMiddleware(r, d, ts, sig, o) ==
  /\ etat[r] = "libre"
  /\ req' = [req EXCEPT ![r] = [device |-> d, jeton |-> None, ts |-> ts, sig |-> sig,
                                op |-> o.op, cible |-> o.cible, corps |-> o.corps,
                                valeur |-> None]]
  /\ Aller(r, "lire")
  /\ UNCHANGED <<tokens, coffre, now, relances, histoire>>

\* A request to a legacy route: without a header it goes through, with one it
\* is verified like the others. None of these handlers is about this state.
AuthCompatMiddleware(r, d, ts, sig) ==
  /\ etat[r] = "libre"
  /\ \/ /\ d = None
        /\ Aller(r, "traiter")
        /\ req' = [req EXCEPT ![r] = SansRequete]
     \/ /\ d # None
        /\ Aller(r, "lire")
        /\ req' = [req EXCEPT ![r] = [SansRequete EXCEPT !.device = d, !.ts = ts, !.sig = sig]]
  /\ UNCHANGED <<tokens, coffre, now, relances, histoire>>

\* mutant: the device is not looked up before the signature is verified
GetDevice_sans_appairage(r) ==
  /\ etat[r] = "lire"
  /\ Aller(r, "verifier")
  /\ UNCHANGED <<tokens, coffre, req, now, relances, histoire>>

\* verify_request, step 1: get_device fails on an unreadable entry.
GetDevice(r) ==
  /\ etat[r] = "lire"
  /\ \/ coffre[req[r].device] \in PairedDevice /\ Aller(r, "verifier") /\ UNCHANGED req
     \/ coffre[req[r].device] \notin PairedDevice /\ Finir(r)
  /\ UNCHANGED <<tokens, coffre, now, relances, histoire>>

\* (now - timestamp).abs() <= MAX_TIMESTAMP_SKEW_SECS
dans_la_fenetre(ts, t) == t - ts <= SKEW /\ ts - t <= SKEW

\* verify_request, steps 2 and 3: window, then signature.
VerifySignature(r) ==
  /\ etat[r] = "verifier"
  /\ LET d == req[r].device
         ts == req[r].ts
     IN  \/ /\ dans_la_fenetre(ts, now) /\ req[r].sig
            /\ Aller(r, "touche_lire")
            /\ rejeu' = [rejeu EXCEPT ![d][ts] =
                           [premier |-> IF @ = None THEN now ELSE @.premier,
                            dernier |-> now]]
            /\ UNCHANGED req
         \/ /\ ~(dans_la_fenetre(ts, now) /\ req[r].sig)
            /\ Finir(r)
            /\ UNCHANGED rejeu
  /\ UNCHANGED <<tokens, coffre, now, relances, emission, usages, dernier,
                 garant, poses, revoques>>

\* A write-back of d's entry, read earlier, is still to come.
TouchePendante(d) ==
  \E r \in Requete : etat[r] = "touche_ecrire" /\ req[r].device = d

\* mutant: the touch trusts the device read when the request was verified
ToucheGet_sans_relire(r) ==
  /\ etat[r] = "touche_lire"
  /\ req' = [req EXCEPT ![r].valeur = [paired_at |-> 0, last_seen_at |-> now]]
  /\ Aller(r, "touche_ecrire")
  /\ UNCHANGED <<tokens, coffre, now, relances, histoire>>

\* touch_device_last_seen, the lookup
ToucheGet(r) ==
  /\ etat[r] = "touche_lire"
  /\ \/ /\ coffre[req[r].device] \in PairedDevice
        /\ req' = [req EXCEPT ![r].valeur =
                     [coffre[req[r].device] EXCEPT !.last_seen_at = now]]
        /\ Aller(r, "touche_ecrire")
     \/ /\ coffre[req[r].device] \notin PairedDevice
        /\ Aller(r, "traiter")
        /\ UNCHANGED req
  /\ UNCHANGED <<tokens, coffre, now, relances, histoire>>

\* touch_device_last_seen, the write: its failure does not stop the request.
TouchePut(r) ==
  /\ etat[r] = "touche_ecrire"
  /\ Put(req[r].device, req[r].valeur)
  /\ Aller(r, "traiter")
  /\ UNCHANGED <<tokens, req, now, relances, histoire>>

\* The handler behind the middleware: DELETE /auth/devices/:pubkey, PUT and
\* DELETE /vault/auth/device:..., or one that leaves this state alone. A
\* refusal of the vault is a 500.
Revoquer(r) ==
  LET c == req[r].cible IN
  /\ req[r].op = "revoquer"
  /\ Put(c, None)
  /\ revoques' = IF coffre'[c] = None /\ ~TouchePendante(c) THEN revoques \cup {c} ELSE revoques
  /\ UNCHANGED poses

VaultPut(r) ==
  LET c == req[r].cible IN
  /\ req[r].op = "ecrire"
  /\ Put(c, req[r].corps)
  /\ poses' = IF coffre' = coffre THEN poses ELSE poses \cup {c}
  /\ revoques' = IF coffre' = coffre THEN revoques ELSE revoques \ {c}

Traiter(r) ==
  /\ etat[r] = "traiter"
  /\ \/ Revoquer(r)
     \/ VaultPut(r)
     \/ req[r].op = "autre" /\ UNCHANGED <<coffre, poses, revoques>>
  /\ Finir(r)
  /\ UNCHANGED <<tokens, now, relances, emission, usages, dernier, garant, rejeu>>

-----------------------------------------------------------------------------

Tick ==
  /\ now < MaxNow
  /\ now' = now + 1
  /\ UNCHANGED <<tokens, coffre, etat, req, relances, histoire>>

\* The process stops anywhere and boots again: the tokens are in memory only,
\* AuthService::new starts with none; the vault survives.
Relancer ==
  /\ relances < MaxRelances
  /\ relances' = relances + 1
  /\ tokens' = [t \in Token |-> None]
  /\ etat' = [r \in Requete |-> "libre"]
  /\ req' = [r \in Requete |-> SansRequete]
  /\ UNCHANGED <<coffre, now, histoire>>

Init ==
  /\ tokens = [t \in Token |-> None]
  /\ coffre = [d \in Device |-> None]
  /\ etat = [r \in Requete |-> "libre"]
  /\ req = [r \in Requete |-> SansRequete]
  /\ now = 0
  /\ relances = 0
  /\ emission = [t \in Token |-> None]
  /\ usages = [t \in Token |-> 0]
  /\ dernier = [t \in Token |-> None]
  /\ garant = [d \in Device |-> None]
  /\ poses = {}
  /\ revoques = {}
  /\ rejeu = [d \in Device |-> [ts \in Horodatages |-> None]]

Recevoir(r) ==
  \/ \E t \in Token, d \in Device : PairComplete(r, t, d)
  \/ \E d \in Device, ts \in Horodatages, sig \in BOOLEAN, o \in Operation :
       AuthMiddleware(r, d, ts, sig, o)
  \/ \E d \in Device \cup {None}, ts \in Horodatages, sig \in BOOLEAN :
       AuthCompatMiddleware(r, d, ts, sig)

Avancer(r) ==
  \/ AddDeviceGet(r)
  \/ AddDevicePut(r)
  \/ GetDevice(r)
  \/ VerifySignature(r)
  \/ ToucheGet(r)
  \/ TouchePut(r)
  \/ Traiter(r)

Next ==
  \/ \E t \in Token : CreatePairingToken(t)
  \/ \E r \in Requete : Recevoir(r)
  \/ \E r \in Requete : Avancer(r)
  \/ Tick
  \/ Relancer

Spec == Init /\ [][Next]_vars

-----------------------------------------------------------------------------
(* Properties *)

Etats == {"libre", "ajout_lire", "ajout_ecrire", "lire", "verifier",
          "touche_lire", "touche_ecrire", "traiter"}

Requetes == [device : Device \cup {None}, jeton : Token \cup {None},
             ts : Nat, sig : BOOLEAN, op : {"revoquer", "ecrire", "autre"},
             cible : Device \cup {None},
             valeur : PairedDevice \cup {None}, corps : Corps \cup {None}]

\* Types; a request past its arrival knows its device, a write its value.
TypeOK ==
  /\ tokens \in [Token -> Nat \cup {None}]
  /\ coffre \in [Device -> PairedDevice \cup {Illisible, None}]
  /\ etat \in [Requete -> Etats]
  /\ req \in [Requete -> Requetes]
  /\ now \in Nat /\ relances \in Nat
  /\ emission \in [Token -> Instant \cup {None}]
  /\ usages \in [Token -> Nat]
  /\ dernier \in [Token -> Instant \cup {None}]
  /\ garant \in [Device -> Token \cup {None}]
  /\ poses \subseteq Device /\ revoques \subseteq Device
  /\ rejeu \in [Device -> [Horodatages -> [premier : Nat, dernier : Nat] \cup {None}]]
  /\ \A r \in Requete :
       /\ etat[r] \notin {"libre", "traiter"} => req[r].device \in Device
       /\ etat[r] \in {"ajout_lire", "ajout_ecrire"} => req[r].jeton \in Token
       /\ etat[r] \in {"ajout_ecrire", "touche_ecrire"} => req[r].valeur \in PairedDevice
       /\ req[r].op # "autre" => req[r].cible \in Device
       /\ req[r].op = "ecrire" => req[r].corps \in Corps

\* A pairing token succeeds at most once, in the boot that created it and
\* strictly before its expiry, whatever requests race for it.
JetonUnique ==
  \A t \in Token : usages[t] # 0 =>
    /\ usages[t] = 1
    /\ tokens[t] = None
    /\ dernier[t].boot = emission[t].boot
    /\ dernier[t].quand < emission[t].quand + TTL

\* A device that is in the vault, and that no vault write put there, was let
\* in by a consumed token, and no token let in two devices.
GarantUnique ==
  \A d \in Device : coffre[d] # None /\ d \notin poses =>
    /\ garant[d] \in Token /\ usages[garant[d]] = 1
    /\ \A e \in Device \ {d} : garant[e] # garant[d]

\* A revoked device stays out of the vault until it is paired again or put
\* there, provided no touch had read its entry when the revocation took
\* effect: later requests of the device cannot bring it back.
RevocationTient == \A d \in revoques : coffre[d] = None

\* A request that has passed the strict middleware belongs to a device that
\* was paired, by a token or by a vault write, at some time.
AccesApparie ==
  \A r \in Requete :
    etat[r] \in {"verifier", "touche_lire", "touche_ecrire", "traiter"} =>
      \/ req[r].device = None /\ req[r].op = "autre"
      \/ /\ req[r].device \in Device
         /\ garant[req[r].device] # None \/ req[r].device \in poses

\* What the state says in the words of Appairage: how far each token has come,
\* the pairings under way, who is in the vault, and the requests past the
\* lookup of their device and past the verification of their signature.
Jeton == [t \in Token |-> CASE emission[t] = None -> "inedit"
                            [] emission[t] # None /\ tokens[t] # None -> "offert"
                            [] emission[t] # None /\ tokens[t] = None -> "clos"]

Prises ==
  {<<req[r].jeton, req[r].device>> :
     r \in {q \in Requete : etat[q] \in {"ajout_lire", "ajout_ecrire"}}}

Membre == {d \in Device : coffre[d] # None}

Session ==
  [r \in Requete |->
     IF etat[r] \in {"verifier", "touche_lire", "touche_ecrire", "traiter"}
       THEN req[r].device ELSE None]

Signees == {r \in Requete : /\ etat[r] \in {"touche_lire", "touche_ecrire", "traiter"}
                            /\ req[r].device # None}

\* The code keeps the promise of Appairage: a token is taken at most once and
\* lets at most one device in, requests speak for devices that were in when
\* they were looked up, and the devices change only by a taken token or by a
\* request whose signature was accepted. The write-back of last_seen_at may
\* put the request's own device back (RetourParAppairage), no other.
Promesse == INSTANCE Appairage WITH
  jeton <- Jeton, prises <- Prises, membre <- Membre, session <- Session, signees <- Signees

AppairageTenu == Promesse!Spec

(* What the comments of the code say, and the code does not do *)

\* After a revocation every request of the device gets DeviceNotPaired: a
\* device comes back into the vault by a pairing or a vault write only.
RetourParAppairage ==
  [][\A d \in Device : coffre[d] = None /\ coffre'[d] # None =>
       \E r \in Requete : etat[r] \in {"ajout_ecrire", "traiter"} /\ etat'[r] = "libre"]_vars

=============================================================================
