-------------------------------- MODULE Flux --------------------------------
(***************************************************************************)
(* What the node tells of itself: the metrics loop that asks kubo          *)
(* (src/src/kubo.rs), the bandwidth of the day (src/src/bandwidth.rs), the *)
(* frames pushed to each WebSocket (src/src/stream.rs, snapshot of         *)
(* src/src/main.rs), and the pause of the tray.                            *)
(*                                                                         *)
(* The loop, each socket's task and the tray's thread run concurrently on  *)
(* atomics; nothing is locked. kubo serves bytes, is restarted by whoever  *)
(* runs it (its counter is then back to zero), or does not answer. The     *)
(* clock changes day, forwards or, once set right, backwards.              *)
(***************************************************************************)
EXTENDS Naturals

CONSTANTS
  Socket,        \* WebSocket clients
  None,          \* nothing
  Jours,         \* days of the clock, counted from 1970
  DejaServi,     \* bytes kubo may have served before the node starts
  MaxEvenements  \* bound: what happens to kubo and to the clock

ASSUME FluxAssumption ==
  /\ Jours \subseteq Nat \ {0} /\ Jours # {}
  /\ DejaServi \subseteq Nat /\ MaxEvenements \in Nat

VARIABLES
  evenements,      \* what happened so far
  servi,           \* history: bytes kubo has served
  origine,         \* the value of servi when kubo was last started
  jour,            \* the clock's day
  boucle,          \* the metrics loop: "bw", "stocker", "sample"
  recu,            \* kubo's answer: servi and origine at that time
  bytes_served,    \* of KuboMetrics
  baseline_bytes,  \* BandwidthTracker: the total the day started with,
  used_today,      \*   the bytes of the day,
  current_day,     \*   the day, 0 before the first sample
  base,            \* history: the answer baseline_bytes comes from,
  dernier,         \*   the answer used_today comes from
  enabled,         \* the node is not paused
  ws,              \* the task of each socket
  vue,             \* what its client was sent last
  meme             \* uptime is still that of the last hash

kubo     == <<servi, origine>>
suivi    == <<baseline_bytes, used_today, current_day, base, dernier>>
sockets  == <<ws, vue, meme>>
vars == <<evenements, kubo, jour, boucle, recu, bytes_served, suivi, enabled, sockets>>

-----------------------------------------------------------------------------
(* kubo and the clock *)

Evenement == evenements < MaxEvenements /\ evenements' = evenements + 1

Servir ==
  /\ Evenement /\ servi' = servi + 1
  /\ UNCHANGED <<origine, jour, boucle, recu, bytes_served, suivi, enabled, sockets>>

RelancerKubo ==
  /\ Evenement /\ origine' = servi
  /\ UNCHANGED <<servi, jour, boucle, recu, bytes_served, suivi, enabled, sockets>>

Minuit ==
  /\ Evenement /\ jour' \in Jours \ {jour}
  /\ UNCHANGED <<kubo, boucle, recu, bytes_served, suivi, enabled, sockets>>

\* A second passes: uptime, part of every snapshot, is another.
Seconde ==
  /\ \E s \in Socket : meme[s]
  /\ meme' = [s \in Socket |-> FALSE]
  /\ UNCHANGED <<evenements, kubo, jour, boucle, recu, bytes_served, suivi, enabled, ws, vue>>

-----------------------------------------------------------------------------
(* The metrics loop. The peers and the pins of kubo are asked for and       *)
(* stored like its total, which stands for the three figures.              *)

\* TotalOut: kubo counts since its start.
total(r) == r.servi - r.origine

\* kubo answers /stats/bw. A timeout, a refusal or another JSON changes nothing
\* and the loop asks again.
Bw ==
  /\ boucle = "bw" /\ boucle' = "stocker"
  /\ recu' = [servi |-> servi, origine |-> origine]
  /\ UNCHANGED <<evenements, kubo, jour, bytes_served, suivi, enabled, sockets>>

Stocker ==
  /\ boucle = "stocker" /\ boucle' = "sample"
  /\ bytes_served' = total(recu)
  /\ UNCHANGED <<evenements, kubo, jour, recu, suivi, enabled, sockets>>

\* mutant: the baseline stays when the day changes
baseline_gardee(t) == IF current_day = 0 THEN t ELSE baseline_bytes

\* The first sample of a day fixes what the day is counted from.
nouvelle_baseline(t) == IF current_day # jour THEN t ELSE baseline_bytes

\* mutant: a plain difference
saturating_sub_nue(a, b) == a - b

saturating_sub(a, b) == IF a > b THEN a - b ELSE 0

\* bandwidth.sample, with the clock of that moment.
Sample ==
  /\ boucle = "sample" /\ boucle' = "bw"
  /\ current_day' = jour
  /\ baseline_bytes' = nouvelle_baseline(total(recu))
  /\ used_today' = saturating_sub(total(recu), baseline_bytes')
  /\ base' = IF current_day # jour THEN recu ELSE base
  /\ dernier' = recu
  /\ UNCHANGED <<evenements, kubo, jour, recu, bytes_served, enabled, sockets>>

-----------------------------------------------------------------------------
(* The sockets *)

Frame(type, data) == [type |-> type, data |-> data]

\* A task: what it does, the first half of its snapshot, the data of its last
\* hash, last_paused. The client may leave at any time, a send then fails.
Connecter(s) ==
  /\ ws[s] = None
  /\ ws' = [ws EXCEPT ![s] = [pc |-> "tick", lu |-> None, last |-> None, last_paused |-> FALSE]]
  /\ vue' = [vue EXCEPT ![s] = None]
  /\ UNCHANGED <<evenements, kubo, jour, boucle, recu, bytes_served, suivi, enabled, meme>>

Quitter(s) ==
  /\ ws[s] # None
  /\ ws' = [ws EXCEPT ![s] = None]
  /\ vue' = [vue EXCEPT ![s] = None]
  /\ UNCHANGED <<evenements, kubo, jour, boucle, recu, bytes_served, suivi, enabled, meme>>

\* One paused frame, then silence.
TickPause(s) ==
  /\ ws[s] # None /\ ws[s].pc = "tick" /\ ~enabled /\ ~ws[s].last_paused
  /\ vue' = [vue EXCEPT ![s] = Frame("paused", None)]
  /\ ws' = [ws EXCEPT ![s].last_paused = TRUE]
  /\ UNCHANGED <<evenements, kubo, jour, boucle, recu, bytes_served, suivi, enabled, meme>>

\* snapshot reads the metrics of kubo ...
TickActif(s) ==
  /\ ws[s] # None /\ ws[s].pc = "tick" /\ enabled
  /\ ws' = [ws EXCEPT ![s].pc = "snapshot", ![s].last_paused = FALSE,
                      ![s].lu = bytes_served]
  /\ UNCHANGED <<evenements, kubo, jour, boucle, recu, bytes_served, suivi, enabled, vue, meme>>

\* mutant: the hash leaves uptime out
meme_hash_sans_uptime(s, data) == data = ws[s].last

\* mutant: the hash covers the total of kubo alone
meme_hash_bytes(s, data) == ws[s].last # None /\ data.bytes = ws[s].last.bytes

\* The hash covers uptime too.
meme_hash(s, data) == data = ws[s].last /\ meme[s]

\* ... then the bandwidth; the frame is sent when its hash is another.
Snapshot(s) ==
  LET data == [bytes |-> ws[s].lu, used |-> used_today] IN
  /\ ws[s] # None /\ ws[s].pc = "snapshot"
  /\ ws' = [ws EXCEPT ![s].pc = "tick", ![s].lu = None, ![s].last = data]
  /\ IF meme_hash(s, data)
     THEN UNCHANGED <<vue, meme>>
     ELSE vue' = [vue EXCEPT ![s] = Frame("snapshot", data)] /\ meme' = [meme EXCEPT ![s] = TRUE]
  /\ UNCHANGED <<evenements, kubo, jour, boucle, recu, bytes_served, suivi, enabled>>

-----------------------------------------------------------------------------
(* The tray *)

\* "Mettre en pause", "Reprendre"
Basculer ==
  /\ enabled' = ~enabled
  /\ UNCHANGED <<evenements, kubo, jour, boucle, recu, bytes_served, suivi, sockets>>

-----------------------------------------------------------------------------
Init ==
  /\ evenements = 0
  /\ servi \in DejaServi /\ origine = 0 /\ jour \in Jours
  /\ boucle = "bw" /\ recu = [servi |-> 0, origine |-> 0]
  /\ bytes_served = 0
  /\ baseline_bytes = 0 /\ used_today = 0 /\ current_day = 0
  /\ base = recu /\ dernier = recu
  /\ enabled = TRUE
  /\ ws = [s \in Socket |-> None]
  /\ vue = [s \in Socket |-> None]
  /\ meme = [s \in Socket |-> FALSE]

Environnement == Servir \/ RelancerKubo \/ Minuit

Traiter == Stocker \/ Sample

Tache(s) == TickPause(s) \/ TickActif(s) \/ Snapshot(s)

Next ==
  \/ Environnement \/ Seconde \/ Bw \/ Traiter \/ Basculer
  \/ \E s \in Socket : Connecter(s) \/ Quitter(s) \/ Tache(s)

Spec == Init /\ [][Next]_vars

\* Tasks run and time passes. kubo may never answer; nothing is asked of
\* clients or humans.
FairSpec ==
  /\ Spec
  /\ WF_vars(Seconde) /\ WF_vars(Traiter)
  /\ \A s \in Socket : WF_vars(Tache(s))

-----------------------------------------------------------------------------
(* Properties *)

Reponses == [servi : Nat, origine : Nat]

Donnees == [bytes : Nat, used : Nat]

Taches ==
  [pc : {"tick"}, lu : {None}, last : Donnees \cup {None}, last_paused : BOOLEAN] \cup
  [pc : {"snapshot"}, lu : Nat, last : Donnees \cup {None}, last_paused : BOOLEAN]

Frames == [type : {"snapshot"}, data : Donnees] \cup [type : {"paused"}, data : {None}]

ASSUME SentinelAssumption == None \notin Donnees /\ None \notin Frames

TypeOK ==
  /\ evenements \in Nat /\ servi \in Nat /\ origine \in Nat /\ origine <= servi
  /\ jour \in Jours
  /\ boucle \in {"bw", "stocker", "sample"}
  /\ recu \in Reponses
  /\ bytes_served \in Nat
  /\ baseline_bytes \in Nat /\ used_today \in Nat /\ current_day \in Nat
  /\ base \in Reponses /\ dernier \in Reponses
  /\ enabled \in BOOLEAN
  /\ ws \in [Socket -> Taches \cup {None}]
  /\ vue \in [Socket -> Frames \cup {None}]
  /\ meme \in [Socket -> BOOLEAN]

\* The day's bytes are those kubo served between the answer that opened the
\* day and the last one: exactly when kubo ran on, never more when it was
\* restarted in between, whatever the clock did (bandwidth.rs: "octets servis
\* depuis la baseline").
BandeExacte ==
  /\ base.servi <= dernier.servi
  /\ used_today <= dernier.servi - base.servi
  /\ base.origine = dernier.origine => used_today = dernier.servi - base.servi

Actif(s) == vue[s] # None /\ vue[s].type = "snapshot"

\* A pause reaches every client, again and again, and so does its end,
\* although nothing of the node's figures may have changed meanwhile.
PauseSuivie ==
  \A s \in Socket :
    /\ ~enabled ~> (enabled \/ ws[s] = None \/ vue[s] = Frame("paused", None))
    /\ (enabled /\ ws[s] # None) ~> (~enabled \/ ws[s] = None \/ Actif(s))

\* Once kubo is quiet, the clients of an active node see its figures,
\* although each frame mixes readings of different moments.
VueJuste ==
  \A s \in Socket :
    <>[](enabled /\ ws[s] # None) =>
      <>[](Actif(s) /\ vue[s].data = [bytes |-> bytes_served, used |-> used_today])

=============================================================================
