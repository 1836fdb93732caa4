----------------------------- MODULE FluxProofs -----------------------------
(***************************************************************************)
(* Proofs about Flux, for every number of sockets, every clock and every   *)
(* history of kubo: its types, the bytes of the day, and that a socket     *)
(* which keeps silent has a client that was told.                          *)
(***************************************************************************)
EXTENDS Flux, TLAPS

\* kubo's answers in the order of time: the one that opened the day, the last
\* one counted, the last one received, and now.
Avant(a, b) == a.servi <= b.servi /\ a.origine <= b.origine

Ordre ==
  /\ base.origine <= base.servi /\ dernier.origine <= dernier.servi
  /\ recu.origine <= recu.servi
  /\ Avant(base, dernier) /\ Avant(dernier, recu)
  /\ recu.servi <= servi /\ recu.origine <= origine

\* The tracker holds the difference of two of them.
Compte ==
  /\ baseline_bytes = total(base)
  /\ used_today = saturating_sub(total(dernier), total(base))

Inv == TypeOK /\ Ordre /\ Compte

\* Everything the sockets' tasks do leaves the counters alone.
compteurs == <<evenements, kubo, jour, boucle, recu, bytes_served, suivi>>

LEMMA CompteursGardes ==
  ASSUME Inv, UNCHANGED compteurs, TypeOK'
  PROVE  Inv'
BY DEF Inv, compteurs, suivi, kubo, Ordre, Compte, Avant, total, saturating_sub

\* The invariant is inductive.
LEMMA Inductif == Spec => []Inv
<1>1. Init => Inv
  BY FluxAssumption DEF Init, Inv, TypeOK, Ordre, Compte, Avant, total, saturating_sub, Reponses
<1>2. Inv /\ [Next]_vars => Inv'
  <2> SUFFICES ASSUME Inv, [Next]_vars PROVE Inv'
    OBVIOUS
  <2> USE DEF Inv
  <2>1. CASE Servir
    BY <2>1 DEF Servir, Evenement, TypeOK, suivi, sockets, Ordre, Compte, Avant, total,
                saturating_sub, Reponses
  <2>2. CASE RelancerKubo
    BY <2>2 DEF RelancerKubo, Evenement, TypeOK, suivi, sockets, Ordre, Compte, Avant, total,
                saturating_sub, Reponses
  <2>3. CASE Minuit
    BY <2>3 DEF Minuit, Evenement, TypeOK, suivi, sockets, kubo, Ordre, Compte, Avant, total,
                saturating_sub, Reponses
  <2>4. CASE Bw
    BY <2>4 DEF Bw, TypeOK, suivi, sockets, kubo, Ordre, Compte, Avant, total,
                saturating_sub, Reponses
  <2>5. CASE Stocker
    BY <2>5 DEF Stocker, TypeOK, suivi, sockets, kubo, Ordre, Compte, Avant, total,
                saturating_sub, Reponses
  <2>6. CASE Sample
    <3>1. /\ current_day' = jour /\ baseline_bytes' = nouvelle_baseline(total(recu))
          /\ used_today' = saturating_sub(total(recu), baseline_bytes')
          /\ base' = (IF current_day # jour THEN recu ELSE base) /\ dernier' = recu
          /\ boucle' = "bw"
          /\ UNCHANGED <<evenements, servi, origine, jour, recu, bytes_served, enabled, ws, vue, meme>>
      BY <2>6 DEF Sample, kubo, sockets
    <3>2. baseline_bytes' = total(base')
      BY <3>1 DEF Compte, nouvelle_baseline
    <3>3. total(recu) \in Nat /\ total(base) \in Nat
      BY DEF TypeOK, Reponses, Ordre, total
    <3>4. base' \in Reponses /\ dernier' \in Reponses /\ baseline_bytes' \in Nat /\ used_today' \in Nat
      BY <3>1, <3>2, <3>3 DEF TypeOK, saturating_sub
    <3>5. Ordre'
      BY <3>1 DEF Ordre, TypeOK, Reponses, Avant
    <3>6. Compte'
      BY <3>1, <3>2 DEF Compte, total, saturating_sub
    <3>7. TypeOK'
      BY <3>1, <3>4, FluxAssumption DEF TypeOK
    <3> QED  BY <3>5, <3>6, <3>7
  <2>7. CASE Seconde
    BY <2>7, CompteursGardes DEF Seconde, compteurs, kubo, suivi, TypeOK
  <2>8. CASE Basculer
    BY <2>8, CompteursGardes DEF Basculer, compteurs, kubo, suivi, sockets, TypeOK
  <2>9. ASSUME NEW s \in Socket, Connecter(s) \/ Quitter(s) PROVE Inv'
    <3>1. UNCHANGED compteurs
      BY <2>9 DEF Connecter, Quitter, compteurs
    <3>2. ws' \in [Socket -> Taches \cup {None}] /\ vue' \in [Socket -> Frames \cup {None}]
      <4>1. [pc |-> "tick", lu |-> None, last |-> None, last_paused |-> FALSE] \in Taches
        BY DEF Taches
      <4> QED  BY <2>9, <4>1 DEF Connecter, Quitter, TypeOK
    <3>3. UNCHANGED <<enabled, meme>>
      BY <2>9 DEF Connecter, Quitter
    <3> QED  BY <3>1, <3>2, <3>3, CompteursGardes DEF compteurs, kubo, suivi, TypeOK
  <2>10. ASSUME NEW s \in Socket, TickPause(s) PROVE Inv'
    <3>1. ws[s] \in Taches
      BY <2>10 DEF TickPause, TypeOK
    <3>2. [ws[s] EXCEPT !.last_paused = TRUE] \in Taches
      BY <3>1 DEF Taches
    <3>3. ws' \in [Socket -> Taches \cup {None}]
      BY <2>10, <3>2 DEF TickPause, TypeOK
    <3>4. Frame("paused", None) \in Frames
      BY DEF Frame, Frames
    <3>5. vue' \in [Socket -> Frames \cup {None}]
      BY <2>10, <3>4 DEF TickPause, TypeOK
    <3>6. UNCHANGED compteurs /\ UNCHANGED <<enabled, meme>>
      BY <2>10 DEF TickPause, compteurs
    <3> QED  BY <3>3, <3>5, <3>6, CompteursGardes DEF compteurs, kubo, suivi, TypeOK
  <2>11. ASSUME NEW s \in Socket, TickActif(s) PROVE Inv'
    <3> DEFINE t == [ws[s] EXCEPT !.pc = "snapshot", !.last_paused = FALSE, !.lu = bytes_served]
    <3>1. ws[s] \in Taches /\ bytes_served \in Nat
      BY <2>11 DEF TickActif, TypeOK
    <3>2. t \in Taches
      BY <3>1 DEF Taches
    <3>3. ws' = [ws EXCEPT ![s] = t]
      BY <2>11 DEF TickActif, TypeOK
    <3> HIDE DEF t
    <3>4. ws' \in [Socket -> Taches \cup {None}]
      BY <3>2, <3>3 DEF TypeOK
    <3>5. UNCHANGED compteurs /\ UNCHANGED <<enabled, vue, meme>>
      BY <2>11 DEF TickActif, compteurs
    <3> QED  BY <3>4, <3>5, CompteursGardes DEF compteurs, kubo, suivi, TypeOK
  <2>12. ASSUME NEW s \in Socket, Snapshot(s) PROVE Inv'
    <3> DEFINE d == [bytes |-> ws[s].lu, used |-> used_today]
               t == [ws[s] EXCEPT !.pc = "tick", !.lu = None, !.last = d]
    <3>1. ws[s] \in Taches /\ ws[s].pc = "snapshot"
      BY <2>12 DEF Snapshot, TypeOK
    <3>2. ws[s].lu \in Nat /\ used_today \in Nat
      BY <3>1 DEF Taches, TypeOK
    <3>3. d \in Donnees
      BY <3>2 DEF Donnees
    <3>4. /\ ws' = [ws EXCEPT ![s] = t]
          /\ vue' = vue \/ vue' = [vue EXCEPT ![s] = Frame("snapshot", d)]
          /\ meme' = meme \/ meme' = [meme EXCEPT ![s] = TRUE]
      BY <2>12 DEF Snapshot, TypeOK
    <3> HIDE DEF d
    <3>5. t \in Taches
      BY <3>1, <3>3 DEF Taches
    <3> HIDE DEF t
    <3>6. ws' \in [Socket -> Taches \cup {None}]
      BY <3>4, <3>5 DEF TypeOK
    <3>7. Frame("snapshot", d) \in Frames
      BY <3>3 DEF Frame, Frames
    <3>8. vue' \in [Socket -> Frames \cup {None}] /\ meme' \in [Socket -> BOOLEAN]
      BY <3>4, <3>7 DEF TypeOK
    <3>9. UNCHANGED compteurs /\ UNCHANGED enabled
      BY <2>12 DEF Snapshot, compteurs
    <3> QED  BY <3>6, <3>8, <3>9, CompteursGardes DEF compteurs, kubo, suivi, TypeOK
  <2>13. CASE UNCHANGED vars
    BY <2>13, CompteursGardes DEF vars, compteurs, kubo, suivi, sockets, TypeOK
  <2> QED
    BY <2>1, <2>2, <2>3, <2>4, <2>5, <2>6, <2>7, <2>8, <2>9, <2>10, <2>11, <2>12, <2>13
       DEF Next, Environnement, Traiter, Tache
<1> QED  BY <1>1, <1>2, PTL DEF Spec

\* Types, for every clock and every history of kubo.
THEOREM TypeCorrect == Spec => []TypeOK
BY Inductif, PTL DEF Inv

\* The day's bytes are exact while kubo runs on, and never too many.
THEOREM BandeJuste == Spec => []BandeExacte
<1>1. Inv => BandeExacte
  <2> SUFFICES ASSUME Inv PROVE BandeExacte
    OBVIOUS
  <2> DEFINE b == base.servi   bo == base.origine
             d == dernier.servi   do == dernier.origine
  <2>1. b \in Nat /\ bo \in Nat /\ d \in Nat /\ do \in Nat
    BY DEF Inv, TypeOK, Reponses
  <2>2. bo <= b /\ do <= d /\ b <= d /\ bo <= do
    BY DEF Inv, Ordre, Avant
  <2>3. used_today = IF d - do > b - bo THEN (d - do) - (b - bo) ELSE 0
    BY DEF Inv, Compte, saturating_sub, total
  <2>4. b <= d /\ used_today <= d - b /\ (bo = do => used_today = d - b)
    <3> HIDE DEF b, bo, d, do
    <3> QED  BY <2>1, <2>2, <2>3
  <2> QED  BY <2>4 DEF BandeExacte
<1> QED  BY <1>1, Inductif, PTL

-----------------------------------------------------------------------------
(* What a silent socket has told its client *)

\* A task keeps silent for two reasons, a pause already announced or a hash
\* that has not changed, and both are justified by what its client has: while
\* the task takes the pause for announced, the paused frame is the last one it
\* sent; and the last snapshot a client was sent is the last one hashed.
SilenceJustifie ==
  \A s \in Socket : ws[s] # None =>
    /\ ws[s].last_paused => vue[s] = Frame("paused", None) /\ ws[s].pc = "tick"
    /\ ws[s].last # None => vue[s] # None
    /\ Actif(s) => ws[s].last = vue[s].data

\* What SilenceJustifie says of one task and the last frame of its client.
Juste(t, v) ==
  t # None =>
    /\ t.last_paused => v = Frame("paused", None) /\ t.pc = "tick"
    /\ t.last # None => v # None
    /\ v # None /\ v.type = "snapshot" => t.last = v.data

\* A step that changes one socket.
LEMMA UnSocket ==
  ASSUME TypeOK, SilenceJustifie, NEW s \in Socket, NEW t, NEW v, Juste(t, v),
         ws' = [ws EXCEPT ![s] = t], vue' = [vue EXCEPT ![s] = v]
  PROVE  SilenceJustifie'
<1>1. /\ ws'[s] = t /\ vue'[s] = v
      /\ \A u \in Socket : u # s => ws'[u] = ws[u] /\ vue'[u] = vue[u]
  BY DEF TypeOK
<1> QED  BY <1>1 DEF SilenceJustifie, Actif, Juste

\* What a silence of a socket means, through pauses, resumes, hashes and
\* reconnections at whatever moment of the task: its client has been sent what
\* the task remembers. That a silence ends is not proved: a hash without the
\* uptime would keep this invariant and leave a client paused after a resume,
\* which PauseSuivie excludes and TLC checks.
THEOREM SilenceCorrect == Spec => []SilenceJustifie
<1>1. Init => SilenceJustifie
  BY DEF Init, SilenceJustifie
<1>2. TypeOK /\ SilenceJustifie /\ [Next]_vars => SilenceJustifie'
  <2> SUFFICES ASSUME TypeOK, SilenceJustifie, [Next]_vars PROVE SilenceJustifie'
    OBVIOUS
  <2> USE SentinelAssumption
  <2>1. CASE UNCHANGED <<ws, vue>>
    BY <2>1 DEF SilenceJustifie, Actif
  <2>2. ASSUME NEW s \in Socket, Connecter(s) \/ Quitter(s) PROVE SilenceJustifie'
    <3> DEFINE neuf == [pc |-> "tick", lu |-> None, last |-> None, last_paused |-> FALSE]
    <3>1. Juste(neuf, None) /\ Juste(None, None)
      BY DEF Juste
    <3>2. \/ ws' = [ws EXCEPT ![s] = neuf] /\ vue' = [vue EXCEPT ![s] = None]
          \/ ws' = [ws EXCEPT ![s] = None] /\ vue' = [vue EXCEPT ![s] = None]
      BY <2>2 DEF Connecter, Quitter
    <3> HIDE DEF neuf
    <3> QED  BY <3>1, <3>2, UnSocket
  <2>3. ASSUME NEW s \in Socket, TickPause(s) PROVE SilenceJustifie'
    <3> DEFINE t == [ws[s] EXCEPT !.last_paused = TRUE]
    <3>1. ws[s] \in Taches /\ ws[s].pc = "tick"
      BY <2>3 DEF TickPause, TypeOK
    <3>2. t.pc = "tick"
      BY <3>1 DEF Taches
    <3>3. /\ Frame("paused", None) \in Frames
          /\ Frame("paused", None).type # "snapshot"
      BY DEF Frame, Frames
    <3>4. ws' = [ws EXCEPT ![s] = t] /\ vue' = [vue EXCEPT ![s] = Frame("paused", None)]
      BY <2>3 DEF TickPause
    <3> HIDE DEF t
    <3>5. Juste(t, Frame("paused", None))
      BY <3>2, <3>3 DEF Juste
    <3> QED  BY <3>4, <3>5, UnSocket
  <2>4. ASSUME NEW s \in Socket, TickActif(s) PROVE SilenceJustifie'
    <3> DEFINE t == [ws[s] EXCEPT !.pc = "snapshot", !.last_paused = FALSE, !.lu = bytes_served]
    <3>1. ws[s] \in Taches /\ ws[s] # None
      BY <2>4 DEF TickActif, TypeOK
    <3>2. t.last = ws[s].last /\ ~t.last_paused
      BY <3>1 DEF Taches
    <3>3. ws' = [ws EXCEPT ![s] = t] /\ vue' = [vue EXCEPT ![s] = vue[s]]
      BY <2>4 DEF TickActif, TypeOK
    <3> HIDE DEF t
    <3>4. Juste(t, vue[s])
      BY <3>1, <3>2 DEF Juste, SilenceJustifie, Actif
    <3> QED  BY <3>3, <3>4, UnSocket
  <2>5. ASSUME NEW s \in Socket, Snapshot(s) PROVE SilenceJustifie'
    <3> DEFINE d == [bytes |-> ws[s].lu, used |-> used_today]
               t == [ws[s] EXCEPT !.pc = "tick", !.lu = None, !.last = d]
    <3>1. ws[s] \in Taches /\ ws[s] # None /\ ws[s].pc = "snapshot"
      BY <2>5 DEF Snapshot, TypeOK
    <3>2. d \in Donnees
      BY <3>1 DEF Taches, TypeOK, Donnees
    <3>3. ~ws[s].last_paused
      BY <3>1 DEF SilenceJustifie
    <3>4. t.last = d /\ ~t.last_paused
      BY <3>1, <3>3 DEF Taches
    <3>5. /\ ws' = [ws EXCEPT ![s] = t]
          /\ \/ ws[s].last = d /\ vue' = [vue EXCEPT ![s] = vue[s]]
             \/ vue' = [vue EXCEPT ![s] = Frame("snapshot", d)]
      BY <2>5 DEF Snapshot, meme_hash, TypeOK
    <3> HIDE DEF t, d
    <3>6. CASE ws[s].last = d /\ vue' = [vue EXCEPT ![s] = vue[s]]
      <4>1. Juste(t, vue[s])
        BY <3>1, <3>2, <3>4, <3>6 DEF Juste, SilenceJustifie, Actif
      <4> QED  BY <3>5, <3>6, <4>1, UnSocket
    <3>7. CASE vue' = [vue EXCEPT ![s] = Frame("snapshot", d)]
      <4>1. /\ Frame("snapshot", d) \in Frames
            /\ Frame("snapshot", d).data = d
        BY <3>2 DEF Frame, Frames
      <4>2. Juste(t, Frame("snapshot", d))
        BY <3>4, <4>1 DEF Juste
      <4> QED  BY <3>5, <3>7, <4>2, UnSocket
    <3> QED  BY <3>5, <3>6, <3>7
  <2> QED
    BY <2>1, <2>2, <2>3, <2>4, <2>5
    DEF Next, Environnement, Servir, RelancerKubo, Minuit, Seconde, Bw, Traiter, Stocker, Sample,
        Basculer, Tache, sockets, suivi, vars
<1> QED  BY <1>1, <1>2, TypeCorrect, PTL DEF Spec
=============================================================================
