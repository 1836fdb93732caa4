------------------------ MODULE SuperviseurProofs ------------------------
(***************************************************************************)
(* Proofs about Superviseur: its types, that a process of another program  *)
(* which held the pid when it was looked up is never signalled, that a     *)
(* tracked child whose search is not cut short has been sent SIGKILL by    *)
(* the next launch, and how many steps a launch may take; all for any set  *)
(* of pids and any number of polls.                                        *)
(***************************************************************************)
EXTENDS Superviseur, TLAPS

\* A helper of every proof below: what the end of a process does to the
\* table, the lock and the histories, and that they keep their types.
LEMMA DisparaitreType ==
  ASSUME TypeOK, NEW p \in Pid, NEW laisse \in {None, Zombie},
         Disparaitre(p, laisse)
  PROVE  /\ service' = service
         /\ proc' \in [Pid -> Processus \cup {None, Zombie}]
         /\ verrou' \in Pid \cup {None}
         /\ verrou' # None => proc'[verrou'] \in Processus
         /\ suivi' \subseteq Pid /\ condamnes' \subseteq Pid /\ presents' \subseteq Pid
BY SentinelAssumption DEF TypeOK, Disparaitre, Vivant

\* Signalling a process changes what is known of it, not the process table.
LEMMA SignalerType ==
  ASSUME TypeOK, NEW p \in Pid, NEW fatal \in BOOLEAN, Signaler(p, fatal)
  PROVE  /\ UNCHANGED <<service, proc, verrou, presents>>
         /\ suivi' \subseteq suivi /\ condamnes' \subseteq Pid /\ tues' \subseteq Pid
BY DEF TypeOK, Signaler, PerdreDeVue

\* Types of the supervisor, for every set of pids: the node has a child
\* exactly from the launch to its end, and a target exactly while it stops one.
THEOREM TypeCorrect == Spec => []TypeOK
<1>1. Init => TypeOK
  <2> SUFFICES ASSUME Init PROVE TypeOK
    OBVIOUS
  <2>1. proc \in [Pid -> Processus \cup {None, Zombie}]
    <3>1. CASE proc = [p \in Pid |-> None]
      BY <3>1
    <3>2. ASSUME NEW q \in Pid,
                 proc = [p \in Pid |-> IF p = q THEN [prog |-> "attendu", a_nous |-> TRUE] ELSE None]
          PROVE  proc \in [Pid -> Processus \cup {None, Zombie}]
      BY <3>2 DEF Processus
    <3> QED  BY <3>1, <3>2 DEF Init
  <2>2. verrou \in Pid \cup {None} /\ (verrou # None => Vivant(verrou))
    BY DEF Init
  <2> QED
    BY <2>1, <2>2, SuperviseurAssumption, SentinelAssumption DEF Init, TypeOK, Phases
<1>2. TypeOK /\ [Next]_vars => TypeOK'
  <2> SUFFICES ASSUME TypeOK, [Next]_vars PROVE TypeOK'
    OBVIOUS
  <2> USE SuperviseurAssumption, SentinelAssumption
  <2>1. CASE DemarrerKubo \/ DemarrerRelais
    <3>1. phase = "arret" /\ phase' \in {"verrou", "ramasser", "sans"}
      BY <2>1 DEF DemarrerKubo, DemarrerRelais
    <3> QED  BY <2>1, <3>1 DEF TypeOK, DemarrerKubo, DemarrerRelais, systeme, Phases, Vivant
  <2>2. CASE LibererVerrou
    <3>1. PICK commande \in detenteur_du_verrou :
            \/ doit_tuer(commande) /\ Arreter("verrou", verrou)
            \/ ~doit_tuer(commande) /\ phase' = "ramasser" /\ UNCHANGED <<voie, cible>>
      BY <2>2 DEF LibererVerrou
    <3>2. doit_tuer(commande) => verrou \in Pid
      BY <3>1 DEF TypeOK, doit_tuer, detenteur_du_verrou
    <3>3. presents' \subseteq Pid
      BY <2>2 DEF LibererVerrou, Verifier
    <3>4. CASE doit_tuer(commande) /\ Arreter("verrou", verrou)
      BY <2>2, <3>2, <3>3, <3>4 DEF LibererVerrou, Arreter, TypeOK, Phases, Vivant
    <3>5. CASE phase' = "ramasser" /\ UNCHANGED <<voie, cible>>
      BY <2>2, <3>3, <3>5 DEF LibererVerrou, TypeOK, Phases, Vivant
    <3> QED  BY <3>1, <3>4, <3>5
  <2>3. CASE RamasserOrphelin
    <3>1. presents' \subseteq Pid /\ suivi' \subseteq Pid
      BY <2>3 DEF RamasserOrphelin, Verifier, SansReponse, TypeOK
    <3>2. CASE pidFile \in Pid /\ Arreter("pid", pidFile) /\ UNCHANGED pidFile
      BY <2>3, <3>1, <3>2 DEF RamasserOrphelin, Arreter, TypeOK, Phases, Vivant
    <3>3. CASE /\ OublierFichier \/ UNCHANGED pidFile
               /\ phase' = "lancer" /\ UNCHANGED <<voie, cible>>
      <4>1. pidFile' \in Pid \cup {None, Illisible}
        BY <3>3 DEF OublierFichier, TypeOK
      <4> QED  BY <2>3, <3>1, <3>3, <4>1 DEF RamasserOrphelin, TypeOK, Phases, Vivant
    <3> QED  BY <2>3, <3>2, <3>3 DEF RamasserOrphelin
  <2>4. CASE Terminer
    <3>1. cible \in Pid
      BY <2>4 DEF Terminer, TypeOK
    <3>2. Signaler(cible, FALSE)
      BY <2>4 DEF Terminer
    <3>3. /\ UNCHANGED <<service, proc, verrou, presents>>
          /\ suivi' \subseteq suivi /\ condamnes' \subseteq Pid /\ tues' \subseteq Pid
      BY <3>1, <3>2, SignalerType
    <3> QED  BY <2>4, <3>3 DEF Terminer, TypeOK, Phases, Vivant
  <2>5. CASE Sonder
    <3>1. suivi' \subseteq suivi
      BY <2>5 DEF Sonder, PerdreDeVue
    <3>2. pidFile' \in Pid \cup {None, Illisible}
      BY <2>5 DEF Sonder, Continuer, OublierFichier, TypeOK
    <3> QED  BY <2>5, <3>1, <3>2 DEF Sonder, Continuer, TypeOK, Phases, Vivant
  <2>6. CASE Achever
    <3>1. cible \in Pid
      BY <2>6 DEF Achever, TypeOK
    <3>2. Signaler(cible, TRUE)
      BY <2>6 DEF Achever
    <3>3. /\ UNCHANGED <<service, proc, verrou, presents>>
          /\ suivi' \subseteq suivi /\ condamnes' \subseteq Pid /\ tues' \subseteq Pid
      BY <3>1, <3>2, SignalerType
    <3>4. pidFile' \in Pid \cup {None, Illisible}
      BY <2>6 DEF Achever, Continuer, OublierFichier, TypeOK
    <3> QED  BY <2>6, <3>3, <3>4 DEF Achever, Continuer, TypeOK, Phases, Vivant
  <2>7. CASE Lancer
    <3>1. ASSUME NEW p \in Pid, proc[p] = None, enfant' = p, phase' = "grace",
                 proc' = [proc EXCEPT ![p] = [prog |-> "attendu", a_nous |-> TRUE]]
          PROVE  TypeOK'
      BY <2>7, <3>1 DEF Lancer, TypeOK, Phases, Vivant, Processus
    <3>2. CASE phase' = "sans" /\ UNCHANGED <<proc, enfant>>
      BY <2>7, <3>2 DEF Lancer, TypeOK, Phases, Vivant
    <3> QED  BY <2>7, <3>1, <3>2 DEF Lancer
  <2>8. CASE VerifierGrace
    <3>1. enfant \in Pid
      BY <2>8 DEF VerifierGrace, TypeOK
    <3>2. CASE Vivant(enfant) /\ phase' = "ecrire" /\ UNCHANGED <<systeme, enfant, pidFile>>
      BY <2>8, <3>2 DEF VerifierGrace, TypeOK, Phases, Vivant, systeme
    <3>3. CASE Disparaitre(enfant, None) /\ enfant' = None /\ OublierFichier /\ phase' = "sans"
      <4>1. pidFile' \in Pid \cup {None, Illisible}
        BY <3>3 DEF OublierFichier, TypeOK
      <4> QED  BY <2>8, <3>1, <3>3, <4>1, DisparaitreType DEF VerifierGrace, TypeOK, Phases, Vivant
    <3> QED  BY <2>8, <3>2, <3>3 DEF VerifierGrace
  <2>9. CASE EcrirePid
    BY <2>9 DEF EcrirePid, TypeOK, Phases, Vivant
  <2>10. CASE OublierPid
    BY <2>10 DEF OublierPid, OublierFichier, TypeOK, Phases, Vivant, systeme
  <2>11. CASE Quitter
    <3>1. CASE phase = "tourne" /\ Disparaitre(enfant, None) /\ phase' = "drop"
      <4>1. enfant \in Pid
        BY <3>1 DEF TypeOK
      <4> QED  BY <2>11, <3>1, <4>1, DisparaitreType DEF Quitter, TypeOK, Phases, Vivant
    <3>2. CASE phase = "sans" /\ phase' = "arret" /\ UNCHANGED systeme
      BY <2>11, <3>2 DEF Quitter, TypeOK, Phases, Vivant, systeme
    <3> QED  BY <2>11, <3>1, <3>2 DEF Quitter
  <2>12. CASE Mourir
    BY <2>12 DEF Mourir, TypeOK, Phases, Vivant
  <2>13. ASSUME NEW p \in Pid, Sortir(p) PROVE TypeOK'
    BY <2>13, DisparaitreType DEF Sortir, TypeOK, Phases, Vivant
  <2>14. ASSUME NEW p \in Pid, NEW prog \in {"attendu", "tiers"}, NaitreTiers(p, prog)
         PROVE  TypeOK'
    BY <2>14 DEF NaitreTiers, TypeOK, Phases, Vivant, Processus
  <2>15. ASSUME NEW p \in Pid, PrendreVerrou(p) PROVE TypeOK'
    BY <2>15 DEF PrendreVerrou, TypeOK, Phases, Vivant
  <2>16. CASE UNCHANGED vars
    BY <2>16 DEF vars, systeme, TypeOK, Phases, Vivant
  <2> QED
    BY <2>1, <2>2, <2>3, <2>4, <2>5, <2>6, <2>7, <2>8, <2>9, <2>10, <2>11, <2>12,
       <2>13, <2>14, <2>15, <2>16 DEF Next, Noeud, Systeme
<1> QED  BY <1>1, <1>2, PTL DEF Spec

-----------------------------------------------------------------------------
(* Third parties *)

\* The strengthening: the process being stopped is not one of the third
\* parties seen at the last verification.
TiersInv ==
  /\ phase \in {"terme", "attend"} => cible \notin presents
  /\ TiersEpargne

\* A process of another program that had the recorded pid when it was looked
\* up is never signalled, whatever crashes, recycled pids and stale files.
THEOREM TiersCorrect == Spec => []TiersEpargne
<1>1. Init => TiersInv
  BY DEF Init, TiersInv, TiersEpargne
<1>2. TypeOK /\ TiersInv /\ [Next]_vars => TiersInv'
  <2> SUFFICES ASSUME TypeOK, TiersInv, [Next]_vars PROVE TiersInv'
    OBVIOUS
  <2> USE SentinelAssumption DEF TiersInv, TiersEpargne
  <2>1. CASE DemarrerKubo \/ DemarrerRelais
    BY <2>1 DEF DemarrerKubo, DemarrerRelais, systeme
  <2>2. CASE LibererVerrou
    BY <2>2 DEF LibererVerrou, Arreter, Verifier, doit_tuer, detenteur_du_verrou, TypeOK
  <2>3. CASE RamasserOrphelin
    BY <2>3 DEF RamasserOrphelin, Arreter, Verifier, doit_tuer, ligne_de_commande
  <2>4. CASE Terminer
    BY <2>4 DEF Terminer, Signaler
  <2>5. CASE Sonder
    BY <2>5 DEF Sonder, Continuer, systeme
  <2>6. CASE Achever
    BY <2>6 DEF Achever, Continuer, Signaler
  <2>7. CASE Lancer
    BY <2>7 DEF Lancer
  <2>8. CASE VerifierGrace
    BY <2>8 DEF VerifierGrace, Disparaitre, systeme
  <2>9. CASE EcrirePid
    BY <2>9 DEF EcrirePid
  <2>10. CASE OublierPid
    BY <2>10 DEF OublierPid, systeme
  <2>11. CASE Quitter
    BY <2>11 DEF Quitter, Disparaitre, systeme
  <2>12. CASE Mourir
    BY <2>12 DEF Mourir
  <2>13. CASE Systeme
    BY <2>13 DEF Systeme, Sortir, NaitreTiers, PrendreVerrou, Disparaitre
  <2>14. CASE UNCHANGED vars
    BY <2>14 DEF vars, systeme
  <2> QED
    BY <2>1, <2>2, <2>3, <2>4, <2>5, <2>6, <2>7, <2>8, <2>9, <2>10, <2>11, <2>12,
       <2>13, <2>14 DEF Next, Noeud
<1>3. TiersInv => TiersEpargne
  BY DEF TiersInv
<1> QED  BY <1>1, <1>2, <1>3, TypeCorrect, PTL DEF Spec

-----------------------------------------------------------------------------
(* Orphans *)

\* The strengthening: a tracked child is alive, is recognised by ps, and is
\* the one the pid file names unless it has been sent SIGKILL; once the search
\* is over only the latter are left; the stop that precedes the removal of the
\* pid file aims at that very pid; and as long as the node has a child, nobody
\* else has its number.
OrphelinInv ==
  /\ suivi \subseteq {pidFile} \cup condamnes
  /\ \A p \in suivi : Vivant(p) /\ proc[p].prog = "attendu"
  /\ phase \in {"lancer", "grace", "ecrire", "drop"} => suivi \subseteq condamnes
  /\ phase = "tourne" => suivi \subseteq {enfant} \cup condamnes
  /\ phase \in {"terme", "attend"} /\ voie = "pid" => cible = pidFile
  /\ enfant # None => /\ proc[enfant] # None
                      /\ Vivant(enfant) => proc[enfant].prog = "attendu"

\* The end of a process keeps what is known of the others.
LEMMA DisparaitreOrphelin ==
  ASSUME TypeOK, OrphelinInv, NEW p \in Pid, NEW laisse \in {None, Zombie},
         Disparaitre(p, laisse)
  PROVE  /\ suivi' = suivi \ {p} /\ condamnes' = condamnes \ {p}
         /\ \A q \in suivi' : proc'[q] \in Processus /\ proc'[q].prog = "attendu"
         /\ \A q \in Pid : proc'[q] \in Processus => proc'[q] = proc[q]
BY SentinelAssumption DEF TypeOK, OrphelinInv, Disparaitre, Vivant

\* Once the node starts a new child, every live child of an earlier run whose
\* pid reached the disk has been sent SIGKILL, unless a silent ps, an
\* unreadable pid file or a kill -9 that did not leave cut its search short.
THEOREM OrphelinCorrect == Spec => []OrphelinRamasse
<1>1. Init => OrphelinInv
  BY DEF Init, OrphelinInv
<1>2. TypeOK /\ OrphelinInv /\ [Next]_vars => OrphelinInv'
  <2> SUFFICES ASSUME TypeOK, OrphelinInv, [Next]_vars PROVE OrphelinInv'
    OBVIOUS
  <2> USE SentinelAssumption
  <2>1. CASE DemarrerKubo \/ DemarrerRelais
    <3>1. UNCHANGED <<systeme, pidFile, voie, cible, enfant>> /\ phase' \in {"verrou", "ramasser", "sans"}
      BY <2>1 DEF DemarrerKubo, DemarrerRelais
    <3> QED  BY <3>1 DEF systeme, OrphelinInv, Vivant
  <2>2. CASE LibererVerrou
    BY <2>2 DEF LibererVerrou, Arreter, OrphelinInv, Vivant
  <2>3. CASE RamasserOrphelin
    <3>1. CASE phase' = "lancer"
      <4>1. suivi' \subseteq condamnes
        BY <2>3, <3>1 DEF RamasserOrphelin, ligne_de_commande, doit_tuer, SansReponse,
             OrphelinInv, TypeOK, Arreter
      <4>2. suivi' \subseteq suivi /\ UNCHANGED <<proc, condamnes, enfant>>
        BY <2>3 DEF RamasserOrphelin, SansReponse
      <4> QED  BY <3>1, <4>1, <4>2 DEF OrphelinInv, Vivant
    <3>2. CASE Arreter("pid", pidFile) /\ UNCHANGED pidFile
      <4>1. suivi' \subseteq suivi /\ UNCHANGED <<proc, condamnes, enfant>>
        BY <2>3 DEF RamasserOrphelin, SansReponse
      <4> QED  BY <3>2, <4>1 DEF Arreter, OrphelinInv, Vivant
    <3> QED  BY <2>3, <3>1, <3>2 DEF RamasserOrphelin
  <2>4. CASE Terminer
    <3>1. UNCHANGED <<proc, suivi, condamnes>>
      BY <2>4 DEF Terminer, Signaler
    <3> QED  BY <2>4, <3>1 DEF Terminer, OrphelinInv, Vivant
  <2>5. CASE Sonder
    <3>1. UNCHANGED <<proc, condamnes, voie, enfant>> /\ suivi' \subseteq suivi
      BY <2>5 DEF Sonder, PerdreDeVue
    <3>2. CASE Continuer
      <4>1. PICK ligne \in ligne_de_commande(cible) :
              /\ ligne = None => PerdreDeVue(cible)
              /\ ligne = None \/ UNCHANGED <<phase, cible, pidFile>>
        BY <2>5 DEF Sonder
      <4>2. ligne = None
        BY <2>5, <3>2, <4>1 DEF Sonder, Continuer, TypeOK
      <4>3. voie = "pid" => suivi' \subseteq condamnes
        BY <2>5, <4>1, <4>2 DEF Sonder, PerdreDeVue, OrphelinInv
      <4>4. CASE voie = "verrou" /\ phase' = "ramasser" /\ UNCHANGED pidFile
        BY <3>1, <4>4 DEF OrphelinInv, Vivant
      <4>5. CASE voie = "pid" /\ phase' = "lancer"
        BY <3>1, <4>3, <4>5 DEF OrphelinInv, Vivant
      <4> QED  BY <3>2, <4>4, <4>5 DEF Continuer
    <3>3. CASE UNCHANGED <<phase, cible, pidFile>>
      BY <2>5, <3>1, <3>3 DEF Sonder, OrphelinInv, Vivant
    <3> QED  BY <2>5, <3>2, <3>3 DEF Sonder
  <2>6. CASE Achever
    <3>1. Signaler(cible, TRUE) /\ UNCHANGED <<voie, enfant>>
      BY <2>6 DEF Achever
    <3>2. UNCHANGED proc /\ suivi' \subseteq suivi /\ condamnes \subseteq condamnes'
      BY <3>1 DEF Signaler, PerdreDeVue
    <3>3. voie = "pid" => suivi' \subseteq condamnes'
      <4> SUFFICES ASSUME voie = "pid" PROVE suivi' \subseteq condamnes'
        OBVIOUS
      <4>1. cible = pidFile
        BY <2>6 DEF Achever, OrphelinInv
      <4>2. CASE condamnes' = (IF Vivant(cible) THEN condamnes \cup {cible} ELSE condamnes)
                   /\ UNCHANGED suivi
        BY <4>1, <4>2 DEF OrphelinInv
      <4>3. CASE PerdreDeVue(cible) /\ UNCHANGED condamnes
        BY <4>1, <4>3 DEF PerdreDeVue, OrphelinInv
      <4> QED  BY <3>1, <4>2, <4>3 DEF Signaler
    <3>4. CASE voie = "verrou" /\ phase' = "ramasser" /\ UNCHANGED pidFile
      BY <3>1, <3>2, <3>4 DEF OrphelinInv, Vivant
    <3>5. CASE voie = "pid" /\ phase' = "lancer"
      BY <3>1, <3>2, <3>3, <3>5 DEF OrphelinInv, Vivant
    <3> QED  BY <2>6, <3>4, <3>5 DEF Achever, Continuer
  <2>7. CASE Lancer
    <3>1. ASSUME NEW p \in Pid, proc[p] = None, enfant' = p, phase' = "grace",
                 proc' = [proc EXCEPT ![p] = [prog |-> "attendu", a_nous |-> TRUE]]
          PROVE  OrphelinInv'
      <4>1. suivi \subseteq condamnes /\ UNCHANGED <<suivi, condamnes, pidFile, voie, cible>>
        BY <2>7 DEF Lancer, OrphelinInv
      <4>2. proc'[p] # None /\ proc'[p].prog = "attendu"
        <5>1. proc'[p] = [prog |-> "attendu", a_nous |-> TRUE]
          BY <3>1 DEF TypeOK
        <5>2. proc'[p] \in Processus
          BY <5>1 DEF Processus
        <5>3. proc'[p] # None
          BY <5>2
        <5>4. proc'[p].prog = "attendu"
          BY <5>1
        <5> QED  BY <5>3, <5>4
      <4> QED  BY <3>1, <4>1, <4>2 DEF OrphelinInv, Vivant
    <3>2. CASE phase' = "sans" /\ UNCHANGED <<proc, enfant>>
      BY <2>7, <3>2 DEF Lancer, OrphelinInv, Vivant
    <3> QED  BY <2>7, <3>1, <3>2 DEF Lancer
  <2>8. CASE VerifierGrace
    <3>1. CASE phase' = "ecrire" /\ UNCHANGED <<systeme, enfant, pidFile>>
      BY <2>8, <3>1 DEF VerifierGrace, OrphelinInv, Vivant, systeme
    <3>2. CASE Disparaitre(enfant, None) /\ enfant' = None /\ phase' = "sans"
      <4>1. enfant \in Pid /\ suivi \subseteq condamnes
        BY <2>8 DEF VerifierGrace, TypeOK, OrphelinInv
      <4>2. /\ suivi' \subseteq condamnes'
            /\ \A q \in suivi' : proc'[q] \in Processus /\ proc'[q].prog = "attendu"
        BY <3>2, <4>1, DisparaitreOrphelin
      <4> QED  BY <3>2, <4>2 DEF OrphelinInv, Vivant
    <3> QED  BY <2>8, <3>1, <3>2 DEF VerifierGrace
  <2>9. CASE EcrirePid
    <3>1. suivi' \subseteq {enfant} \cup condamnes /\ suivi' \subseteq {pidFile'} \cup condamnes
      BY <2>9 DEF EcrirePid, OrphelinInv
    <3>2. \A p \in suivi' : Vivant(p) /\ proc[p].prog = "attendu"
      BY <2>9 DEF EcrirePid, OrphelinInv, TypeOK
    <3> QED  BY <2>9, <3>1, <3>2 DEF EcrirePid, OrphelinInv, Vivant
  <2>10. CASE OublierPid
    BY <2>10 DEF OublierPid, OrphelinInv, Vivant, systeme
  <2>11. CASE Quitter
    <3>1. CASE phase = "tourne" /\ Disparaitre(enfant, None) /\ phase' = "drop"
      <4>1. enfant \in Pid /\ suivi \subseteq {enfant} \cup condamnes
        BY <3>1 DEF TypeOK, OrphelinInv
      <4>2. /\ suivi' \subseteq condamnes'
            /\ \A q \in suivi' : proc'[q] \in Processus /\ proc'[q].prog = "attendu"
        BY <3>1, <4>1, DisparaitreOrphelin
      <4>3. enfant' = None
        BY <2>11 DEF Quitter
      <4> QED  BY <3>1, <4>2, <4>3 DEF OrphelinInv, Vivant
    <3>2. CASE phase = "sans" /\ phase' = "arret" /\ UNCHANGED systeme
      BY <2>11, <3>2 DEF Quitter, OrphelinInv, Vivant, systeme
    <3> QED  BY <2>11, <3>1, <3>2 DEF Quitter
  <2>12. CASE Mourir
    <3>1. \A p \in suivi : proc'[p] = proc[p]
      BY <2>12 DEF Mourir, OrphelinInv, TypeOK, Vivant
    <3> QED  BY <2>12, <3>1 DEF Mourir, OrphelinInv, Vivant, TypeOK
  <2>13. ASSUME NEW p \in Pid, Sortir(p) PROVE OrphelinInv'
    <3>1. /\ suivi' = suivi \ {p} /\ condamnes' = condamnes \ {p}
          /\ \A q \in suivi' : proc'[q] \in Processus /\ proc'[q].prog = "attendu"
          /\ \A q \in Pid : proc'[q] \in Processus => proc'[q] = proc[q]
      BY <2>13, DisparaitreOrphelin DEF Sortir
    <3>2. enfant # None => proc'[enfant] # None
      BY <2>13 DEF Sortir, Disparaitre, OrphelinInv, TypeOK
    <3>3. UNCHANGED <<pidFile, phase, voie, cible, enfant>>
      BY <2>13 DEF Sortir
    <3>4. enfant # None /\ proc'[enfant] \in Processus => proc'[enfant].prog = "attendu"
      BY <3>1 DEF OrphelinInv, Vivant, TypeOK
    <3> QED  BY <3>1, <3>2, <3>3, <3>4 DEF OrphelinInv, Vivant
  <2>14. ASSUME NEW p \in Pid, NEW prog \in {"attendu", "tiers"}, NaitreTiers(p, prog)
         PROVE  OrphelinInv'
    BY <2>14 DEF NaitreTiers, OrphelinInv, TypeOK, Vivant
  <2>15. ASSUME NEW p \in Pid, PrendreVerrou(p) PROVE OrphelinInv'
    BY <2>15 DEF PrendreVerrou, OrphelinInv, Vivant
  <2>16. CASE UNCHANGED vars
    BY <2>16 DEF vars, systeme, OrphelinInv, Vivant
  <2> QED
    BY <2>1, <2>2, <2>3, <2>4, <2>5, <2>6, <2>7, <2>8, <2>9, <2>10, <2>11, <2>12,
       <2>13, <2>14, <2>15, <2>16 DEF Next, Noeud, Systeme
<1>3. OrphelinInv => OrphelinRamasse
  BY DEF OrphelinInv, OrphelinRamasse
<1> QED  BY <1>1, <1>2, <1>3, TypeCorrect, PTL DEF Spec

-----------------------------------------------------------------------------
(* How long a start may take *)

\* The steps the main thread has left: stopping what the lock names, then what
\* the pid file names, then the launch, and the drop at the end.
Rang ==
  CASE phase \in {"arret", "sans"}         -> 0
    [] phase = "drop"                      -> 1
    [] phase = "tourne"                    -> 2
    [] phase = "ecrire"                    -> 3
    [] phase = "grace"                     -> 4
    [] phase = "lancer"                    -> 5
    [] phase = "attend" /\ voie = "pid"    -> 6 + reste
    [] phase = "terme" /\ voie = "pid"     -> 7 + SONDAGES
    [] phase = "ramasser"                  -> 8 + SONDAGES
    [] phase = "attend" /\ voie = "verrou" -> 9 + SONDAGES + reste
    [] phase = "terme" /\ voie = "verrou"  -> 10 + 2 * SONDAGES
    [] phase = "verrou"                    -> 11 + 2 * SONDAGES

\* Within one life of the node every step of the main thread uses up one of
\* the steps it has left, and nothing gives any back: neither a process that
\* refuses to die, nor one that takes a freed pid or the lock meanwhile, nor
\* a crash, which ends the life.
LancementBorne == [][phase # "arret" => Rang' <= Rang /\ (Noeud => Rang' < Rang)]_vars

\* The measure is a natural number, at most twice the polls and eleven steps.
LEMMA RangType == TypeOK => Rang \in 0 .. (11 + 2 * SONDAGES)
<1> SUFFICES ASSUME TypeOK PROVE Rang \in 0 .. (11 + 2 * SONDAGES)
  OBVIOUS
<1>1. SONDAGES \in Nat /\ reste \in 0 .. SONDAGES
  BY SuperviseurAssumption DEF TypeOK
<1>2. /\ phase \in {"arret", "sans"} => Rang = 0
      /\ phase = "drop" => Rang = 1
      /\ phase = "tourne" => Rang = 2
      /\ phase = "ecrire" => Rang = 3
      /\ phase = "grace" => Rang = 4
      /\ phase = "lancer" => Rang = 5
      /\ phase = "ramasser" => Rang = 8 + SONDAGES
      /\ phase = "verrou" => Rang = 11 + 2 * SONDAGES
  BY DEF Rang
<1>3. phase = "attend" => Rang \in {6 + reste, 9 + SONDAGES + reste}
  BY DEF TypeOK, Rang
<1>4. phase = "terme" => Rang \in {7 + SONDAGES, 10 + 2 * SONDAGES}
  BY DEF TypeOK, Rang
<1>5. phase \in Phases
  BY DEF TypeOK
<1> QED  BY <1>1, <1>2, <1>3, <1>4, <1>5 DEF Phases

\* What the external system does leaves the measure alone.
LEMMA RangSysteme ==
  ASSUME UNCHANGED <<phase, voie, reste>>
  PROVE  Rang' = Rang
BY DEF Rang

\* A start, a run and a stop of a backend take at most 11 + 2 * SONDAGES steps
\* of the main thread, for every number of polls: two rounds of SIGTERM, polls
\* and SIGKILL, never a third.
THEOREM LancementCorrect == Spec => LancementBorne /\ [](Rang <= 11 + 2 * SONDAGES)
<1>1. TypeOK /\ [Next]_vars => [phase # "arret" => Rang' <= Rang /\ (Noeud => Rang' < Rang)]_vars
  <2> SUFFICES ASSUME TypeOK, Next, phase # "arret" PROVE Rang' <= Rang /\ (Noeud => Rang' < Rang)
    OBVIOUS
  <2> USE SuperviseurAssumption
  <2>1. Rang \in Nat /\ reste \in 0 .. SONDAGES /\ voie \in {"verrou", "pid"}
    BY RangType DEF TypeOK
  <2>2. CASE LibererVerrou
    <3>1. /\ phase = "verrou"
          /\ (phase' = "terme" /\ voie' = "verrou") \/ phase' = "ramasser"
      BY <2>2 DEF LibererVerrou, Arreter
    <3>2. Rang = 11 + 2 * SONDAGES /\ Rang' \in {10 + 2 * SONDAGES, 8 + SONDAGES}
      BY <3>1 DEF Rang
    <3>3. Rang' <= Rang /\ Rang' < Rang
      BY <3>2
    <3> QED  BY <3>3
  <2>3. CASE RamasserOrphelin
    <3>1. /\ phase = "ramasser"
          /\ (phase' = "terme" /\ voie' = "pid") \/ phase' = "lancer"
      BY <2>3 DEF RamasserOrphelin, Arreter
    <3>2. Rang = 8 + SONDAGES /\ Rang' \in {7 + SONDAGES, 5}
      BY <3>1 DEF Rang
    <3>3. Rang' <= Rang /\ Rang' < Rang
      BY <3>2
    <3> QED  BY <3>3
  <2>4. CASE Terminer
    <3>1. phase = "terme" /\ phase' = "attend" /\ reste' = SONDAGES /\ voie' = voie
      BY <2>4 DEF Terminer
    <3>2. \/ Rang = 7 + SONDAGES /\ Rang' = 6 + SONDAGES
          \/ Rang = 10 + 2 * SONDAGES /\ Rang' = 9 + SONDAGES + SONDAGES
      BY <2>1, <3>1 DEF Rang
    <3>3. Rang' <= Rang /\ Rang' < Rang
      BY <3>2
    <3> QED  BY <3>3
  <2>5. ASSUME phase = "attend", voie' = voie,
               \/ phase' = "attend" /\ reste' < reste /\ reste' \in Nat
               \/ voie = "verrou" /\ phase' = "ramasser"
               \/ voie = "pid" /\ phase' = "lancer"
        PROVE  Rang' < Rang
    <3>1. CASE voie = "verrou"
      BY <2>1, <2>5, <3>1 DEF Rang
    <3>2. CASE voie = "pid"
      BY <2>1, <2>5, <3>2 DEF Rang
    <3> QED  BY <2>1, <3>1, <3>2
  <2>6. CASE Sonder
    <3>1. reste > 0 => reste - 1 < reste /\ reste - 1 \in Nat
      BY <2>1
    <3>2. /\ phase = "attend" /\ voie' = voie
          /\ \/ phase' = "attend" /\ reste' < reste /\ reste' \in Nat
             \/ voie = "verrou" /\ phase' = "ramasser"
             \/ voie = "pid" /\ phase' = "lancer"
      BY <2>6, <3>1 DEF Sonder, Continuer
    <3>3. Rang' < Rang
      BY <2>5, <3>2
    <3>4. Rang' \in Nat
      BY <2>1, <3>2 DEF Rang
    <3>5. Rang' <= Rang
      BY <2>1, <3>3, <3>4
    <3> QED  BY <3>3, <3>5
  <2>7. CASE Achever
    <3>1. /\ phase = "attend" /\ voie' = voie /\ reste' = reste
          /\ \/ voie = "verrou" /\ phase' = "ramasser"
             \/ voie = "pid" /\ phase' = "lancer"
      BY <2>7 DEF Achever, Continuer
    <3>2. Rang' < Rang
      BY <2>5, <3>1
    <3>3. Rang' \in Nat
      BY <2>1, <3>1 DEF Rang
    <3>4. Rang' <= Rang
      BY <2>1, <3>2, <3>3
    <3> QED  BY <3>2, <3>4
  <2>8. CASE Lancer
    <3>1. phase = "lancer" /\ phase' \in {"grace", "sans"}
      BY <2>8 DEF Lancer
    <3>2. Rang = 5
      BY <3>1 DEF Rang
    <3>3. phase' = "grace" => Rang' = 4
      BY DEF Rang
    <3>4. phase' = "sans" => Rang' = 0
      BY DEF Rang
    <3>5. Rang' <= Rang /\ Rang' < Rang
      BY <3>1, <3>2, <3>3, <3>4
    <3> QED  BY <3>5
  <2>9. CASE VerifierGrace
    <3>1. phase = "grace" /\ phase' \in {"ecrire", "sans"}
      BY <2>9 DEF VerifierGrace
    <3>2. Rang = 4
      BY <3>1 DEF Rang
    <3>3. phase' = "ecrire" => Rang' = 3
      BY DEF Rang
    <3>4. phase' = "sans" => Rang' = 0
      BY DEF Rang
    <3>5. Rang' <= Rang /\ Rang' < Rang
      BY <3>1, <3>2, <3>3, <3>4
    <3> QED  BY <3>5
  <2>10. CASE EcrirePid \/ OublierPid
    <3>1. \/ phase = "ecrire" /\ phase' = "tourne"
          \/ phase = "drop" /\ phase' = "arret"
      BY <2>10 DEF EcrirePid, OublierPid
    <3>2. Rang' <= Rang /\ Rang' < Rang
      BY <3>1 DEF Rang
    <3> QED  BY <3>2
  <2>11. CASE Quitter /\ ~Noeud
    <3>1. \/ phase = "tourne" /\ phase' = "drop"
          \/ phase = "sans" /\ phase' = "arret"
      BY <2>11 DEF Quitter
    <3>2. Rang' <= Rang
      BY <3>1 DEF Rang
    <3> QED  BY <2>11, <3>2
  <2>12. CASE Mourir /\ ~Noeud
    <3>1. Rang' = 0
      BY <2>12 DEF Mourir, Rang
    <3>2. Rang' <= Rang
      BY <2>1, <3>1
    <3> QED  BY <2>12, <3>2
  <2>13. CASE Systeme /\ ~Noeud
    <3>1. UNCHANGED <<phase, voie, reste>>
      BY <2>13 DEF Systeme, Sortir, NaitreTiers, PrendreVerrou
    <3>2. Rang' <= Rang
      BY <2>1, <3>1, RangSysteme
    <3> QED  BY <2>13, <3>2
  <2> QED
    BY <2>2, <2>3, <2>4, <2>6, <2>7, <2>8, <2>9, <2>10, <2>11, <2>12, <2>13
    DEF Next, Noeud, DemarrerKubo, DemarrerRelais
<1>2. TypeOK => Rang <= 11 + 2 * SONDAGES
  BY RangType, SuperviseurAssumption
<1> QED  BY <1>1, <1>2, TypeCorrect, PTL DEF Spec, LancementBorne

============================================================================
