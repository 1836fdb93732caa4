--------------------------- MODULE AmorcageProofs ---------------------------
(***************************************************************************)
(* Proofs about Amorcage: its types and who holds the address, that the    *)
(* boot implements the promise of Port, that the log is the tail of what   *)
(* was logged, that a refusal of the launch at login stands, that the      *)
(* hand-over runs down, and that a page told what to do stays told; for    *)
(* any set of pages, any capacity of the log and any thresholds.           *)
(***************************************************************************)
EXTENDS Amorcage, SequenceTheorems, TLAPS

USE AmorcageAssumption

\* Pushing a line keeps the log a sequence of line numbers.
LEMMA PousserType ==
  ASSUME NEW j \in Seq(Nat), NEW l \in Nat
  PROVE  pousser_ligne(j, l) \in Seq(Nat)
<1>1. CASE Len(j) = LIGNES_GARDEES
  <2>1. j # << >>
    BY <1>1
  <2>2. Tail(j) \in Seq(Nat)
    BY <2>1
  <2> QED  BY <1>1, <2>2 DEF pousser_ligne
<1>2. CASE Len(j) # LIGNES_GARDEES
  BY <1>2 DEF pousser_ligne
<1> QED  BY <1>1, <1>2

\* What an event leaves of the log's types.
LEMMA TracerType ==
  ASSUME emis \in Nat, journal \in Seq(Nat), Tracer
  PROVE  emis' \in Nat /\ journal' \in Seq(Nat)
<1>1. emis + 1 \in Nat
  OBVIOUS
<1> QED  BY <1>1, PousserType DEF Tracer

\* The end of the process, whatever caused it.
LEMMA FinirType ==
  ASSUME TypeOK, Finir
  PROVE  TypeOK'
BY DEF TypeOK, Finir, memoire, log, autostart, Etapes, ApresPassage

\* A step of the autostart, after the hand-over: only its own settings move.
LEMMA AutostartType ==
  ASSUME TypeOK, pc \in ApresPassage, pc' \in ApresPassage,
         UNCHANGED <<reseau, memoire, log, clients, dev, refus>>,
         actif' \in BOOLEAN, marqueur' \in BOOLEAN, coche' \in BOOLEAN
  PROVE  TypeOK'
<1>1. pc' \in Etapes /\ pc # "eteint" /\ pc' # "eteint"
  BY DEF ApresPassage, Etapes
<1>2. UNCHANGED <<tache, signal, serveur, port, etape, chrono, emis, journal, requete, reponse>>
  BY DEF reseau, memoire, log, clients
<1> QED  BY <1>1, <1>2 DEF TypeOK

\* Every step of the autostart before the tray.
LEMMA EtapesAutostartType ==
  ASSUME TypeOK, AutostartSans \/ DefautLire \/ Activer \/ PoserMarqueur \/ LireCoche
  PROVE  TypeOK'
<1> USE DEF ApresPassage
<1>0. actif \in BOOLEAN /\ marqueur \in BOOLEAN /\ coche \in BOOLEAN
  BY DEF TypeOK
<1>1. CASE AutostartSans \/ DefautLire
  <2>1. /\ pc = "autostart" /\ pc' \in {"tray_sans", "initial", "activer", "marquer"}
        /\ UNCHANGED <<reseau, memoire, log, clients, dev, autostart>>
    BY <1>1 DEF AutostartSans, DefautLire
  <2> QED  BY <1>0, <2>1, AutostartType DEF autostart
<1>2. CASE Activer
  <2>1. actif' \in BOOLEAN
    BY <1>0, <1>2 DEF Activer
  <2>2. /\ pc = "activer" /\ pc' \in {"marquer", "initial"}
        /\ UNCHANGED <<reseau, memoire, log, clients, dev, marqueur, coche, refus>>
    BY <1>2 DEF Activer
  <2> QED  BY <1>0, <2>1, <2>2, AutostartType
<1>3. CASE PoserMarqueur
  <2>1. marqueur' \in BOOLEAN
    BY <1>0, <1>3 DEF PoserMarqueur
  <2>2. /\ pc = "marquer" /\ pc' = "initial"
        /\ UNCHANGED <<reseau, memoire, log, clients, dev, actif, coche, refus>>
    BY <1>3 DEF PoserMarqueur
  <2> QED  BY <1>0, <2>1, <2>2, AutostartType
<1>4. CASE LireCoche
  <2>1. actif' \in BOOLEAN /\ marqueur' \in BOOLEAN /\ coche' \in BOOLEAN
    BY <1>0, <1>4 DEF LireCoche
  <2>2. /\ pc = "initial" /\ pc' = "tray"
        /\ UNCHANGED <<reseau, memoire, log, clients, dev, refus>>
    BY <1>4 DEF LireCoche
  <2> QED  BY <1>0, <2>1, <2>2, AutostartType
<1> QED  BY <1>1, <1>2, <1>3, <1>4

\* A click in the tray.
LEMMA BasculeType ==
  ASSUME TypeOK, BasculerAutostart
  PROVE  TypeOK'
<1>1. emis' \in Nat /\ journal' \in Seq(Nat)
  BY TracerType DEF BasculerAutostart, TypeOK
<1>2. actif' \in BOOLEAN /\ coche' \in BOOLEAN /\ marqueur' \in BOOLEAN
  BY DEF BasculerAutostart, TypeOK
<1>3. refus' \in {"aucun", "marque", "sans_marqueur"}
  BY DEF BasculerAutostart, TypeOK
<1>4. UNCHANGED <<pc, tache, signal, serveur, port, etape, chrono, requete, reponse, dev>>
  BY DEF BasculerAutostart, reseau, memoire, clients
<1> QED  BY <1>1, <1>2, <1>3, <1>4 DEF TypeOK

\* A step that changes nothing.
LEMMA RepetitionType ==
  ASSUME TypeOK, UNCHANGED vars
  PROVE  TypeOK'
<1>1. UNCHANGED <<pc, tache, signal, serveur, port, etape, chrono, emis, journal,
                  requete, reponse, dev, actif, marqueur, coche, refus>>
  BY DEF vars, reseau, memoire, log, clients, autostart
<1> QED  BY <1>1 DEF TypeOK

\* Types of the boot: the address is held by the server that listens, and the
\* definitive one comes after the end of the boot server's task.
THEOREM TypeCorrect == Spec => []TypeOK
<1>1. Init => TypeOK
  <2> SUFFICES ASSUME Init PROVE TypeOK
    OBVIOUS
  <2>1. journal \in Seq(Nat)
    BY DEF Init
  <2>2. /\ dev \in BOOLEAN /\ actif \in BOOLEAN /\ marqueur \in BOOLEAN /\ coche \in BOOLEAN
        /\ signal \in BOOLEAN
    BY DEF Init
  <2>3. requete \in [Client -> Requetes \cup {None}] /\ reponse \in [Client -> Reponses \cup {None}]
    BY DEF Init
  <2> QED  BY <2>1, <2>2, <2>3 DEF Init, TypeOK, Etapes, ApresPassage
<1>2. TypeOK /\ [Next]_vars => TypeOK'
  <2> SUFFICES ASSUME TypeOK, [Next]_vars PROVE TypeOK'
    OBVIOUS
  <2> USE DEF TypeOK, Etapes, ApresPassage, reseau, memoire, log, clients, autostart
  <2>1. CASE Lancer
    <3>1. journal' \in Seq(Nat)
      BY <2>1 DEF Lancer
    <3>2. /\ dev' \in BOOLEAN /\ actif' \in BOOLEAN /\ marqueur' \in BOOLEAN /\ coche' \in BOOLEAN
          /\ signal' \in BOOLEAN
      BY <2>1 DEF Lancer
    <3>3. reponse' \in [Client -> Reponses \cup {None}]
      BY <2>1 DEF Lancer
    <3> QED  BY <2>1, <3>1, <3>2, <3>3 DEF Lancer
  <2>2. CASE SecuriteOk \/ DemarrerBackends \/ ArreterAmorcage \/ AttendreAmorcage \/ LancerServeur
    <3>1. CASE SecuriteOk \/ DemarrerBackends
      BY <3>1 DEF SecuriteOk, DemarrerBackends
    <3>2. CASE ArreterAmorcage
      BY <3>2 DEF ArreterAmorcage
    <3>3. CASE AttendreAmorcage \/ LancerServeur
      BY <3>3 DEF AttendreAmorcage, LancerServeur
    <3> QED  BY <2>2, <3>1, <3>2, <3>3
  <2>3. CASE SecuriteErr \/ ServeurRefuse \/ Quitter \/ Mourir
    <3>1. Finir
      BY <2>3 DEF SecuriteErr, ServeurRefuse, Quitter, Mourir
    <3> QED  BY <3>1, FinirType
  <2>4. CASE EtapeSecurite \/ EtapeSous \/ EtapePret
    BY <2>4 DEF EtapeSecurite, EtapeSous, EtapePret, PoserEtape
  <2>5. CASE ChronoSecurite \/ ChronoSous \/ ChronoPret
    <3>1. Tracer /\ chrono' = 0
      BY <2>5 DEF ChronoSecurite, ChronoSous, ChronoPret, RepartirChrono
    <3>2. chrono' \in 0 .. SEUIL_SOUS \cup {None}
      BY <3>1
    <3>3. emis' \in Nat /\ journal' \in Seq(Nat)
      BY <3>1, TracerType
    <3> QED  BY <2>5, <3>2, <3>3 DEF ChronoSecurite, ChronoSous, ChronoPret, RepartirChrono
  <2>6. CASE AmorcageBind
    <3>1. emis' \in Nat /\ journal' \in Seq(Nat)
      BY <2>6, TracerType DEF AmorcageBind
    <3> QED  BY <2>6, <3>1 DEF AmorcageBind
  <2>7. CASE AmorcageArret
    BY <2>7 DEF AmorcageArret
  <2>8. CASE AmorcageFin
    <3>1. emis' \in Nat /\ journal' \in Seq(Nat)
      BY <2>8, TracerType DEF AmorcageFin
    <3> QED  BY <2>8, <3>1 DEF AmorcageFin
  <2>9. CASE ServeurBind
    <3>1. emis' \in Nat /\ journal' \in Seq(Nat)
      BY <2>9, TracerType DEF ServeurBind
    <3> QED  BY <2>9, <3>1 DEF ServeurBind
  <2>10. CASE Tiers
    BY <2>10 DEF Tiers
  <2>11. ASSUME NEW c \in Client, Connecter(c)
         PROVE  TypeOK'
    <3>1. [via |-> port, e |-> None] \in Requetes
      BY <2>11 DEF Connecter, Requetes
    <3> QED  BY <2>11, <3>1 DEF Connecter
  <2>12. ASSUME NEW c \in Client, LireEtape(c)
         PROVE  TypeOK'
    <3>1. requete[c] \in Requetes
      BY <2>12 DEF LireEtape
    <3>2. [requete[c] EXCEPT !.e = etape] \in Requetes
      BY <3>1 DEF Requetes
    <3>3. requete' \in [Client -> Requetes \cup {None}]
      BY <2>12, <3>2 DEF LireEtape
    <3> QED  BY <2>12, <3>3 DEF LireEtape
  <2>13. ASSUME NEW c \in Client, Repondre(c)
         PROVE  TypeOK'
    <3>1. requete[c] \in Requetes /\ requete[c].e \in 0 .. 3
      BY <2>13 DEF Repondre, Requetes
    <3>2. chrono' \in 0 .. SEUIL_SOUS
      BY <2>13 DEF Repondre
    <3> DEFINE x == explication(requete[c].e, IF chrono = None THEN 0 ELSE chrono)
    <3>3. x \in BOOLEAN
      BY DEF explication
    <3>4. [e |-> requete[c].e, explique |-> x] \in Reponses
      BY <3>1, <3>3 DEF Reponses
    <3> HIDE DEF x
    <3>5. reponse' = [reponse EXCEPT ![c] = [e |-> requete[c].e, explique |-> x]]
      BY <2>13 DEF Repondre, x
    <3>6. reponse' \in [Client -> Reponses \cup {None}]
      BY <3>4, <3>5
    <3> QED  BY <2>13, <3>2, <3>6 DEF Repondre
  <2>14. CASE Seconde
    <3>1. chrono \in 0 .. SEUIL_SOUS /\ chrono < SEUIL_SOUS /\ chrono' = chrono + 1
      BY <2>14 DEF Seconde
    <3>2. chrono' \in 0 .. SEUIL_SOUS
      BY <3>1
    <3> QED  BY <2>14, <3>2 DEF Seconde
  <2>15. CASE AutostartSans \/ DefautLire \/ Activer \/ PoserMarqueur \/ LireCoche
    BY ONLY TypeOK, <2>15, EtapesAutostartType
  <2>16. CASE BasculerAutostart
    BY ONLY TypeOK, <2>16, BasculeType
  <2>17. CASE UNCHANGED vars
    BY ONLY TypeOK, <2>17, RepetitionType
  <2> QED
    BY <2>1, <2>2, <2>3, <2>4, <2>5, <2>6, <2>7, <2>8, <2>9, <2>10, <2>11, <2>12, <2>13,
       <2>14, <2>15, <2>16, <2>17
       DEF Next, Principal, Amorceur, Serveur, Poll
<1> QED  BY <1>1, <1>2, PTL DEF Spec

-----------------------------------------------------------------------------
(* The hand-over of the address *)

\* One step of the boot is a step of Port or leaves its state alone.
LEMMA PasDePort ==
  ASSUME TypeOK, [Next]_vars
  PROVE  [Promesse!Next]_(Promesse!vars)
<1> USE DEF Promesse!Next, Promesse!vars, Promesse!Rendu, Promesse!Lancer, Promesse!Ouvrir,
            Promesse!Ceder, Promesse!Servir, Promesse!Finir, Promesse!Tiers
<1>1. CASE Lancer
  BY <1>1 DEF Lancer, TypeOK, ApresPassage
<1>2. CASE SecuriteErr \/ ServeurRefuse \/ Quitter \/ Mourir
  <2>1. Finir /\ pc # "eteint"
    BY <1>2 DEF SecuriteErr, ServeurRefuse, Quitter, Mourir, Vivant, TypeOK, ApresPassage
  <2> QED  BY <2>1 DEF Finir, TypeOK
<1>3. CASE AmorcageBind
  <2>1. pc # "eteint" /\ tache = "lancee" /\ UNCHANGED <<pc, serveur>>
    BY <1>3 DEF AmorcageBind, TypeOK
  <2> QED  BY <1>3, <2>1 DEF AmorcageBind, TypeOK, ApresPassage
<1>4. CASE AmorcageArret
  <2>1. pc # "eteint" /\ port = "amorcage" /\ serveur # "ecoute"
    BY <1>4 DEF AmorcageArret, TypeOK
  <2> QED  BY <1>4, <2>1 DEF AmorcageArret
<1>5. CASE AmorcageFin
  BY <1>5 DEF AmorcageFin
<1>6. CASE ServeurBind
  <2>1. pc \in ApresPassage /\ tache = "finie"
    BY <1>6 DEF ServeurBind, TypeOK
  <2> QED  BY <1>6, <2>1 DEF ServeurBind, ApresPassage
<1>7. CASE Tiers
  BY <1>7 DEF Tiers
<1>8. CASE LancerServeur
  BY <1>8 DEF LancerServeur, TypeOK, ApresPassage
<1>9. ASSUME pc # "eteint" => pc' # "eteint", pc = "eteint" => pc' = "eteint",
             UNCHANGED <<tache, serveur, port>>
      PROVE  UNCHANGED Promesse!vars
  BY <1>9
<1>10. CASE \/ SecuriteOk \/ EtapeSecurite \/ ChronoSecurite \/ EtapeSous \/ ChronoSous
            \/ DemarrerBackends \/ ArreterAmorcage \/ AttendreAmorcage \/ EtapePret \/ ChronoPret
            \/ AutostartSans \/ DefautLire \/ Activer \/ PoserMarqueur \/ LireCoche
  <2>1. pc # "eteint" /\ pc' # "eteint" /\ UNCHANGED <<tache, serveur, port>>
    BY <1>10 DEF SecuriteOk, EtapeSecurite, ChronoSecurite, EtapeSous, ChronoSous, DemarrerBackends,
         ArreterAmorcage, AttendreAmorcage, EtapePret, ChronoPret, AutostartSans, DefautLire,
         Activer, PoserMarqueur, LireCoche, PoserEtape, RepartirChrono, reseau
  <2> QED  BY <1>9, <2>1
<1>11. CASE \/ Seconde \/ BasculerAutostart \/ UNCHANGED vars \/ \E c \in Client : Poll(c)
  <2>1. UNCHANGED <<pc, reseau>>
    BY <1>11 DEF Seconde, BasculerAutostart, vars, Poll, Connecter, LireEtape, Repondre
  <2>2. UNCHANGED <<pc, tache, serveur, port>>
    BY <2>1 DEF reseau
  <2> QED  BY <1>9, <2>2
<1> QED
  BY <1>1, <1>2, <1>3, <1>4, <1>5, <1>6, <1>7, <1>8, <1>10, <1>11
     DEF Next, Principal, Amorceur, Serveur

\* The boot implements Port: the address goes from the boot server to the
\* definitive one, once, never to both and never back.
THEOREM PassageSur == Spec => PortCede
<1>1. Init => Promesse!Init
  BY DEF Init, Promesse!Init
<1>2. TypeOK /\ [Next]_vars => [Promesse!Next]_(Promesse!vars)
  BY PasDePort
<1> QED  BY <1>1, <1>2, TypeCorrect, PTL DEF Spec, PortCede, Promesse!Spec

-----------------------------------------------------------------------------
(* Launch at login *)

\* The refusal, its marker, and the one place where the default activates.
RefusInv ==
  /\ refus = "marque" => marqueur /\ ~actif
  /\ pc = "activer" => ~marqueur

\* A refusal given once the default was settled stands for ever.
THEOREM RefusRespecte == Spec => []RefusTenu
<1>1. Init => RefusInv
  BY DEF Init, RefusInv
<1>2. TypeOK /\ RefusInv /\ [Next]_vars => RefusInv'
  <2> SUFFICES ASSUME TypeOK, RefusInv, [Next]_vars PROVE RefusInv'
    OBVIOUS
  <2> USE DEF RefusInv
  <2>1. CASE DefautLire
    <3>1. pc' = "activer" => ~marqueur
      BY <2>1 DEF DefautLire, doit_appliquer_defaut
    <3> QED  BY <2>1, <3>1 DEF DefautLire, autostart
  <2>2. CASE Activer
    BY <2>2 DEF Activer
  <2>3. CASE PoserMarqueur
    BY <2>3 DEF PoserMarqueur, TypeOK
  <2>4. CASE LireCoche
    BY <2>4 DEF LireCoche
  <2>5. CASE BasculerAutostart
    <3>1. marqueur' = marqueur /\ pc' = pc
      BY <2>5 DEF BasculerAutostart
    <3>2. CASE UNCHANGED <<actif, refus>>
      BY <3>1, <3>2
    <3>3. CASE ~UNCHANGED <<actif, refus>>
      <4>1. actif' = ~coche /\ refus' = IF ~coche THEN "aucun"
                                       ELSE IF marqueur THEN "marque" ELSE "sans_marqueur"
        BY <2>5, <3>3 DEF BasculerAutostart
      <4>2. CASE coche
        <5>1. ~actif'
          BY <4>1, <4>2
        <5>2. refus' = "marque" => marqueur
          BY <4>1, <4>2
        <5> QED  BY <3>1, <5>1, <5>2
      <4>3. CASE ~coche
        BY <3>1, <4>1, <4>3
      <4> QED  BY <4>2, <4>3
    <3> QED  BY <3>2, <3>3
  <2>6. CASE Lancer
    BY <2>6 DEF Lancer
  <2>7. ASSUME UNCHANGED autostart, pc' # "activer" \/ pc' = pc
        PROVE  RefusInv'
    BY <2>7 DEF autostart
  <2>8. CASE SecuriteErr \/ ServeurRefuse \/ Quitter \/ Mourir
    BY <2>7, <2>8 DEF SecuriteErr, ServeurRefuse, Quitter, Mourir, Finir
  <2>9. CASE \/ SecuriteOk \/ EtapeSecurite \/ ChronoSecurite \/ EtapeSous \/ ChronoSous
             \/ DemarrerBackends \/ ArreterAmorcage \/ AttendreAmorcage \/ EtapePret \/ ChronoPret
             \/ AutostartSans \/ LancerServeur
    BY <2>7, <2>9 DEF SecuriteOk, EtapeSecurite, ChronoSecurite, EtapeSous, ChronoSous,
         DemarrerBackends, ArreterAmorcage, AttendreAmorcage, EtapePret, ChronoPret, AutostartSans,
         LancerServeur, PoserEtape, RepartirChrono
  <2>10. CASE AmorcageBind \/ AmorcageArret \/ AmorcageFin \/ ServeurBind \/ Tiers
    BY <2>7, <2>10 DEF AmorcageBind, AmorcageArret, AmorcageFin, ServeurBind, Tiers
  <2>11. CASE Seconde \/ \E c \in Client : Poll(c)
    BY <2>7, <2>11 DEF Seconde, Poll, Connecter, LireEtape, Repondre
  <2>12. CASE UNCHANGED vars
    BY <2>7, <2>12 DEF vars
  <2> QED
    BY <2>1, <2>2, <2>3, <2>4, <2>5, <2>6, <2>8, <2>9, <2>10, <2>11, <2>12
       DEF Next, Principal, Amorceur, Serveur
<1>3. RefusInv => RefusTenu
  BY DEF RefusInv, RefusTenu
<1> QED  BY <1>1, <1>2, <1>3, TypeCorrect, PTL DEF Spec

-----------------------------------------------------------------------------
(* The log *)

\* What the log holds: the last lines, in order, at most LIGNES_GARDEES.
Gardees == IF emis < LIGNES_GARDEES THEN emis ELSE LIGNES_GARDEES

JournalInv ==
  /\ Len(journal) = Gardees
  /\ \A i \in 1 .. Gardees : journal[i] = emis - Gardees + i

\* One more line keeps the log in that form, full or not.
LEMMA LigneGardee ==
  ASSUME TypeOK, JournalInv, Tracer
  PROVE  JournalInv'
<1> USE AmorcageAssumption DEF TypeOK, JournalInv, Tracer, pousser_ligne
<1>1. CASE emis < LIGNES_GARDEES
  <2>1. journal' = Append(journal, emis + 1) /\ Len(journal) = emis /\ emis' = emis + 1
    BY <1>1 DEF Gardees
  <2>2. Len(journal') = emis + 1 /\ Gardees' = emis + 1
    BY <1>1, <2>1 DEF Gardees
  <2>3. \A i \in 1 .. emis : journal'[i] = journal[i] /\ journal[i] = i
    BY <1>1, <2>1 DEF Gardees
  <2>4. journal'[emis + 1] = emis + 1
    BY <2>1
  <2> QED  BY <2>1, <2>2, <2>3, <2>4
<1>2. CASE ~(emis < LIGNES_GARDEES)
  <2> DEFINE t == Tail(journal)
  <2>1. Len(journal) = LIGNES_GARDEES /\ Gardees = LIGNES_GARDEES /\ emis' = emis + 1
    BY <1>2 DEF Gardees
  <2>2. Gardees' = LIGNES_GARDEES
    BY <1>2, <2>1 DEF Gardees
  <2>3. t \in Seq(Nat) /\ Len(t) = LIGNES_GARDEES - 1
    BY <2>1
  <2>4. \A i \in 1 .. LIGNES_GARDEES - 1 : t[i] = journal[i + 1]
    BY <2>1
  <2>5. journal' = Append(t, emis + 1)
    BY <2>1
  <2> HIDE DEF t
  <2>6. Len(journal') = LIGNES_GARDEES /\ journal'[LIGNES_GARDEES] = emis + 1
    BY <2>3, <2>5
  <2>7. \A i \in 1 .. LIGNES_GARDEES - 1 : journal'[i] = t[i]
    <3>1. \A i \in 1 .. Len(t) : Append(t, emis + 1)[i] = t[i]
      BY <2>3, AppendProperties
    <3> QED  BY <2>3, <2>5, <3>1
  <2>8. \A i \in 1 .. LIGNES_GARDEES - 1 : journal'[i] = emis - LIGNES_GARDEES + (i + 1)
    BY <2>1, <2>4, <2>7
  <2>9. \A i \in 1 .. LIGNES_GARDEES : journal'[i] = emis' - LIGNES_GARDEES + i
    <3> TAKE i \in 1 .. LIGNES_GARDEES
    <3>1. CASE i = LIGNES_GARDEES
      BY <2>1, <2>6, <3>1
    <3>2. CASE i # LIGNES_GARDEES
      <4>1. i \in 1 .. LIGNES_GARDEES - 1
        BY <3>2
      <4> QED  BY <2>1, <2>8, <4>1
    <3> QED  BY <3>1, <3>2
  <2> QED  BY <2>2, <2>6, <2>9
<1> QED  BY <1>1, <1>2

\* /api/journal serves the last lines logged, in their order, for every cap.
THEOREM JournalExact == Spec => []JournalFidele
<1>1. Init => JournalInv
  BY AmorcageAssumption DEF Init, JournalInv, Gardees
<1>2. TypeOK /\ JournalInv /\ [Next]_vars => JournalInv'
  <2> SUFFICES ASSUME TypeOK, JournalInv, [Next]_vars PROVE JournalInv'
    OBVIOUS
  <2>1. CASE Tracer
    BY <2>1, LigneGardee
  <2>2. CASE UNCHANGED log
    BY <2>2 DEF log, JournalInv, Gardees
  <2>3. CASE Lancer
    BY <2>3, AmorcageAssumption DEF Lancer, JournalInv, Gardees
  <2>4. CASE Principal
    BY <2>1, <2>2, <2>4 DEF Principal, EtapeSecurite, ChronoSecurite, EtapeSous, ChronoSous,
         DemarrerBackends, ArreterAmorcage, AttendreAmorcage, LancerServeur, EtapePret, ChronoPret,
         AutostartSans, DefautLire, Activer, PoserMarqueur, LireCoche, PoserEtape, RepartirChrono
  <2>5. CASE Amorceur \/ Serveur \/ Tiers
    BY <2>1, <2>2, <2>5 DEF Amorceur, Serveur, Tiers, AmorcageBind, AmorcageArret, AmorcageFin,
         ServeurBind, ServeurRefuse, Finir
  <2>6. CASE SecuriteOk \/ SecuriteErr \/ Seconde \/ BasculerAutostart \/ Quitter \/ Mourir
    BY <2>1, <2>2, <2>6 DEF SecuriteOk, SecuriteErr, Seconde, BasculerAutostart, Quitter, Mourir,
         Finir
  <2>7. CASE \E c \in Client : Poll(c)
    BY <2>2, <2>7 DEF Poll, Connecter, LireEtape, Repondre
  <2>8. CASE UNCHANGED vars
    BY <2>2, <2>8 DEF vars
  <2> QED  BY <2>3, <2>4, <2>5, <2>6, <2>7, <2>8 DEF Next
<1>3. TypeOK /\ JournalInv => JournalFidele
  <2> SUFFICES ASSUME TypeOK, JournalInv, NEW n \in 1 .. LIGNES_GARDEES
               PROVE  LET l == dernieres_lignes(n) IN
                      /\ Len(l) = IF emis < n THEN emis ELSE n
                      /\ \A i \in 1 .. Len(l) : l[i] = emis - Len(l) + i
    BY DEF JournalFidele
  <2> DEFINE k == IF Len(journal) > n THEN Len(journal) - n + 1 ELSE 1
             l == SubSeq(journal, k, Len(journal))
  <2> USE AmorcageAssumption DEF TypeOK
  <2>1. Len(journal) = Gardees /\ Gardees \in Nat /\ Gardees <= emis
    BY DEF JournalInv, Gardees
  <2>2. k \in 1 .. Len(journal) + 1
    BY <2>1
  <2>3. Len(l) = Len(journal) - k + 1 /\ \A i \in 1 .. Len(l) : l[i] = journal[k + i - 1]
    BY <2>1, <2>2
  <2>4. Len(l) = IF emis < n THEN emis ELSE n
    BY <2>1, <2>3 DEF Gardees
  <2>5. \A i \in 1 .. Len(l) : journal[k + i - 1] = emis - Gardees + (k + i - 1)
    BY <2>1, <2>2, <2>3 DEF JournalInv
  <2>6. \A i \in 1 .. Len(l) : emis - Gardees + (k + i - 1) = emis - Len(l) + i
    BY <2>1, <2>2, <2>3
  <2>7. l = dernieres_lignes(n)
    BY DEF dernieres_lignes
  <2> HIDE DEF k, l
  <2>8. \A i \in 1 .. Len(l) : l[i] = emis - Len(l) + i
    BY ONLY <2>3, <2>5, <2>6
  <2> QED  BY ONLY <2>4, <2>7, <2>8
<1> QED  BY <1>1, <1>2, <1>3, TypeCorrect, PTL DEF Spec

-----------------------------------------------------------------------------
(* The hand-over and the explanation: what their ends rest on *)

\* How far the boot server's task is from its end.
Reste ==
  CASE tache = "lancee"             -> 3
    [] tache = "ecoute"             -> 2
    [] tache = "draine"             -> 1
    [] tache \in {"finie", "aucune"} -> 0

\* The requests the boot server still has to answer.
Attendues == {c \in Client : requete[c] # None /\ requete[c].via = "amorcage"}

\* While the main thread waits for the boot server, the signal that stops it
\* is posted and stays so, even if the task had not bound yet when it was
\* sent; every step of the task takes it nearer to its end and none of
\* anybody takes it back; and once it drains, no page joins the requests it
\* waits for.
PassageBorne ==
  [][pc = "attente" /\ pc' # "eteint" =>
       /\ signal /\ signal'
       /\ Reste' <= Reste /\ (Amorceur => Reste' < Reste)
       /\ Reste <= 1 => Attendues' \subseteq Attendues]_vars

\* What the wait needs: the signal is posted before it.
SignalInv == pc = "attente" => signal

\* A step that moves neither the task, the signal nor the requests.
LEMMA ResteIdem ==
  ASSUME UNCHANGED <<tache, signal, requete>>
  PROVE  Reste' = Reste /\ Attendues' = Attendues /\ signal' = signal
BY DEF Reste, Attendues

\* No interleaving of the signal with the bind of the boot server, and no
\* polling page, keeps the hand-over from running down.
THEOREM PassageCorrect == Spec => PassageBorne
<1>1. Init => SignalInv
  BY DEF Init, SignalInv
<1>2. TypeOK /\ SignalInv /\ [Next]_vars => SignalInv'
  <2> SUFFICES ASSUME TypeOK, SignalInv, [Next]_vars, pc' = "attente" PROVE signal'
    BY DEF SignalInv
  <2>1. CASE pc = "attente" /\ UNCHANGED signal
    BY <2>1 DEF SignalInv
  <2>2. CASE ArreterAmorcage
    BY <2>2 DEF ArreterAmorcage
  <2>3. CASE Amorceur \/ ServeurBind \/ Tiers \/ Seconde \/ (\E c \in Client : Poll(c))
             \/ BasculerAutostart \/ UNCHANGED vars
    BY <2>1, <2>3 DEF Amorceur, AmorcageBind, AmorcageArret, AmorcageFin, ServeurBind, Tiers,
       Seconde, Poll, Connecter, LireEtape, Repondre, BasculerAutostart, vars, reseau
  <2> QED
    BY <2>2, <2>3 DEF Next, Principal, Serveur, Lancer, SecuriteOk, SecuriteErr, EtapeSecurite,
       ChronoSecurite, EtapeSous, ChronoSous, DemarrerBackends, AttendreAmorcage, LancerServeur,
       EtapePret, ChronoPret, AutostartSans, DefautLire, Activer, PoserMarqueur, LireCoche,
       PoserEtape, RepartirChrono, ServeurRefuse, Quitter, Mourir, Finir
<1>3. TypeOK /\ SignalInv /\ [Next]_vars =>
        [pc = "attente" /\ pc' # "eteint" =>
           /\ signal /\ signal'
           /\ Reste' <= Reste /\ (Amorceur => Reste' < Reste)
           /\ Reste <= 1 => Attendues' \subseteq Attendues]_vars
  <2> SUFFICES ASSUME TypeOK, SignalInv, Next, pc = "attente", pc' # "eteint"
               PROVE  /\ signal /\ signal'
                      /\ Reste' <= Reste /\ (Amorceur => Reste' < Reste)
                      /\ Reste <= 1 => Attendues' \subseteq Attendues
    OBVIOUS
  <2>1. signal /\ Reste \in Nat
    BY DEF SignalInv, Reste, TypeOK
  <2>2. CASE Amorceur
    <3>1. UNCHANGED <<requete, signal>>
      BY <2>2 DEF Amorceur, AmorcageBind, AmorcageArret, AmorcageFin, clients
    <3>2. Reste' < Reste /\ Reste' <= Reste
      <4>1. \/ tache = "lancee" /\ tache' \in {"ecoute", "finie"}
            \/ tache = "ecoute" /\ tache' = "draine"
            \/ tache = "draine" /\ tache' = "finie"
        BY <2>2 DEF Amorceur, AmorcageBind, AmorcageArret, AmorcageFin
      <4> QED  BY ONLY <4>1 DEF Reste
    <3>3. Attendues' = Attendues
      BY <3>1 DEF Attendues
    <3> QED  BY <2>1, <3>1, <3>2, <3>3
  <2>3. ASSUME ~Amorceur, UNCHANGED <<tache, signal, requete>>
        PROVE  /\ signal /\ signal'
               /\ Reste' <= Reste /\ (Amorceur => Reste' < Reste)
               /\ Reste <= 1 => Attendues' \subseteq Attendues
    BY <2>1, <2>3, ResteIdem
  <2>4. ASSUME NEW c \in Client, Poll(c)
        PROVE  UNCHANGED <<tache, signal>> /\ (Reste <= 1 => Attendues' \subseteq Attendues)
    <3>1. UNCHANGED <<tache, signal>>
      BY <2>4 DEF Poll, Connecter, LireEtape, Repondre, reseau
    <3>2. requete \in [Client -> Requetes \cup {None}]
      BY DEF TypeOK
    <3>3. \A d \in Client : d # c => requete'[d] = requete[d]
      BY <2>4, <3>2 DEF Poll, Connecter, LireEtape, Repondre
    <3>4. ASSUME Reste <= 1, c \in Attendues' PROVE c \in Attendues
      <4>1. requete'[c] # None /\ requete'[c].via = "amorcage"
        BY <3>4 DEF Attendues
      <4>2. port # "amorcage"
        BY <3>4 DEF Reste, TypeOK
      <4>3. CASE Connecter(c)
        <5>1. requete'[c] = [via |-> port, e |-> None]
          BY <3>2, <4>3 DEF Connecter
        <5> QED  BY <4>1, <4>2, <5>1
      <4>4. CASE LireEtape(c)
        <5>1. requete[c] # None /\ requete[c] \in Requetes /\ requete'[c] = [requete[c] EXCEPT !.e = etape]
          BY <3>2, <4>4 DEF LireEtape
        <5>2. requete'[c].via = requete[c].via
          BY <5>1 DEF Requetes
        <5> QED  BY <4>1, <5>1, <5>2 DEF Attendues
      <4>5. CASE Repondre(c)
        <5>1. requete'[c] = None
          BY <3>2, <4>5 DEF Repondre
        <5> QED  BY <4>1, <5>1
      <4> QED  BY <2>4, <4>3, <4>4, <4>5 DEF Poll
    <3> QED  BY <3>1, <3>3, <3>4 DEF Attendues
  <2>5. CASE ~Amorceur /\ \E c \in Client : Poll(c)
    <3>1. UNCHANGED <<tache, signal>> /\ (Reste <= 1 => Attendues' \subseteq Attendues)
      BY <2>4, <2>5
    <3>2. Reste' = Reste
      BY <3>1 DEF Reste
    <3> QED  BY <2>1, <2>5, <3>1, <3>2
  <2>6. CASE AttendreAmorcage \/ Tiers \/ Seconde
    <3>1. UNCHANGED <<tache, signal, requete>>
      BY <2>6 DEF AttendreAmorcage, Tiers, Seconde, reseau, clients
    <3>2. ~Amorceur
      BY <2>6, <3>1 DEF Amorceur, AmorcageBind, AmorcageArret, AmorcageFin
    <3> QED  BY <2>3, <3>1, <3>2
  <2> QED
    BY <2>2, <2>5, <2>6 DEF TypeOK, ApresPassage, Next, Principal, Serveur, Lancer, SecuriteOk,
       SecuriteErr, EtapeSecurite, ChronoSecurite, EtapeSous, ChronoSous, DemarrerBackends,
       ArreterAmorcage, LancerServeur, EtapePret, ChronoPret, AutostartSans, DefautLire, Activer,
       PoserMarqueur, LireCoche, PoserEtape, RepartirChrono, ServeurBind, ServeurRefuse,
       BasculerAutostart, Quitter, Mourir, Finir
<1> QED  BY <1>1, <1>2, <1>3, TypeCorrect, PTL DEF Spec, PassageBorne

\* A page that has been told what to do.
Explique == [e |-> 1, explique |-> TRUE]

\* The stage has lasted long enough to be explained.
Lente == chrono # None /\ chrono >= SEUIL_SECURITE

\* Once the security stage has lasted long enough, it counts as slow until the
\* thread leaves it; a page that has been told what to do is not told the
\* contrary by a later poll, although stage and chronometer are stored and
\* loaded separately; and every poll that read the stage in it is told.
ExplicationTenue ==
  [][pc = "securite" /\ Lente /\ pc' = "securite" =>
       /\ Lente'
       /\ \A c \in Client :
            /\ reponse[c] = Explique => reponse'[c] = Explique
            /\ requete[c] # None /\ requete[c].e = 1 /\ requete'[c] = None
                 => reponse'[c] = Explique]_vars

\* What a page may hold of an earlier stage: nothing that explains, and after
\* an explanation no request that read the stage before it was stored.
DejaVu(c) ==
  /\ pc = "eteint" => requete[c] = None
  /\ pc = "amorce" =>
       /\ requete[c] # None => requete[c].e \in {None, 0}
       /\ reponse[c] # None => ~reponse[c].explique
  /\ pc \in {"chrono_securite", "securite"} /\ requete[c] # None /\ reponse[c] # None =>
       (reponse[c].explique => requete[c].e \in {None, 1})

ExpliqueInv ==
  /\ pc = "amorce" => etape = 0
  /\ pc \in {"chrono_securite", "securite"} => etape = 1
  /\ \A c \in Client : DejaVu(c)

\* The end of the process, and its next start, leave no page behind.
LEMMA FinExplique ==
  ASSUME TypeOK, ExpliqueInv, Finir \/ Lancer
  PROVE  ExpliqueInv'
<1>1. CASE Finir
  BY <1>1 DEF Finir, ExpliqueInv, DejaVu
<1>2. CASE Lancer
  BY <1>2 DEF Lancer, ExpliqueInv, DejaVu
<1> QED  BY <1>1, <1>2

\* A poll, at whatever stage: it asks, reads the stage, or is answered.
LEMMA PollExplique ==
  ASSUME TypeOK, ExpliqueInv, NEW c \in Client, Poll(c)
  PROVE  ExpliqueInv'
<1>1. /\ requete \in [Client -> Requetes \cup {None}] /\ reponse \in [Client -> Reponses \cup {None}]
      /\ DejaVu(c) /\ UNCHANGED <<pc, etape>>
      /\ port = "amorcage" \/ port = "definitif" => pc # "eteint"
  BY DEF TypeOK, ExpliqueInv, Poll, Connecter, LireEtape, Repondre, memoire
<1>2. \A d \in Client : d # c => requete'[d] = requete[d] /\ reponse'[d] = reponse[d]
  BY <1>1 DEF Poll, Connecter, LireEtape, Repondre
<1>3. DejaVu(c)'
  <2>1. CASE Connecter(c)
    <3>1. requete'[c] = [via |-> port, e |-> None] /\ reponse'[c] = reponse[c] /\ pc # "eteint"
      BY <1>1, <2>1 DEF Connecter
    <3> QED  BY <1>1, <3>1 DEF DejaVu
  <2>2. CASE LireEtape(c)
    <3>1. requete[c] # None /\ requete'[c] = [requete[c] EXCEPT !.e = etape] /\ reponse'[c] = reponse[c]
      BY <1>1, <2>2 DEF LireEtape
    <3>2. requete'[c].e = etape
      BY <1>1, <3>1 DEF Requetes
    <3>3. /\ pc = "amorce" => etape = 0
          /\ pc \in {"chrono_securite", "securite"} => etape = 1
      BY DEF ExpliqueInv
    <3> QED  BY <1>1, <3>1, <3>2, <3>3 DEF DejaVu
  <2>3. CASE Repondre(c)
    <3> DEFINE s == IF chrono = None THEN 0 ELSE chrono
    <3>1. /\ requete[c] # None /\ requete[c].e # None /\ requete'[c] = None
          /\ reponse'[c] = [e |-> requete[c].e, explique |-> explication(requete[c].e, s)]
      BY <1>1, <2>3 DEF Repondre
    <3>2. pc = "amorce" => requete[c].e = 0
      BY <1>1, <3>1 DEF DejaVu
    <3>3. pc = "amorce" => ~reponse'[c].explique
      BY <3>1, <3>2 DEF explication
    <3> QED  BY <1>1, <3>1, <3>3 DEF DejaVu
  <2> QED  BY <2>1, <2>2, <2>3 DEF Poll
<1>4. \A d \in Client : DejaVu(d)'
  BY <1>1, <1>2, <1>3 DEF ExpliqueInv, DejaVu
<1> QED  BY <1>1, <1>4 DEF ExpliqueInv

\* No poll of a stage that drags on goes back on what a page was told.
THEOREM ExplicationCorrect == Spec => ExplicationTenue
<1>1. Init => ExpliqueInv
  BY DEF Init, ExpliqueInv, DejaVu
<1>2. TypeOK /\ ExpliqueInv /\ [Next]_vars => ExpliqueInv'
  <2> SUFFICES ASSUME TypeOK, ExpliqueInv, [Next]_vars PROVE ExpliqueInv'
    OBVIOUS
  <2>1. CASE Lancer \/ SecuriteErr \/ ServeurRefuse \/ Quitter \/ Mourir
    BY <2>1, FinExplique DEF SecuriteErr, ServeurRefuse, Quitter, Mourir
  <2>2. CASE \E c \in Client : Poll(c)
    BY <2>2, PollExplique
  <2>3. ASSUME UNCHANGED <<pc, etape, requete, reponse>> PROVE ExpliqueInv'
    BY <2>3 DEF ExpliqueInv, DejaVu
  <2>4. CASE AmorcageBind \/ AmorcageArret \/ AmorcageFin \/ ServeurBind \/ Tiers \/ Seconde
             \/ BasculerAutostart \/ UNCHANGED vars
    BY <2>3, <2>4 DEF AmorcageBind, AmorcageArret, AmorcageFin, ServeurBind, Tiers, Seconde,
       BasculerAutostart, vars, memoire, clients
  <2>5. CASE EtapeSecurite
    <3>1. pc = "amorce" /\ pc' = "chrono_securite" /\ etape' = 1 /\ UNCHANGED <<requete, reponse>>
      BY <2>5 DEF EtapeSecurite, PoserEtape, clients
    <3> QED  BY <3>1 DEF ExpliqueInv, DejaVu
  <2>6. CASE ChronoSecurite
    <3>1. /\ pc = "chrono_securite" /\ pc' = "securite"
          /\ UNCHANGED <<etape, requete, reponse>>
      BY <2>6 DEF ChronoSecurite, RepartirChrono, clients
    <3> QED  BY <3>1 DEF ExpliqueInv, DejaVu
  <2>7. ASSUME pc' \notin {"eteint", "amorce", "chrono_securite", "securite"} PROVE ExpliqueInv'
    BY <2>7 DEF ExpliqueInv, DejaVu
  <2>8. CASE \/ SecuriteOk \/ EtapeSous \/ ChronoSous \/ DemarrerBackends \/ ArreterAmorcage
             \/ AttendreAmorcage \/ LancerServeur \/ EtapePret \/ ChronoPret
    BY <2>7, <2>8 DEF SecuriteOk, EtapeSous, ChronoSous, DemarrerBackends, ArreterAmorcage,
       AttendreAmorcage, LancerServeur, EtapePret, ChronoPret, PoserEtape, RepartirChrono
  <2>9. CASE AutostartSans \/ DefautLire \/ Activer \/ PoserMarqueur \/ LireCoche
    BY <2>7, <2>9 DEF AutostartSans, DefautLire, Activer, PoserMarqueur, LireCoche
  <2> QED
    BY <2>1, <2>2, <2>4, <2>5, <2>6, <2>8, <2>9 DEF Next, Principal, Amorceur, Serveur
<1>3. TypeOK /\ ExpliqueInv /\ [Next]_vars =>
        [pc = "securite" /\ Lente /\ pc' = "securite" =>
           /\ Lente'
           /\ \A c \in Client :
                /\ reponse[c] = Explique => reponse'[c] = Explique
                /\ requete[c] # None /\ requete[c].e = 1 /\ requete'[c] = None
                     => reponse'[c] = Explique]_vars
  <2> SUFFICES ASSUME TypeOK, ExpliqueInv, Next, pc = "securite", Lente, pc' = "securite"
               PROVE  /\ Lente'
                      /\ \A c \in Client :
                           /\ reponse[c] = Explique => reponse'[c] = Explique
                           /\ requete[c] # None /\ requete[c].e = 1 /\ requete'[c] = None
                                => reponse'[c] = Explique
    OBVIOUS
  <2>1. /\ chrono \in Nat /\ chrono # None /\ chrono >= SEUIL_SECURITE
        /\ requete \in [Client -> Requetes \cup {None}] /\ reponse \in [Client -> Reponses \cup {None}]
    BY DEF TypeOK, Lente
  <2>2. CASE Seconde
    <3>1. chrono' = chrono + 1 /\ UNCHANGED <<requete, reponse>>
      BY <2>2 DEF Seconde, clients
    <3>2. Lente'
      BY <2>1, <3>1, SentinelAssumption DEF Lente
    <3> QED  BY <3>1, <3>2
  <2>3. ASSUME UNCHANGED <<chrono, requete, reponse>>
        PROVE  /\ Lente'
               /\ \A c \in Client :
                    /\ reponse[c] = Explique => reponse'[c] = Explique
                    /\ requete[c] # None /\ requete[c].e = 1 /\ requete'[c] = None
                         => reponse'[c] = Explique
    BY <2>3 DEF Lente
  <2>4. ASSUME NEW d \in Client, Poll(d)
        PROVE  /\ Lente'
               /\ \A c \in Client :
                    /\ reponse[c] = Explique => reponse'[c] = Explique
                    /\ requete[c] # None /\ requete[c].e = 1 /\ requete'[c] = None
                         => reponse'[c] = Explique
    <3>1. \A c \in Client : c # d => requete'[c] = requete[c] /\ reponse'[c] = reponse[c]
      BY <2>1, <2>4 DEF Poll, Connecter, LireEtape, Repondre
    <3>2. CASE Connecter(d) \/ LireEtape(d)
      <4>1. UNCHANGED <<chrono, reponse>> /\ (requete'[d] # None \/ requete[d] = None)
        <5>1. CASE Connecter(d)
          BY <5>1 DEF Connecter, memoire
        <5>2. CASE LireEtape(d)
          <6>1. requete'[d] = [requete[d] EXCEPT !.e = etape] /\ requete[d] \in Requetes
            BY <2>1, <5>2 DEF LireEtape
          <6>2. requete'[d] \in Requetes
            BY <6>1 DEF TypeOK, Requetes
          <6> QED  BY <5>2, <6>2, SentinelAssumption DEF LireEtape, memoire
        <5> QED  BY <3>2, <5>1, <5>2
      <4> QED  BY <3>1, <4>1 DEF Lente
    <3>3. CASE Repondre(d)
      <4>1. /\ chrono' = chrono /\ requete[d] # None /\ requete[d].e # None
            /\ reponse'[d] = [e |-> requete[d].e, explique |-> explication(requete[d].e, chrono)]
        BY <2>1, <3>3 DEF Repondre
      <4>2. requete[d].e = 1 => reponse'[d] = Explique
        BY <2>1, <4>1 DEF explication, Explique
      <4>3. reponse[d] = Explique => requete[d].e = 1
        <5>1. reponse[d] = Explique => reponse[d] # None /\ reponse[d].explique
          <6>1. Explique \in Reponses
            BY DEF Explique, Reponses
          <6>2. Explique.explique
            BY DEF Explique
          <6> QED  BY <6>1, <6>2, SentinelAssumption
        <5> QED  BY <4>1, <5>1 DEF ExpliqueInv, DejaVu
      <4> QED  BY <3>1, <4>1, <4>2, <4>3 DEF Lente
    <3> QED  BY <2>4, <3>2, <3>3 DEF Poll
  <2>5. CASE AmorcageBind \/ AmorcageArret \/ AmorcageFin \/ ServeurBind \/ Tiers
    BY <2>3, <2>5 DEF AmorcageBind, AmorcageArret, AmorcageFin, ServeurBind, Tiers, memoire, clients
  <2> QED
    BY <2>2, <2>4, <2>5 DEF Next, Principal, Amorceur, Serveur, Lancer, SecuriteOk, SecuriteErr,
       EtapeSecurite, ChronoSecurite, EtapeSous, ChronoSous, DemarrerBackends, ArreterAmorcage,
       AttendreAmorcage, LancerServeur, EtapePret, ChronoPret, AutostartSans, DefautLire, Activer,
       PoserMarqueur, LireCoche, PoserEtape, RepartirChrono, ServeurRefuse, BasculerAutostart,
       Quitter, Mourir, Finir
<1> QED  BY <1>1, <1>2, <1>3, TypeCorrect, PTL DEF Spec, ExplicationTenue

=============================================================================
