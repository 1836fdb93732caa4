---------------------------- MODULE Superviseur ----------------------------
(***************************************************************************)
(* One backend of the node (kubo or nostr-rs-relay) and the way            *)
(* src/src/supervisor.rs starts it, watches its first 500 ms, stops it and *)
(* collects what an earlier run left behind, above an external system that *)
(* ends processes when it likes and gives their pids to others.            *)
(*                                                                         *)
(* The node does all this on its main thread, one command (ps, lsof, kill) *)
(* or file operation after the other; an action is one of them. Between    *)
(* any two the node may die without unwinding (killall, session closed,    *)
(* exit(1) of serve_http), which skips Drop.                               *)
(***************************************************************************)
EXTENDS Naturals

CONSTANTS
  Pid,         \* process numbers
  None,        \* nothing
  Zombie,      \* an exited child its parent has not waited for
  Illisible,   \* a pid file that does not parse
  Services,    \* "kubo", whose repository has a lock file, "relais"
  Fantomes,    \* TRUE: a version without pid files may have left a child
  SONDAGES,    \* polls before SIGKILL: 20 in the code
  Pannes       \* what may fail: the commands "ps", "lsof" and "kill", and on
               \*   the pid file "lecture" (read) and "disque" (write, removal)

ASSUME SuperviseurAssumption ==
  /\ Services \subseteq {"kubo", "relais"}
  /\ Fantomes \in BOOLEAN
  /\ SONDAGES \in Nat \ {0}
  /\ Pannes \subseteq {"ps", "lsof", "kill", "lecture", "disque"}

\* A live process: whether its command is the expected one, and whether this
\* program launched it. Another ipfs of the user is "attendu" and not ours.
Processus == [prog : {"attendu", "tiers"}, a_nous : BOOLEAN]

ASSUME SentinelAssumption ==
  /\ None \notin Pid /\ Illisible \notin Pid /\ None # Illisible
  /\ None \notin Processus /\ Zombie \notin Processus /\ None # Zombie
  /\ None \notin {"attendu", "tiers"}

VARIABLES
  service,   \* the backend
  proc,      \* the system's process table
  verrou,    \* who holds repo.lock
  pidFile,   \* <state>/enfants/<nom>.pid
  phase,     \* where the node stands
  voie,      \* which search found the process being stopped
  cible,     \* its pid
  reste,     \* polls left
  enfant,    \* ManagedChild.child
  suivi,     \* history: live children whose pid was written, less those the
             \*   search gave up because a command or the pid file failed it
  condamnes, \* history: live processes that have been sent SIGKILL
  presents,  \* history: third parties alive since the last verification
  tues       \* history: third parties signalled although verified

systeme == <<service, proc, verrou, suivi, condamnes, presents>>
vars    == <<systeme, pidFile, phase, voie, cible, reste, enfant, tues>>

Vivant(p) == proc[p] \in Processus

-----------------------------------------------------------------------------
(* The system *)

\* The process of p ends; a child of the node stays a zombie until waited for.
Disparaitre(p, laisse) ==
  /\ UNCHANGED service
  /\ proc' = [proc EXCEPT ![p] = laisse]
  /\ verrou' = IF verrou = p THEN None ELSE verrou
  /\ suivi' = suivi \ {p}
  /\ condamnes' = condamnes \ {p}
  /\ presents' = presents \ {p}

Sortir(p) ==
  /\ Vivant(p)
  /\ Disparaitre(p, IF p = enfant THEN Zombie ELSE None)
  /\ UNCHANGED <<pidFile, phase, voie, cible, reste, enfant, tues>>

NaitreTiers(p, prog) ==
  /\ proc[p] = None
  /\ proc' = [proc EXCEPT ![p] = [prog |-> prog, a_nous |-> FALSE]]
  /\ UNCHANGED <<service, verrou, suivi, condamnes, presents, pidFile, phase, voie, cible, reste,
                 enfant, tues>>

\* A kubo takes the lock of its repository, when nobody has it.
PrendreVerrou(p) ==
  /\ service = "kubo" /\ verrou = None
  /\ Vivant(p) /\ proc[p].a_nous
  /\ verrou' = p
  /\ UNCHANGED <<service, proc, suivi, condamnes, presents, pidFile, phase, voie, cible, reste,
                 enfant, tues>>

\* ps -p p -o command=: None when p is not running, or when ps fails.
ligne_de_commande(p) ==
  (IF Vivant(p) THEN {proc[p].prog} ELSE {None})
    \cup (IF "ps" \in Pannes THEN {None} ELSE {})

\* mutant: whoever has the number is taken for the child
doit_tuer_sans_verifier(ligne) == ligne # None

\* The first word of the command has the name of the expected program.
doit_tuer(ligne) == ligne = "attendu"

Verifier == presents' = {p \in Pid : Vivant(p) /\ proc[p].prog = "tiers"}

\* The search by the pid file loses sight of p.
PerdreDeVue(p) == suivi' = IF voie = "pid" THEN suivi \ {p} ELSE suivi

\* kill p, whose result nobody reads: the signal may not leave, and one that
\* does is not waited for. SIGTERM may be ignored; a process that got SIGKILL
\* is about to end. Both end in Sortir.
Signaler(p, fatal) ==
  /\ tues' = tues \cup ({p} \cap presents)
  /\ \/ /\ condamnes' = IF fatal /\ Vivant(p) THEN condamnes \cup {p} ELSE condamnes
        /\ UNCHANGED suivi
     \/ /\ "kill" \in Pannes
        /\ IF fatal THEN PerdreDeVue(p) ELSE UNCHANGED suivi
        /\ UNCHANGED condamnes
  /\ UNCHANGED <<service, proc, verrou, presents>>

\* remove_file on the pid file; its error is ignored.
OublierFichier ==
  \/ pidFile' = None
  \/ "disque" \in Pannes /\ UNCHANGED pidFile

-----------------------------------------------------------------------------
(* The node *)

\* A repository that is there, or that `ipfs init` makes.
ensure_repo_initialized(existe, init) == existe \/ init

\* Three calls of `ipfs config`.
configure_ports(api, gateway, swarm) == api /\ gateway /\ swarm

\* KuboBackend::try_start up to the lock: without the binary, an initialised
\* repository or its ports, the node does without kubo. A failure to remove
\* the public bootstrap nodes of a private repository stops nothing.
DemarrerKubo ==
  /\ phase = "arret" /\ service = "kubo"
  /\ \E binaire, existe, init, api, gateway, swarm \in BOOLEAN :
       phase' = IF /\ binaire
                   /\ ensure_repo_initialized(existe, init)
                   /\ configure_ports(api, gateway, swarm)
                  THEN "verrou" ELSE "sans"
  /\ UNCHANGED <<systeme, pidFile, voie, cible, reste, enfant, tues>>

\* The hash of the relay's binary: for every target still a placeholder.
manifest_for_target == "placeholder"

\* What was downloaded has the hash of the manifest, and that is a real one.
verify_sha256(recu, attendu) == attendu # "placeholder" /\ recu = attendu

\* A download arrives (with some hash), is the one of the manifest and can be
\* written.
ensure_installed(recu, ecrit) ==
  recu # None /\ verify_sha256(recu, manifest_for_target) /\ ecrit

\* NostrRelayBackend::try_start_with_config up to the spawn: a binary of the
\* user, or one that is installed, and a configuration that can be written.
DemarrerRelais ==
  /\ phase = "arret" /\ service = "relais"
  /\ \E present, ecrit, config \in BOOLEAN, recu \in {None, "publie", "altere"} :
       phase' = IF (present \/ ensure_installed(recu, ecrit)) /\ config
                  THEN "ramasser" ELSE "sans"
  /\ UNCHANGED <<systeme, pidFile, voie, cible, reste, enfant, tues>>

Arreter(v, p) ==
  /\ phase' = "terme"
  /\ voie' = v
  /\ cible' = p

\* lsof: the command of the process that holds repo.lock open, or no answer
detenteur_du_verrou ==
  (IF verrou = None THEN {None} ELSE {proc[verrou].prog})
    \cup (IF "lsof" \in Pannes THEN {None} ELSE {})

\* liberer_verrou
LibererVerrou ==
  /\ phase = "verrou"
  /\ \E commande \in detenteur_du_verrou :
       \/ /\ doit_tuer(commande)
          /\ Arreter("verrou", verrou)
       \/ /\ ~doit_tuer(commande)
          /\ phase' = "ramasser"
          /\ UNCHANGED <<voie, cible>>
  /\ Verifier
  /\ UNCHANGED <<service, proc, verrou, suivi, condamnes, pidFile, reste, enfant, tues>>

\* A child that ps does not name counts as dead, and is no longer followed.
SansReponse(ligne, p) == suivi' = IF ligne = None THEN suivi \ {p} ELSE suivi

\* ramasser_orphelin: the pid file of the run before, checked against ps. One
\* that cannot be read is left there and ends the search.
RamasserOrphelin ==
  /\ phase = "ramasser"
  /\ \/ /\ pidFile = None \/ "lecture" \in Pannes
        /\ suivi' = suivi \ {pidFile}
        /\ phase' = "lancer"
        /\ UNCHANGED <<pidFile, voie, cible, presents>>
     \/ /\ pidFile = Illisible
        /\ OublierFichier
        /\ phase' = "lancer"
        /\ UNCHANGED <<voie, cible, presents, suivi>>
     \/ /\ pidFile \in Pid
        /\ \E ligne \in ligne_de_commande(pidFile) :
          /\ SansReponse(ligne, pidFile)
          /\ \/ /\ doit_tuer(ligne)
                /\ Arreter("pid", pidFile)
                /\ UNCHANGED pidFile
             \/ /\ ~doit_tuer(ligne)
                /\ OublierFichier
                /\ phase' = "lancer"
                /\ UNCHANGED <<voie, cible>>
        /\ Verifier
  /\ UNCHANGED <<service, proc, verrou, condamnes, reste, enfant, tues>>

Terminer ==
  /\ phase = "terme"
  /\ Signaler(cible, FALSE)
  /\ phase' = "attend"
  /\ reste' = SONDAGES
  /\ UNCHANGED <<pidFile, voie, cible, enfant>>

\* mutant: the pid of the stopped process is kept as a target
Continuer_sans_oubli ==
  /\ UNCHANGED cible
  /\ \/ voie = "verrou" /\ phase' = "ramasser" /\ UNCHANGED pidFile
     \/ voie = "pid" /\ phase' = "lancer" /\ OublierFichier

\* Back from the stop: the lock search goes on to the pid file, the pid file
\* is removed before the launch.
Continuer ==
  /\ cible' = None
  /\ \/ voie = "verrou" /\ phase' = "ramasser" /\ UNCHANGED pidFile
     \/ voie = "pid" /\ phase' = "lancer" /\ OublierFichier

\* One poll, every 100 ms, until ps no longer knows the pid.
Sonder ==
  /\ phase = "attend" /\ reste > 0
  /\ \E ligne \in ligne_de_commande(cible) :
       /\ IF ligne = None THEN PerdreDeVue(cible) ELSE UNCHANGED suivi
       /\ \/ ligne = None /\ Continuer /\ UNCHANGED reste
          \/ ligne # None /\ reste' = reste - 1 /\ UNCHANGED <<phase, cible, pidFile>>
  /\ UNCHANGED <<service, proc, verrou, condamnes, presents, voie, enfant, tues>>

\* mutant: after the polls the pid file goes, the process stays
Achever_sans_kill ==
  /\ phase = "attend" /\ reste = 0
  /\ Continuer
  /\ UNCHANGED <<systeme, voie, reste, enfant, tues>>

\* mutant: the polls start over after the kill
Achever_recommence ==
  /\ phase = "attend" /\ reste = 0
  /\ Signaler(cible, TRUE)
  /\ reste' = SONDAGES
  /\ UNCHANGED <<pidFile, phase, voie, cible, enfant>>

\* kill -9, without another look at who has the pid, and without a wait.
Achever ==
  /\ phase = "attend" /\ reste = 0
  /\ Signaler(cible, TRUE)
  /\ Continuer
  /\ UNCHANGED <<voie, reste, enfant>>

\* cmd.spawn()
Lancer ==
  /\ phase = "lancer"
  /\ \/ /\ \E p \in Pid :
             /\ proc[p] = None
             /\ proc' = [proc EXCEPT ![p] = [prog |-> "attendu", a_nous |-> TRUE]]
             /\ enfant' = p
        /\ phase' = "grace"
     \/ /\ phase' = "sans"
        /\ UNCHANGED <<proc, enfant>>
  /\ UNCHANGED <<service, verrou, suivi, condamnes, presents, pidFile, voie, cible, reste, tues>>

\* try_wait after the grace: a child already dead is dropped (waited for, pid
\* file removed) and its capability is not announced.
VerifierGrace ==
  /\ phase = "grace"
  /\ \/ /\ Vivant(enfant)
        /\ phase' = "ecrire"
        /\ UNCHANGED <<systeme, enfant, pidFile>>
     \/ /\ ~Vivant(enfant)
        /\ Disparaitre(enfant, None)
        /\ enfant' = None
        /\ OublierFichier
        /\ phase' = "sans"
  /\ UNCHANGED <<voie, cible, reste, tues>>

\* ecrire_pid; an error is only logged, before or after the truncation.
EcrirePid ==
  /\ phase = "ecrire"
  /\ \/ /\ pidFile' = enfant
        /\ suivi' = IF Vivant(enfant) THEN suivi \cup {enfant} ELSE suivi
     \/ /\ "disque" \in Pannes
        /\ pidFile' \in {pidFile, Illisible}
        /\ UNCHANGED suivi
  /\ phase' = "tourne"
  /\ UNCHANGED <<service, proc, verrou, condamnes, presents, voie, cible, reste, enfant, tues>>

\* "Quitter" in the tray drops the backends before it leaves: kill and wait,
Quitter ==
  /\ \/ /\ phase = "tourne"
        /\ Disparaitre(enfant, None)
        /\ phase' = "drop"
     \/ /\ phase = "sans"
        /\ phase' = "arret"
        /\ UNCHANGED systeme
  /\ enfant' = None
  /\ UNCHANGED <<pidFile, voie, cible, reste, tues>>

\* ... then the pid file.
OublierPid ==
  /\ phase = "drop"
  /\ OublierFichier
  /\ phase' = "arret"
  /\ UNCHANGED <<systeme, voie, cible, reste, enfant, tues>>

\* The node ends without Drop: its child lives on, a zombie goes to init, and
\* a write of the pid file is cut after its truncation.
Mourir ==
  /\ phase # "arret"
  /\ phase' = "arret"
  /\ enfant' = None
  /\ cible' = None
  /\ proc' = [p \in Pid |-> IF proc[p] = Zombie THEN None ELSE proc[p]]
  /\ \/ UNCHANGED pidFile
     \/ phase = "ecrire" /\ pidFile' = Illisible
  /\ UNCHANGED <<service, verrou, suivi, condamnes, presents, voie, reste, tues>>

\* A first boot, possibly over a ghost of a version that wrote no pid file.
Init ==
  /\ service \in Services
  /\ proc \in {[p \in Pid |-> None]}
       \cup {[p \in Pid |-> IF p = q THEN [prog |-> "attendu", a_nous |-> TRUE] ELSE None] :
               q \in {p \in Pid : Fantomes}}
  /\ verrou \in {None} \cup {p \in Pid : service = "kubo" /\ Vivant(p)}
  /\ pidFile = None
  /\ phase = "arret"
  /\ voie = "pid"
  /\ cible = None
  /\ reste = 0
  /\ enfant = None
  /\ suivi = {}
  /\ condamnes = {}
  /\ presents = {}
  /\ tues = {}

Noeud ==
  \/ LibererVerrou
  \/ RamasserOrphelin
  \/ Terminer
  \/ Sonder
  \/ Achever
  \/ Lancer
  \/ VerifierGrace
  \/ EcrirePid
  \/ OublierPid

Systeme ==
  \/ \E p \in Pid : Sortir(p)
  \/ \E p \in Pid, prog \in {"attendu", "tiers"} : NaitreTiers(p, prog)
  \/ \E p \in Pid : PrendreVerrou(p)

Next == DemarrerKubo \/ DemarrerRelais \/ Noeud \/ Quitter \/ Mourir \/ Systeme

Spec == Init /\ [][Next]_vars

\* The main thread goes on as long as the node lives; the commands it runs
\* end by themselves.
FairSpec == Spec /\ WF_vars(Noeud)

-----------------------------------------------------------------------------
(* Properties *)

Phases == {"arret", "verrou", "ramasser", "terme", "attend", "lancer", "grace",
           "ecrire", "tourne", "sans", "drop"}

\* Types; the node has a child exactly from the launch to its end.
TypeOK ==
  /\ service \in Services
  /\ proc \in [Pid -> Processus \cup {None, Zombie}]
  /\ verrou \in Pid \cup {None}
  /\ pidFile \in Pid \cup {None, Illisible}
  /\ phase \in Phases
  /\ voie \in {"verrou", "pid"}
  /\ cible \in Pid \cup {None}
  /\ reste \in 0 .. SONDAGES
  /\ suivi \subseteq Pid /\ condamnes \subseteq Pid /\ presents \subseteq Pid
  /\ tues \subseteq Pid
  /\ enfant \in Pid \cup {None}
  /\ verrou # None => Vivant(verrou)
  /\ phase \in {"grace", "ecrire", "tourne"} <=> enfant # None
  /\ phase \in {"terme", "attend"} <=> cible # None

\* A process of another program that had the recorded pid when it was looked
\* up is never signalled, however stale the pid file and whatever crashed.
TiersEpargne == tues = {}

\* Once the node starts a new child, every live child of an earlier run whose
\* pid reached the disk has been sent SIGKILL, unless the search for it was
\* cut short: ps did not answer about it, its pid file could not be read, or
\* kill -9 did not leave. It may still be there at that moment, since nothing
\* waits for the SIGKILL to take effect.
OrphelinRamasse ==
  phase \in {"lancer", "grace", "ecrire", "tourne", "drop"} =>
    suivi \subseteq {enfant} \cup condamnes

\* The search for ghosts always comes to an end: the node gets to run, with
\* its backend or without it, unless it is stopped before.
DemarrageTermine ==
  phase \notin {"arret", "tourne", "sans"} ~> phase \in {"arret", "tourne", "sans"}

=============================================================================
