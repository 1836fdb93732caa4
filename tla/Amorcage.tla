------------------------------ MODULE Amorcage ------------------------------
(***************************************************************************)
(* The life of the process (src/src/main.rs) around src/src/amorcage.rs    *)
(* and src/src/autostart.rs: the boot server that answers while the        *)
(* security stack waits for a human, the stage and the log it publishes,   *)
(* the hand-over of the listening address to the definitive server, the    *)
(* launch at login applied once by default, and the tray.                  *)
(*                                                                         *)
(* The main thread goes from one pc to the next; the boot server and the   *)
(* definitive server are tasks of the runtime; requests for                *)
(* /api/amorcage read the stage and then its chronometer. Other programs   *)
(* take and leave the address. The process may be stopped anywhere.        *)
(***************************************************************************)
EXTENDS Naturals, Sequences

CONSTANTS
  Client,          \* pages that poll /api/amorcage
  None,            \* nothing
  LIGNES_GARDEES,  \* lines the log keeps: 400 in the code
  SEUIL_SECURITE,  \* seconds before a slow stage is explained: 10 ...
  SEUIL_SOUS,      \* ... and 30 in the code
  MAX_LIGNES       \* bound: lines a process logs before the tray stops logging

ASSUME AmorcageAssumption ==
  /\ LIGNES_GARDEES \in Nat \ {0}
  /\ SEUIL_SECURITE \in Nat \ {0}
  /\ SEUIL_SOUS \in Nat \ {0}
  /\ SEUIL_SECURITE <= SEUIL_SOUS
  /\ MAX_LIGNES \in Nat

VARIABLES
  pc,        \* the main thread
  tache,     \* the boot server's task
  signal,    \* the oneshot that stops it has been sent
  serveur,   \* the task of serve_http
  port,      \* who listens on the address
  etape,     \* ETAPE: 0 Demarrage, 1 Securite, 2 SousProcessus, 3 Pret
  chrono,    \* depuis(): seconds since its reset, up to SEUIL_SOUS, or None
  emis,      \* history: lines logged by this process
  journal,   \* the lines kept; a line is its number
  requete,   \* requests for /api/amorcage
  reponse,   \* what each page was told last
  dev,       \* the binary runs from target/debug or target/release
  actif,     \* the system launches the node at login
  marqueur,  \* the file autostart-defaut-applique
  coche,     \* the tray's check mark
  refus      \* history: a human has unchecked it last, "marque" when the
             \*   marker was there, else "sans_marqueur"; or "aucun"

memoire   == <<etape, chrono>>
log       == <<emis, journal>>
clients   == <<requete, reponse>>
autostart == <<actif, marqueur, coche, refus>>
reseau    == <<tache, signal, serveur, port>>
vars      == <<pc, reseau, memoire, log, clients, dev, autostart>>

Vivant == pc # "eteint"

-----------------------------------------------------------------------------
(* The log *)

\* mutant: a full log refuses the new line
pousser_ligne_plein(j, l) == IF Len(j) = LIGNES_GARDEES THEN j ELSE Append(j, l)

\* A line is added at the end; at the cap the oldest one goes first.
pousser_ligne(j, l) ==
  Append(IF Len(j) = LIGNES_GARDEES THEN Tail(j) ELSE j, l)

\* The last lines, oldest first.
dernieres_lignes(combien) ==
  SubSeq(journal, IF Len(journal) > combien THEN Len(journal) - combien + 1 ELSE 1,
         Len(journal))

\* One event of one line: the writer of an event pushes it when dropped.
Tracer == emis' = emis + 1 /\ journal' = pousser_ligne(journal, emis + 1)

-----------------------------------------------------------------------------
(* The stage *)

\* mutant: the stage that waits for the keychain has no explanation
explication_sans_trousseau(e, s) == e = 2 /\ s >= SEUIL_SOUS

\* A stage that drags on says what to do.
explication(e, s) ==
  \/ e = 1 /\ s >= SEUIL_SECURITE
  \/ e = 2 /\ s >= SEUIL_SOUS

\* etape(e) stores the stage ...
PoserEtape(e, suite) ==
  /\ etape' = e /\ pc' = suite
  /\ UNCHANGED <<reseau, chrono, log, clients, dev, autostart>>

\* ... then restarts the chronometer, and says so in the log.
RepartirChrono(suite) ==
  /\ chrono' = 0 /\ pc' = suite
  /\ Tracer
  /\ UNCHANGED <<reseau, etape, clients, dev, autostart>>

EtapeSecurite == pc = "amorce" /\ PoserEtape(1, "chrono_securite")
EtapeSous     == pc = "etape_sous" /\ PoserEtape(2, "chrono_sous")
EtapePret     == pc = "etape_pret" /\ PoserEtape(3, "chrono_pret")

ChronoSecurite == pc = "chrono_securite" /\ RepartirChrono("securite")
ChronoSous     == pc = "chrono_sous" /\ RepartirChrono("backends")
ChronoPret     == pc = "chrono_pret" /\ RepartirChrono("autostart")

Seconde ==
  /\ Vivant /\ chrono # None /\ chrono < SEUIL_SOUS
  /\ chrono' = chrono + 1
  /\ UNCHANGED <<pc, reseau, etape, log, clients, dev, autostart>>

-----------------------------------------------------------------------------
(* The main thread *)

\* A task that is gone, and requests cut, when the process ends. What the
\* system keeps stays: the address is free again, unless it is another's.
Finir ==
  /\ pc' = "eteint"
  /\ tache' = "aucune" /\ signal' = FALSE /\ serveur' = "aucun"
  /\ port' = IF port = "tiers" THEN "tiers" ELSE "libre"
  /\ requete' = [c \in Client |-> None]
  /\ UNCHANGED <<memoire, log, reponse, dev, autostart>>

\* main up to the spawn of the boot server.
Lancer ==
  /\ pc = "eteint"
  /\ pc' = "amorce" /\ tache' = "lancee"
  /\ etape' = 0 /\ chrono' = None
  /\ emis' = 0 /\ journal' = << >>
  /\ reponse' = [c \in Client |-> None]
  /\ dev' \in BOOLEAN
  /\ coche' = FALSE
  /\ UNCHANGED <<signal, serveur, port, requete, actif, marqueur, refus>>

\* security::init may wait for a click on the keychain's dialogue, forever.
SecuriteOk ==
  /\ pc = "securite" /\ pc' = "etape_sous"
  /\ UNCHANGED <<reseau, memoire, log, clients, dev, autostart>>

\* Without a security stack main returns its error.
SecuriteErr == pc = "securite" /\ Finir

\* try_start of kubo and of the relay, the pins, the shared state.
DemarrerBackends ==
  /\ pc = "backends" /\ pc' = "arreter"
  /\ UNCHANGED <<reseau, memoire, log, clients, dev, autostart>>

\* mutant: the sender is kept, the signal never posted
ArreterAmorcage_sans_signal ==
  /\ pc = "arreter" /\ pc' = "attente"
  /\ UNCHANGED <<reseau, memoire, log, clients, dev, autostart>>

\* The signal is posted; nobody may be there to take it.
ArreterAmorcage ==
  /\ pc = "arreter" /\ pc' = "attente"
  /\ signal' = TRUE
  /\ UNCHANGED <<tache, serveur, port, memoire, log, clients, dev, autostart>>

\* mutant: the signal is posted, the task not waited for
AttendreAmorcage_signal ==
  /\ pc = "attente" /\ pc' = "servir"
  /\ UNCHANGED <<reseau, memoire, log, clients, dev, autostart>>

\* The main thread waits until the task has really ended.
AttendreAmorcage ==
  /\ pc = "attente" /\ tache = "finie" /\ pc' = "servir"
  /\ UNCHANGED <<reseau, memoire, log, clients, dev, autostart>>

LancerServeur ==
  /\ pc = "servir" /\ pc' = "etape_pret"
  /\ serveur' = "lance"
  /\ UNCHANGED <<tache, signal, port, memoire, log, clients, dev, autostart>>

-----------------------------------------------------------------------------
(* The two servers *)

\* servir: a refused bind is not fatal, the task just ends.
AmorcageBind ==
  /\ tache = "lancee"
  /\ \/ port = "libre" /\ port' = "amorcage" /\ tache' = "ecoute"
     \/ port # "libre" /\ tache' = "finie" /\ UNCHANGED port
  /\ Tracer
  /\ UNCHANGED <<pc, signal, serveur, memoire, clients, dev, autostart>>

\* mutant: the listener stays open while the requests end
AmorcageArret_ouvert ==
  /\ tache = "ecoute" /\ signal
  /\ tache' = "draine"
  /\ UNCHANGED <<pc, signal, serveur, port, memoire, log, clients, dev, autostart>>

\* The graceful shutdown closes the listener ...
AmorcageArret ==
  /\ tache = "ecoute" /\ signal
  /\ tache' = "draine" /\ port' = "libre"
  /\ UNCHANGED <<pc, signal, serveur, memoire, log, clients, dev, autostart>>

\* ... and waits for the requests in progress.
AmorcageFin ==
  /\ tache = "draine"
  /\ \A c \in Client : requete[c] # None => requete[c].via # "amorcage"
  /\ tache' = "finie"
  /\ Tracer
  /\ UNCHANGED <<pc, signal, serveur, port, memoire, clients, dev, autostart>>

ServeurBind ==
  /\ serveur = "lance" /\ port = "libre"
  /\ port' = "definitif" /\ serveur' = "ecoute"
  /\ Tracer
  /\ UNCHANGED <<pc, tache, signal, memoire, clients, dev, autostart>>

\* A refused bind of serve_http ends the process, wherever main is.
ServeurRefuse == serveur = "lance" /\ port # "libre" /\ Finir

\* Another program takes the address, or leaves it.
Tiers ==
  /\ \/ port = "libre" /\ port' = "tiers"
     \/ port = "tiers" /\ port' = "libre"
  /\ UNCHANGED <<pc, tache, signal, serveur, memoire, log, clients, dev, autostart>>

-----------------------------------------------------------------------------
(* GET /api/amorcage, the same handler on both servers *)

Connecter(c) ==
  /\ requete[c] = None /\ port \in {"amorcage", "definitif"}
  /\ requete' = [requete EXCEPT ![c] = [via |-> port, e |-> None]]
  /\ UNCHANGED <<pc, reseau, memoire, log, reponse, dev, autostart>>

LireEtape(c) ==
  /\ requete[c] # None /\ requete[c].e = None
  /\ requete' = [requete EXCEPT ![c].e = etape]
  /\ UNCHANGED <<pc, reseau, memoire, log, reponse, dev, autostart>>

\* The chronometer starts with whoever asks for it first.
Repondre(c) ==
  LET s == IF chrono = None THEN 0 ELSE chrono IN
  /\ requete[c] # None /\ requete[c].e # None
  /\ reponse' = [reponse EXCEPT ![c] =
                   [e |-> requete[c].e, explique |-> explication(requete[c].e, s)]]
  /\ requete' = [requete EXCEPT ![c] = None]
  /\ chrono' = s
  /\ UNCHANGED <<pc, reseau, etape, log, dev, autostart>>

-----------------------------------------------------------------------------
(* Launch at login *)

\* mutant: the marker is not looked at
doit_appliquer_sans_marqueur(present, deja, d) == ~deja /\ ~d

doit_appliquer_defaut(present, deja, d) == ~present /\ ~deja /\ ~d

\* No handle: no default, and the tray's item is greyed.
AutostartSans ==
  /\ pc = "autostart" /\ pc' = "tray_sans"
  /\ UNCHANGED <<reseau, memoire, log, clients, dev, autostart>>

\* appliquer_avec, up to its decision. is_enabled reads FALSE on an error;
\* without current_exe nothing is applied.
DefautLire ==
  /\ pc = "autostart"
  /\ \/ pc' = "initial"
     \/ \E deja \in {actif, FALSE} :
          pc' = IF doit_appliquer_defaut(marqueur, deja, dev) THEN "activer" ELSE "marquer"
  /\ UNCHANGED <<reseau, memoire, log, clients, dev, autostart>>

\* A refused activation leaves no marker, to be tried again at the next start.
Activer ==
  /\ pc = "activer"
  /\ \/ actif' = TRUE /\ pc' = "marquer"
     \/ pc' = "initial" /\ UNCHANGED actif
  /\ UNCHANGED <<reseau, memoire, log, clients, dev, marqueur, coche, refus>>

\* Errors of the write are ignored.
PoserMarqueur ==
  /\ pc = "marquer" /\ pc' = "initial"
  /\ marqueur' \in {TRUE, marqueur}
  /\ UNCHANGED <<reseau, memoire, log, clients, dev, actif, coche, refus>>

\* The check mark is read after the default was applied.
LireCoche ==
  /\ pc = "initial" /\ pc' = "tray"
  /\ coche' \in {actif, FALSE}
  /\ UNCHANGED <<reseau, memoire, log, clients, dev, actif, marqueur, refus>>

\* A click: the item has flipped its mark, the handler follows, or flips it
\* back when the system refuses.
BasculerAutostart ==
  LET want_enabled == ~coche IN
  /\ pc = "tray" /\ emis < MAX_LIGNES
  /\ \/ /\ actif' = want_enabled /\ coche' = want_enabled
        /\ refus' = IF want_enabled THEN "aucun" ELSE IF marqueur THEN "marque" ELSE "sans_marqueur"
     \/ UNCHANGED <<actif, coche, refus>>
  /\ Tracer
  /\ UNCHANGED <<pc, reseau, memoire, clients, dev, marqueur>>

\* "Quitter": the backends are dropped, the process exits.
Quitter == pc \in {"tray", "tray_sans"} /\ Finir

\* killall, session closed, power cut.
Mourir == Vivant /\ Finir

-----------------------------------------------------------------------------
Init ==
  /\ pc = "eteint"
  /\ tache = "aucune" /\ signal = FALSE /\ serveur = "aucun"
  /\ port \in {"libre", "tiers"}
  /\ etape = 0 /\ chrono = None
  /\ emis = 0 /\ journal = << >>
  /\ requete = [c \in Client |-> None]
  /\ reponse = [c \in Client |-> None]
  /\ dev = FALSE
  /\ actif \in BOOLEAN /\ marqueur = FALSE
  /\ coche = FALSE /\ refus = "aucun"

\* The main thread, except for the human it may wait for.
Principal ==
  \/ EtapeSecurite \/ ChronoSecurite
  \/ EtapeSous \/ ChronoSous \/ DemarrerBackends
  \/ ArreterAmorcage \/ AttendreAmorcage \/ LancerServeur
  \/ EtapePret \/ ChronoPret
  \/ AutostartSans \/ DefautLire \/ Activer \/ PoserMarqueur \/ LireCoche

Amorceur == AmorcageBind \/ AmorcageArret \/ AmorcageFin

Serveur == ServeurBind \/ ServeurRefuse

Poll(c) == Connecter(c) \/ LireEtape(c) \/ Repondre(c)

Next ==
  \/ Lancer \/ SecuriteOk \/ SecuriteErr \/ Principal
  \/ Amorceur \/ Serveur \/ Tiers
  \/ \E c \in Client : Poll(c)
  \/ Seconde
  \/ BasculerAutostart \/ Quitter \/ Mourir

Spec == Init /\ [][Next]_vars

\* Threads of the process go on while it lives, time passes, and a page that
\* is open keeps polling. Nothing forces the human, the other programs or a
\* stop.
FairSpec ==
  /\ Spec
  /\ WF_vars(Principal) /\ WF_vars(Amorceur) /\ WF_vars(Serveur) /\ WF_vars(Seconde)
  /\ \A c \in Client : WF_vars(Poll(c))

-----------------------------------------------------------------------------
(* Properties *)

Etapes == {"eteint", "amorce", "chrono_securite", "securite", "etape_sous",
           "chrono_sous", "backends", "arreter", "attente", "servir",
           "etape_pret", "chrono_pret", "autostart", "activer", "marquer",
           "initial", "tray", "tray_sans"}

\* serve_http has been spawned.
ApresPassage == {"etape_pret", "chrono_pret", "autostart", "activer", "marquer",
                 "initial", "tray", "tray_sans"}

Requetes == [via : {"amorcage", "definitif"}, e : 0 .. 3 \cup {None}]
Reponses == [e : 0 .. 3, explique : BOOLEAN]

ASSUME SentinelAssumption == None \notin Nat /\ None \notin Requetes /\ None \notin Reponses

\* Types; who listens is who holds the address, and the definitive server
\* exists only after the task of the boot server has ended.
TypeOK ==
  /\ pc \in Etapes
  /\ tache \in {"aucune", "lancee", "ecoute", "draine", "finie"}
  /\ signal \in BOOLEAN
  /\ serveur \in {"aucun", "lance", "ecoute"}
  /\ port \in {"libre", "tiers", "amorcage", "definitif"}
  /\ etape \in 0 .. 3
  /\ chrono \in 0 .. SEUIL_SOUS \cup {None}
  /\ emis \in Nat /\ journal \in Seq(Nat)
  /\ requete \in [Client -> Requetes \cup {None}]
  /\ reponse \in [Client -> Reponses \cup {None}]
  /\ dev \in BOOLEAN /\ actif \in BOOLEAN /\ marqueur \in BOOLEAN /\ coche \in BOOLEAN
  /\ refus \in {"aucun", "marque", "sans_marqueur"}
  /\ tache = "aucune" <=> pc = "eteint"
  /\ tache = "ecoute" <=> port = "amorcage"
  /\ serveur = "ecoute" <=> port = "definitif"
  /\ serveur # "aucun" => pc \in ApresPassage
  /\ pc \in ApresPassage \cup {"servir"} => tache = "finie"

\* The boot keeps the promise of Port: the address goes from the boot server
\* to the definitive one, never to both and never back, so that the node
\* never refuses itself its own bind and exits because of it (comment of
\* main.rs before the hand-over).
Promesse == INSTANCE Port WITH
  tenant <- port,
  tour   <- CASE pc = "eteint"                 -> "eteint"
              [] tache \in {"lancee", "ecoute"}   -> "amorce"
              [] tache \in {"draine", "finie"} /\ serveur # "ecoute" -> "cede"
              [] serveur = "ecoute"            -> "servi"

PortCede == Promesse!Spec

\* What /api/journal serves are the last lines logged, in their order,
\* whichever threads logged them and however many were dropped.
JournalFidele ==
  \A n \in 1 .. LIGNES_GARDEES :
    LET l == dernieres_lignes(n) IN
    /\ Len(l) = IF emis < n THEN emis ELSE n
    /\ \A i \in 1 .. Len(l) : l[i] = emis - Len(l) + i

\* Whoever unchecked the launch at login, the default having been settled,
\* never finds it back: not after restarts, development builds, failed
\* writes or an unreadable state (autostart.rs: never over a human choice).
RefusTenu == refus = "marque" => ~actif

\* A page open on a node that hangs in the security stage ends up told what
\* to do, for as long as the boot server answers it.
BlocageExplique ==
  \A c \in Client :
    (pc = "securite" /\ tache = "ecoute") ~>
      \/ pc # "securite"
      \/ reponse[c] = [e |-> 1, explique |-> TRUE]

\* The hand-over ends: the definitive server answers, or the process is gone.
PassageTermine == pc = "arreter" ~> (serveur = "ecoute" \/ pc = "eteint")

=============================================================================
