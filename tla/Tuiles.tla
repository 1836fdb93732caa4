------------------------------- MODULE Tuiles -------------------------------
(***************************************************************************)
(* The map archives (src/src/tiles.rs): the catalogue of the folder, the   *)
(* download of a file whole or by range, and its validation by ETag, while *)
(* a human replaces and removes files of the folder and browsers keep what *)
(* they received as the response headers allow.                            *)
(*                                                                         *)
(* A file is known by its successive versions; a version is its size and   *)
(* its date, all that the code looks at. As the comment of empreinte asks, *)
(* no two versions of a file have both in common, and a version replaces   *)
(* the former at once. get_tile_archive reads the metadata, and opens the  *)
(* file only afterwards: the folder may change in between.                 *)
(***************************************************************************)
EXTENDS Naturals, Sequences

CONSTANTS
  Archive,     \* base names of archives
  Navigateur,  \* browsers
  None,        \* nothing
  Tailles,     \* sizes of the files a human puts down
  Dates,       \* their dates, in seconds; 0 is an unreadable one
  Plages,      \* Range headers sent, among Entetes
  TAILLE_MIN,  \* the smallest archive of the catalogue: 128 in the code
  MaxDepots,   \* bound: files put down
  MaxRefus     \* bound: file operations the system refuses

\* A Range header: none the code understands, the last n bytes, the bytes
\* from a on, or those from a to b.
Entetes == [forme : {"suffixe", "depuis", "entre"}, a : Nat, b : Nat] \cup {None}

\* An ETag, the bounds of a range, a request, what a browser keeps.
Empreintes == Nat \X Nat
Bornes     == Nat \X Nat \cup {None}
Requetes   == [plage : Entetes, v0 : Nat \cup {None}, bornes : Bornes, inm : Empreintes \cup {None}]
Gardes     == [etag : Empreintes, v : Nat, plage : Entetes, frais : BOOLEAN]

ASSUME TuilesAssumption ==
  /\ Tailles \subseteq Nat /\ Dates \subseteq Nat
  /\ Plages \subseteq Entetes
  /\ TAILLE_MIN \in Nat /\ MaxDepots \in Nat /\ MaxRefus \in Nat
  /\ None \notin Nat \cup Empreintes \cup Gardes

VARIABLES
  present,    \* the files of the folder
  depots,     \* files put down so far
  versions,   \* for each name the versions put down so far: <<size, date>>
  refus,      \* file operations refused so far: permission, I/O error
  catalogue,  \* the names /api/tiles last announced to a browser
  requete,    \* the requests for a file in progress
  reponse,    \* history: the answer the last step gave, if any
  cache,      \* what a browser keeps of a file
  vue         \* the version it shows

disque == <<present, depots, versions>>
vars   == <<disque, refus, catalogue, requete, reponse, cache, vue>>

\* The names nom_sur lets through: any other gets a 400 and changes nothing.
Nom == Archive \X {"pmtiles", "pack.json"}

\* A browser and a file.
Acces == Navigateur \X Nom

nom_manifeste(f) == <<f[1], "pack.json">>

courante(f) == Len(versions[f])
taille(f, v) == versions[f][v][1]

-----------------------------------------------------------------------------
(* Catalogue, ETag, headers *)

\* The archives of a plausible size, and the manifests really there.
lister ==
  LET listees == {f \in present : f[2] = "pmtiles" /\ taille(f, courante(f)) >= TAILLE_MIN} IN
  listees \cup ({nom_manifeste(f) : f \in listees} \cap present)

\* Size and date of a version.
empreinte(f, v) == versions[f][v]

\* An archive may be shown for a week without asking, a manifest never.
cache_de(f) == f[2] # "pack.json"

\* mutant: more bytes than the file has
suffixe_sans_min(n, t) == IF n = 0 \/ t = 0 THEN None ELSE <<t - n, t - 1>>

\* The last n bytes.
suffixe(n, t) ==
  IF n = 0 \/ t = 0 THEN None ELSE <<t - (IF n < t THEN n ELSE t), t - 1>>

\* mutant: the last byte is counted from one
fin_un(p, t) == IF p.forme = "depuis" \/ p.b > t THEN t ELSE p.b

fin(p, t) == IF p.forme = "depuis" \/ p.b > t - 1 THEN t - 1 ELSE p.b

\* First and last byte, or None: the whole file is then served.
parse_range(p, t) ==
  IF p = None THEN None
  ELSE IF p.forme = "suffixe" THEN suffixe(p.b, t)
  ELSE IF p.a >= t \/ fin(p, t) < p.a THEN None
  ELSE <<p.a, fin(p, t)>>

\* What a Range header selects in a file of t bytes.
Choisis(p, t) ==
  {k \in 0 .. t - 1 :
     \/ p.forme = "suffixe" /\ k + p.b >= t
     \/ p.forme = "depuis" /\ p.a <= k
     \/ p.forme = "entre" /\ p.a <= k /\ k <= p.b}

-----------------------------------------------------------------------------
(* The folder: a human puts files down and removes them *)

Remplacer(f) ==
  /\ depots < MaxDepots /\ depots' = depots + 1
  /\ \E e \in Tailles \X Dates :
       /\ \A i \in 1 .. courante(f) : versions[f][i] # e
       /\ versions' = [versions EXCEPT ![f] = Append(@, e)]
  /\ present' = present \cup {f}
  /\ reponse' = None
  /\ UNCHANGED <<refus, catalogue, requete, cache, vue>>

Supprimer(f) ==
  /\ f \in present /\ present' = present \ {f}
  /\ reponse' = None
  /\ UNCHANGED <<depots, versions, refus, catalogue, requete, cache, vue>>

-----------------------------------------------------------------------------
(* The browser *)

\* GET /api/tiles
list_tiles(n) ==
  /\ catalogue[n] # lister
  /\ catalogue' = [catalogue EXCEPT ![n] = lister]
  /\ reponse' = None
  /\ UNCHANGED <<disque, refus, requete, cache, vue>>

\* GET /api/tiles/:nom of an announced file, unless an answer is kept that may
\* be shown without asking. One to the same request is offered for
\* validation. Manifests are asked for whole.
Demander(x) ==
  /\ requete[x] = None
  /\ x[2] \in catalogue[x[1]]
  /\ cache[x] # None => ~cache[x].frais
  /\ \E p \in IF x[2][2] = "pack.json" THEN {None} ELSE Plages :
       requete' = [requete EXCEPT ![x] =
                     [plage |-> p, v0 |-> None, bornes |-> None,
                      inm |-> IF cache[x] # None /\ cache[x].plage = p
                              THEN cache[x].etag ELSE None]]
  /\ reponse' = None
  /\ UNCHANGED <<disque, refus, catalogue, cache, vue>>

\* max-age has elapsed.
Semaine(x) ==
  /\ cache[x] # None /\ cache[x].frais
  /\ cache' = [cache EXCEPT ![x].frais = FALSE]
  /\ reponse' = None
  /\ UNCHANGED <<disque, refus, catalogue, requete, vue>>

\* An answer reaches the browser: v is the version of the content it then
\* holds, v0 the one whose metadata the server has read.
Rendre(x, code, v, v0) ==
  LET r == requete[x] IN
  /\ reponse' = [f |-> x[2], code |-> code, v |-> v, v0 |-> v0, plage |-> r.plage,
                 bornes |-> r.bornes, refuse |-> refus' # refus]
  /\ requete' = [requete EXCEPT ![x] = None]
  /\ vue' = [vue EXCEPT ![x] = IF code = 500 THEN @ ELSE v]
  /\ cache' = [cache EXCEPT ![x] =
                 IF code \in {200, 206}
                 THEN [etag |-> empreinte(x[2], v0), v |-> v, plage |-> r.plage, frais |-> cache_de(x[2])]
                 ELSE IF code = 304 THEN [@ EXCEPT !.frais = cache_de(x[2])] ELSE @]
  /\ UNCHANGED <<disque, catalogue>>

-----------------------------------------------------------------------------
(* get_tile_archive *)

EnAttente(x) == requete[x] # None /\ requete[x].v0 = None

Absente(x) ==
  /\ EnAttente(x) /\ x[2] \notin present
  /\ Rendre(x, 404, None, requete[x].v0)

\* mutant: any validator will do
NonModifiee_toujours(x) ==
  /\ EnAttente(x) /\ x[2] \in present
  /\ requete[x].inm # None
  /\ Rendre(x, 304, cache[x].v, courante(x[2]))

\* If-None-Match holds the ETag of the file.
NonModifiee(x) ==
  /\ EnAttente(x) /\ x[2] \in present
  /\ requete[x].inm = empreinte(x[2], courante(x[2]))
  /\ Rendre(x, 304, cache[x].v, courante(x[2]))

\* Otherwise size, ETag and range are fixed, and the file is still to open.
Metadonnees(x) ==
  /\ EnAttente(x) /\ x[2] \in present
  /\ requete[x].inm # empreinte(x[2], courante(x[2]))
  /\ requete' = [requete EXCEPT ![x] =
       [@ EXCEPT !.v0 = courante(x[2]),
                 !.bornes = parse_range(requete[x].plage, taille(x[2], courante(x[2])))]]
  /\ reponse' = None
  /\ UNCHANGED <<disque, catalogue, cache, vue>>

EnLecture(x) == requete[x] # None /\ requete[x].v0 # None

\* read_exact fails on a file that is gone or too short.
lire_plage(f, b) == f \in present /\ b[2] < taille(f, courante(f))

LirePlage(x) ==
  LET r == requete[x] IN
  /\ EnLecture(x) /\ r.bornes # None
  /\ IF lire_plage(x[2], r.bornes)
     THEN Rendre(x, 206, courante(x[2]), r.v0)
     ELSE Rendre(x, 500, None, r.v0)

\* mutant: the file is opened before its metadata are read
LireTout_avant(x) ==
  LET r == requete[x] IN
  /\ EnLecture(x) /\ r.bornes = None
  /\ IF x[2] \in present
     THEN Rendre(x, 200, r.v0, courante(x[2]))
     ELSE Rendre(x, 404, None, r.v0)

LireTout(x) ==
  LET r == requete[x] IN
  /\ EnLecture(x) /\ r.bornes = None
  /\ IF x[2] \in present
     THEN Rendre(x, 200, courante(x[2]), r.v0)
     ELSE Rendre(x, 404, None, r.v0)

get_tile_archive(x) ==
  /\ UNCHANGED refus
  /\ \/ Absente(x) \/ NonModifiee(x) \/ Metadonnees(x)
     \/ LirePlage(x) \/ LireTout(x)

\* Metadata or a whole file that cannot be read pass for an absent file, a
\* range for an internal error.
AccesRefuse(x) ==
  /\ requete[x] # None
  /\ refus < MaxRefus /\ refus' = refus + 1
  /\ Rendre(x, IF requete[x].bornes = None THEN 404 ELSE 500, None, requete[x].v0)

-----------------------------------------------------------------------------
Init ==
  /\ present = {} /\ depots = 0 /\ refus = 0
  /\ versions = [f \in Nom |-> << >>]
  /\ catalogue = [n \in Navigateur |-> {}]
  /\ requete = [x \in Acces |-> None]
  /\ reponse = None
  /\ cache = [x \in Acces |-> None]
  /\ vue = [x \in Acces |-> None]

Humain == \E f \in Nom : Remplacer(f) \/ Supprimer(f)

Page(x) == Demander(x) \/ Semaine(x)

Next ==
  \/ Humain
  \/ \E n \in Navigateur : list_tiles(n)
  \/ \E x \in Acces : Page(x) \/ get_tile_archive(x) \/ AccesRefuse(x)

Spec == Init /\ [][Next]_vars

\* An open page goes on asking, weeks pass, and a handler that has started
\* goes on. Nothing is asked of the human, and the system may refuse.
FairSpec ==
  /\ Spec
  /\ \A n \in Navigateur : WF_vars(list_tiles(n))
  /\ \A x \in Acces :
       /\ WF_vars(Demander(x)) /\ WF_vars(Semaine(x))
       /\ WF_vars(get_tile_archive(x))

-----------------------------------------------------------------------------
(* Properties *)

TypeOK ==
  /\ present \subseteq Nom /\ depots \in Nat /\ refus \in Nat
  /\ versions \in [Nom -> Seq(Empreintes)]
  /\ catalogue \in [Navigateur -> SUBSET Nom]
  /\ requete \in [Acces -> Requetes \cup {None}]
  /\ reponse \in [f : Nom, code : {200, 206, 304, 404, 500}, v : Nat \cup {None},
                  v0 : Nat \cup {None}, plage : Entetes, bornes : Bornes, refuse : BOOLEAN] \cup {None}
  /\ cache \in [Acces -> Gardes \cup {None}]
  /\ vue \in [Acces -> Nat \cup {None}]

\* An answer never takes the browser back: what it holds is at least as
\* recent as the file was when get_tile_archive looked at it, although the
\* file is opened later, under an ETag that may then be an older one. And
\* "not modified" is true: the content kept is that version.
ReponseFraiche ==
  reponse # None =>
    /\ reponse.code \in {200, 206} => reponse.v >= reponse.v0
    /\ reponse.code = 304 => reponse.v = reponse.v0

\* A 206 carries exactly the bytes that the header selects in a file of the
\* announced size; a header that selects none gets the whole file; and a
\* read fails only when the system refuses it or the folder has changed under
\* the request.
PlageServie ==
  LET r == reponse IN
  r # None =>
    /\ r.code = 206 => Choisis(r.plage, taille(r.f, r.v0)) = r.bornes[1] .. r.bornes[2]
    /\ r.code = 200 /\ r.plage # None => Choisis(r.plage, taille(r.f, r.v0)) = {}
    /\ r.code = 500 => r.refuse \/ r.f \notin present \/ courante(r.f) > r.v0

\* Once the human leaves the folder alone and nothing is refused, every page ends up showing the
\* files it holds, archive and manifest, in their last version.
Convergence ==
  \A x \in Acces : <>[](x[2] \in lister => vue[x] = courante(x[2]))

=============================================================================
