---------------------------- MODULE TuilesProofs ----------------------------
(***************************************************************************)
(* Proofs about Tuiles, for every set of archives, browsers, sizes, dates  *)
(* and Range headers.                                                      *)
(***************************************************************************)
EXTENDS Tuiles, SequenceTheorems, TLAPS

\* parse_range gives the first and the last of the selected bytes, and None
\* when there is none: for every header and every size.
LEMMA PlageExacte ==
  ASSUME NEW p \in Entetes, p # None, NEW t \in Nat
  PROVE  /\ parse_range(p, t) = None => Choisis(p, t) = {}
         /\ parse_range(p, t) # None =>
              /\ parse_range(p, t) \in Nat \X Nat
              /\ parse_range(p, t)[2] < t
              /\ Choisis(p, t) = parse_range(p, t)[1] .. parse_range(p, t)[2]
<1> USE TuilesAssumption DEF Entetes, Empreintes
<1>1. CASE p.forme = "suffixe"
  <2>1. parse_range(p, t) = suffixe(p.b, t)
    BY <1>1 DEF parse_range
  <2>2. Choisis(p, t) = {k \in 0 .. t - 1 : k + p.b >= t}
    BY <1>1 DEF Choisis
  <2>3. CASE p.b = 0 \/ t = 0
    BY <2>1, <2>2, <2>3 DEF suffixe
  <2>4. CASE ~(p.b = 0 \/ t = 0)
    <3> DEFINE d == t - (IF p.b < t THEN p.b ELSE t)
    <3>1. parse_range(p, t) = <<d, t - 1>> /\ d \in Nat /\ t - 1 \in Nat
      BY <2>1, <2>4 DEF suffixe
    <3>2. \A k \in 0 .. t - 1 : k + p.b >= t <=> k >= d
      BY <2>4
    <3>3. Choisis(p, t) = d .. t - 1
      BY <2>2, <3>1, <3>2
    <3> HIDE DEF d
    <3> QED  BY <3>1, <3>3
  <2> QED  BY <2>3, <2>4
<1>2. CASE p.forme # "suffixe"
  <2>1. Choisis(p, t) = {k \in 0 .. t - 1 : p.a <= k /\ k <= fin(p, t)}
    <3>1. CASE p.forme = "depuis"
      BY <3>1 DEF Choisis, fin
    <3>2. CASE p.forme = "entre"
      BY <3>2 DEF Choisis, fin
    <3> QED  BY <1>2, <3>1, <3>2
  <2>2. fin(p, t) \in Int /\ fin(p, t) <= t - 1
    BY DEF fin
  <2>3. CASE p.a >= t \/ fin(p, t) < p.a
    <3>1. parse_range(p, t) = None
      BY <1>2, <2>3 DEF parse_range
    <3>2. Choisis(p, t) = {}
      BY <2>1, <2>2, <2>3
    <3> QED  BY <3>1, <3>2
  <2>4. CASE ~(p.a >= t \/ fin(p, t) < p.a)
    <3>1. parse_range(p, t) = <<p.a, fin(p, t)>>
      BY <1>2, <2>4 DEF parse_range
    <3>2. Choisis(p, t) = p.a .. fin(p, t)
      BY <2>1, <2>2, <2>4
    <3>3. fin(p, t) \in Nat
      BY <2>2, <2>4
    <3> QED  BY <2>2, <3>1, <3>2, <3>3
  <2> QED  BY <2>3, <2>4
<1> QED  BY <1>1, <1>2

\* Whatever the header, the range is a pair of numbers or None.
LEMMA PlageType ==
  ASSUME NEW p \in Entetes, NEW t \in Nat
  PROVE  parse_range(p, t) \in Bornes
<1>1. CASE p = None
  BY <1>1 DEF parse_range, Bornes
<1>2. CASE p # None
  BY <1>2, PlageExacte DEF Bornes
<1> QED  BY <1>1, <1>2

-----------------------------------------------------------------------------
(* Types and the inductive invariant *)

\* A file of the folder has a version, and no two versions look alike.
VersionsInv ==
  \A f \in Nom :
    /\ f \in present => courante(f) >= 1
    /\ \A i, j \in 1 .. courante(f) : versions[f][i] = versions[f][j] => i = j

\* What a browser keeps is at least as recent as the version its ETag names.
CacheInv ==
  \A x \in Acces :
    cache[x] # None =>
      \E w \in 1 .. courante(x[2]) :
        /\ cache[x].etag = versions[x[2]][w]
        /\ w <= cache[x].v /\ cache[x].v <= courante(x[2])

\* A request offers the ETag kept, and has read the metadata of a version
\* that was there.
RequeteInv ==
  \A x \in Acces :
    requete[x] # None =>
      /\ requete[x].inm # None => cache[x] # None /\ requete[x].inm = cache[x].etag
      /\ requete[x].v0 # None =>
           /\ requete[x].v0 \in 1 .. courante(x[2])
           /\ requete[x].bornes = parse_range(requete[x].plage, taille(x[2], requete[x].v0))

Inv == TypeOK /\ VersionsInv /\ CacheInv /\ RequeteInv

\* The current version of a file that is there is a version, with its size.
LEMMA VersionCourante ==
  ASSUME TypeOK, NEW f \in Nom
  PROVE  /\ versions[f] \in Seq(Empreintes) /\ courante(f) \in Nat
         /\ \A w \in 1 .. courante(f) : versions[f][w] \in Empreintes /\ taille(f, w) \in Nat
BY DEF TypeOK, courante, taille, Empreintes

\* A copy that a 304 confirms is still a copy.
LEMMA GardeRafraichie ==
  ASSUME NEW g \in Gardes, NEW b \in BOOLEAN
  PROVE  [g EXCEPT !.frais = b] \in Gardes
BY DEF Gardes

\* Every step keeps the types.
LEMMA TypeRendre ==
  ASSUME TypeOK, NEW x \in Acces, requete[x] # None,
         NEW code \in {200, 206, 304, 404, 500}, NEW v \in Nat \cup {None},
         NEW v0 \in Nat \cup {None}, Rendre(x, code, v, v0), UNCHANGED refus,
         code \in {200, 206} => v \in Nat /\ v0 \in 1 .. courante(x[2]),
         code = 304 => cache[x] # None
  PROVE  TypeOK'
<1> USE DEF TypeOK, Acces
<1>1. requete[x] \in Requetes /\ x[2] \in Nom
  BY DEF Requetes
<1>2. reponse' \in [f : Nom, code : {200, 206, 304, 404, 500}, v : Nat \cup {None},
                   v0 : Nat \cup {None}, plage : Entetes, bornes : Bornes, refuse : BOOLEAN]
  BY <1>1 DEF Rendre, Requetes
<1>3. cache'[x] \in Gardes \cup {None}
  <2>1. CASE code \in {200, 206}
    <3>1. empreinte(x[2], v0) \in Empreintes
      BY <1>1, <2>1, VersionCourante DEF empreinte
    <3> QED  BY <1>1, <2>1, <3>1 DEF Rendre, Gardes, Requetes, cache_de
  <2>2. CASE code = 304
    <3>1. cache[x] \in Gardes /\ cache_de(x[2]) \in BOOLEAN
      BY <2>2 DEF Gardes, cache_de
    <3>2. cache'[x] = [cache[x] EXCEPT !.frais = cache_de(x[2])]
      BY <2>2 DEF Rendre
    <3> QED  BY <3>1, <3>2, GardeRafraichie
  <2>3. CASE code \in {404, 500}
    BY <2>3 DEF Rendre, Gardes
  <2> QED  BY <2>1, <2>2, <2>3
<1>4. cache' \in [Acces -> Gardes \cup {None}]
  BY <1>3 DEF Rendre, Gardes
<1>5. vue' \in [Acces -> Nat \cup {None}] /\ requete' \in [Acces -> Requetes \cup {None}]
  BY DEF Rendre, Requetes
<1> QED  BY <1>2, <1>4, <1>5 DEF Rendre, Gardes, Requetes, disque

\* What the answers of get_tile_archive carry.
LEMMA Reponses ==
  ASSUME Inv, NEW x \in Acces, get_tile_archive(x)
  PROVE  \/ Metadonnees(x)
         \/ /\ requete[x] # None
            /\ \E code \in {404, 500} : Rendre(x, code, None, requete[x].v0)
         \/ NonModifiee(x)
         \/ \E code \in {200, 206} :
              /\ Rendre(x, code, courante(x[2]), requete[x].v0)
              /\ EnLecture(x) /\ x[2] \in present
BY DEF get_tile_archive, Absente, LirePlage, lire_plage, LireTout, EnAttente, EnLecture

\* A validator that matches is that of what the browser holds: its version is
\* the current one.
LEMMA ValidateurExact ==
  ASSUME Inv, NEW x \in Acces, NonModifiee(x)
  PROVE  cache[x] # None /\ cache[x].v = courante(x[2]) /\ courante(x[2]) \in Nat
<1> DEFINE f == x[2]
           c == courante(f)
<1>1. f \in Nom /\ requete[x] # None /\ requete[x].inm = versions[f][c] /\ f \in present
  BY DEF NonModifiee, EnAttente, empreinte, Acces
<1>2. c \in Nat /\ c >= 1 /\ versions[f][c] \in Empreintes
  BY <1>1, VersionCourante DEF Inv, VersionsInv
<1>3. versions[f][c] # None
  BY <1>2, TuilesAssumption DEF Empreintes
<1>4. cache[x] # None /\ cache[x].etag = versions[f][c]
  BY <1>1, <1>3 DEF Inv, RequeteInv
<1>5. cache[x].v \in Nat
  BY <1>4 DEF Inv, TypeOK, Gardes
<1>6. PICK w \in 1 .. c : cache[x].etag = versions[f][w] /\ w <= cache[x].v /\ cache[x].v <= c
  BY <1>4 DEF Inv, CacheInv
<1>7. w = c
  <2>1. \A i, j \in 1 .. c : versions[f][i] = versions[f][j] => i = j
    BY <1>1 DEF Inv, VersionsInv
  <2>2. c \in 1 .. c /\ versions[f][w] = versions[f][c]
    BY <1>2, <1>4, <1>6
  <2> HIDE DEF c
  <2> QED  BY <2>1, <2>2
<1> QED  BY <1>2, <1>4, <1>5, <1>6, <1>7

\* The invariant is inductive.
LEMMA Inductif == Spec => []Inv
<1>1. Init => Inv
  BY DEF Init, Inv, TypeOK, VersionsInv, CacheInv, RequeteInv, courante
<1>2. Inv /\ [Next]_vars => Inv'
  <2> SUFFICES ASSUME Inv, [Next]_vars PROVE Inv'
    OBVIOUS
  <2>1. ASSUME NEW f \in Nom, Remplacer(f) PROVE Inv'
    <3>1. PICK e \in Tailles \X Dates :
            /\ \A i \in 1 .. courante(f) : versions[f][i] # e
            /\ versions' = [versions EXCEPT ![f] = Append(@, e)]
      BY <2>1 DEF Remplacer
    <3>2. e \in Empreintes /\ versions[f] \in Seq(Empreintes) /\ courante(f) \in Nat
      BY TuilesAssumption, VersionCourante DEF Inv, Empreintes
    <3>3. /\ versions'[f] \in Seq(Empreintes) /\ courante(f)' = courante(f) + 1
          /\ \A i \in 1 .. courante(f) : versions'[f][i] = versions[f][i]
          /\ versions'[f][courante(f) + 1] = e
      BY <3>1, <3>2, AppendProperties DEF Inv, TypeOK, courante
    <3>4. \A g \in Nom : g # f => versions'[g] = versions[g] /\ courante(g)' = courante(g)
      BY <3>1 DEF Inv, TypeOK, courante
    <3>5. \A g \in Nom : /\ courante(g) \in Nat /\ courante(g)' \in Nat /\ courante(g) <= courante(g)'
                         /\ \A i \in 1 .. courante(g) : versions'[g][i] = versions[g][i]
      BY <3>2, <3>3, <3>4, VersionCourante DEF Inv
    <3>6. UNCHANGED <<catalogue, requete, cache, vue>> /\ reponse' = None
          /\ present' = present \cup {f} /\ depots' = depots + 1 /\ refus' = refus
      BY <2>1 DEF Remplacer
    <3>7. TypeOK'
      BY <3>1, <3>3, <3>6 DEF Inv, TypeOK
    <3>8. VersionsInv'
      <4> SUFFICES ASSUME NEW g \in Nom
                   PROVE  /\ g \in present' => courante(g)' >= 1
                          /\ \A i, j \in 1 .. courante(g)' :
                               versions'[g][i] = versions'[g][j] => i = j
        BY DEF VersionsInv
      <4>1. CASE g # f
        BY <3>4, <3>6, <4>1 DEF Inv, VersionsInv
      <4>2. CASE g = f
        <5>1. courante(f)' >= 1
          BY <3>2, <3>3
        <5>2. \A i, j \in 1 .. courante(f) : versions[f][i] = versions[f][j] => i = j
          BY DEF Inv, VersionsInv
        <5> HIDE DEF courante
        <5>3. \A i, j \in 1 .. courante(f) + 1 : versions'[f][i] = versions'[f][j] => i = j
          BY <3>1, <3>2, <3>3, <5>2
        <5> QED  BY <3>3, <4>2, <5>1, <5>3
      <4> QED  BY <4>1, <4>2
    <3>9. CacheInv'
      <4> SUFFICES ASSUME NEW x \in Acces, cache[x] # None
                   PROVE  \E w \in 1 .. courante(x[2])' :
                            /\ cache[x].etag = versions'[x[2]][w]
                            /\ w <= cache[x].v /\ cache[x].v <= courante(x[2])'
        BY <3>6 DEF CacheInv
      <4>1. x[2] \in Nom /\ cache[x].v \in Nat
        BY DEF Acces, Inv, TypeOK, Gardes
      <4>2. PICK w \in 1 .. courante(x[2]) :
              /\ cache[x].etag = versions[x[2]][w]
              /\ w <= cache[x].v /\ cache[x].v <= courante(x[2])
        BY DEF Inv, CacheInv
      <4> QED  BY <3>5, <4>1, <4>2
    <3>10. RequeteInv'
      <4> SUFFICES ASSUME NEW x \in Acces, requete[x] # None
                   PROVE  /\ requete[x].inm # None => cache[x] # None /\ requete[x].inm = cache[x].etag
                          /\ requete[x].v0 # None =>
                               /\ requete[x].v0 \in 1 .. courante(x[2])'
                               /\ requete[x].bornes = parse_range(requete[x].plage, taille(x[2], requete[x].v0)')
        BY <3>6 DEF RequeteInv, parse_range, suffixe, fin
      <4>1. x[2] \in Nom
        BY DEF Acces
      <4>2. requete[x].v0 # None =>
              /\ requete[x].v0 \in 1 .. courante(x[2])'
              /\ taille(x[2], requete[x].v0)' = taille(x[2], requete[x].v0)
        BY <3>5, <3>6, <4>1 DEF Inv, RequeteInv, taille
      <4> QED  BY <4>2 DEF Inv, RequeteInv
    <3> QED  BY <3>7, <3>8, <3>9, <3>10 DEF Inv
  <2>2. ASSUME UNCHANGED versions, present' \subseteq present, TypeOK',
               UNCHANGED <<cache, requete>>
        PROVE  Inv'
    <3> USE <2>2
    <3>1. \A f \in Nom, w \in Nat : courante(f)' = courante(f) /\ taille(f, w)' = taille(f, w)
      BY DEF courante, taille
    <3>2. VersionsInv'
      BY <3>1 DEF Inv, VersionsInv
    <3>3. CacheInv'
      BY <3>1 DEF Inv, CacheInv, Acces
    <3>4. RequeteInv'
      BY DEF Inv, RequeteInv, courante, taille, parse_range, suffixe, fin
    <3> QED  BY <3>2, <3>3, <3>4 DEF Inv
  <2>3. ASSUME NEW f \in Nom, Supprimer(f) PROVE Inv'
    BY <2>2, <2>3 DEF Supprimer, Inv, TypeOK
  <2>4. ASSUME NEW n \in Navigateur, list_tiles(n) PROVE Inv'
    <3>1. lister \subseteq Nom
      BY DEF lister, Inv, TypeOK
    <3> QED  BY <2>2, <2>4, <3>1 DEF list_tiles, disque, Inv, TypeOK
  <2>6. CASE UNCHANGED vars
    BY <2>2, <2>6 DEF vars, disque, Inv, TypeOK
  <2>7. ASSUME NEW x \in Acces, UNCHANGED <<versions, present>>, TypeOK',
               \A y \in Acces : y # x => cache'[y] = cache[y] /\ requete'[y] = requete[y],
               cache'[x] # None =>
                 \E w \in 1 .. courante(x[2]) :
                   /\ cache'[x].etag = versions[x[2]][w]
                   /\ w <= cache'[x].v /\ cache'[x].v <= courante(x[2]),
               requete'[x] # None =>
                 /\ requete'[x].inm # None => cache'[x] # None /\ requete'[x].inm = cache'[x].etag
                 /\ requete'[x].v0 # None =>
                      /\ requete'[x].v0 \in 1 .. courante(x[2])
                      /\ requete'[x].bornes = parse_range(requete'[x].plage, taille(x[2], requete'[x].v0))
        PROVE  Inv'
    <3>1. \A f \in Nom : courante(f)' = courante(f) /\ versions'[f] = versions[f]
      BY <2>7 DEF courante
    <3>2. VersionsInv'
      BY <2>7, <3>1 DEF Inv, VersionsInv
    <3>3. CacheInv'
      <4> SUFFICES ASSUME NEW y \in Acces, cache'[y] # None
                   PROVE  \E w \in 1 .. courante(y[2]) :
                            /\ cache'[y].etag = versions[y[2]][w]
                            /\ w <= cache'[y].v /\ cache'[y].v <= courante(y[2])
        BY <2>7, <3>1 DEF CacheInv, courante
      <4>1. CASE y = x
        BY <2>7, <4>1
      <4>2. CASE y # x
        BY <2>7, <4>2 DEF Inv, CacheInv
      <4> QED  BY <4>1, <4>2
    <3>4. RequeteInv'
      <4> SUFFICES ASSUME NEW y \in Acces, requete'[y] # None
                   PROVE  /\ requete'[y].inm # None =>
                               cache'[y] # None /\ requete'[y].inm = cache'[y].etag
                          /\ requete'[y].v0 # None =>
                               /\ requete'[y].v0 \in 1 .. courante(y[2])
                               /\ requete'[y].bornes = parse_range(requete'[y].plage, taille(y[2], requete'[y].v0))
        BY <2>7, <3>1 DEF RequeteInv, courante, taille, parse_range, suffixe, fin
      <4>1. CASE y = x
        BY <2>7, <4>1
      <4>2. CASE y # x
        BY <2>7, <4>2 DEF Inv, RequeteInv
      <4> QED  BY <4>1, <4>2
    <3> QED  BY <2>7, <3>2, <3>3, <3>4 DEF Inv
  <2>8. ASSUME NEW x \in Acces, Demander(x) PROVE Inv'
    <3>1. PICK p \in Entetes :
            requete' = [requete EXCEPT ![x] =
                          [plage |-> p, v0 |-> None, bornes |-> None,
                           inm |-> IF cache[x] # None /\ cache[x].plage = p
                                   THEN cache[x].etag ELSE None]]
      BY <2>8, TuilesAssumption DEF Demander, Entetes
    <3> DEFINE e == IF cache[x] # None /\ cache[x].plage = p THEN cache[x].etag ELSE None
               r == [plage |-> p, v0 |-> None, bornes |-> None, inm |-> e]
    <3>2. e \in Empreintes \cup {None} /\ (e # None => cache[x] # None /\ e = cache[x].etag)
      BY DEF Inv, TypeOK, Gardes
    <3>3. requete' = [requete EXCEPT ![x] = r]
      BY <3>1
    <3> HIDE DEF e
    <3>4. r \in Requetes
      BY <3>2 DEF Requetes, Bornes
    <3>5. r.v0 = None /\ r.inm = e
      OBVIOUS
    <3> HIDE DEF r
    <3>6. /\ \A y \in Acces : y # x => requete'[y] = requete[y]
          /\ requete'[x] = r /\ requete' \in [Acces -> Requetes \cup {None}]
      BY <3>3, <3>4 DEF Inv, TypeOK, Requetes
    <3>7. UNCHANGED <<versions, present, depots, refus, catalogue, cache, vue>> /\ reponse' = None
      BY <2>8 DEF Demander, disque
    <3>8. TypeOK'
      BY <3>6, <3>7 DEF Inv, TypeOK, Requetes
    <3> QED  BY <2>7, <3>2, <3>5, <3>6, <3>7, <3>8 DEF Inv, CacheInv
  <2>9. ASSUME NEW x \in Acces, Semaine(x) PROVE Inv'
    <3>1. cache[x] \in Gardes
      BY <2>9 DEF Semaine, Inv, TypeOK, Gardes
    <3>2. [cache[x] EXCEPT !.frais = FALSE] \in Gardes
      BY <3>1 DEF Gardes
    <3>3. /\ cache'[x] = [cache[x] EXCEPT !.frais = FALSE]
          /\ cache'[x].etag = cache[x].etag /\ cache'[x].v = cache[x].v
          /\ \A y \in Acces : y # x => cache'[y] = cache[y]
          /\ cache' \in [Acces -> Gardes \cup {None}]
      BY <2>9, <3>1, <3>2 DEF Semaine, Inv, TypeOK, Gardes
    <3>4. UNCHANGED <<versions, present, depots, refus, catalogue, requete, vue>> /\ reponse' = None
      BY <2>9 DEF Semaine, disque
    <3>5. TypeOK'
      BY <3>3, <3>4 DEF Inv, TypeOK, Gardes
    <3>6. cache[x] # None
      BY <2>9 DEF Semaine
    <3>7. requete[x] # None =>
            /\ requete[x].inm # None => cache[x] # None /\ requete[x].inm = cache[x].etag
            /\ requete[x].v0 # None =>
                 /\ requete[x].v0 \in 1 .. courante(x[2])
                 /\ requete[x].bornes = parse_range(requete[x].plage, taille(x[2], requete[x].v0))
      BY DEF Inv, RequeteInv
    <3>8. \E w \in 1 .. courante(x[2]) :
            cache[x].etag = versions[x[2]][w] /\ w <= cache[x].v /\ cache[x].v <= courante(x[2])
      BY <3>6 DEF Inv, CacheInv
    <3>9. cache'[x] # None
      BY <3>2, <3>3, TuilesAssumption
    <3> QED  BY <2>7, <3>3, <3>4, <3>5, <3>7, <3>8, <3>9
  <2>10. ASSUME NEW x \in Acces, Metadonnees(x), UNCHANGED refus PROVE Inv'
    <3> DEFINE c == courante(x[2])
               b == parse_range(requete[x].plage, taille(x[2], c))
    <3>1. x[2] \in Nom /\ x[2] \in present /\ requete[x] \in Requetes /\ requete[x] # None
      BY <2>10 DEF Metadonnees, EnAttente, Acces, Inv, TypeOK
    <3>2. c \in Nat /\ c \in 1 .. c /\ taille(x[2], c) \in Nat
      BY <3>1, VersionCourante DEF Inv, VersionsInv
    <3>3. b \in Bornes
      BY <3>1, <3>2, PlageType DEF Requetes
    <3>4. requete' = [requete EXCEPT ![x] = [requete[x] EXCEPT !.v0 = c, !.bornes = b]]
      BY <2>10 DEF Metadonnees, Inv, TypeOK
    <3> HIDE DEF b
    <3> DEFINE r == [requete[x] EXCEPT !.v0 = c, !.bornes = b]
    <3>5. /\ r \in Requetes /\ r.v0 = c /\ r.bornes = b
          /\ r.plage = requete[x].plage /\ r.inm = requete[x].inm
      BY <3>1, <3>2, <3>3 DEF Requetes
    <3>6. requete' = [requete EXCEPT ![x] = r]
      BY <3>4
    <3> HIDE DEF r
    <3>7. /\ \A y \in Acces : y # x => requete'[y] = requete[y]
          /\ requete'[x] = r /\ requete' \in [Acces -> Requetes \cup {None}]
      BY <3>5, <3>6 DEF Inv, TypeOK
    <3>8. UNCHANGED <<versions, present, depots, refus, catalogue, cache, vue>> /\ reponse' = None
      BY <2>10 DEF Metadonnees, disque
    <3>9. TypeOK'
      BY <3>7, <3>8 DEF Inv, TypeOK
    <3>10. r.inm # None => cache[x] # None /\ r.inm = cache[x].etag
      BY <3>1, <3>5 DEF Inv, RequeteInv
    <3>11. cache[x] # None =>
             \E w \in 1 .. courante(x[2]) :
               cache[x].etag = versions[x[2]][w] /\ w <= cache[x].v /\ cache[x].v <= courante(x[2])
      BY DEF Inv, CacheInv
    <3>12. b = parse_range(r.plage, taille(x[2], r.v0))
      BY <3>5 DEF b
    <3> QED  BY <2>7, <3>2, <3>5, <3>7, <3>8, <3>9, <3>10, <3>11, <3>12
  <2>11. ASSUME NEW x \in Acces, NEW code \in {404, 500},
                Rendre(x, code, None, requete[x].v0), requete[x] # None,
                refus' \in {refus, refus + 1}
         PROVE  Inv'
    <3>1. TypeOK'
      <4>1. x[2] \in Nom /\ requete[x] \in Requetes
        BY <2>11 DEF Acces, Inv, TypeOK
      <4>2. reponse' \in [f : Nom, code : {200, 206, 304, 404, 500}, v : Nat \cup {None},
                         v0 : Nat \cup {None}, plage : Entetes, bornes : Bornes, refuse : BOOLEAN]
        BY <2>11, <4>1 DEF Rendre, Requetes
      <4>3. requete' \in [Acces -> Requetes \cup {None}] /\ vue' \in [Acces -> Nat \cup {None}]
        BY <2>11 DEF Rendre, Inv, TypeOK
      <4>4. UNCHANGED <<disque, catalogue, cache>>
        BY <2>11 DEF Rendre, Inv, TypeOK
      <4>5. refus' \in Nat
        BY <2>11 DEF Inv, TypeOK
      <4> QED  BY <4>2, <4>3, <4>4, <4>5 DEF Inv, TypeOK, disque
    <3>2. /\ UNCHANGED <<versions, present, cache>>
          /\ requete'[x] = None /\ \A y \in Acces : y # x => requete'[y] = requete[y]
      BY <2>11 DEF Rendre, disque, Inv, TypeOK
    <3>3. cache[x] # None =>
            \E w \in 1 .. courante(x[2]) :
              cache[x].etag = versions[x[2]][w] /\ w <= cache[x].v /\ cache[x].v <= courante(x[2])
      BY DEF Inv, CacheInv
    <3> QED  BY <2>7, <3>1, <3>2, <3>3
  <2>12. ASSUME NEW x \in Acces, NonModifiee(x), UNCHANGED refus PROVE Inv'
    <3>1. cache[x] # None /\ cache[x].v \in Nat /\ requete[x] # None /\ cache[x] \in Gardes
          /\ courante(x[2]) \in Nat /\ Rendre(x, 304, cache[x].v, courante(x[2]))
      BY <2>12, ValidateurExact DEF NonModifiee, EnAttente, Inv, TypeOK
    <3>2. TypeOK'
      BY <2>12, <3>1, TypeRendre DEF Inv
    <3>3. cache'[x] = [cache[x] EXCEPT !.frais = cache_de(x[2])]
      BY <3>1 DEF Rendre, Inv, TypeOK
    <3>4. cache'[x].etag = cache[x].etag /\ cache'[x].v = cache[x].v
      BY <3>1, <3>3 DEF Gardes
    <3>5. /\ UNCHANGED <<versions, present>> /\ requete'[x] = None
          /\ \A y \in Acces : y # x => requete'[y] = requete[y] /\ cache'[y] = cache[y]
      BY <3>1 DEF Rendre, disque, Inv, TypeOK
    <3>6. \E w \in 1 .. courante(x[2]) :
            cache[x].etag = versions[x[2]][w] /\ w <= cache[x].v /\ cache[x].v <= courante(x[2])
      BY <3>1 DEF Inv, CacheInv
    <3> QED  BY <2>7, <3>2, <3>4, <3>5, <3>6
  <2>13. ASSUME NEW x \in Acces, NEW code \in {200, 206}, EnLecture(x), x[2] \in present,
                Rendre(x, code, courante(x[2]), requete[x].v0), UNCHANGED refus
         PROVE  Inv'
    <3> DEFINE v0 == requete[x].v0
               c  == courante(x[2])
    <3>1. x[2] \in Nom /\ requete[x] # None /\ v0 \in 1 .. c /\ c \in Nat
      BY <2>13, VersionCourante DEF EnLecture, Acces, Inv, RequeteInv
    <3>2. TypeOK'
      BY <2>13, <3>1, TypeRendre DEF Inv
    <3>3. cache'[x].etag = versions[x[2]][v0] /\ cache'[x].v = c
      BY <2>13 DEF Rendre, empreinte, Inv, TypeOK
    <3>4. /\ UNCHANGED <<versions, present>> /\ requete'[x] = None
          /\ \A y \in Acces : y # x => requete'[y] = requete[y] /\ cache'[y] = cache[y]
      BY <2>13 DEF Rendre, disque, Inv, TypeOK
    <3>5. v0 <= c
      BY <3>1
    <3> HIDE DEF v0, c
    <3>6. \E w \in 1 .. c : cache'[x].etag = versions[x[2]][w] /\ w <= cache'[x].v /\ cache'[x].v <= c
      BY <3>1, <3>3, <3>5
    <3>7. \E w \in 1 .. courante(x[2]) :
            /\ cache'[x].etag = versions[x[2]][w]
            /\ w <= cache'[x].v /\ cache'[x].v <= courante(x[2])
      BY <3>6 DEF c
    <3> QED  BY <2>7, <3>2, <3>4, <3>7
  <2>14. ASSUME NEW x \in Acces, get_tile_archive(x) PROVE Inv'
    <3>0. UNCHANGED refus
      BY <2>14 DEF get_tile_archive
    <3>1. CASE Metadonnees(x)
      BY <3>0, <2>10, <3>1
    <3>2. CASE /\ requete[x] # None
               /\ \E code \in {404, 500} : Rendre(x, code, None, requete[x].v0)
      BY <3>0, <2>11, <3>2
    <3>3. CASE NonModifiee(x)
      BY <3>0, <2>12, <3>3
    <3>4. CASE \E code \in {200, 206} :
                 /\ Rendre(x, code, courante(x[2]), requete[x].v0)
                 /\ EnLecture(x) /\ x[2] \in present
      BY <3>0, <2>13, <3>4
    <3> QED  BY <2>14, <3>1, <3>2, <3>3, <3>4, Reponses
  <2>15. ASSUME NEW x \in Acces, AccesRefuse(x) PROVE Inv'
    <3>1. \E code \in {404, 500} : Rendre(x, code, None, requete[x].v0)
      BY <2>15 DEF AccesRefuse
    <3>2. requete[x] # None /\ refus' = refus + 1
      BY <2>15 DEF AccesRefuse
    <3> QED  BY <2>11, <3>1, <3>2
  <2> QED
    BY <2>1, <2>3, <2>4, <2>6, <2>8, <2>9, <2>14, <2>15 DEF Next, Humain, Page
<1> QED  BY <1>1, <1>2, PTL DEF Spec

\* Types, for every folder and every browser.
THEOREM TypeCorrect == Spec => []TypeOK
BY Inductif, PTL DEF Inv

-----------------------------------------------------------------------------
(* The answers *)

\* What a step answers, for each of the codes.
LEMMA ReponseExacte ==
  ASSUME Inv, Next
  PROVE  ReponseFraiche' /\ PlageServie'
<1>1. ASSUME reponse' = None PROVE ReponseFraiche' /\ PlageServie'
  BY <1>1 DEF ReponseFraiche, PlageServie
<1>2. ASSUME NEW x \in Acces, NEW v0, Rendre(x, 404, None, v0)
      PROVE  ReponseFraiche' /\ PlageServie'
  BY <1>2 DEF Rendre, ReponseFraiche, PlageServie
<1>3. ASSUME NEW x \in Acces, NonModifiee(x) PROVE ReponseFraiche' /\ PlageServie'
  <2>1. reponse'.code = 304 /\ reponse'.v = cache[x].v /\ reponse'.v0 = courante(x[2])
    BY <1>3 DEF NonModifiee, Rendre
  <2> QED  BY <1>3, <2>1, ValidateurExact DEF ReponseFraiche, PlageServie
<1>4. ASSUME NEW x \in Acces, LirePlage(x) \/ LireTout(x)
      PROVE  ReponseFraiche' /\ PlageServie'
  <2> DEFINE f == x[2]
             c == courante(f)
             q == requete[x]
  <2>1. /\ f \in Nom /\ q \in Requetes /\ q # None /\ q.v0 # None /\ q.v0 \in 1 .. c
        /\ q.bornes = parse_range(q.plage, taille(f, q.v0))
    BY <1>4 DEF LirePlage, lire_plage, LireTout, EnLecture, Acces, Inv, TypeOK, RequeteInv
  <2>2. c \in Nat /\ q.v0 \in Nat /\ q.v0 <= c /\ taille(f, q.v0) \in Nat /\ q.plage \in Entetes
    BY <2>1, VersionCourante DEF Inv, Requetes
  <2>3. UNCHANGED <<versions, present>>
    BY <1>4 DEF LirePlage, lire_plage, LireTout, Rendre, disque
  <2>4. /\ reponse'.f = f /\ reponse'.v0 = q.v0 /\ reponse'.plage = q.plage /\ reponse'.bornes = q.bornes
        /\ reponse'.code \in {200, 206} => reponse'.v = c
        /\ reponse'.code = 206 => q.bornes # None
        /\ reponse'.code = 200 => q.bornes = None
        /\ reponse'.code = 500 => q.bornes # None /\ (f \in present => ~(q.bornes[2] < taille(f, c)))
        /\ reponse'.code # 304
    BY <1>4 DEF LirePlage, lire_plage, LireTout, Rendre
  <2>5. ReponseFraiche'
    BY <2>2, <2>4 DEF ReponseFraiche
  <2>6. q.plage = None => q.bornes = None
    BY <2>1 DEF parse_range
  <2>7. /\ q.bornes # None => /\ q.bornes[2] < taille(f, q.v0)
                             /\ Choisis(q.plage, taille(f, q.v0)) = q.bornes[1] .. q.bornes[2]
        /\ q.bornes = None /\ q.plage # None => Choisis(q.plage, taille(f, q.v0)) = {}
    BY <2>1, <2>2, <2>6, PlageExacte
  <2>8. reponse'.code = 500 => f \notin present \/ c > q.v0
    BY <2>2, <2>4, <2>7
  <2>9. /\ reponse'.code = 206 => Choisis(reponse'.plage, taille(reponse'.f, reponse'.v0))
                                  = reponse'.bornes[1] .. reponse'.bornes[2]
        /\ reponse'.code = 200 /\ reponse'.plage # None =>
             Choisis(reponse'.plage, taille(reponse'.f, reponse'.v0)) = {}
        /\ reponse'.code = 500 => reponse'.f \notin present \/ courante(reponse'.f) > reponse'.v0
    BY <2>4, <2>7, <2>8
  <2>10. PlageServie'
    <3> HIDE DEF f, c, q
    <3> QED  BY <2>3, <2>9 DEF PlageServie, taille, courante, Choisis
  <2> QED  BY <2>5, <2>10
<1>5. ASSUME NEW x \in Acces, get_tile_archive(x) PROVE ReponseFraiche' /\ PlageServie'
  BY <1>1, <1>2, <1>3, <1>4, <1>5 DEF get_tile_archive, Absente, Metadonnees
<1>6. ASSUME NEW x \in Acces, AccesRefuse(x) PROVE ReponseFraiche' /\ PlageServie'
  <2>1. refus' # refus
    BY <1>6 DEF AccesRefuse, Inv, TypeOK
  <2>2. reponse'.code \in {404, 500} /\ reponse'.refuse
    BY <1>6, <2>1 DEF AccesRefuse, Rendre
  <2> QED  BY <2>2 DEF ReponseFraiche, PlageServie
<1> QED
  BY <1>1, <1>5, <1>6 DEF Next, Humain, Page, Remplacer, Supprimer, list_tiles, Demander, Semaine

\* Both properties of the answers hold at every step.
LEMMA ReponsesSures == Spec => [](ReponseFraiche /\ PlageServie)
<1>1. Init => ReponseFraiche /\ PlageServie
  BY DEF Init, ReponseFraiche, PlageServie
<1>2. Inv /\ ReponseFraiche /\ PlageServie /\ [Next]_vars => ReponseFraiche' /\ PlageServie'
  <2>1. ASSUME UNCHANGED vars, ReponseFraiche, PlageServie PROVE ReponseFraiche' /\ PlageServie'
    <3>1. UNCHANGED <<reponse, versions, present>>
      BY <2>1 DEF vars, disque
    <3>2. ReponseFraiche'
      BY <2>1, <3>1 DEF ReponseFraiche
    <3>3. PlageServie'
      BY <2>1, <3>1 DEF PlageServie, Choisis, taille, courante
    <3> QED  BY <3>2, <3>3
  <2> QED  BY <2>1, ReponseExacte
<1> QED  BY <1>1, <1>2, Inductif, PTL DEF Spec

\* No answer takes a browser back, and "not modified" is never a lie.
THEOREM JamaisEnArriere == Spec => []ReponseFraiche
BY ReponsesSures, PTL

\* Ranges are exact, and reads fail only when the system refuses them or the
\* folder has changed.
THEOREM PlagesExactes == Spec => []PlageServie
BY ReponsesSures, PTL
=============================================================================
