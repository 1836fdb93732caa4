SPECIFICATION Spec
CONSTANTS
  None = None
  Illisible = Illisible
  m1 = m1
  c1 = c1
  c2 = c2
  Cid = {c1}
  Module = {m1}
  Requete = {r1, r2}
  Taille <- MCTaille
  Trouvables = {}
  Politiques <- MCPolitiques
  PolitiqueDefaut <- MCPolitiqueDefaut
  TtlHeures = {0}
  HEURE = 1
  PLAFOND_REMESURE = 1
  PannesKubo = {"erreur", "perdue"}
  PannesDisque = {"refus", "tronque"}
  KuboAuDepart = {TRUE, FALSE}
  NonSuivis = {}
  MaxNow = 2
  MaxRelances = 1
SYMMETRY SymetrieRequetes
INVARIANT TypeOK
INVARIANT PurgeJustifiee
INVARIANT Accord
INVARIANT ResumeExact
INVARIANT Durable
