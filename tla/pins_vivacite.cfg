SPECIFICATION FairSpec
CONSTANTS
  None = None
  Illisible = Illisible
  m1 = m1
  c1 = c1
  c2 = c2
  Cid = {c1, c2}
  Module = {m1}
  Requete = {r1}
  Taille <- MCTaille
  Trouvables = {c1}
  Politiques = {}
  PolitiqueDefaut <- MCPolitiqueDefaut
  TtlHeures = {}
  HEURE = 1
  PLAFOND_REMESURE = 1
  PannesKubo = {"erreur", "mort"}
  PannesDisque = {}
  KuboAuDepart = {TRUE}
  NonSuivis = {c1, c2}
  MaxNow = 2
  MaxRelances = 0
INVARIANT ResumeExact
INVARIANT DetenuProuve
 
PROPERTY TaillesConvergent
