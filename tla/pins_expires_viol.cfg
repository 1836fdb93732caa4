SPECIFICATION Spec
CONSTANTS
  None = None
  Illisible = Illisible
  m1 = m1
  c1 = c1
  c2 = c2
  Cid = {c1}
  Module = {m1}
  Requete = {r1}
  Taille <- MCTaille
  Trouvables = {c1}
  Politiques = {}
  PolitiqueDefaut <- MCPolitiqueDefaut
  TtlHeures = {}
  HEURE = 1
  PLAFOND_REMESURE = 1
  PannesKubo = {}
  PannesDisque = {}
  KuboAuDepart = {TRUE, FALSE}
  NonSuivis = {}
  MaxNow = 2
  MaxRelances = 0
PROPERTY SeulsLesExpires
