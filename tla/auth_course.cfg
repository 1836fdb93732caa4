SPECIFICATION Spec
CONSTANTS
  None = None
  Illisible = Illisible
  Device = {d1, d2}
  Token = {t1}
  Requete = {r1, r2}
  TTL = 1
  SKEW = 0
  Horodatages = {1}
  Corps <- MCCorps
  PannesCoffre = {TRUE}
  MaxNow = 1
  MaxRelances = 1
SYMMETRY Symetrie
INVARIANT TypeOK
INVARIANT JetonUnique
INVARIANT GarantUnique
INVARIANT RevocationTient
PROPERTY AppairageTenu
