SPECIFICATION Spec
CONSTANTS
  None = None
  Illisible = Illisible
  Device = {d1}
  Token = {t1}
  Requete = {r1, r2}
  TTL = 1
  SKEW = 1
  Horodatages = {0}
  Corps <- MCUnCorps
  PannesCoffre = {}
  MaxNow = 1
  MaxRelances = 0
PROPERTY RetourParAppairage
