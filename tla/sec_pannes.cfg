SPECIFICATION FairSpec
CONSTANTS
  None = None
  Vide = Vide
  Pannes = {"trousseau", "disque", "arret"}
  MaxPannes = 8
CHECK_DEADLOCK FALSE
INVARIANT TypeOK
INVARIANT PhraseFidele
INVARIANT IdentiteStable
PROPERTY RelanceReussit
