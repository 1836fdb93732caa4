CONSTANTS
  Archive = {a1}
  Navigateur = {n1}
  None = None
  Tailles = {1, 3}
  Dates = {0, 1}
  Plages <- MCPlages
  TAILLE_MIN = 2
  MaxDepots = 3
  MaxRefus = 1
SPECIFICATION FairSpec
INVARIANT TypeOK
INVARIANT ReponseFraiche
INVARIANT PlageServie
PROPERTY Convergence
CHECK_DEADLOCK FALSE
