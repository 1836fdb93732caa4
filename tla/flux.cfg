CONSTANTS
  Socket = {s1}
  None = None
  Jours = {1, 2}
  DejaServi = {0, 1}
  MaxEvenements = 3
SPECIFICATION FairSpec
INVARIANT TypeOK
 
PROPERTY PauseSuivie
PROPERTY VueJuste
CHECK_DEADLOCK FALSE
