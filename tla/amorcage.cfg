SPECIFICATION FairSpec
CONSTANTS
  Client = {c1}
  None = None
  LIGNES_GARDEES = 3
  SEUIL_SECURITE = 1
  SEUIL_SOUS = 2
  MAX_LIGNES = 8
INVARIANT TypeOK
INVARIANT JournalFidele
INVARIANT RefusTenu
PROPERTY PortCede
PROPERTY BlocageExplique
PROPERTY PassageTermine
