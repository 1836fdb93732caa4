SPECIFICATION FairSpec
CONSTANTS
  Pid = {p1, p2, p3}
  None = None
  Zombie = Zombie
  Illisible = Illisible
  Services = {"kubo", "relais"}
  Fantomes = TRUE
  SONDAGES = 2
  Pannes = {"ps", "lsof", "kill", "lecture", "disque"}
INVARIANT TypeOK
INVARIANT TiersEpargne
INVARIANT OrphelinRamasse
PROPERTY DemarrageTermine
