SPECIFICATION Spec
CONSTANTS
  Cle = {k1, k2}
  Pubkey = {a, b}
  Requete = {r1, r2}
  None = None
  Pannes = {"disque", "coffre", "ipfs"}
SYMMETRY Symetrie
INVARIANT TypeOK
INVARIANT SauvegardeVraie
INVARIANT CleAnnoncee
INVARIANT ListeAnnoncee
