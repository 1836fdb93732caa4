SPECIFICATION Spec
CONSTANTS
  Cle = {k1}
  Pubkey = {a}
  Requete = {r1}
  None = None
  Pannes = {}
INVARIANT RetourPublic
