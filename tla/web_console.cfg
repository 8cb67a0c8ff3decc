SPECIFICATION Spec
CONSTANTS
  Slots = {s1,s2}
  Ids = {d1}
  MaxReceipts = 2
  UserCap = 1
  MaxFresh = 3
INVARIANTS OncePerReceipt OneHolder NamesDisjoint
PROPERTIES AcceptedWhileLoggedIn InvitationOnce OwnPassword

SYMMETRY Sym
