SPECIFICATION Spec
CONSTANTS
  u1 = u1
  u2 = u2
  f1 = f1
  f2 = f2
  w1 = w1
  s = s
  Users = {u1, u2}
  Files = {f1, f2}
  Owner <- OneOwner
  Workers = {w1, s}
  Sweeper = s
  MaxAttachments = 2
  MaxMessages = 2
INVARIANTS
  TypeOK
  RecordHasFile
  LinksMatchUses
  NoOrphanFiles
