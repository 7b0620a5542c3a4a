SPECIFICATION Spec
CONSTANTS
  u1 = u1
  u2 = u2
  f1 = f1
  f2 = f2
  w2 = w2
  w1 = w1
  s = s
  Users = {u1}
  Files = {f1}
  Owner <- OneFile
  Workers = {w1, w2, s}
  Sweeper = s
  MaxAttachments = 1
  MaxMessages = 2
INVARIANTS
  MessagesKeepAttachments
PROPERTIES
  FilesSettle
  ExpiredAreSwept
