SPECIFICATION Spec
CONSTANTS
  a = a
  b = b
  later = later
  work = work
  t = t
  Conversations = {a, b, later}
  Mentioned = {b}
  Start <- MCStart
  Folders = {work}
  Tags = {t}
  Unfiled = Unfiled
  NewPlaces = {Unfiled}
  Anywhere = Anywhere
  None = None
  PageSize = 1
  MaxMoves = 3
INVARIANTS
  TypeOK
  LoadedIsCurrent
  NothingLost
  SelectedAreShown
  LoadingHasRequest
CHECK_DEADLOCK FALSE
