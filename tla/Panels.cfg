SPECIFICATION Spec
CONSTANTS
  c1 = c1
  c2 = c2
  s1 = s1
  s2 = s2
  Conversations = {c1, c2}
  Spaces = {s1, s2}
  Hidden = {c2}
  None = None
  NoOne = NoOne
  MaxRows = 4
  NoPreset = NoPreset
  MaxPresets = 3
  NoUser = NoUser
  MaxUsers = 3
  Chats = {c1, c2}
  NoChat = NoChat
  PageSize = 1
  MaxMessages = 8
  FirstMessages <- Turns
  MaxActs = 5
  Budget <- Acts
INVARIANTS
  TypeOK
  SpacesSettle
  KnowledgeExact
  FormOnTarget
  PresetsShown
  AccountsAgree
  PagesContiguous
PROPERTIES
  SaveAllOrNothing
SYMMETRY Symmetry
CHECK_DEADLOCK FALSE
