CONSTANTS
  k1 = k1
  k2 = k2
  Admins = {a1, a2}
  Boot = Boot
  NoWriter = NoWriter
  Tokens = {k1, k2}
  NoToken = NoToken
  LoginUrl = LoginUrl
  NoUrl = NoUrl
  File <- MCFile
  BotLists <- MCBotLists
  Limits = {0, 2}
  DefaultLimit = 1
  MaxSaves = 3
  MaxStarts = 2
SPECIFICATION Spec
INVARIANT AuthIsFromFile
CHECK_DEADLOCK FALSE
