CONSTANTS
  u1 = u1
  u2 = u2
  u3 = u3
  v1 = v1
  v2 = v2
  g = g
  k1 = k1
  k2 = k2
  k3 = k3
  Updates = {u1, u2, u3}
  Users = {v1, v2}
  Groups = {g}
  Tokens = {k1, k2, k3}
  From <- MCFrom
  Chat <- MCChat
  Addressed <- MCAddressed
  Kind <- MCKind
  Deliveries = {d1, d2, d3}
  FileBots <- MCFileBots
  BotLists <- MCBotLists
  NoBot = NoBot
  NoUpdate = NoUpdate
  NoSession = NoSession
  MaxStarts = 2
  MaxSaves = 1
  MaxFailures = 1
SYMMETRY Symmetric
SPECIFICATION Spec
INVARIANTS SessionsAreSound AckedUpdateIsAnswered BannedIsRefused
PROPERTY UserKeepsHisBot
CHECK_DEADLOCK FALSE
