SPECIFICATION Spec
CONSTANTS
  Parts = {"nemu"}
  NemuSessions <- MCNemuWatching
  NpcSessions <- MCNpcSessions
PROPERTY EndedForGood
