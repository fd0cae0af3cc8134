SPECIFICATION Spec
CONSTANTS
  Parts = {"nemu", "npc", "watch", "expr"}
  NemuSessions <- MCNemuSessions
  NpcSessions <- MCNpcSessions
INVARIANTS RunsHonestly ExprAgrees
PROPERTIES  ImplementsWatchList SiReturns
