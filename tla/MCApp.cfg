CONSTANTS
  Worlds <- MCWorlds
  Conns = {c1, c2}
  STARTS_MOD = 1
  MaxStrays = 1
  NoRequest = NoRequest
  NoDocument = NoDocument
SPECIFICATION Spec
INVARIANTS AnswerShowsCommand PollingAlive BusyWithOne
