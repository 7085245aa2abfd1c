SPECIFICATION Spec
CONSTANTS
  Clients = {c1, c2}
  Reg = reg
  Queries = 2
  MaxSeq = 1
  Events = {"loss", "torn", "error", "sleep", "kick"}
SYMMETRY CallerSymmetry
INVARIANTS TypeOK NoDanglingResponse ResponseMatches NoRequestBeforeRegistration
PROPERTIES RefinesService
