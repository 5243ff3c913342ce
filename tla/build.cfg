CONSTANTS
  c1 = c1
  c2 = c2
  Caller <- TwoCallers
  Jobs <- AllJobs
  Together <- WarpJobs
SPECIFICATION Spec
SYMMETRY CallerSymmetry
INVARIANTS
  TypeOK
  GroupsResolve
  RulesResolve
  DetoursLeadOut
  ServersAreForced
  DnsRulesAreValid
  PanicsOnShortId
  FinalResolves
