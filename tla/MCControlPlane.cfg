SPECIFICATION Spec
CONSTANTS
  NotAList = NotAList
  NotAnObject = NotAnObject
  None = None
  Other = Other
  Kids <- MCKids
  REFUSED_ACTOR_IDS <- MCRefusedActors
  MAX_LIFETIME_S = 2
  CLOCK_SKEW_S = 1
  Deployments <- MCDeployments
INVARIANTS
  AdmittedIsBound
  UnverifiedSaysNothing
  ReplayWindow
  PolicyIsEnforced
  ServesAsItChecked
