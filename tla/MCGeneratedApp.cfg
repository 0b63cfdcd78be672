SPECIFICATION AppSpec
CONSTANTS
  c1 = c1
  c2 = c2
  Apps <- MCApps
  Callers <- MCCallers
  Authorized <- MCAuthorized
  MaxAttempts = 2
  MaxCalls = 1
  Names <- MCNames
INVARIANTS
  InUseIsLive
  NothingLeaks
  LayersNest
  PlanIsSound
