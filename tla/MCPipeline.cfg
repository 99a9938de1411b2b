SPECIFICATION Spec
CONSTANTS
  Policies <- MixedPolicies
  MaxPasses = 2
  MaxHooks = 3
INVARIANTS ScriptsAuthorized RemovalHolds PreviewIsSent
