CONSTANTS
  nTracksMax = 2
  TargetLists <- ChangingTargets
  nPots = 2
  N_prob = 2
  N_inactive <- Silences
  theta_prob = 1
  theta_inactive = 1
  ActivityMax = 2
  MaxId = 5
SPECIFICATION FairSpec
INVARIANTS
  TypeOK
  SlotsConsistent
  NoSharedIdentity
  ProbationServed
  SilenceBounded
PROPERTIES
  FreshIdentity
  NoIdentitySwitch
  ConfirmedIsPublished
  SilentSourcesLeave
