CONSTANTS
  CliTopics = {c1, c2}
  TerraformTopics = {t1, t2}
  OtherTopics = {o1}
  Scopes = {s1, s2}
  PollAttempts = 2
  MaxRenames = 1
  MaxFaults = 1
SPECIFICATION FairSpec
INVARIANTS TypeOK NothingLeft
PROPERTIES OnlyOwnTopicsDeleted DestroyCompletes
CHECK_DEADLOCK FALSE
