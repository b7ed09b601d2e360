SPECIFICATION Spec
CONSTANTS
  Legacy = {1, 2}
  OldSchemas <- MCOldSchemas
  Base = {"sample", "cat"}
  MaxSuffix <- MCMaxSuffix
  Seeds <- MCSeeds
  Sample = "sample"
  Environments <- MCEnvironments
  Yaml <- MCYaml
  None = None
  Random = {r1, r2}
  MaxCrashes = 1
INVARIANTS
  InductiveInvariant
  ServesCurrentSchema
  GeneratedKeyKept
  InvitationsStayValid
PROPERTIES
  UserTextKept
  StartsSucceed
