SPECIFICATION Spec
CONSTANTS
  NULL = NULL
  Conns = {c1, c2}
  Methods = {"iam", "federated", "secret"}
  Expiration = 2
  TokenLife = 2
  Incomplete = {1}
  MaxTime = 4
  MaxVersion = 2
INVARIANT
  RefusedOnlyForCause
PROPERTIES
  CacheNeverOlder
