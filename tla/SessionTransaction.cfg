SPECIFICATION Spec
CONSTANTS
  Hosts = {h1, h2, h3}
  Texts = {"begin", "commit", "rollback", "dml", "ddl"}
  MaxRows = {0, 1}
  Unset = Unset
SYMMETRY HostSymmetry
INVARIANT LostTransactionReported
