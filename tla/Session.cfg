SPECIFICATION Spec
CONSTANTS
  Hosts = {h1, h2, h3}
  Texts = {"begin", "begin work", "commit", "rollback", "dml", "ddl"}
  MaxRows = {0}
  Unset = Unset
SYMMETRY HostSymmetry
INVARIANTS
  TransactionKnown
  LostTransactionReported
  ChangeReported
PROPERTIES
  FailoverAllowed
  WriterRemembered
