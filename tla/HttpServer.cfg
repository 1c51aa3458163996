SPECIFICATION Spec
CONSTANTS
  Requests = {q1, q2}
  Kinds = {"preflight", "json", "other"}
  Codes = {404}
  MaxChunks = 1
INVARIANTS
  TypeOK
  WholeAnswer
  RecordsTellAnswer
PROPERTIES
  RequestsAnswered
  ServerReturns
CHECK_DEADLOCK FALSE
