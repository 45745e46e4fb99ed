SPECIFICATION MCSpec
CONSTANTS
  c1 = c1
  c2 = c2
  c3 = c3
  Calls = {c1, c3}
  KeyOf <- MCKeyOf
  NoRequest = NoRequest
  NoBody = NoBody
  NoDoc = NoDoc
  Docs = {1, 2, 3, 4}
  Jobs = {1, 2}
  Reviews = {1, 2, 3}
  Threads = {1, 2}
  Workers = {1}
  MaxRetries = 1
  MaxEffort = 4
INVARIANTS NoDoubleVersion
CHECK_DEADLOCK FALSE
