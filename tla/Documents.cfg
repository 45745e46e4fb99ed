SPECIFICATION MCSpec
CONSTANTS
  c1 = c1
  c2 = c2
  c3 = c3
  Calls = {c1, c2}
  KeyOf <- MCKeyOf
  NoRequest = NoRequest
  NoBody = NoBody
  NoDoc = NoDoc
  Docs = {1, 2, 3, 4}
  Jobs = {1, 2}
  Reviews = {1, 2, 3}
  Threads = {1, 2}
  Workers = {1}
  MaxRetries = 1
  MaxEffort = 6
INVARIANTS Gate SupersededByPublished OneVersionPerKey StrandedByFault
PROPERTIES VerdictIsFinal ImplementsOperation WorkEnds
CHECK_DEADLOCK FALSE
