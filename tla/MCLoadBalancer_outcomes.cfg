SPECIFICATION FairSpec
CONSTANTS
  b1 = b1
  b2 = b2
  strong = strong
  URLs = {b1, b2}
  Sources = {strong}
  SourceOf <- MCSourceOf
  Requests = {r1}
  RetriesEnabled = TRUE
  NoURL = NoURL
  Outcomes = {"ok", "truncated", "serverError", "timeout", "refused", "reset", "canceled"}
  Reports = {TRUE, FALSE}
INVARIANTS
  SafeReexecution
  OneResponse
  RecordedAsAnswered
PROPERTIES
  RequestsFinish
  DrainCompletes
