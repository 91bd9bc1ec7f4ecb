SPECIFICATION Spec
CONSTANTS
  b1 = b1
  b2 = b2
  strong = strong
  URLs = {b1, b2}
  Sources = {strong}
  SourceOf <- MCSourceOf
  Requests = {r1, r2}
  RetriesEnabled = TRUE
  NoURL = NoURL
  Outcomes = {"ok"}
  Reports = {TRUE}
PROPERTIES
  DrainingNotSelected
