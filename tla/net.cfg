SPECIFICATION ServerFairSpec
CONSTANTS
  c1 = c1
  c2 = c2
  NoByte = NoByte
  Clients = {c1, c2}
  Items <- MCItems
  Width = 2
  Protocols = {"plain", "mysql"}
  Outcomes = {"state", "rows", "rowsfail", "cellfail"}
  Rows = 2
  Fds = {1, 2}
  Capacity = 3
  Quota <- MCQuota
CHECK_DEADLOCK FALSE
INVARIANT AnswersInOrder
INVARIANT RequestsLive
INVARIANT LenencReadable
PROPERTY ServerProgress
