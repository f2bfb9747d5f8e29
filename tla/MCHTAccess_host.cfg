CONSTANTS
  MaxSockets = 4
  FtpHosts = { "info", "other" }
  ConnectionIds = { 1, 2, 3 }
  NewsHost = "news"
  MaxArticles = 1
  MaxLines = 2
  ThisHost = "here"
  MaxUnread = 0
  Mixed = FALSE
  Requests <- MCRequestsOfHosts
SPECIFICATION Spec
CHECK_DEADLOCK FALSE
INVARIANT DocumentsComeFromTheirHost
