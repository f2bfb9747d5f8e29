CONSTANTS
  MaxSockets = 3
  FtpHosts = { "info" }
  ConnectionIds = { 1, 2 }
  NewsHost = "news"
  MaxArticles = 1
  MaxLines = 2
  ThisHost = "here"
  MaxUnread = 0
  Mixed = FALSE
  Requests <- MCRequests
SPECIFICATION Spec
CHECK_DEADLOCK FALSE
INVARIANTS
  TypeOK
  KeptConnectionsAreTheirOwn
  RepliesAreAllRead
  SuccessLeaksNoSocket
  MenuAnchorsAreOfTheirLine
  NoOtherWaitIsInVain
  OnlyLossesEndTheProgram
PROPERTIES
  IdleLossIsRetried
  LoadsEndOrWait
