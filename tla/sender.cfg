\* A broadcast that names another sender.
SPECIFICATION FairSpec
CONSTANTS
  p1 = p1
  p2 = p2
  p3 = p3
  Peer = {p1, p2}
  NoPeer = NoPeer
  None = None
  Fd = {5, 6, 7}
  ListenFd = 3
  Name <- MCNames
  string_to_lower <- MCLower
  Password = {"pw", "bad"}
  Content = {"hi"}
  Requests <- OneTalks
  Accounts <- MCAccounts
  IsTest = FALSE
  LISTENQ = 100
  SndCap = 1
  RcvCap = 2
  MaxSend <- TwoOne
  Closers = {}
  MAX_EVENTS = 64
  INITIAL_CAPACITY = 6
  Faults = {}
PROPERTIES
  SenderMismatchRejected
