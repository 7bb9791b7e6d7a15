\* The last descriptor, a full backlog, batches of one event, a table that grows.
SPECIFICATION Spec
CONSTANTS
  p1 = p1
  p2 = p2
  p3 = p3
  Peer = {p1, p2, p3}
  NoPeer = NoPeer
  None = None
  Fd = {5, 6, 7}
  ListenFd = 3
  Name <- MCNames
  string_to_lower <- MCLower
  Password = {"pw", "bad"}
  Content = {"hi"}
  Requests <- MixedRequests
  Accounts <- OneAccount
  IsTest = FALSE
  LISTENQ = 0
  SndCap = 1
  RcvCap = 1
  MaxSend <- OneEach
  Closers = {p1, p2, p3}
  MAX_EVENTS = 1
  INITIAL_CAPACITY = 5
  Faults = {"signal", "restart", "prepare", "insert"}
SYMMETRY PeerSymmetry
INVARIANTS
  FreshSlot
  TableCovers
  AuthRegistered
  CaseInsensitiveUnique
  AckedDurable
