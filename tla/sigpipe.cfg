\* A write to a client that is gone.
SPECIFICATION Spec
CONSTANTS
  p1 = p1
  p2 = p2
  p3 = p3
  Peer = {p1, p2}
  NoPeer = NoPeer
  None = None
  Fd = {5, 6, 7}
  ListenFd = 3
  Name <- MCNames
  string_to_lower <- MCLower
  Password = {"pw", "bad"}
  Content = {"hi"}
  Requests <- ChatRequests
  Accounts <- MCAccounts
  IsTest = FALSE
  LISTENQ = 100
  SndCap = 1
  RcvCap = 2
  MaxSend <- TwoEach
  Closers = {p1, p2}
  MAX_EVENTS = 64
  INITIAL_CAPACITY = 6
  Faults = {}
SYMMETRY PeerSymmetry
INVARIANTS
  SurvivesWriteError
