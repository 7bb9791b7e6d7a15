\* One client that talks to one or to all, in batches of two events.
SPECIFICATION Spec
CONSTANTS
  p1 = p1
  p2 = p2
  p3 = p3
  Peer = {p1, p2, p3}
  NoPeer = NoPeer
  None = None
  Fd = {5, 6, 7, 8}
  ListenFd = 3
  Name <- MCNames
  string_to_lower <- MCLower
  Password = {"pw", "bad"}
  Content = {"hi"}
  Requests <- Conversation
  Accounts <- MCAccounts
  IsTest = FALSE
  LISTENQ = 100
  SndCap = 1
  RcvCap = 1
  MaxSend <- ThreeOneOne
  Closers = {}
  MAX_EVENTS = 2
  INITIAL_CAPACITY = 6
  Faults = {}
INVARIANTS
  GaplessBroadcast
  ChatConfined
PROPERTIES
  ImplementsService
