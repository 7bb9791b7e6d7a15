\* Both threads of the client, a server that may exit, SIGINT and end of input.
SPECIFICATION FairSpec
CONSTANTS
  None = None
  Name <- MCNames
  string_to_lower <- MCLower
  Password = {"pw", "bad"}
  Content = {"hi"}
  Lines <- MCLines
  Accounts <- TwoAccounts
  Others <- MCOthers
  OtherName = "Bob"
  Events = {"sigint", "eof", "server_exit"}
  UpCap = 1
  RcvCap = 1
  OutCap = 1
  MaxLines = 3
  MaxOther = 1
INVARIANTS
  ClientTypeOK
  IdentityAgrees
  ChatAuthorised
  InStep
PROPERTIES
  QuitTerminates
  WriteReturns
