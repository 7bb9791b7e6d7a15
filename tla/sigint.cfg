\* SIGINT while the client waits for a line.
SPECIFICATION Spec
CONSTANTS
  None = None
  Name <- MCNames
  string_to_lower <- MCLower
  Password = {"pw", "bad"}
  Content = {"hi"}
  Lines <- MCLines
  Accounts <- TwoAccounts
  Others <- MCOthers
  OtherName = "Bob"
  Events = {"sigint"}
  UpCap = 1
  RcvCap = 1
  OutCap = 1
  MaxLines = 3
  MaxOther = 1
INVARIANTS
  GracefulSigint
