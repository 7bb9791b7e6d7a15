\* All ways to cut two messages in each direction into chunks.
SPECIFICATION FairSpec
CONSTANTS
  Request <- MCRequest
  Answer <- MCAnswer
  MSG_MAX_PAYLOAD_SIZE = 2
  NetCap = 2
  MaxSend = 2
INVARIANTS
  BytesConserved
PROPERTIES
  RequestsQueue
  AnswersQueue
  EventuallyFramed
CHECK_DEADLOCK FALSE
