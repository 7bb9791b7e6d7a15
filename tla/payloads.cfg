\* All payloads of up to eight bytes over each of three sets of bytes (tags and
\* short values; an id of four bytes; one of five), and lines with lengths on
\* both sides of each limit and of the range of a length byte.
SPECIFICATION Spec
CONSTANTS
  Names <- MCNames
  Texts <- MCTexts
  MAX_USERNAME_SIZE = 1
  MAX_PASSWORD_SIZE = 2
  MAX_MSG_CONTENT_SIZE = 255
  NameSizes = {0, 1, 2, 3, 257}
  ContentSizes = {0, 1, 255, 256, 257}
  UserIds = {0, 1, 127, 65280, 65537, 16909060, 2147483393}
  Alphabets = {{0, 1, 2}, {0, 4, 6}, {0, 5, 6}}
  MaxPayload = 8
INVARIANTS
  ParsesTlvs
  ParsesUsers
  RelayFaithful
  UserFaithful
  BuilderParserAgree
CHECK_DEADLOCK FALSE
