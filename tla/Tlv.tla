-------------------------------- MODULE Tlv --------------------------------
(***************************************************************************)
(* The payloads of protocol.cpp: TLVs with one byte of tag and one byte of *)
(* length, the builders that put them together and the parsers that take   *)
(* them apart.  All parsers are one loop that differs in the tags it knows *)
(* and in the lengths it allows; every tag that a parser knows is one that *)
(* it requires.                                                            *)
(***************************************************************************)
EXTENDS Naturals, SequencesExt

CONSTANTS
  MAX_USERNAME_SIZE,
  MAX_PASSWORD_SIZE,
  MAX_MSG_CONTENT_SIZE

ASSUME TlvAssumption ==
  {MAX_USERNAME_SIZE, MAX_PASSWORD_SIZE, MAX_MSG_CONTENT_SIZE} \subseteq 0 .. 255

Uint8 == 0 .. 255

(* tlv_tag_t. *)
TAG_USERNAME == 0
TAG_PASSWORD == 1
TAG_WORLD_BROADCAST == 4
TAG_P2P_BROADCAST == 5
TAG_USER_ID == 6
TAG_SENDER_USERNAME == 9
TAG_RECIPIENT_USERNAME == 10
TAG_MESSAGE_CONTENT == 11

(* The length is cut to a uint8_t, and only so many bytes are copied. *)
write_tlv(tag, value) ==
  <<tag, Len(value) % 256>> \o SubSeq(value, 1, Len(value) % 256)

(* A uint32_t in the memory of a little-endian host, htonl (and ntohl) on  *)
(* its bytes, and the number that four bytes of memory hold.               *)
HostBytes(n) ==
  <<n % 256, (n \div 256) % 256, (n \div 65536) % 256, (n \div 16777216) % 256>>
htonl(bytes) == Reverse(bytes)
HostNumber(bytes) ==
  bytes[1] + 256 * bytes[2] + 65536 * bytes[3] + 16777216 * bytes[4]

(* Mutant: convert_to_network is not looked at. *)
write_tlv_number_Host(tag, n) == write_tlv(tag, HostBytes(n))

(* write_tlv with convert_to_network. *)
write_tlv_number(tag, n) == write_tlv(tag, htonl(HostBytes(n)))

-----------------------------------------------------------------------------
(* The parsers. *)

(* The greatest length for each tag: 255 where the parser has no limit. *)
CredentialFields ==
  [tag \in {TAG_USERNAME, TAG_PASSWORD} |->
     IF tag = TAG_USERNAME THEN MAX_USERNAME_SIZE ELSE MAX_PASSWORD_SIZE]

WorldFields ==
  [tag \in {TAG_WORLD_BROADCAST, TAG_SENDER_USERNAME, TAG_MESSAGE_CONTENT} |->
     IF tag = TAG_SENDER_USERNAME THEN MAX_USERNAME_SIZE ELSE 255]

P2PFields ==
  [tag \in {TAG_P2P_BROADCAST, TAG_SENDER_USERNAME, TAG_RECIPIENT_USERNAME,
            TAG_MESSAGE_CONTENT} |->
     IF tag \in {TAG_SENDER_USERNAME, TAG_RECIPIENT_USERNAME}
     THEN MAX_USERNAME_SIZE ELSE 255]

UserFields ==
  [tag \in {TAG_USER_ID, TAG_USERNAME} |->
     IF tag = TAG_USERNAME THEN MAX_USERNAME_SIZE ELSE 255]

(* Mutant: a value of the greatest length is too long. *)
TooLong_OffByOne(fields, tag, n) == tag \in DOMAIN fields /\ n >= fields[tag]

TooLong(fields, tag, n) == tag \in DOMAIN fields /\ n > fields[tag]

(* The TLV at offset ptr: where it ends, and its value. *)
TlvEnd(payload, ptr) == ptr + 2 + payload[ptr + 2]
TlvValue(payload, ptr) == SubSeq(payload, ptr + 3, TlvEnd(payload, ptr))

(* The checks for an incomplete header, an incomplete value, a long value. *)
IsMalformed(fields, payload, ptr) ==
  \/ ptr + 2 > Len(payload)
  \/ TlvEnd(payload, ptr) > Len(payload)
  \/ TooLong(fields, payload[ptr + 1], payload[ptr + 2])

(***************************************************************************)
(* One round of the loop.  rest is what the rounds after it come to: a tag *)
(* that comes again there replaces this value, and a tag that the parser   *)
(* does not know is skipped.                                               *)
(***************************************************************************)
ParseTlv(fields, payload, ptr, rest) ==
  [malformed |-> rest.malformed,
   found |-> [tag \in DOMAIN rest.found \cup ({payload[ptr + 1]} \cap DOMAIN fields) |->
                IF tag \in DOMAIN rest.found THEN rest.found[tag]
                                             ELSE TlvValue(payload, ptr)]]

NoValues == [tag \in {} |-> << >>]

(* The loop, from every offset on: each round moves on by two bytes or     *)
(* more, and a malformed TLV is the last, with the values before it kept.  *)
ParseFrom(fields, payload) ==
  LET from[ptr \in 0 .. Len(payload)] ==
        IF ptr = Len(payload) THEN [malformed |-> FALSE, found |-> NoValues]
        ELSE IF IsMalformed(fields, payload, ptr)
             THEN [malformed |-> TRUE, found |-> NoValues]
             ELSE ParseTlv(fields, payload, ptr, from[TlvEnd(payload, ptr)])
  IN from

(* ... and the check that no tag is missing. *)
Parse(fields, payload) ==
  LET final == ParseFrom(fields, payload)[0]
  IN [ok |-> ~final.malformed /\ DOMAIN final.found = DOMAIN fields,
      found |-> final.found]

parse_register_request(payload) == Parse(CredentialFields, payload)
parse_login_request(payload) == Parse(CredentialFields, payload)
parse_world_broadcast(payload) == Parse(WorldFields, payload)
parse_p2p_broadcast(payload) == Parse(P2PFields, payload)
(***************************************************************************)
(* The four bytes of user.user_id in the user_t user{} of the caller.  The *)
(* parser copies as many bytes there as the value has, and does not look   *)
(* how many these are.  A longer value is written over the members of user *)
(* behind its id: Smashed stands for all that the build may make of that,  *)
(* and says nothing of the id nor of the name.                             *)
(***************************************************************************)
Zeroed == <<0, 0, 0, 0>>
Smashed == << >>
IdMemory == [1 .. 4 -> Uint8] \cup {Smashed}

(* Mutant: the id is left in network byte order. *)
CopyId_Network(memory, value) ==
  IF memory = Smashed \/ Len(value) > 4
  THEN Smashed
  ELSE value \o SubSeq(memory, Len(value) + 1, 4)

(* memcpy and ntohl: a shorter value leaves the bytes that follow it. *)
CopyId(memory, value) ==
  IF memory = Smashed \/ Len(value) > 4
  THEN Smashed
  ELSE htonl(value \o SubSeq(memory, Len(value) + 1, 4))

(* What the loop makes of that memory from every offset on. *)
IdAfter(payload) ==
  LET after[ptr \in 0 .. Len(payload)] ==
        [memory \in IdMemory |->
           IF ptr = Len(payload) \/ IsMalformed(UserFields, payload, ptr)
           THEN memory
           ELSE after[TlvEnd(payload, ptr)][
                  IF payload[ptr + 1] = TAG_USER_ID
                  THEN CopyId(memory, TlvValue(payload, ptr)) ELSE memory]]
  IN after

(* Whether the parser returns 0, and the user it leaves to its caller. *)
ParseUser(payload) ==
  LET result == Parse(UserFields, payload)
  IN [ok |-> result.ok,
      user_id |-> IdAfter(payload)[0][Zeroed],
      username |-> IF TAG_USERNAME \in DOMAIN result.found
                   THEN result.found[TAG_USERNAME] ELSE << >>]

parse_register_response(payload) == ParseUser(payload)
parse_login_response(payload) == ParseUser(payload)

-----------------------------------------------------------------------------
(* The builders. *)

Refused == [ok |-> FALSE, payload |-> << >>]
Built(payload) == [ok |-> TRUE, payload |-> payload]

(* build_register_request and build_login_request. *)
build_credentials(username, password) ==
  IF Len(username) > MAX_USERNAME_SIZE \/ Len(password) > MAX_PASSWORD_SIZE
  THEN Refused
  ELSE Built(write_tlv(TAG_USERNAME, username) \o write_tlv(TAG_PASSWORD, password))

(* The payload of build_register_response and build_login_response. *)
UserPayload(user_id, username) ==
  write_tlv_number(TAG_USER_ID, user_id) \o write_tlv(TAG_USERNAME, username)

(* The payload of a world broadcast, as a notification of the server. *)
WorldPayload(sender, content) ==
  write_tlv(TAG_WORLD_BROADCAST, << >>) \o write_tlv(TAG_SENDER_USERNAME, sender)
    \o write_tlv(TAG_MESSAGE_CONTENT, content)

(* Mutant: the content is not measured. *)
build_world_broadcast_Any(sender, content) ==
  IF Len(sender) > MAX_USERNAME_SIZE THEN Refused ELSE Built(WorldPayload(sender, content))

(* ... and as a request of the client. *)
build_world_broadcast(sender, content) ==
  IF Len(sender) > MAX_USERNAME_SIZE \/ Len(content) > MAX_MSG_CONTENT_SIZE
  THEN Refused
  ELSE Built(WorldPayload(sender, content))

P2PPayload(sender, recipient, content) ==
  write_tlv(TAG_P2P_BROADCAST, << >>) \o write_tlv(TAG_SENDER_USERNAME, sender)
    \o write_tlv(TAG_RECIPIENT_USERNAME, recipient)
    \o write_tlv(TAG_MESSAGE_CONTENT, content)

(* Mutant: the recipient is not measured. *)
build_p2p_broadcast_Any(sender, recipient, content) ==
  IF \/ Len(sender) > MAX_USERNAME_SIZE \/ Len(content) > MAX_MSG_CONTENT_SIZE
     \/ sender = recipient
  THEN Refused
  ELSE Built(P2PPayload(sender, recipient, content))

build_p2p_broadcast(sender, recipient, content) ==
  IF \/ Len(sender) > MAX_USERNAME_SIZE \/ Len(recipient) > MAX_USERNAME_SIZE
     \/ sender = recipient \/ Len(content) > MAX_MSG_CONTENT_SIZE
  THEN Refused
  ELSE Built(P2PPayload(sender, recipient, content))

=============================================================================
