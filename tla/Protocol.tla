------------------------------ MODULE Protocol ------------------------------
(***************************************************************************)
(* The messages that the chat client and the chat server exchange, as the  *)
(* server tells them apart.  A message on the wire is a 7 byte header      *)
(* (version, type, response code, payload length) and a payload of TLVs.   *)
(* Here a message is one value: the fields are those the TLVs carry, and   *)
(* the outcome of the byte level checks of a parser is one Boolean.        *)
(***************************************************************************)
EXTENDS Naturals

CONSTANTS
  Name,      \* user names, with their letter case
  Password,  \* passwords
  Content,   \* non-empty chat texts
  None       \* a field that the message does not carry

(* An absent user name is not mistaken for a name. *)
ASSUME ProtocolAssumption == None \notin Name

(* The values of msg_type_t that the server has a handler for, and one     *)
(* value for every other type byte (LIST included).                        *)
MsgType == {"REGISTER", "LOGIN", "CHAT", "OTHER"}

(* response_code_t. *)
RespCode == {"RESP_OK", "RESP_ERROR_MALFORMED", "RESP_ERROR_USER_EXISTS",
             "RESP_ERROR_USER_NOT_FOUND", "RESP_ERROR_INVALID_CREDENTIALS",
             "RESP_ERROR_INTERNAL", "RESP_ERROR_UNKNOWN_COMMAND"}

(* The first TLV tag of a CHAT payload, peek_broadcast_type: the two       *)
(* broadcast tags, and every other byte.                                   *)
BroadcastTag == {"TAG_WORLD_BROADCAST", "TAG_P2P_BROADCAST", "TAG_OTHER"}

(* The content of a broadcast whose TAG_MESSAGE_CONTENT has length 0. *)
Empty == ""

(***************************************************************************)
(* A request.  oversize: the header announces more than                    *)
(* MSG_MAX_PAYLOAD_SIZE bytes.  parses: the parser of this type accepts    *)
(* the payload (no truncated TLV, no name or password over its limit, all  *)
(* the tags it requires are there).  username is TAG_USERNAME or           *)
(* TAG_SENDER_USERNAME, whichever the type uses: a CHAT request names its  *)
(* own sender, rightly or not.                                             *)
(***************************************************************************)
Request ==
  [type : MsgType, oversize : BOOLEAN, parses : BOOLEAN, tag : BroadcastTag,
   username : Name, password : Password, recipient : Name,
   content : Content \cup {Empty}]

(* A response or a notification; the two share one format on the wire. *)
Response ==
  [type : MsgType, rc : RespCode, tag : BroadcastTag \cup {None},
   user_id : Nat, username : Name \cup {None}, recipient : Name \cup {None},
   content : Content \cup {None}]

(* A response without payload. *)
build_server_response(type, rc) ==
  [type |-> type, rc |-> rc, tag |-> None, user_id |-> 0, username |-> None,
   recipient |-> None, content |-> None]

(* build_register_response and build_login_response: id and user name. *)
build_user_response(type, id, username) ==
  [build_server_response(type, "RESP_OK") EXCEPT !.user_id = id,
                                                 !.username = username]

(* The notification is also the sender's response: CHAT with rc 0, RESP_OK. *)
build_world_broadcast_notification(sender, content) ==
  [build_server_response("CHAT", "RESP_OK") EXCEPT
     !.tag = "TAG_WORLD_BROADCAST", !.username = sender, !.content = content]

build_p2p_broadcast_notification(sender, recipient, content) ==
  [build_server_response("CHAT", "RESP_OK") EXCEPT
     !.tag = "TAG_P2P_BROADCAST", !.username = sender,
     !.recipient = recipient, !.content = content]

=============================================================================
