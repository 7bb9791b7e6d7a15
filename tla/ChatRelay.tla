------------------------------ MODULE ChatRelay ------------------------------
(***************************************************************************)
(* One line that a user types, byte by byte, until it comes back: a chat   *)
(* message from the client that sends it over the server to a client that  *)
(* shows it, and a registration or a login with its answer.                *)
(***************************************************************************)
EXTENDS Tlv

CONSTANTS
  Names,   \* the names and passwords that are typed
  Texts,   \* the texts that are typed
  UserIds  \* the ids that the user table gives

(* A user_id is a uint32_t: it is below 2^32. *)
ASSUME RelayAssumption ==
  /\ Names \subseteq Seq(Uint8)
  /\ Texts \subseteq Seq(Uint8)
  /\ UserIds \subseteq Nat
  /\ \A n \in UserIds : n \div 16777216 < 256

VARIABLES
  stage,    \* how far the line has come
  typed,    \* what the user typed, and what each side knows of him
  payload,  \* the payload on its way
  shown     \* what the client prints

vars == <<stage, typed, payload, shown>>

ValidNames == {n \in Names : Len(n) =< MAX_USERNAME_SIZE}

Nothing == << >>

(* claim is conn.user.username of the client, session the name of the      *)
(* connection at the server: that of a user whom parse_register_request    *)
(* let in.                                                                 *)
ChatLine ==
  [kind : {"/world", "/p2p"}, claim : Names, recipient : Names, content : Texts,
   session : ValidNames]

(* stored is the name in the row that answers, which a login may find      *)
(* under another letter case.                                              *)
UserLine ==
  [kind : {"/register"}, username : Names, password : Names, user_id : UserIds]
    \cup [kind : {"/login"}, username : Names, password : Names, user_id : UserIds,
          stored : ValidNames]

RelayInit ==
  /\ stage = "typed"
  /\ typed \in ChatLine \cup UserLine
  /\ payload = << >>
  /\ shown = Nothing

(* command_shell and the handler of the command. *)
ClientBuild ==
  /\ stage = "typed"
  /\ LET usage == CASE typed.kind = "/world" -> typed.content = << >>
                    [] typed.kind = "/p2p" -> << >> \in {typed.recipient, typed.content}
                    [] OTHER -> << >> \in {typed.username, typed.password}
         request ==
           CASE typed.kind = "/world" -> build_world_broadcast(typed.claim, typed.content)
             [] typed.kind = "/p2p" ->
                  build_p2p_broadcast(typed.claim, typed.recipient, typed.content)
             [] OTHER -> build_credentials(typed.username, typed.password)
     IN IF usage \/ ~request.ok
        THEN stage' = "refused" /\ UNCHANGED payload
        ELSE stage' = "sent" /\ payload' = request.payload
  /\ UNCHANGED <<typed, shown>>

(* handle_broadcast_message, with a recipient that is there. *)
ServerRelay ==
  /\ stage = "sent"
  /\ typed \in ChatLine
  /\ LET private == payload[1] = TAG_P2P_BROADCAST
         request == IF private THEN parse_p2p_broadcast(payload)
                               ELSE parse_world_broadcast(payload)
         content == request.found[TAG_MESSAGE_CONTENT]
         recipient == request.found[TAG_RECIPIENT_USERNAME]
     IN IF \/ ~request.ok
           \/ content = << >>
           \/ private /\ recipient = typed.session
        THEN stage' = "malformed" /\ UNCHANGED payload
        ELSE /\ stage' = "relayed"
             /\ payload' = IF private
                           THEN P2PPayload(typed.session, recipient, content)
                           ELSE WorldPayload(typed.session, content)
  /\ UNCHANGED <<typed, shown>>

(* register_user with a free name, or login_user with the right password. *)
ServerAnswer ==
  /\ stage = "sent"
  /\ typed \in UserLine
  /\ LET request == IF typed.kind = "/register" THEN parse_register_request(payload)
                                                ELSE parse_login_request(payload)
         name == IF typed.kind = "/register" THEN request.found[TAG_USERNAME]
                                             ELSE typed.stored
     IN IF request.ok
        THEN stage' = "answered" /\ payload' = UserPayload(typed.user_id, name)
        ELSE stage' = "malformed" /\ UNCHANGED payload
  /\ UNCHANGED <<typed, shown>>

(* The %s of print_chat_message ends at a zero byte. *)
Printed(bytes) ==
  LET zeros == {i \in DOMAIN bytes : bytes[i] = 0}
  IN IF zeros = {} THEN bytes ELSE SubSeq(bytes, 1, Min(zeros) - 1)

(* handle_broadcast_response; what the parser returns is not looked at. *)
ClientShow ==
  /\ stage = "relayed"
  /\ shown' = LET broadcast == IF payload[1] = TAG_P2P_BROADCAST
                               THEN parse_p2p_broadcast(payload).found
                               ELSE parse_world_broadcast(payload).found
              IN [tag \in DOMAIN broadcast |-> Printed(broadcast[tag])]
  /\ stage' = "shown"
  /\ UNCHANGED <<typed, payload>>

(* handle_registration_response and handle_login_response, which go on     *)
(* with the user they are left unless the parser returned -1: it does not  *)
(* for a malformed value.                                                  *)
ClientUser ==
  /\ stage = "answered"
  /\ shown' = LET user == IF typed.kind = "/register"
                          THEN parse_register_response(payload)
                          ELSE parse_login_response(payload)
              IN [user_id |-> user.user_id, username |-> user.username]
  /\ stage' = "shown"
  /\ UNCHANGED <<typed, payload>>

RelayNext == ClientBuild \/ ServerRelay \/ ServerAnswer \/ ClientShow \/ ClientUser

(***************************************************************************)
(* What is shown is what was typed, up to a zero byte in it, under the     *)
(* sender's own name, at every length up to the limits and past them: the  *)
(* length bytes do not wrap.                                               *)
(***************************************************************************)
RelayFaithful ==
  stage = "shown" /\ typed \in ChatLine =>
    /\ shown[TAG_MESSAGE_CONTENT] = Printed(typed.content)
    /\ shown[TAG_SENDER_USERNAME] = Printed(typed.session)
    /\ IF typed.kind = "/p2p"
       THEN shown[TAG_RECIPIENT_USERNAME] = Printed(typed.recipient)
       ELSE TAG_RECIPIENT_USERNAME \notin DOMAIN shown

(***************************************************************************)
(* The client learns the id that the user table gave and the name that is  *)
(* stored with it, whatever bytes the id has in memory and on the wire:    *)
(* the builder writes as many as the parser, which does not count them,    *)
(* has room for.                                                           *)
(***************************************************************************)
UserFaithful ==
  stage = "shown" /\ typed \in UserLine =>
    /\ shown.user_id # Smashed
    /\ HostNumber(shown.user_id) = typed.user_id
    /\ shown.username = IF typed.kind = "/register" THEN typed.username ELSE typed.stored

(* The limits of the two sides agree: the server never takes a request     *)
(* that the client built for malformed, but for one to its own sender,     *)
(* which a client that goes by a wrong name cannot tell.                   *)
BuilderParserAgree ==
  stage = "malformed" =>
    /\ typed.kind = "/p2p"
    /\ typed.recipient = typed.session
    /\ typed.claim # typed.session

=============================================================================
