----------------------------- MODULE UsersProofs -----------------------------
(***************************************************************************)
(* Facts about the messages of Protocol and the two services of Users, for *)
(* every table, request and fault, which the proofs of the server and of   *)
(* the client rest on.                                                     *)
(***************************************************************************)
EXTENDS Users, SequenceTheorems, WellFoundedInduction, TLAPS

(* A non-empty set of naturals has a least element, and Min is that. *)
LEMMA MinProperties ==
  ASSUME NEW S, S \subseteq Nat, S # {}
  PROVE  Min(S) \in S /\ \A x \in S : Min(S) =< x
<1> DEFINE Less == {ss \in Nat \X Nat : ss[1] < ss[2]}
<1>1. IsWellFoundedOn(Less, Nat)
  BY NatLessThanWellFounded, Zenon DEF OpToRel
<1>2. PICK x \in S : \A y \in S : ~ (<<y, x>> \in Less)
  <2> HIDE DEF Less
  <2> QED BY <1>1, WFMin
<1>3. \A y \in S : x =< y
  <2> SUFFICES ASSUME NEW y \in S, y < x
               PROVE  FALSE
    OBVIOUS
  <2>1. <<y, x>> \in Less
    OBVIOUS
  <2> HIDE DEF Less
  <2>2. QED
    BY <2>1, <1>2
<1>4. QED
  BY <1>3 DEF Min

(* What the builders return is a message of the protocol. *)
LEMMA ServerResponseType ==
  ASSUME NEW type \in MsgType, NEW rc \in RespCode
  PROVE  build_server_response(type, rc) \in Response
  BY DEF build_server_response, Response

(* The answer to a registration or a login that succeeds. *)
LEMMA UserResponseType ==
  ASSUME NEW type \in MsgType, NEW id \in Nat, NEW name \in Name
  PROVE  build_user_response(type, id, name) \in Response
  BY ServerResponseType DEF build_user_response, build_server_response, Response, RespCode

(* The two notifications, for a sender with a real name. *)
LEMMA NotificationType ==
  ASSUME NEW sender \in Name, NEW to \in Name, NEW content \in Content
  PROVE  /\ build_world_broadcast_notification(sender, content) \in Response
         /\ build_p2p_broadcast_notification(sender, to, content) \in Response
  BY DEF build_world_broadcast_notification, build_p2p_broadcast_notification,
         build_server_response, Response, RespCode, MsgType, BroadcastTag

(* get_user_by_username returns one of its three codes and, with 1, a row. *)
LEMMA GetUserProperties ==
  ASSUME NEW d \in Seq(User), NEW lower, NEW fault
  PROVE  LET r == get_user_by_username(d, lower, fault) IN
         /\ r.rc \in {-1, 0, 1}
         /\ r.rc = 1 => r.id \in Matches(d, lower)
<1>1. Matches(d, lower) # {} => Min(Matches(d, lower)) \in Matches(d, lower)
  <2>1. Matches(d, lower) \subseteq Nat
    BY DEF Matches
  <2>2. QED
    BY <2>1, MinProperties
<1>2. QED
  BY <1>1 DEF get_user_by_username

(* register_user keeps a table of users and answers with a message. *)
LEMMA RegisterType ==
  ASSUME NEW d \in Seq(User), NEW req \in Request, NEW fault
  PROVE  LET r == register_user(d, req, fault) IN
         r.db \in Seq(User) /\ r.response \in Response
<1>1. Len(d) + 1 \in Nat
  OBVIOUS
<1>2. Append(d, [username |-> req.username, password |-> req.password]) \in Seq(User)
  BY DEF User, Request
<1>3. QED
  BY <1>1, <1>2, ServerResponseType, UserResponseType, GetUserProperties
  DEF register_user, MsgType, RespCode, Request

(* login_user answers with a message and, if it accepts, with a row's id. *)
LEMMA LoginType ==
  ASSUME NEW d \in Seq(User), NEW req \in Request, NEW fault
  PROVE  LET r == login_user(d, req, fault) IN
         r.response \in Response /\ (r.id # 0 => r.id \in DOMAIN d)
<1> DEFINE found == get_user_by_username(d, string_to_lower[req.username], fault)
<1>1. found.rc \in {-1, 0, 1} /\ (found.rc = 1 => found.id \in DOMAIN d)
  BY GetUserProperties DEF Matches
<1>2. ASSUME found.rc = 1
      PROVE  build_user_response("LOGIN", found.id, d[found.id].username) \in Response
  <2>1. found.id \in Nat /\ d[found.id] \in User
    BY <1>1, <1>2
  <2>2. d[found.id].username \in Name
    BY <2>1 DEF User
  <2>3. QED
    BY <2>1, <2>2, UserResponseType DEF MsgType
<1>3. \A rc \in RespCode : build_server_response("LOGIN", rc) \in Response
  BY ServerResponseType DEF MsgType
<1>4. QED
  BY <1>1, <1>2, <1>3 DEF login_user, RespCode, Request

-----------------------------------------------------------------------------
(* The row that a registration adds. *)
NewRow(req) == [username |-> req.username, password |-> req.password]

(* register_user either leaves the table and answers without an id, or has *)
(* found no such name, adds one row and answers with its id.               *)
LEMMA RegisterOutcome ==
  ASSUME NEW d \in Seq(User), NEW req \in Request, NEW fault
  PROVE  LET r == register_user(d, req, fault) IN
         \/ r.db = d /\ r.response.user_id = 0
         \/ /\ r.db = Append(d, NewRow(req))
            /\ r.response = build_user_response("REGISTER", Len(d) + 1, req.username)
            /\ fault = "step" \/ Matches(d, string_to_lower[req.username]) = {}
<1> DEFINE lower == string_to_lower[req.username]
           found == get_user_by_username(d, lower, fault)
<1>1. found.rc = 0 => fault = "step" \/ Matches(d, lower) = {}
  BY DEF get_user_by_username
<1>2. found.rc \in {-1, 0, 1}
  BY GetUserProperties
<1>3. \A rc : build_server_response("REGISTER", rc).user_id = 0
  BY DEF build_server_response
<1> HIDE DEF found
<1>4. register_user(d, req, fault) =
        LET fails(rc) == [db |-> d, response |-> build_server_response("REGISTER", rc)]
        IN CASE ~req.parses -> fails("RESP_ERROR_MALFORMED")
             [] req.parses /\ found.rc = 1 -> fails("RESP_ERROR_USER_EXISTS")
             [] req.parses /\ found.rc = -1 -> fails("RESP_ERROR_INTERNAL")
             [] req.parses /\ found.rc = 0 /\ InsertFails(d, req.username, fault) ->
                  fails("RESP_ERROR_INTERNAL")
             [] OTHER ->
                  [db |-> Append(d, NewRow(req)),
                   response |-> build_user_response("REGISTER", Len(d) + 1, req.username)]
  BY DEF register_user, found, NewRow
<1>5. req.parses \in BOOLEAN
  BY DEF Request
<1>6. QED
  BY <1>1, <1>2, <1>3, <1>4, <1>5

(* login_user refuses without an id, or answers with id and name of a row. *)
LEMMA LoginOutcome ==
  ASSUME NEW d \in Seq(User), NEW req \in Request, NEW fault
  PROVE  LET r == login_user(d, req, fault) IN
         \/ r.id = 0 /\ r.response.user_id = 0 /\ r.response.rc # "RESP_OK"
         \/ /\ r.id \in DOMAIN d
            /\ r.response = build_user_response("LOGIN", r.id, d[r.id].username)
<1> DEFINE found == get_user_by_username(d, string_to_lower[req.username], fault)
<1>1. found.rc \in {-1, 0, 1} /\ (found.rc = 1 => found.id \in DOMAIN d)
  BY GetUserProperties DEF Matches
<1>2. \A rc : /\ build_server_response("LOGIN", rc).user_id = 0
             /\ build_server_response("LOGIN", rc).rc = rc
  BY DEF build_server_response
<1> HIDE DEF found
<1>3. login_user(d, req, fault) =
        LET fails(rc) == [id |-> 0, response |-> build_server_response("LOGIN", rc)]
        IN CASE ~req.parses -> fails("RESP_ERROR_MALFORMED")
             [] req.parses /\ found.rc = 0 -> fails("RESP_ERROR_USER_NOT_FOUND")
             [] req.parses /\ found.rc = -1 -> fails("RESP_ERROR_INTERNAL")
             [] req.parses /\ found.rc = 1 /\ d[found.id].password # req.password ->
                  fails("RESP_ERROR_INVALID_CREDENTIALS")
             [] OTHER ->
                  [id |-> found.id,
                   response |-> build_user_response("LOGIN", found.id,
                                                    d[found.id].username)]
  BY DEF login_user, found
<1>4. req.parses \in BOOLEAN
  BY DEF Request
<1>5. QED
  BY <1>1, <1>2, <1>3, <1>4

=============================================================================
