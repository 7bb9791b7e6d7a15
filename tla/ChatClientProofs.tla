-------------------------- MODULE ChatClientProofs --------------------------
(***************************************************************************)
(* Proofs about the chat client, for every table of users, every set of    *)
(* lines, every capacity and any number of lines and messages.             *)
(*                                                                         *)
(* None of the four invariants is inductive.  That a header without        *)
(* payload never makes the thread read more than has arrived needs the     *)
(* place where the stream was cut (Halves).  That the client's flag is     *)
(* never wrong, and its name the one of its session in the end, needs what *)
(* the two have in common: both are the name of the last successful login  *)
(* among the answers, of those handled for the client and of all that were *)
(* sent for the session (Identities).                                      *)
(***************************************************************************)
EXTENDS ChatClient, UsersProofs

(* The answer to a login that succeeded. *)
IsLogin(m) == m.type = "LOGIN" /\ m.rc = "RESP_OK"

(* name is who one is after the first n messages of s. *)
Identity(s, n, name) ==
  \/ name = None /\ \A i \in 1 .. n : ~IsLogin(s[i])
  \/ \E k \in 1 .. n : /\ IsLogin(s[k]) /\ name = s[k].username /\ name \in Name
                       /\ \A i \in k + 1 .. n : ~IsLogin(s[i])

(* The state of the service. *)
ServiceOK ==
  /\ rows \in Seq(User)
  /\ who \in [{"me", "other"} -> Name \cup {None}]
  /\ inbox \in [{"me", "other"} -> Seq(Response)]
  /\ lost = {"other"}

(* Where the socket thread and the network stand in the stream. *)
Halves ==
  /\ InStep
  /\ spc = "payload" => consumed % 2 = 1
  /\ spc \in {"handle", "login"} => consumed >= 2
  /\ spc = "login" => IsLogin(MessageOf(consumed))
  /\ arrived % 2 = 1 => HasPayload(MessageOf(arrived))
  /\ cut =< 2 * Len(inbox["me"])

(* How many messages the socket thread has handled. *)
Handled == IF spc \in {"handle", "login"} THEN consumed \div 2 - 1 ELSE consumed \div 2

(* The session and the client are who the answers say. *)
Identities ==
  /\ \A i \in DOMAIN inbox["me"] : IsLogin(inbox["me"][i]) => inbox["me"][i].username \in Name
  /\ Identity(inbox["me"], Len(inbox["me"]), who["me"])
  /\ Identity(inbox["me"], Handled, username)
  /\ is_auth = (username # None)

(* A chat request is made only with IS_AUTH set. *)
ChatHeld ==
  /\ mpc = "name" => is_auth
  /\ mpc \in {"name", "write"} => request \in Request
  /\ mpc = "write" /\ request.type = "CHAT" => who["me"] # None

(* The inductive invariant. *)
ClientInv ==
  /\ ClientTypeOK /\ ServiceOK /\ Halves /\ Identities /\ ChatHeld /\ ChatAuthorised

-----------------------------------------------------------------------------
(* Halves: the arithmetic of headers and payloads. *)
LEMMA HalfArithmetic ==
  ASSUME NEW h \in Nat
  PROVE  /\ h % 2 \in {0, 1} /\ h \div 2 \in Nat /\ h = 2 * (h \div 2) + (h % 2)
         /\ (h + 1) % 2 = 1 - (h % 2) /\ (h + 2) % 2 = h % 2
         /\ (h + 1) \div 2 = h \div 2 + (h % 2) /\ (h + 2) \div 2 = h \div 2 + 1
<1>1. h % 2 \in {0, 1}
  OBVIOUS
<1>2. h \div 2 \in Nat
  OBVIOUS
<1>3. h = 2 * (h \div 2) + (h % 2)
  OBVIOUS
<1>4. (h + 1) % 2 = 1 - (h % 2)
  OBVIOUS
<1>5. (h + 2) % 2 = h % 2
  OBVIOUS
<1>6. (h + 1) \div 2 = h \div 2 + (h % 2)
  OBVIOUS
<1>7. (h + 2) \div 2 = h \div 2 + 1
  OBVIOUS
<1>8. QED
  BY <1>1, <1>2, <1>3, <1>4, <1>5, <1>6, <1>7

(* Two names that the same messages give are one. *)
LEMMA IdentityUnique ==
  ASSUME NEW s, NEW n \in Nat, NEW a, NEW b, Identity(s, n, a), Identity(s, n, b)
  PROVE  a = b
<1>1. CASE \A i \in 1 .. n : ~IsLogin(s[i])
  BY <1>1 DEF Identity
<1>2. CASE \E i \in 1 .. n : IsLogin(s[i])
  <2>1. PICK k \in 1 .. n : IsLogin(s[k]) /\ a = s[k].username
                            /\ \A i \in k + 1 .. n : ~IsLogin(s[i])
    BY <1>2 DEF Identity
  <2>2. PICK l \in 1 .. n : IsLogin(s[l]) /\ b = s[l].username
                            /\ \A i \in l + 1 .. n : ~IsLogin(s[i])
    BY <1>2 DEF Identity
  <2>3. k = l
    BY <2>1, <2>2
  <2>4. QED
    BY <2>1, <2>2, <2>3
<1>3. QED
  BY <1>1, <1>2

(* A message more, not yet counted, changes nothing. *)
LEMMA IdentityAppend ==
  ASSUME NEW s \in Seq(Response), NEW m \in Response, NEW n \in 0 .. Len(s), NEW a,
         Identity(s, n, a)
  PROVE  Identity(Append(s, m), n, a)
<1>1. \A i \in 1 .. n : Append(s, m)[i] = s[i]
  BY AppendProperties, LenProperties
<1>2. QED
  BY <1>1 DEF Identity

(* The next message, if it is the answer to a login, gives the name. *)
LEMMA IdentityNext ==
  ASSUME NEW s, NEW n \in Nat, NEW a, Identity(s, n, a)
  PROVE  /\ ~IsLogin(s[n + 1]) => Identity(s, n + 1, a)
         /\ IsLogin(s[n + 1]) /\ s[n + 1].username \in Name =>
              Identity(s, n + 1, s[n + 1].username)
<1>1. ASSUME ~IsLogin(s[n + 1]) PROVE Identity(s, n + 1, a)
  <2>1. \A i \in 1 .. n + 1 : i \in 1 .. n \/ i = n + 1
    OBVIOUS
  <2>2. \A k \in 1 .. n : k \in 1 .. n + 1 /\ \A i \in k + 1 .. n + 1 : i \in k + 1 .. n \/ i = n + 1
    OBVIOUS
  <2>3. QED
    BY <1>1, <2>1, <2>2 DEF Identity
<1>2. ASSUME IsLogin(s[n + 1]), s[n + 1].username \in Name
      PROVE  Identity(s, n + 1, s[n + 1].username)
  <2>1. n + 1 \in 1 .. n + 1 /\ (n + 1) + 1 .. n + 1 = {}
    OBVIOUS
  <2>2. QED
    BY <1>2, <2>1 DEF Identity
<1>3. QED
  BY <1>1, <1>2

(* Who is known after n messages is known after more. *)
LEMMA IdentityKnown ==
  ASSUME NEW s, NEW n \in Nat, NEW l \in Nat, n =< l, NEW a, NEW b,
         Identity(s, n, a), Identity(s, l, b), a # None
  PROVE  a \in Name /\ b # None
<1>1. PICK k \in 1 .. n : IsLogin(s[k]) /\ a = s[k].username /\ a \in Name
  BY DEF Identity
<1>2. k \in 1 .. l
  OBVIOUS
<1>3. b \in Name
  BY <1>1, <1>2 DEF Identity
<1>4. QED
  BY <1>1, <1>3, ProtocolAssumption

-----------------------------------------------------------------------------
(* The operators of the service are those of Users. *)
LEMMA SameUsers ==
  /\ \A type, rc : Service!build_server_response(type, rc) = build_server_response(type, rc)
  /\ \A s, c : Service!build_world_broadcast_notification(s, c) =
                 build_world_broadcast_notification(s, c)
  /\ \A s, r, c : Service!build_p2p_broadcast_notification(s, r, c) =
                    build_p2p_broadcast_notification(s, r, c)
  /\ \A d, req, fault : Service!register_user(d, req, fault) = register_user(d, req, fault)
  /\ \A d, req, fault : Service!login_user(d, req, fault) = login_user(d, req, fault)
<1>1. \A type, rc : Service!build_server_response(type, rc) = build_server_response(type, rc)
  BY DEF Service!build_server_response, build_server_response
<1>2. \A d, l, fault :
        Service!get_user_by_username(d, l, fault) = get_user_by_username(d, l, fault)
  BY DEF Service!get_user_by_username, get_user_by_username, Service!Matches, Matches,
         Service!Min, Min
<1>3. \A d, n, fault : Service!InsertFails(d, n, fault) = InsertFails(d, n, fault)
  BY DEF Service!InsertFails, InsertFails
<1>4. \A type, id, name :
        Service!build_user_response(type, id, name) = build_user_response(type, id, name)
  BY <1>1 DEF Service!build_user_response, build_user_response
<1>5. ASSUME NEW d, NEW req, NEW fault
      PROVE  /\ Service!register_user(d, req, fault) = register_user(d, req, fault)
             /\ Service!login_user(d, req, fault) = login_user(d, req, fault)
  <2>1. Service!get_user_by_username(d, string_to_lower[req.username], fault) =
          get_user_by_username(d, string_to_lower[req.username], fault)
    BY <1>2
  <2>2. Service!InsertFails(d, req.username, fault) = InsertFails(d, req.username, fault)
    BY <1>3
  <2>3. QED
    BY <1>1, <1>4, <2>1, <2>2
    DEF Service!register_user, register_user, Service!login_user, login_user
<1>6. /\ \A s, c : Service!build_world_broadcast_notification(s, c) =
                     build_world_broadcast_notification(s, c)
      /\ \A s, r, c : Service!build_p2p_broadcast_notification(s, r, c) =
                        build_p2p_broadcast_notification(s, r, c)
  BY <1>1 DEF Service!build_world_broadcast_notification, build_world_broadcast_notification,
              Service!build_p2p_broadcast_notification, build_p2p_broadcast_notification
<1>7. QED
  BY <1>1, <1>5, <1>6

(* What a step of the service does to this session: nothing, or one more   *)
(* message, which says who it is now when it is the answer to a login.     *)
Silent == inbox'["me"] = inbox["me"] /\ who'["me"] = who["me"]

Told(m) ==
  /\ m \in Response
  /\ inbox'["me"] = Append(inbox["me"], m)
  /\ IF IsLogin(m) THEN who'["me"] = m.username /\ m.username \in Name
                   ELSE who'["me"] = who["me"]

(* A message sent to some sessions, this one among them or not. *)
LEMMA SendLemma ==
  ASSUME ServiceOK, NEW ss, NEW m \in Response, Service!Send(ss, m)
  PROVE  /\ inbox' \in [{"me", "other"} -> Seq(Response)]
         /\ inbox'["me"] = IF "me" \in ss THEN Append(inbox["me"], m) ELSE inbox["me"]
<1>1. \A s \in {"me", "other"} : inbox[s] \in Seq(Response) /\ Append(inbox[s], m) \in Seq(Response)
  BY AppendProperties DEF ServiceOK
<1>2. QED
  BY <1>1 DEF Service!Send, ServiceOK

(* An answer that is not to a login, and nobody logs in. *)
LEMMA PlainAnswer ==
  ASSUME ServiceOK, NEW ss, NEW m \in Response, Service!Send(ss, m), ~IsLogin(m),
         rows' \in Seq(User), who' = who, lost' = lost
  PROVE  /\ ServiceOK'
         /\ Silent \/ Told(m)
<1>1. ServiceOK'
  BY SendLemma DEF ServiceOK
<1>2. QED
  BY <1>1, SendLemma DEF Told, Silent

(* What the service of a request, of this session or of another, does. *)
LEMMA ServeLemma ==
  ASSUME ServiceOK, NEW s \in {"me", "other"}, NEW req \in Request, Service!Serve(s, req)
  PROVE  /\ ServiceOK'
         /\ Silent \/ \E m : Told(m)
<1>1. \A type \in MsgType, rc \in RespCode :
        /\ build_server_response(type, rc) \in Response
        /\ ~IsLogin(build_server_response(type, rc)) \/ (type = "LOGIN" /\ rc = "RESP_OK")
  BY ServerResponseType DEF build_server_response, IsLogin
<1>2. who[s] \in Name \cup {None} /\ rows \in Seq(User)
  BY DEF ServiceOK
<1>3. CASE Service!Register(s, req)
  <2>1. PICK fault \in {} \cup {"none"} :
          /\ rows' = Service!register_user(rows, req, fault).db
          /\ Service!Send({s}, Service!register_user(rows, req, fault).response)
    BY <1>3 DEF Service!Register
  <2>2. PICK r : r = register_user(rows, req, fault)
    OBVIOUS
  <2>3. rows' = r.db /\ Service!Send({s}, r.response)
    BY <2>1, <2>2, SameUsers
  <2>4. r.db \in Seq(User) /\ r.response \in Response
    BY <1>2, <2>2, RegisterType
  <2>5. ~IsLogin(r.response)
    <3>1. \A rc : ~IsLogin(build_server_response("REGISTER", rc))
      BY DEF IsLogin, build_server_response
    <3>2. \A id, name : ~IsLogin(build_user_response("REGISTER", id, name))
      BY DEF IsLogin, build_server_response, build_user_response
    <3>3. QED
      BY <2>2, <3>1, <3>2 DEF register_user
  <2>6. QED
    BY <1>3, <2>3, <2>4, <2>5, PlainAnswer DEF Service!Register
<1>4. CASE Service!Login(s, req)
  <2>1. PICK fault \in {} \cup {"none"} :
          LET result == Service!login_user(rows, req, fault)
          IN /\ Service!Send({s}, result.response)
             /\ who' = [who EXCEPT ![s] = IF result.id = 0 THEN @
                                          ELSE rows[result.id].username]
    BY <1>4 DEF Service!Login
  <2>2. PICK r : r = login_user(rows, req, fault)
    OBVIOUS
  <2>3. /\ Service!Send({s}, r.response)
        /\ who' = [who EXCEPT ![s] = IF r.id = 0 THEN @ ELSE rows[r.id].username]
    BY <2>1, <2>2, SameUsers
  <2>4. r.response \in Response /\ (r.id # 0 => r.id \in DOMAIN rows)
    BY <1>2, <2>2, LoginType
  <2>5. r.id # 0 => rows[r.id].username \in Name
    <3>1. r.id # 0 => rows[r.id] \in User
      BY <1>2, <2>4
    <3>2. QED
      BY <3>1 DEF User
  <2>6. rows' = rows /\ lost' = lost
    BY <1>4 DEF Service!Login
  <2>7. /\ who' \in [{"me", "other"} -> Name \cup {None}]
        /\ who'["me"] = IF s = "me" /\ r.id # 0 THEN rows[r.id].username ELSE who["me"]
    BY <2>3, <2>5 DEF ServiceOK
  <2>8. ServiceOK'
    BY <2>3, <2>4, <2>6, <2>7, SendLemma DEF ServiceOK
  <2>9. CASE s = "other"
    BY <2>3, <2>4, <2>7, <2>8, <2>9, SendLemma DEF Silent
  <2>10. CASE s = "me"
    <3>1. inbox'["me"] = Append(inbox["me"], r.response)
      BY <2>3, <2>4, <2>10, SendLemma
    <3>2. \/ r.id = 0 /\ r.response.rc # "RESP_OK"
          \/ /\ r.id \in DOMAIN rows
             /\ r.response = build_user_response("LOGIN", r.id, rows[r.id].username)
      BY <1>2, <2>2, LoginOutcome
    <3>3. CASE r.id = 0 /\ r.response.rc # "RESP_OK"
      BY <2>4, <2>7, <2>8, <3>1, <3>3 DEF Told, IsLogin
    <3>4. CASE /\ r.id \in DOMAIN rows
               /\ r.response = build_user_response("LOGIN", r.id, rows[r.id].username)
      <4>1. IsLogin(r.response) /\ r.response.username = rows[r.id].username /\ r.id # 0
        BY <1>2, <3>4 DEF IsLogin, build_user_response, build_server_response
      <4>2. QED
        BY <2>4, <2>5, <2>7, <2>8, <2>10, <3>1, <4>1 DEF Told
    <3>5. QED
      BY <3>2, <3>3, <3>4
  <2>11. QED
    BY <2>9, <2>10
<1>5. ASSUME who[s] # None, Service!Admissible(s, req)
      PROVE  req.content \in Content /\ who[s] \in Name /\ req.recipient \in Name
  BY <1>2, <1>5 DEF Service!Admissible, Service!Empty, Request, Empty
<1>6. \A n, r, c : /\ ~IsLogin(build_world_broadcast_notification(n, c))
                   /\ ~IsLogin(build_p2p_broadcast_notification(n, r, c))
  BY DEF build_world_broadcast_notification, build_p2p_broadcast_notification,
         build_server_response, IsLogin
<1>7. CASE Service!World(s, req)
  <2>1. PICK m : m = build_world_broadcast_notification(who[s], req.content)
    OBVIOUS
  <2>2. Service!Send(Service!Members, m) /\ m \in Response /\ ~IsLogin(m)
    BY <1>5, <1>6, <1>7, <2>1, SameUsers, NotificationType DEF Service!World
  <2>3. QED
    BY <1>2, <1>7, <2>2, PlainAnswer DEF Service!World
<1>8. CASE Service!P2P(s, req)
  <2>1. who[s] # None /\ Service!Admissible(s, req) /\ UNCHANGED <<rows, who, lost>>
    BY <1>8 DEF Service!P2P
  <2>2. \E ss, m : m \in Response /\ ~IsLogin(m) /\ Service!Send(ss, m)
    <3>1. PICK m : m = build_p2p_broadcast_notification(who[s], req.recipient, req.content)
      OBVIOUS
    <3>2. m \in Response /\ ~IsLogin(m)
      BY <1>5, <1>6, <2>1, <3>1, NotificationType
    <3>3. PICK e : e = build_server_response("CHAT", "RESP_ERROR_USER_NOT_FOUND")
      OBVIOUS
    <3>4. e \in Response /\ ~IsLogin(e)
      BY <1>1, <3>3 DEF MsgType, RespCode
    <3>5. \/ \E u \in {"me", "other"} : Service!Send({s, u}, m)
          \/ Service!Send({s}, e)
      BY <1>8, <3>1, <3>3, SameUsers DEF Service!P2P, Service!Members
    <3>6. QED
      BY <3>2, <3>4, <3>5
  <2>3. QED
    BY <1>2, <2>1, <2>2, PlainAnswer
<1>9. CASE Service!Refuse(s, req)
  <2>1. PICK type \in MsgType, rc \in RespCode :
          rc # "RESP_OK" /\ Service!Send({s}, build_server_response(type, rc))
    BY <1>9, SameUsers DEF Service!Refuse, MsgType, RespCode
  <2>2. QED
    BY <1>1, <1>2, <1>9, <2>1, PlainAnswer DEF Service!Refuse
<1>10. QED
  BY <1>3, <1>4, <1>7, <1>8, <1>9 DEF Service!Serve

-----------------------------------------------------------------------------
(* The messages that are handled are among those sent. *)
LEMMA HandledLemma ==
  ASSUME ClientTypeOK, ServiceOK, Halves
  PROVE  /\ Handled \in Nat /\ Handled =< Len(inbox["me"])
         /\ inbox["me"] \in Seq(Response) /\ Len(inbox["me"]) \in Nat
<1>1. inbox["me"] \in Seq(Response) /\ Len(inbox["me"]) \in Nat
  BY LenProperties DEF ServiceOK
<1>2. consumed \in Nat /\ consumed =< 2 * Len(inbox["me"])
  BY <1>1 DEF ClientTypeOK
<1>3. /\ consumed \div 2 \in Nat /\ consumed = 2 * (consumed \div 2) + (consumed % 2)
      /\ consumed % 2 \in {0, 1}
  BY <1>2, HalfArithmetic
<1>4. spc \in {"handle", "login"} => consumed \div 2 >= 1
  BY <1>2, <1>3 DEF Halves
<1>5. QED
  BY <1>1, <1>2, <1>3, <1>4 DEF Handled

(* The client that takes itself for logged in is. *)
LEMMA AuthKnown ==
  ASSUME ClientInv, is_auth
  PROVE  username \in Name /\ who["me"] # None
<1>1. Handled \in Nat /\ Handled =< Len(inbox["me"]) /\ Len(inbox["me"]) \in Nat
  BY HandledLemma DEF ClientInv
<1>2. /\ Identity(inbox["me"], Handled, username) /\ username # None
      /\ Identity(inbox["me"], Len(inbox["me"]), who["me"])
  BY DEF ClientInv, Identities
<1>3. QED
  BY <1>1, <1>2, IdentityKnown

(* Steps of the main thread leave the stream and the identities alone. *)
LEMMA StreamFrame ==
  ASSUME ClientInv,
         UNCHANGED <<spc, username, is_auth, arrived, consumed, cut, rows, who, inbox, lost>>
  PROVE  ServiceOK' /\ Halves' /\ Identities'
  BY DEF ClientInv, ServiceOK, Halves, InStep, MessageOf, Identities, Handled

(* A step of the service that adds at most a message to the inbox. *)
LEMMA ServedStep ==
  ASSUME ClientInv, ServiceOK',
         Silent \/ \E m : Told(m),
         UNCHANGED <<spc, username, is_auth, arrived, consumed, cut>>
  PROVE  /\ Halves' /\ Identities'
         /\ Len(inbox'["me"]) >= Len(inbox["me"])
         /\ who["me"] # None => who'["me"] # None
<1>1. CASE Silent
  <2>1. Halves' /\ Identities'
    BY <1>1 DEF Silent, ClientInv, Halves, InStep, MessageOf, Identities, Handled
  <2>2. QED
    BY <1>1, <2>1, HandledLemma DEF Silent, ClientInv
<1>2. ASSUME NEW m, Told(m)
      PROVE  /\ Halves' /\ Identities'
             /\ Len(inbox'["me"]) >= Len(inbox["me"])
             /\ who["me"] # None => who'["me"] # None
  <2>1. PICK s \in Seq(Response) : s = inbox["me"]
    BY DEF ClientInv, ServiceOK
  <2>2. m \in Response /\ inbox'["me"] = Append(s, m)
    BY <1>2, <2>1 DEF Told
  <2>3. /\ Len(s) \in Nat /\ Len(Append(s, m)) = Len(s) + 1
        /\ \A i \in 1 .. Len(s) : Append(s, m)[i] = s[i]
        /\ Append(s, m)[Len(s) + 1] = m
        /\ DOMAIN s = 1 .. Len(s) /\ DOMAIN Append(s, m) = 1 .. Len(s) + 1
    BY <2>2, AppendProperties, LenProperties
  <2>4. \A h \in Nat : h >= 1 /\ h =< 2 * Len(s) => (h + 1) \div 2 \in 1 .. Len(s)
    BY <2>3
  <2>5. \A h \in Nat : h >= 1 /\ h =< 2 * Len(s) => MessageOf(h)' = MessageOf(h)
    BY <2>1, <2>2, <2>3, <2>4 DEF MessageOf
  <2>6. /\ arrived \in Nat /\ arrived =< 2 * Len(s) /\ consumed \in Nat
        /\ consumed =< 2 * Len(s) /\ cut \in Nat /\ cut =< 2 * Len(s)
    BY <2>1, <2>3 DEF ClientInv, ClientTypeOK, Halves
  <2>7. Halves'
    <3>1. arrived % 2 = 1 => MessageOf(arrived)' = MessageOf(arrived)
      <4>1. arrived % 2 = 1 => arrived >= 1
        BY <2>6
      <4>2. QED
        BY <2>5, <2>6, <4>1
    <3>2. spc = "login" => MessageOf(consumed)' = MessageOf(consumed)
      BY <2>5, <2>6 DEF ClientInv, Halves
    <3>3. cut =< 2 * Len(inbox'["me"])
      BY <2>2, <2>3, <2>6
    <3>4. arrived' = arrived /\ consumed' = consumed /\ spc' = spc /\ cut' = cut
      OBVIOUS
    <3>5. MessageOf(arrived)' = inbox'["me"][(arrived' + 1) \div 2]
          /\ MessageOf(consumed)' = inbox'["me"][(consumed' + 1) \div 2]
      BY DEF MessageOf
    <3>6. QED
      BY <3>1, <3>2, <3>3, <3>4 DEF ClientInv, Halves, InStep
  <2>8. Identities'
    <3>1. /\ Identity(s, Len(s), who["me"]) /\ Identity(s, Handled, username)
          /\ \A i \in 1 .. Len(s) : IsLogin(s[i]) => s[i].username \in Name
          /\ is_auth = (username # None)
      BY <2>1, <2>3 DEF ClientInv, Identities
    <3>2. Handled \in 0 .. Len(s) /\ Len(s) \in 0 .. Len(s)
      BY <2>1, <2>3, HandledLemma DEF ClientInv
    <3>3. Identity(Append(s, m), Len(s), who["me"]) /\ Identity(Append(s, m), Handled, username)
      BY <2>2, <3>1, <3>2, IdentityAppend
    <3>4. Identity(Append(s, m), Len(s) + 1, who'["me"])
      BY <1>2, <2>3, <3>3, IdentityNext DEF Told
    <3>5. \A i \in 1 .. Len(s) + 1 : IsLogin(Append(s, m)[i]) => Append(s, m)[i].username \in Name
      BY <1>2, <2>3, <3>1 DEF Told
    <3>6. Handled' = Handled
      BY DEF Handled
    <3>7. QED
      BY <2>2, <2>3, <3>1, <3>3, <3>4, <3>5, <3>6 DEF Identities
  <2>9. QED
    BY <1>2, <2>1, <2>2, <2>3, <2>7, <2>8, ProtocolAssumption DEF Told
<1>3. QED
  BY <1>1, <1>2

-----------------------------------------------------------------------------
(* The main thread. *)
LEMMA MainInvariant ==
  ASSUME ClientInv, MainStep \/ Getline \/ GetlineEof
  PROVE  ClientInv'
<1> USE DEF NoRequest
<1>1. /\ UNCHANGED <<spc, username, is_auth, arrived, consumed, cut, server>>
      /\ UNCHANGED <<nother, rows, who, inbox, lost>>
  BY DEF MainStep, LoopTest, CopyName, WriteRequest, WriteSigpipe, SignalThread, JoinThread,
         Getline, GetlineEof, threadVars, connVars, netVars, serviceVars
<1>2. ServiceOK' /\ Halves' /\ Identities'
  BY <1>1, StreamFrame
<1> SUFFICES ClientTypeOK' /\ ChatHeld' /\ ChatAuthorised'
  BY <1>2 DEF ClientInv
<1>3. CASE LoopTest \/ WriteSigpipe \/ SignalThread \/ JoinThread \/ GetlineEof
  <2>1. UNCHANGED <<request, up, err, nlines, g_keep_running>>
        /\ shutdown_pipe' \in BOOLEAN
        /\ process' \in {"running", "exited", "aborted", "killed"}
    BY <1>3 DEF LoopTest, WriteSigpipe, SignalThread, JoinThread, GetlineEof, threadVars,
                connVars, netVars, ClientInv, ClientTypeOK
  <2>2. mpc' = mpc \/ mpc' \in {"getline", "signal", "join"}
    BY <1>3 DEF LoopTest, WriteSigpipe, SignalThread, JoinThread, GetlineEof, threadVars
  <2>3. QED
    BY <1>1, <2>1, <2>2 DEF ClientInv, ClientTypeOK, ChatHeld, ChatAuthorised
<1>4. CASE Getline
  <2>1. PICK line \in Lines :
          /\ mpc' = command_shell(line)
          /\ request' = IF mpc' \in {"name", "write"}
                        THEN [line.request EXCEPT !.parses = line.fits] ELSE NoRequest
    BY <1>4 DEF Getline
  <2>2. line \in Line
    BY ClientAssumption
  <2>3. /\ line.request \in Request /\ line.fits \in BOOLEAN
        /\ IsUserLine(line) => line.request.type # "CHAT"
    BY <2>2 DEF Line, IsUserLine
  <2>4. /\ [line.request EXCEPT !.parses = line.fits] \in Request
        /\ [line.request EXCEPT !.parses = line.fits].type = line.request.type
    BY <2>3 DEF Request
  <2>5. /\ mpc' \in {"signal", "name", "write", "loop"}
        /\ mpc' = "name" => is_auth
        /\ mpc' = "write" => IsUserLine(line)
    BY <2>1 DEF command_shell, IsChatLine, IsUserLine
  <2>6. /\ mpc' \in {"name", "write"} => request' \in Request
        /\ mpc' \notin {"name", "write"} => request' = NoRequest
        /\ mpc' = "write" => request'.type # "CHAT"
    BY <2>1, <2>3, <2>4, <2>5
  <2>7. /\ UNCHANGED <<g_keep_running, shutdown_pipe, process, up, err>>
        /\ nlines' = nlines + 1
    BY <1>4 DEF Getline, netVars
  <2>8. QED
    BY <1>1, <2>5, <2>6, <2>7 DEF ClientInv, ClientTypeOK, ChatHeld, ChatAuthorised
<1>5. CASE CopyName
  <2>1. mpc = "name" /\ is_auth /\ request \in Request
    BY <1>5 DEF CopyName, ClientInv, ChatHeld
  <2>2. username \in Name /\ who["me"] # None
    BY <2>1, AuthKnown
  <2>3. PICK name \in Name :
          \/ mpc' = "write" /\ request' = [request EXCEPT !.username = name]
          \/ mpc' = "loop" /\ request' = NoRequest
    BY <1>5, <2>2 DEF CopyName
  <2>4. [request EXCEPT !.username = name] \in Request
    BY <2>1 DEF Request
  <2>5. UNCHANGED <<g_keep_running, shutdown_pipe, process, up, err, nlines>>
    BY <1>5 DEF CopyName, netVars
  <2>6. QED
    BY <1>1, <2>2, <2>3, <2>4, <2>5 DEF ClientInv, ClientTypeOK, ChatHeld, ChatAuthorised
<1>6. CASE WriteRequest
  <2>1. mpc = "write" /\ mpc' = "loop" /\ request' = NoRequest /\ request \in Request
        /\ UNCHANGED <<g_keep_running, shutdown_pipe, process, nlines>>
    BY <1>6 DEF WriteRequest, ClientInv, ChatHeld
  <2>2. err' \in {"ok", "ECONNRESET", "EPIPE"}
    BY <1>6 DEF WriteRequest, ClientInv, ClientTypeOK
  <2>3. up' \in Seq(Request) /\ ChatAuthorised'
    <3>1. CASE up' = up
      BY <1>1, <3>1 DEF ClientInv, ClientTypeOK, ChatAuthorised
    <3>2. CASE up' = Append(up, request)
      <4>1. PICK s \in Seq(Request) : s = up
        BY DEF ClientInv, ClientTypeOK
      <4>2. /\ Append(s, request) \in Seq(Request)
            /\ \A i \in DOMAIN Append(s, request) :
                 \/ i \in DOMAIN s /\ Append(s, request)[i] = s[i]
                 \/ Append(s, request)[i] = request
        BY <2>1, AppendProperties
      <4>3. QED
        BY <1>1, <2>1, <3>2, <4>1, <4>2 DEF ClientInv, ChatAuthorised, ChatHeld
    <3>3. QED
      BY <1>6, <3>1, <3>2 DEF WriteRequest
  <2>4. QED
    BY <1>1, <2>1, <2>2, <2>3 DEF ClientInv, ClientTypeOK, ChatHeld
<1>7. QED
  BY <1>3, <1>4, <1>5, <1>6 DEF MainStep

(* The socket thread: where it stands in the stream. *)
LEMMA SocketHalves ==
  ASSUME ClientInv, SocketStep
  PROVE  /\ consumed' \in Nat /\ consumed' =< arrived
         /\ Halves'
         /\ Handled' = IF (spc = "handle" /\ spc' = "poll") \/ spc = "login"
                       THEN Handled + 1 ELSE Handled
<1>1. /\ UNCHANGED <<arrived, cut, inbox>>
      /\ arrived \in Nat /\ consumed \in Nat /\ consumed =< arrived
      /\ arrived =< 2 * Len(inbox["me"])
  BY DEF SocketStep, PollThread, ReadHeader, ReadPayload, ReadFails, HandleResponse, SetUser,
         netVars, serviceVars, ClientInv, ClientTypeOK
<1>2. /\ spc \in {"poll", "header", "handle", "login"} => consumed % 2 = 0
      /\ spc = "payload" => consumed % 2 = 1
      /\ spc \in {"handle", "login"} => consumed >= 2
      /\ arrived % 2 = 1 => HasPayload(MessageOf(arrived))
      /\ cut =< 2 * Len(inbox["me"])
  BY DEF ClientInv, Halves, InStep
<1>3. \A h : MessageOf(h)' = inbox["me"][(h' + 1) \div 2]
  BY <1>1 DEF MessageOf
<1>4. /\ (arrived % 2 = 1 => HasPayload(MessageOf(arrived)))'
      /\ (cut =< 2 * Len(inbox["me"]))'
  BY <1>1, <1>2 DEF MessageOf, HasPayload
<1>5. CASE PollThread \/ ReadFails
  <2>1. spc' \in {"done", "header"} /\ consumed' = consumed /\ spc \notin {"handle", "login"}
        /\ (spc' = "header" => spc = "poll")
    BY <1>5 DEF PollThread, ReadFails, netVars
  <2>2. QED
    BY <1>1, <1>2, <1>4, <2>1 DEF Halves, InStep, Handled
<1>6. CASE ReadHeader
  <2>1. spc = "header" /\ consumed < arrived /\ consumed % 2 = 0
    BY <1>2, <1>6 DEF ReadHeader
  <2>2. /\ (consumed + 1) % 2 = 1 /\ (consumed + 2) % 2 = 0
        /\ (consumed + 1) \div 2 = consumed \div 2
        /\ (consumed + 2) \div 2 = consumed \div 2 + 1 /\ consumed \div 2 \in Nat
    BY <1>1, <2>1, HalfArithmetic
  <2>3. CASE HasPayload(MessageOf(consumed + 1))
    <3>1. spc' = "payload" /\ consumed' = consumed + 1
      BY <1>6, <2>3 DEF ReadHeader
    <3>2. QED
      BY <1>1, <1>4, <2>1, <2>2, <3>1 DEF Halves, InStep, Handled
  <2>4. CASE ~HasPayload(MessageOf(consumed + 1))
    <3>1. spc' = "handle" /\ consumed' = consumed + 2
      BY <1>6, <2>4 DEF ReadHeader
    <3>2. arrived # consumed + 1
      BY <1>2, <2>2, <2>4
    <3>3. QED
      BY <1>1, <1>4, <2>1, <2>2, <3>1, <3>2 DEF Halves, InStep, Handled
  <2>5. QED
    BY <2>3, <2>4
<1>7. CASE ReadPayload
  <2>1. spc = "payload" /\ consumed < arrived /\ consumed % 2 = 1 /\ spc' = "handle"
        /\ consumed' = consumed + 1
    BY <1>2, <1>7 DEF ReadPayload
  <2>2. /\ (consumed + 1) % 2 = 0 /\ (consumed + 1) \div 2 = consumed \div 2 + 1
        /\ consumed \div 2 \in Nat /\ consumed >= 1
    BY <1>1, <2>1, HalfArithmetic
  <2>3. QED
    BY <1>1, <1>4, <2>1, <2>2 DEF Halves, InStep, Handled
<1>8. CASE HandleResponse
  <2>1. spc = "handle" /\ consumed' = consumed
        /\ spc' = IF IsLogin(MessageOf(consumed)) THEN "login" ELSE "poll"
    BY <1>8 DEF HandleResponse, IsLogin, netVars
  <2>2. MessageOf(consumed)' = MessageOf(consumed)
    BY <1>1, <2>1 DEF MessageOf
  <2>3. consumed \div 2 \in Nat
    BY <1>1, HalfArithmetic
  <2>4. QED
    BY <1>1, <1>2, <1>4, <2>1, <2>2, <2>3 DEF Halves, InStep, Handled, IsLogin
<1>9. CASE SetUser
  <2>1. spc = "login" /\ consumed' = consumed /\ spc' = "poll"
    BY <1>9 DEF SetUser, netVars
  <2>2. consumed \div 2 \in Nat
    BY <1>1, HalfArithmetic
  <2>3. QED
    BY <1>1, <1>2, <1>4, <2>1, <2>2 DEF Halves, InStep, Handled
<1>10. QED
  BY <1>5, <1>6, <1>7, <1>8, <1>9 DEF SocketStep

(* The socket thread: who the client is. *)
LEMMA SocketInvariant ==
  ASSUME ClientInv, SocketStep
  PROVE  ClientInv'
<1>1. /\ UNCHANGED <<mpc, request, g_keep_running, shutdown_pipe, process, up, arrived>>
      /\ UNCHANGED <<server, cut, nlines, nother, rows, who, inbox, lost>>
  BY DEF SocketStep, PollThread, ReadHeader, ReadPayload, ReadFails, HandleResponse, SetUser,
         netVars, serviceVars
<1>2. /\ consumed' \in Nat /\ consumed' =< arrived /\ Halves'
      /\ Handled' = IF (spc = "handle" /\ spc' = "poll") \/ spc = "login"
                    THEN Handled + 1 ELSE Handled
  BY SocketHalves
<1>3. spc' \in {"poll", "header", "payload", "handle", "login", "done"}
      /\ err' \in {"ok", "ECONNRESET", "EPIPE"}
  BY DEF SocketStep, PollThread, ReadHeader, ReadPayload, ReadFails, HandleResponse, SetUser,
         netVars, ClientInv, ClientTypeOK
<1>4. /\ Handled \in Nat /\ Handled =< Len(inbox["me"]) /\ Len(inbox["me"]) \in Nat
      /\ inbox["me"] \in Seq(Response)
  BY HandledLemma DEF ClientInv
<1>5. spc \in {"handle", "login"} =>
        MessageOf(consumed) = inbox["me"][Handled + 1] /\ Handled + 1 \in DOMAIN inbox["me"]
  <2>1. consumed \in Nat /\ consumed =< 2 * Len(inbox["me"])
    BY <1>4 DEF ClientInv, ClientTypeOK
  <2>2. spc \in {"handle", "login"} => consumed % 2 = 0 /\ consumed >= 2
    BY DEF ClientInv, Halves, InStep
  <2>3. /\ (consumed + 1) \div 2 = consumed \div 2 + (consumed % 2)
        /\ consumed = 2 * (consumed \div 2) + (consumed % 2) /\ consumed \div 2 \in Nat
    BY <2>1, HalfArithmetic
  <2>4. QED
    BY <1>4, <2>1, <2>2, <2>3, LenProperties DEF MessageOf, Handled
<1>6. Identity(inbox["me"], Handled, username)
  BY DEF ClientInv, Identities
<1>7. Identity(inbox["me"], Handled', username') /\ is_auth' = (username' # None)
      /\ username' \in Name \cup {None} /\ is_auth' \in BOOLEAN /\ (is_auth => is_auth')
  <2>1. CASE spc = "login"
    <3>1. username' = MessageOf(consumed).username /\ is_auth' = TRUE
      BY <2>1 DEF SocketStep, PollThread, ReadHeader, ReadPayload, ReadFails, HandleResponse,
                  SetUser
    <3>2. IsLogin(MessageOf(consumed))
      BY <2>1 DEF ClientInv, Halves
    <3>3. username' \in Name
      BY <1>5, <2>1, <3>1, <3>2 DEF ClientInv, Identities
    <3>4. Identity(inbox["me"], Handled + 1, username')
      BY <1>4, <1>5, <1>6, <2>1, <3>1, <3>2, <3>3, IdentityNext
    <3>5. QED
      BY <1>2, <2>1, <3>1, <3>3, <3>4, ProtocolAssumption
  <2>2. CASE spc # "login"
    <3>1. UNCHANGED <<username, is_auth>>
      BY <2>2 DEF SocketStep, PollThread, ReadHeader, ReadPayload, ReadFails, HandleResponse,
                  SetUser, connVars
    <3>2. CASE spc = "handle" /\ spc' = "poll"
      <4>1. ~IsLogin(MessageOf(consumed))
        BY <3>2 DEF SocketStep, PollThread, ReadHeader, ReadPayload, ReadFails, HandleResponse,
                    SetUser, IsLogin
      <4>2. Identity(inbox["me"], Handled + 1, username)
        BY <1>4, <1>5, <1>6, <3>2, <4>1, IdentityNext
      <4>3. QED
        BY <1>2, <3>1, <3>2, <4>2 DEF ClientInv, ClientTypeOK, Identities
    <3>3. CASE ~(spc = "handle" /\ spc' = "poll")
      BY <1>2, <1>6, <2>2, <3>1, <3>3 DEF ClientInv, ClientTypeOK, Identities
    <3>4. QED
      BY <3>2, <3>3
  <2>3. QED
    BY <2>1, <2>2
<1>8. Identities'
  BY <1>1, <1>7 DEF ClientInv, Identities
<1>9. ClientTypeOK'
  BY <1>1, <1>2, <1>3, <1>7 DEF ClientInv, ClientTypeOK
<1>10. ServiceOK' /\ ChatHeld' /\ ChatAuthorised'
  BY <1>1, <1>7 DEF ClientInv, ServiceOK, ChatHeld, ChatAuthorised
<1>11. QED
  BY <1>2, <1>8, <1>9, <1>10 DEF ClientInv

(* SIGINT in either thread. *)
LEMMA SigintInvariant ==
  ASSUME ClientInv, Sigint
  PROVE  ClientInv'
<1>1. /\ UNCHANGED <<mpc, request, username, is_auth, shutdown_pipe, up, arrived, consumed>>
      /\ UNCHANGED <<server, cut, err, nlines, nother, rows, who, inbox, lost>>
      /\ g_keep_running' = FALSE
  BY DEF Sigint, SigintMain, SigintSocket, threadVars, connVars, netVars, serviceVars
<1>2. /\ process' \in {"running", "exited", "aborted", "killed"}
      /\ spc' = spc \/ (spc \in {"poll", "payload"} /\ spc' = "done")
  <2>1. CASE SigintMain
    BY <2>1 DEF SigintMain, threadVars, ClientInv, ClientTypeOK
  <2>2. CASE SigintSocket
    <3>1. process' = process /\ process \in {"running", "exited", "aborted", "killed"}
      BY <2>2 DEF SigintSocket, ClientInv, ClientTypeOK
    <3>2. spc' = spc \/ (spc \in {"poll", "payload"} /\ spc' = "done")
      BY <2>2 DEF SigintSocket
    <3>3. QED
      BY <3>1, <3>2
  <2>3. QED
    BY <2>1, <2>2 DEF Sigint
<1>3. Halves' /\ Identities'
  BY <1>1, <1>2 DEF ClientInv, Halves, InStep, MessageOf, Identities, Handled
<1>4. ClientTypeOK' /\ ServiceOK' /\ ChatHeld' /\ ChatAuthorised'
  <2>1. {is_auth', g_keep_running', shutdown_pipe'} \subseteq BOOLEAN
    <3>1. {is_auth, g_keep_running, shutdown_pipe} \subseteq BOOLEAN
      BY DEF ClientInv, ClientTypeOK
    <3>2. QED
      BY <1>1, <3>1, Zenon
  <2>2. spc' \in {"poll", "header", "payload", "handle", "login", "done"}
    BY <1>2 DEF ClientInv, ClientTypeOK
  <2>3. ClientTypeOK'
    BY <1>1, <1>2, <2>1, <2>2 DEF ClientInv, ClientTypeOK
  <2>4. QED
    BY <1>1, <2>3 DEF ClientInv, ServiceOK, ChatHeld, ChatAuthorised
<1>5. QED
  BY <1>3, <1>4 DEF ClientInv

(* The server, for this session and for another. *)
LEMMA ServerInvariant ==
  ASSUME ClientInv, ServeRequest \/ ServeOther
  PROVE  ClientInv'
<1>1. /\ UNCHANGED <<mpc, spc, request, username, is_auth, g_keep_running, shutdown_pipe>>
      /\ UNCHANGED <<process, arrived, consumed, server, cut, err, nlines>>
      /\ nother' \in Nat
  BY DEF ServeRequest, ServeOther, threadVars, connVars, netVars, ClientInv, ClientTypeOK
<1>2. PICK s \in {"me", "other"}, req \in Request : Service!Serve(s, req)
  <2>1. CASE ServeRequest
    <3>1. up \in Seq(Request) /\ up # << >>
      BY <2>1 DEF ServeRequest, ClientInv, ClientTypeOK
    <3>2. Head(up) \in Request
      BY <3>1, HeadTailProperties
    <3>3. QED
      BY <2>1, <3>2 DEF ServeRequest
  <2>2. CASE ServeOther
    BY <2>2, ClientAssumption DEF ServeOther
  <2>3. QED
    BY <2>1, <2>2
<1>3. /\ ServiceOK'
      /\ Silent \/ \E m : Told(m)
  BY <1>2, ServeLemma DEF ClientInv
<1>4. /\ Halves' /\ Identities'
      /\ Len(inbox'["me"]) >= Len(inbox["me"])
      /\ who["me"] # None => who'["me"] # None
  BY <1>1, <1>3, ServedStep
<1>5. /\ up' \in Seq(Request)
      /\ \A i \in DOMAIN up' : \E j \in DOMAIN up : up'[i] = up[j]
  <2>1. CASE ServeRequest
    <3>1. PICK q \in Seq(Request) : q = up /\ q # << >>
      BY <2>1 DEF ServeRequest, ClientInv, ClientTypeOK
    <3>2. /\ Tail(q) \in Seq(Request)
          /\ \A i \in DOMAIN Tail(q) : i + 1 \in DOMAIN q /\ Tail(q)[i] = q[i + 1]
      BY <3>1, HeadTailProperties
    <3>3. QED
      BY <2>1, <3>1, <3>2 DEF ServeRequest
  <2>2. CASE ServeOther
    BY <2>2 DEF ServeOther, netVars, ClientInv, ClientTypeOK
  <2>3. QED
    BY <2>1, <2>2
<1>6. ChatHeld' /\ ChatAuthorised'
  BY <1>1, <1>4, <1>5 DEF ClientInv, ChatHeld, ChatAuthorised
<1>7. ClientTypeOK'
  <2>1. Len(inbox["me"]) \in Nat /\ Len(inbox'["me"]) \in Nat
    BY <1>3, LenProperties DEF ClientInv, ServiceOK
  <2>2. arrived =< 2 * Len(inbox'["me"])
    BY <1>4, <2>1 DEF ClientInv, ClientTypeOK
  <2>3. QED
    BY <1>1, <1>5, <2>2 DEF ClientInv, ClientTypeOK
<1>8. QED
  BY <1>3, <1>4, <1>6, <1>7 DEF ClientInv

(* The network and the end of the server. *)
LEMMA NetworkInvariant ==
  ASSUME ClientInv, Deliver \/ ServerExit \/ KernelReset
  PROVE  ClientInv'
<1>1. /\ UNCHANGED <<mpc, spc, request, username, is_auth, g_keep_running, shutdown_pipe>>
      /\ UNCHANGED <<process, consumed, nlines, nother, rows, who, inbox, lost>>
  BY DEF Deliver, ServerExit, KernelReset, threadVars, connVars, serviceVars
<1>2. Len(inbox["me"]) \in Nat
  BY LenProperties DEF ClientInv, ServiceOK
<1>3. /\ arrived \in Nat /\ cut \in Nat /\ consumed \in Nat /\ consumed =< arrived
      /\ arrived =< 2 * Len(inbox["me"]) /\ cut =< 2 * Len(inbox["me"])
      /\ arrived % 2 = 1 => HasPayload(MessageOf(arrived))
  BY <1>2 DEF ClientInv, ClientTypeOK, Halves
<1>4. /\ arrived' \in Nat /\ consumed =< arrived' /\ arrived' =< 2 * Len(inbox["me"])
      /\ (arrived % 2 = 1 => HasPayload(MessageOf(arrived)))'
  <2>1. CASE Deliver
    <3>1. arrived < 2 * Len(inbox["me"])
      BY <1>2, <1>3, <2>1 DEF Deliver
    <3>2. CASE arrived % 2 = 0 /\ ~HasPayload(MessageOf(arrived + 1))
      <4>1. arrived' = arrived + 2 /\ arrived' % 2 = 0
        BY <1>3, <2>1, <3>2 DEF Deliver
      <4>2. arrived + 2 =< 2 * Len(inbox["me"])
        BY <1>2, <1>3, <3>1, <3>2
      <4>3. QED
        BY <1>3, <4>1, <4>2
    <3>3. CASE ~(arrived % 2 = 0 /\ ~HasPayload(MessageOf(arrived + 1)))
      <4>1. arrived' = arrived + 1
        BY <2>1, <3>3 DEF Deliver
      <4>2. (arrived + 1) % 2 = 1 => arrived % 2 = 0
        BY <1>3, HalfArithmetic
      <4>3. MessageOf(arrived)' = MessageOf(arrived + 1)
        BY <1>1, <4>1 DEF MessageOf
      <4>4. QED
        BY <1>2, <1>3, <3>1, <3>3, <4>1, <4>2, <4>3 DEF HasPayload
    <3>4. QED
      BY <3>2, <3>3
  <2>2. CASE ServerExit \/ KernelReset
    <3>1. arrived' = arrived
      BY <2>2 DEF ServerExit, KernelReset
    <3>2. QED
      BY <1>1, <1>3, <3>1 DEF MessageOf, HasPayload
  <2>3. QED
    BY <2>1, <2>2
<1>5. cut' \in Nat /\ cut' =< 2 * Len(inbox["me"])
  <2>1. CASE Deliver \/ KernelReset
    BY <1>3, <2>1 DEF Deliver, KernelReset
  <2>2. CASE ServerExit
    <3>1. cut' = arrived \/ cut' \in arrived .. 2 * Len(inbox["me"])
      BY <2>2 DEF ServerExit
    <3>2. QED
      BY <1>2, <1>3, <3>1
  <2>3. QED
    BY <2>1, <2>2
<1>6. /\ up' = up \/ up' = << >>
      /\ server' \in {"open", "closed", "reset"} /\ err' \in {"ok", "ECONNRESET", "EPIPE"}
  BY DEF Deliver, ServerExit, KernelReset, ClientInv, ClientTypeOK
<1>7. up' \in Seq(Request) /\ ChatAuthorised'
  <2>1. << >> \in Seq(Request) /\ DOMAIN << >> = {}
    BY EmptySeq
  <2>2. QED
    BY <1>1, <1>6, <2>1 DEF ClientInv, ClientTypeOK, ChatAuthorised
<1>8. Halves' /\ Identities'
  BY <1>1, <1>4, <1>5 DEF ClientInv, Halves, InStep, MessageOf, Identities, Handled
<1>9. ClientTypeOK' /\ ServiceOK' /\ ChatHeld'
  BY <1>1, <1>4, <1>5, <1>6, <1>7 DEF ClientInv, ClientTypeOK, ServiceOK, ChatHeld
<1>10. QED
  BY <1>7, <1>8, <1>9 DEF ClientInv

(* The initial state. *)
LEMMA ClientInitInvariant == Init => ClientInv
<1> SUFFICES ASSUME Init PROVE ClientInv
  OBVIOUS
<1>1. inbox["me"] = << >> /\ Len(inbox["me"]) = 0 /\ DOMAIN inbox["me"] = {}
  BY EmptySeq DEF Init
<1>2. << >> \in Seq(Response) /\ << >> \in Seq(Request) /\ DOMAIN << >> = {}
  BY EmptySeq
<1>3. ServiceOK
  <2>1. inbox \in [{"me", "other"} -> Seq(Response)]
    BY <1>2 DEF Init
  <2>2. QED
    BY <2>1, ClientAssumption DEF Init, ServiceOK
<1>4. ClientTypeOK
  <2>1. /\ mpc = "loop" /\ spc = "poll" /\ request = None /\ username = None
        /\ is_auth = FALSE /\ g_keep_running = TRUE /\ shutdown_pipe = FALSE
        /\ process = "running" /\ server = "open" /\ err = "ok"
    BY DEF Init, NoRequest
  <2>2. arrived = 0 /\ consumed = 0 /\ cut = 0 /\ nlines = 0 /\ nother = 0 /\ up = << >>
    BY DEF Init
  <2>3. consumed =< arrived /\ arrived =< 2 * Len(inbox["me"])
    BY <1>1, <2>2
  <2>4. {is_auth, g_keep_running, shutdown_pipe} \subseteq BOOLEAN
    BY <2>1, Zenon
  <2>5. QED
    BY <1>2, <2>1, <2>2, <2>3, <2>4 DEF ClientTypeOK, NoRequest
<1>5. Halves
  BY <1>1 DEF Init, Halves, InStep
<1>6. Identities
  <2>1. Handled = 0 /\ who["me"] = None
    BY DEF Init, Handled
  <2>2. Identity(inbox["me"], 0, None)
    BY DEF Identity
  <2>3. QED
    BY <1>1, <2>1, <2>2 DEF Init, Identities
<1>7. ChatHeld /\ ChatAuthorised
  BY <1>2 DEF Init, ChatHeld, ChatAuthorised
<1>8. QED
  BY <1>3, <1>4, <1>5, <1>6, <1>7 DEF ClientInv

(* Every step keeps the invariant. *)
LEMMA ClientStepInvariant == ClientInv /\ [Next]_vars => ClientInv'
<1> SUFFICES ASSUME ClientInv, [Next]_vars PROVE ClientInv'
  OBVIOUS
<1>1. CASE UNCHANGED vars
  BY <1>1
  DEF vars, threadVars, connVars, netVars, serviceVars, ClientInv, ClientTypeOK, ServiceOK,
      Halves, InStep, MessageOf, Identities, Handled, ChatHeld, ChatAuthorised
<1>2. QED
  BY <1>1, MainInvariant, SocketInvariant, SigintInvariant, ServerInvariant, NetworkInvariant
  DEF Next, UserIdle, Ended

(* The invariant holds of every state of the client and its connection. *)
THEOREM ClientInvariance == Spec => []ClientInv
  BY ClientInitInvariant, ClientStepInvariant, PTL DEF Spec

(***************************************************************************)
(* The client is type correct, and its socket thread never reads a half    *)
(* that has not arrived, nor the network delivers one that was not sent.   *)
(***************************************************************************)
THEOREM ClientTypeCorrect == Spec => []ClientTypeOK
<1>1. ClientInv => ClientTypeOK
  BY DEF ClientInv
<1>2. QED
  BY <1>1, ClientInvariance, PTL

(***************************************************************************)
(* read_one_message looks for a header only where a message begins,        *)
(* wherever the connection is cut and whichever thread a signal meets.     *)
(***************************************************************************)
THEOREM ClientStaysInStep == Spec => []InStep
<1>1. ClientInv => InStep
  BY DEF ClientInv, Halves
<1>2. QED
  BY <1>1, ClientInvariance, PTL

(***************************************************************************)
(* IS_AUTH, which the main thread reads without the mutex, is never ahead  *)
(* of the server: the chat requests on their way meet a session that has   *)
(* logged in, however many logins are under way.                           *)
(***************************************************************************)
THEOREM ChatIsAuthorised == Spec => []ChatAuthorised
<1>1. ClientInv => ChatAuthorised
  BY DEF ClientInv
<1>2. QED
  BY <1>1, ClientInvariance, PTL

(***************************************************************************)
(* When handle_server_response has handled all that was sent, user and     *)
(* IS_AUTH of conn_t are those of the session at the server, for any       *)
(* number of logins as any users.                                          *)
(***************************************************************************)
THEOREM IdentitiesAgree == Spec => []IdentityAgrees
<1>1. ClientInv => IdentityAgrees
  <2> SUFFICES ASSUME ClientInv, spc \notin {"handle", "login"},
                      consumed = 2 * Len(inbox["me"])
               PROVE  username = who["me"] /\ is_auth = (who["me"] # None)
    BY DEF IdentityAgrees
  <2>1. Len(inbox["me"]) \in Nat
    BY HandledLemma DEF ClientInv
  <2>2. Handled = Len(inbox["me"])
    <3>1. \A n \in Nat : (2 * n) \div 2 = n
      OBVIOUS
    <3>2. QED
      BY <2>1, <3>1 DEF Handled
  <2>3. username = who["me"]
    BY <2>1, <2>2, IdentityUnique DEF ClientInv, Identities
  <2>4. QED
    BY <2>3 DEF ClientInv, Identities
<1>2. QED
  BY <1>1, ClientInvariance, PTL
=============================================================================
