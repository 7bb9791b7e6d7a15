-------------------------- MODULE ChatServerProofs --------------------------
(***************************************************************************)
(* Proofs, for every value of the constants, that ChatServer is type       *)
(* correct, that flags and epoll agree about the mode of every connection  *)
(* and that no wake-up is lost.                                            *)
(*                                                                         *)
(* NoLostWakeup is not inductive.  That a handler drains the right queue   *)
(* needs the mode it was entered with (Handling), which the mask of epoll  *)
(* must match (ModeAgrees), for a descriptor that is a connection          *)
(* (Watched); that a batch loses nothing needs the last batch to be empty  *)
(* (Handling).  The types of notifications need AuthNamed.  That a restart *)
(* wakes nothing needs the old process to have left no descriptor (Down).  *)
(* The invariant is the conjunction of all of these.                       *)
(***************************************************************************)
EXTENDS ChatServerProperties, UsersProofs

(* The descriptors epoll watches are open connections to peers. *)
Watched == \A f \in Fd : mask[f] # "none" => f \in fds /\ peerOf[f] \in Peer

(* The handler the loop is in, the connection it works on and its mode. *)
Handling ==
  /\ pc \in {"wait", "loop", "accept"} => cur = ListenFd
  /\ pc \in {"read", "serve", "write", "check"} => cur \in Fd
  /\ pc \in {"read", "serve"} => has_flag(cur, "WANT_READ")
  /\ pc = "write" => has_flag(cur, "WANT_WRITE")
  /\ pc = "wait" => todo = {}

(* The slot of an authenticated connection holds a real user name. *)
AuthNamed == \A f \in Fd : has_flag(f, "IS_AUTH") => usernames[f] \in Name

(* A process that has ended watches nothing and has no backlog. *)
Down == server # "running" => backlog = << >> /\ \A f \in Fd : mask[f] = "none"

(* The inductive invariant. *)
IInv ==
  /\ TypeOK
  /\ Watched
  /\ ModeAgrees
  /\ Handling
  /\ AuthNamed
  /\ Down
  /\ NoLostWakeup

-----------------------------------------------------------------------------
(* What the service of one request may do to flags and epoll: put other    *)
(* connections in write mode, or authenticate its own.                     *)
ServeEffect ==
  \/ \E fs \in SUBSET Recipients : set_connection_state(fs, "WRITING")
  \/ /\ flags' = [flags EXCEPT ![cur] = @ \cup {"IS_AUTH"}]
     /\ UNCHANGED epollVars
  \/ UNCHANGED <<flags, epollVars>>

(* A private message reaches at most one of the other connections. *)
LEMMA P2PRecipientsLemma ==
  ASSUME NEW req
  PROVE  P2PRecipients(req) \in SUBSET Recipients
<1> DEFINE named == {f \in Recipients : usernames[f] = req.recipient}
<1>1. named \subseteq Nat
  BY KernelAssumption DEF Recipients
<1>2. named # {} => Min(named) \in named
  BY <1>1, MinProperties
<1>3. QED
  BY <1>2 DEF P2PRecipients

(* TryOneRequest has no other effect on flags and epoll. *)
LEMMA ServeEffectLemma ==
  ASSUME TryOneRequest
  PROVE  ServeEffect
<1> DEFINE req == Head(incoming[cur])
<1>1. ASSUME NEW response, NEW fs \in SUBSET Recipients, Respond(response, fs)
      PROVE  ServeEffect
  BY <1>1 DEF Respond, ServeEffect
<1>2. CASE ServeRegister(req)
  BY <1>1, <1>2 DEF ServeRegister
<1>3. CASE ServeLogin(req)
  BY <1>3 DEF ServeLogin, Authenticate, ServeEffect
<1>4. CASE ServeRefused(req)
  BY <1>1, <1>4 DEF ServeRefused
<1>5. CASE ServeWorld(req)
  BY <1>1, <1>5 DEF ServeWorld
<1>6. CASE ServeP2P(req)
  <2>1. P2PRecipients(req) \in SUBSET Recipients
    BY P2PRecipientsLemma
  <2>2. QED
    BY <1>1, <1>6, <2>1 DEF ServeP2P
<1>7. CASE ServeUnknown(req)
  BY <1>1, <1>7 DEF ServeUnknown
<1>8. QED
  BY <1>2, <1>3, <1>4, <1>5, <1>6, <1>7 DEF TryOneRequest

(* The service of a request keeps the types of what it changes. *)
LEMMA ServeType ==
  ASSUME TypeOK, AuthNamed, cur \in Fd, TryOneRequest
  PROVE  TypeOK'
<1> DEFINE req == Head(incoming[cur])
<1>1. req \in Request /\ incoming' \in [Fd -> Seq(Request)]
  BY DEF TypeOK, TableTypeOK, TryOneRequest
<1>2. flags' \in [Fd -> SUBSET Flag]
  BY ServeEffectLemma, ZenonT(60)
  DEF ServeEffect, TypeOK, TableTypeOK, set_connection_state, NextFlags, Flag
<1>3. mask' \in [Fd -> {"none", "in", "out"}] /\ ready' \subseteq Fd \cup {ListenFd}
  BY ServeEffectLemma
  DEF ServeEffect, TypeOK, KernelTypeOK, epollVars, set_connection_state,
      epoll_ctl_mod, Recipients
<1>4. ASSUME NEW response \in Response, NEW fs, Respond(response, fs)
      PROVE  outgoing' \in [Fd -> Seq(Response)]
  BY <1>4 DEF Respond, TypeOK, TableTypeOK
<1>5. \A rc \in RespCode, type \in MsgType : build_server_response(type, rc) \in Response
  BY ServerResponseType
<1>6. BroadcastVerdict(req) \in RespCode
  BY DEF BroadcastVerdict, RespCode
<1>7. BroadcastVerdict(req) = "RESP_OK" => usernames[cur] \in Name /\ req.content \in Content
  BY <1>1 DEF BroadcastVerdict, AuthNamed, Request
<1>8. BroadcastVerdict(req) = "RESP_OK" =>
        /\ build_world_broadcast_notification(usernames[cur], req.content) \in Response
        /\ build_p2p_broadcast_notification(usernames[cur], req.recipient, req.content)
             \in Response
  BY <1>1, <1>7, NotificationType DEF Request
<1> DEFINE Goal == /\ outgoing' \in [Fd -> Seq(Response)]
                   /\ user_ids' \in [Fd -> Nat]
                   /\ usernames' \in [Fd -> SlotName]
                   /\ db' \in Seq(User)
                   /\ HistoryTypeOK'
<1>9. ASSUME ServeRegister(req) PROVE Goal
  <2>1. PICK fault : LET result == register_user(db, req, fault)
                     IN db' = result.db /\ Respond(result.response, {})
    BY <1>9 DEF ServeRegister
  <2>2. db' \in Seq(User) /\ outgoing' \in [Fd -> Seq(Response)]
    BY <1>1, <1>4, <2>1, RegisterType DEF TypeOK, TableTypeOK
  <2>3. QED
    BY <1>9, <2>2 DEF ServeRegister, TypeOK, TableTypeOK, HistoryTypeOK, history
<1>10. ASSUME ServeLogin(req) PROVE Goal
  <2>1. PICK fault :
          LET result == login_user(db, req, fault)
          IN /\ outgoing' = [outgoing EXCEPT ![cur] = Append(@, result.response)]
             /\ IF result.id # 0
                THEN Authenticate(result.id)
                ELSE UNCHANGED <<flags, user_ids, usernames, joined, idents>>
    BY <1>10 DEF ServeLogin
  <2> DEFINE result == login_user(db, req, fault)
  <2>2. result.response \in Response /\ (result.id # 0 => result.id \in DOMAIN db)
    BY <1>1, LoginType DEF TypeOK, TableTypeOK
  <2> HIDE DEF result
  <2>3. outgoing' \in [Fd -> Seq(Response)]
    BY <2>1, <2>2 DEF TypeOK, TableTypeOK, result
  <2>4. CASE result.id # 0
    <3>1. result.id \in Nat /\ db[result.id].username \in Name
      <4>1. result.id \in Nat /\ db[result.id] \in User
        BY <2>2, <2>4 DEF TypeOK, TableTypeOK
      <4>2. QED
        BY <4>1 DEF User
    <3>2. Authenticate(result.id)
      BY <2>1, <2>4 DEF result
    <3>3. Len(log) \in Nat
      BY DEF TypeOK, HistoryTypeOK
    <3>4. user_ids' \in [Fd -> Nat] /\ usernames' \in [Fd -> SlotName]
      BY <3>1, <3>2 DEF Authenticate, TypeOK, TableTypeOK, SlotName
    <3>5. joined' \in [Fd -> Nat] /\ idents' \in [Fd -> SUBSET Name]
      BY <3>1, <3>2, <3>3 DEF Authenticate, TypeOK, HistoryTypeOK
    <3>6. QED
      BY <1>10, <2>3, <3>4, <3>5
      DEF ServeLogin, TypeOK, TableTypeOK, HistoryTypeOK
  <2>5. CASE result.id = 0
    BY <1>10, <2>1, <2>3, <2>5
    DEF ServeLogin, TypeOK, TableTypeOK, HistoryTypeOK, result
  <2>6. QED
    BY <2>4, <2>5
<1>11. ASSUME ServeRefused(req) PROVE Goal
  BY <1>4, <1>5, <1>6, <1>11
  DEF ServeRefused, MsgType, TypeOK, TableTypeOK, HistoryTypeOK, history
<1>12. ASSUME ServeWorld(req) PROVE Goal
  <2>1. outgoing' \in [Fd -> Seq(Response)] /\ log' \in Seq(Response)
    BY <1>4, <1>8, <1>12 DEF ServeWorld, TypeOK, HistoryTypeOK
  <2>2. QED
    BY <1>12, <2>1 DEF ServeWorld, TypeOK, TableTypeOK, HistoryTypeOK
<1>13. ASSUME ServeP2P(req) PROVE Goal
  <2>1. outgoing' \in [Fd -> Seq(Response)]
    BY <1>4, <1>5, <1>8, <1>13 DEF ServeP2P, MsgType, RespCode
  <2>2. QED
    BY <1>13, <2>1
    DEF ServeP2P, TypeOK, TableTypeOK, HistoryTypeOK, history
<1>14. ASSUME ServeUnknown(req) PROVE Goal
  BY <1>4, <1>5, <1>14
  DEF ServeUnknown, MsgType, RespCode, TypeOK, TableTypeOK, HistoryTypeOK, history
<1>15. Goal
  BY <1>9, <1>10, <1>11, <1>12, <1>13, <1>14 DEF TryOneRequest
<1>16. QED
  BY <1>1, <1>2, <1>3, <1>15
  DEF TryOneRequest, TypeOK, KernelTypeOK, SocketTypeOK, TableTypeOK, LoopTypeOK,
      sockVars, loopVars

-----------------------------------------------------------------------------
(* While a handler works on a connection, that connection has a peer. *)
LEMMA CurrentPeer ==
  ASSUME TypeOK, Watched, ModeAgrees, Handling, pc \in {"read", "serve", "write"}
  PROVE  cur \in Fd /\ cur \in fds /\ peerOf[cur] \in Peer
  BY DEF Watched, ModeAgrees, Handling, has_flag, TypeOK, KernelTypeOK

(* accept() returns a descriptor that is not in use. *)
LEMMA LowestFree ==
  ASSUME FdsLeft
  PROVE  Min(Fd \ fds) \in Fd \ fds
<1>1. Fd \ fds \subseteq Nat /\ Fd \ fds # {}
  BY KernelAssumption DEF FdsLeft
<1>2. QED
  BY <1>1, MinProperties

(* READING and WRITING move the mode bits and the mask together. *)
LEMMA SetStateLemma ==
  ASSUME TypeOK, Watched, ModeAgrees,
         NEW fs \in SUBSET Fd, \A f \in fs : has_flag(f, "IS_ACTIVE"),
         NEW st \in {"READING", "WRITING"}, set_connection_state(fs, st),
         UNCHANGED <<fds, peerOf>>
  PROVE  /\ Watched' /\ ModeAgrees'
         /\ AuthNamed /\ UNCHANGED usernames => AuthNamed'
<1>1. CASE st = "READING"
  BY <1>1 DEF TypeOK, KernelTypeOK, TableTypeOK, Watched, ModeAgrees, AuthNamed,
              has_flag, set_connection_state, NextFlags, epoll_ctl_mod
<1>2. CASE st = "WRITING"
  BY <1>2 DEF TypeOK, KernelTypeOK, TableTypeOK, Watched, ModeAgrees, AuthNamed,
              has_flag, set_connection_state, NextFlags, epoll_ctl_mod
<1>3. QED
  BY <1>1, <1>2

(* A login gives its connection the name of a row, other requests none. *)
LEMMA ServeNames ==
  ASSUME TypeOK, AuthNamed, cur \in Fd, TryOneRequest
  PROVE  AuthNamed'
<1> DEFINE req == Head(incoming[cur])
<1>1. req \in Request
  BY DEF TypeOK, TableTypeOK, TryOneRequest
<1>2. ASSUME NEW response, NEW fs, Respond(response, fs), UNCHANGED usernames
      PROVE  AuthNamed'
  BY <1>2 DEF Respond, set_connection_state, NextFlags, AuthNamed, has_flag
<1>3. CASE ServeLogin(req)
  <2>1. PICK fault :
          LET result == login_user(db, req, fault)
          IN IF result.id # 0
             THEN Authenticate(result.id)
             ELSE UNCHANGED <<flags, user_ids, usernames, joined, idents>>
    BY <1>3 DEF ServeLogin
  <2> DEFINE result == login_user(db, req, fault)
  <2>2. result.id # 0 => result.id \in DOMAIN db
    BY <1>1, LoginType DEF TypeOK, TableTypeOK
  <2> HIDE DEF result
  <2>3. CASE result.id # 0
    <3>1. db[result.id] \in User
      BY <2>2, <2>3 DEF TypeOK, TableTypeOK
    <3>2. db[result.id].username \in Name
      BY <3>1 DEF User
    <3>3. Authenticate(result.id)
      BY <2>1, <2>3 DEF result
    <3>4. QED
      BY <3>2, <3>3 DEF Authenticate, AuthNamed, has_flag, TypeOK, TableTypeOK
  <2>4. CASE result.id = 0
    BY <2>1, <2>4 DEF result, AuthNamed, has_flag
  <2>5. QED
    BY <2>3, <2>4
<1>4. QED
  BY <1>2, <1>3
  DEF TryOneRequest, ServeRegister, ServeRefused, ServeWorld, ServeP2P, ServeUnknown

-----------------------------------------------------------------------------
(* The steps with which the process ends. *)
EndStep ==
  AcceptError \/ WriteSigpipe \/ sigint_handler \/ EpollInterrupted

(* They leave a process as empty as a new one, and a table of users. *)
LEMMA EndInvariant ==
  ASSUME TypeOK, EndStep
  PROVE  IInv'
<1>1. PICK how \in {"exited", "killed"} : ProcessEnds(how)
  BY DEF EndStep, AcceptError, WriteSigpipe, sigint_handler, EpollInterrupted
<1>2. \A S, T : \A v \in T : [x \in S |-> v] \in [S -> T]
  OBVIOUS
<1>3. << >> \in Seq(Peer) /\ << >> \in Seq(Request) /\ << >> \in Seq(Response)
  BY EmptySeq
<1>4. db' \in Seq(User)
  BY EmptySeq
  DEF EndStep, AcceptError, WriteSigpipe, sigint_handler, EpollInterrupted,
      close_db, TypeOK, TableTypeOK
<1>5. TypeOK'
  <2>1. KernelTypeOK'
    BY <1>1, <1>2, <1>3 DEF ProcessEnds, KernelEnd, KernelTypeOK
  <2>2. SocketTypeOK(Request, Response)'
    BY <1>1, <1>2, <1>3 DEF ProcessEnds, KernelEnd, TypeOK, SocketTypeOK
  <2>3. TableTypeOK'
    BY <1>1, <1>2, <1>3, <1>4, ServerAssumption DEF ProcessEnds, TableTypeOK, SlotName
  <2>4. LoopTypeOK' /\ HistoryTypeOK'
    BY <1>1, <1>2, <1>3 DEF ProcessEnds, LoopTypeOK, HistoryTypeOK
  <2>5. QED
    BY <2>1, <2>2, <2>3, <2>4 DEF TypeOK
<1>6. Watched' /\ ModeAgrees' /\ Handling' /\ AuthNamed' /\ Down'
  BY <1>1
  DEF ProcessEnds, KernelEnd, Watched, ModeAgrees, Handling, AuthNamed, Down, has_flag
<1>7. NoLostWakeup'
  BY <1>1 DEF ProcessEnds, KernelEnd, NoLostWakeup, PollReady
<1>8. QED
  BY <1>5, <1>6, <1>7 DEF IInv

(* A new process finds nothing that the old one watched. *)
LEMMA RestartInvariant ==
  ASSUME TypeOK, Watched, ModeAgrees, Handling, AuthNamed, Down, Restart
  PROVE  IInv'
<1>1. \A S, T : \A v \in T : [x \in S |-> v] \in [S -> T]
  OBVIOUS
<1>2. << >> \in Seq(Response)
  BY EmptySeq
<1>3. TypeOK'
  <2>1. KernelTypeOK'
    BY DEF Restart, KernelRestart, TypeOK, KernelTypeOK, epollVars
  <2>2. SocketTypeOK(Request, Response)'
    BY <1>1, <1>2 DEF Restart, KernelRestart, TypeOK, SocketTypeOK
  <2>3. TableTypeOK'
    BY DEF Restart, TypeOK, TableTypeOK, tableVars
  <2>4. LoopTypeOK' /\ HistoryTypeOK'
    BY DEF Restart, TypeOK, LoopTypeOK, HistoryTypeOK, loopVars, history
  <2>5. QED
    BY <2>1, <2>2, <2>3, <2>4 DEF TypeOK
<1>4. backlog' = << >> /\ \A f \in Fd : mask'[f] = "none"
  BY DEF Restart, KernelRestart, Down, epollVars
<1>5. Watched' /\ ModeAgrees' /\ Handling' /\ AuthNamed' /\ Down'
  BY <1>4
  DEF Restart, KernelRestart, Watched, ModeAgrees, Handling, AuthNamed, Down,
      has_flag, epollVars, tableVars, loopVars
<1>6. NoLostWakeup'
  BY <1>4 DEF NoLostWakeup, PollReady
<1>7. QED
  BY <1>3, <1>5, <1>6 DEF IInv

(* Only a process that runs watches. *)
LEMMA DownStep ==
  ASSUME TypeOK, Watched, ModeAgrees, Handling, AuthNamed, Down, [Next]_vars
  PROVE  Down'
<1>1. CASE EndStep
  BY <1>1, EndInvariant DEF IInv
<1>2. CASE Restart
  BY <1>2, RestartInvariant DEF IInv
<1>3. CASE server = "running" /\ server' = server
  BY <1>3 DEF Down
<1>4. CASE UNCHANGED <<server, backlog, mask>>
  BY <1>4 DEF Down
<1>5. ASSUME NEW p \in Peer, LateDelivery(p)
      PROVE  UNCHANGED <<server, backlog, mask>>
  BY <1>5 DEF LateDelivery, PeerRecv, serverVars
<1>6. ASSUME NEW p \in Peer, NetworkStep(p)
      PROVE  server = "running" /\ server' = server
  BY <1>6 DEF NetworkStep, serverVars
<1>7. UNCHANGED vars => UNCHANGED <<server, backlog, mask>>
  BY DEF vars, kernelVars, serverVars, epollVars
<1>8. ASSUME ServerStep, ~EndStep PROVE server = "running" /\ server' = server
  BY <1>8
  DEF ServerStep, EndStep, LoopStep, AcceptStep, ReadStep, WriteStep, EpollWait,
      DispatchListen, DispatchConnection, RemoveConnection, KeepConnection,
      AcceptConnection, AcceptUnwatched, AcceptDone, ReadSome, ReadAgain,
      ReadClosed, TryOneRequest, ServeDone, WriteSome, WriteAgain, WriteError
<1>9. QED
  BY <1>1, <1>2, <1>3, <1>4, <1>5, <1>6, <1>7, <1>8
  DEF Next, EndStep, Blocked, Stopped

(* Every step keeps the types. *)
LEMMA TypeStep ==
  ASSUME TypeOK, Watched, ModeAgrees, Handling, AuthNamed, Down,
         [Next]_vars
  PROVE  TypeOK'
<1>1. CASE UNCHANGED vars
  BY <1>1
  DEF TypeOK, KernelTypeOK, SocketTypeOK, TableTypeOK, LoopTypeOK,
      HistoryTypeOK, vars, kernelVars, epollVars, sockVars, serverVars,
      tableVars, loopVars, history
<1>2. ASSUME NEW p \in Peer, Connect(p), UNCHANGED serverVars PROVE TypeOK'
  <2>1. KernelTypeOK'
    BY <1>2
    DEF TypeOK, KernelTypeOK, kernelVars, epollVars, Connect
  <2>2. SocketTypeOK(Request, Response)'
    BY <1>2
    DEF TypeOK, SocketTypeOK, kernelVars, sockVars, Connect
  <2>3. TableTypeOK'
    BY <1>2
    DEF TypeOK, TableTypeOK, Flag, serverVars, tableVars, Connect
  <2>4. LoopTypeOK' /\ HistoryTypeOK'
    BY <1>2
    DEF TypeOK, LoopTypeOK, HistoryTypeOK, serverVars, loopVars, history,
        Connect
  <2>5. QED
    BY <2>1, <2>2, <2>3, <2>4 DEF TypeOK
<1>3. ASSUME NEW p \in Peer, PeerSend(p), UNCHANGED serverVars PROVE TypeOK'
  <2>1. KernelTypeOK'
    BY <1>3
    DEF TypeOK, KernelTypeOK, kernelVars, epollVars, PeerSend, Watching
  <2>2. SocketTypeOK(Request, Response)'
    <3>1. PICK req \in Requests[p] : rcvq' = [rcvq EXCEPT ![p] = Append(@, req)]
      BY <1>3 DEF PeerSend
    <3>2. req \in Request
      BY <3>1, ServerAssumption
    <3>3. QED
      BY <1>3, <3>1, <3>2 DEF TypeOK, SocketTypeOK, PeerSend
  <2>3. TableTypeOK'
    BY <1>3
    DEF TypeOK, TableTypeOK, Flag, serverVars, tableVars, PeerSend
  <2>4. LoopTypeOK' /\ HistoryTypeOK'
    BY <1>3
    DEF TypeOK, LoopTypeOK, HistoryTypeOK, serverVars, loopVars, history,
        PeerSend
  <2>5. QED
    BY <2>1, <2>2, <2>3, <2>4 DEF TypeOK
<1>4. ASSUME NEW p \in Peer, PeerRecv(p), UNCHANGED serverVars PROVE TypeOK'
  <2>1. KernelTypeOK'
    BY <1>4
    DEF TypeOK, KernelTypeOK, kernelVars, epollVars, PeerRecv, Watching
  <2>2. SocketTypeOK(Request, Response)'
    BY <1>4
    DEF TypeOK, SocketTypeOK, kernelVars, sockVars, PeerRecv
  <2>3. TableTypeOK'
    BY <1>4
    DEF TypeOK, TableTypeOK, Flag, serverVars, tableVars, PeerRecv
  <2>4. LoopTypeOK' /\ HistoryTypeOK'
    BY <1>4
    DEF TypeOK, LoopTypeOK, HistoryTypeOK, serverVars, loopVars, history,
        PeerRecv
  <2>5. QED
    BY <2>1, <2>2, <2>3, <2>4 DEF TypeOK
<1>5. ASSUME NEW p \in Peer, PeerClose(p), UNCHANGED serverVars PROVE TypeOK'
  BY <1>5
  DEF TypeOK, KernelTypeOK, SocketTypeOK, TableTypeOK, LoopTypeOK,
      HistoryTypeOK, Flag, kernelVars, epollVars, sockVars, serverVars,
      tableVars, loopVars, history, PeerClose, Watching
<1>6. ASSUME NEW p \in Peer, PeerAbort(p), UNCHANGED serverVars PROVE TypeOK'
  <2>1. KernelTypeOK'
    BY <1>6
    DEF TypeOK, KernelTypeOK, kernelVars, epollVars, PeerAbort, Reset, Watching
  <2>2. SocketTypeOK(Request, Response)'
    BY <1>6
    DEF TypeOK, SocketTypeOK, kernelVars, sockVars, PeerAbort, Reset
  <2>3. TableTypeOK'
    BY <1>6
    DEF TypeOK, TableTypeOK, Flag, serverVars, tableVars, PeerAbort, Reset
  <2>4. LoopTypeOK' /\ HistoryTypeOK'
    BY <1>6
    DEF TypeOK, LoopTypeOK, HistoryTypeOK, serverVars, loopVars, history,
        PeerAbort, Reset
  <2>5. QED
    BY <2>1, <2>2, <2>3, <2>4 DEF TypeOK
<1>7. ASSUME NEW p \in Peer, KernelReset(p), UNCHANGED serverVars PROVE TypeOK'
  <2>1. KernelTypeOK'
    BY <1>7
    DEF TypeOK, KernelTypeOK, kernelVars, epollVars, KernelReset, Reset,
        Watching
  <2>2. SocketTypeOK(Request, Response)'
    BY <1>7
    DEF TypeOK, SocketTypeOK, kernelVars, sockVars, KernelReset, Reset
  <2>3. TableTypeOK'
    BY <1>7
    DEF TypeOK, TableTypeOK, Flag, serverVars, tableVars, KernelReset, Reset
  <2>4. LoopTypeOK' /\ HistoryTypeOK'
    BY <1>7
    DEF TypeOK, LoopTypeOK, HistoryTypeOK, serverVars, loopVars, history,
        KernelReset, Reset
  <2>5. QED
    BY <2>1, <2>2, <2>3, <2>4 DEF TypeOK
<1>8. CASE EpollWait
  <2>1. KernelTypeOK'
    BY <1>8
    DEF TypeOK, KernelTypeOK, kernelVars, epollVars, EpollWait, Pollable,
        PollReady
  <2>2. SocketTypeOK(Request, Response)'
    BY <1>8
    DEF TypeOK, SocketTypeOK, kernelVars, sockVars, EpollWait
  <2>3. TableTypeOK'
    BY <1>8
    DEF TypeOK, TableTypeOK, Flag, serverVars, tableVars, EpollWait
  <2>4. LoopTypeOK' /\ HistoryTypeOK'
    BY <1>8
    DEF TypeOK, LoopTypeOK, HistoryTypeOK, KernelTypeOK, serverVars, loopVars,
        history, EpollWait, Pollable
  <2>5. QED
    BY <2>1, <2>2, <2>3, <2>4 DEF TypeOK
<1>9. CASE DispatchListen
  BY <1>9
  DEF TypeOK, KernelTypeOK, SocketTypeOK, TableTypeOK, LoopTypeOK,
      HistoryTypeOK, Flag, kernelVars, epollVars, sockVars, serverVars,
      tableVars, loopVars, history, DispatchListen
<1>10. CASE DispatchConnection
  BY <1>10
  DEF TypeOK, KernelTypeOK, SocketTypeOK, TableTypeOK, LoopTypeOK,
      HistoryTypeOK, Flag, kernelVars, epollVars, sockVars, serverVars,
      tableVars, loopVars, history, DispatchConnection, has_flag
<1>11. CASE RemoveConnection
  <2>0. cur \in Fd
    BY <1>11 DEF RemoveConnection, Handling
  <2>1. QED
    BY <1>11, <2>0
    DEF TypeOK, KernelTypeOK, SocketTypeOK, TableTypeOK, LoopTypeOK,
        HistoryTypeOK, Flag, kernelVars, epollVars, sockVars, serverVars,
        tableVars, loopVars, history, RemoveConnection, remove_connection,
        epoll_ctl_del, EventDone
<1>12. CASE KeepConnection
  BY <1>12
  DEF TypeOK, KernelTypeOK, SocketTypeOK, TableTypeOK, LoopTypeOK,
      HistoryTypeOK, Flag, kernelVars, epollVars, sockVars, serverVars,
      tableVars, loopVars, history, KeepConnection, EventDone
<1>13. CASE AcceptConnection
  <2>1. KernelTypeOK'
    <3>1. PICK f \in Fd, q \in Peer : accept(f, q) /\ add_connection(f, q)
      BY <1>13 DEF AcceptConnection
    <3>2. backlog' \in Seq(Peer)
      BY <3>1 DEF accept, TypeOK, KernelTypeOK
    <3>3. fds' \subseteq Fd /\ peerOf' \in [Fd -> Peer \cup {NoPeer}]
      BY <3>1 DEF accept, TypeOK, KernelTypeOK
    <3>4. mask' \in [Fd -> {"none", "in", "out"}] /\ ready' \subseteq Fd \cup {ListenFd}
      BY <3>1 DEF add_connection, epoll_ctl_add, TypeOK, KernelTypeOK
    <3>5. QED
      BY <3>2, <3>3, <3>4 DEF KernelTypeOK
  <2>2. SocketTypeOK(Request, Response)'
    BY <1>13
    DEF TypeOK, SocketTypeOK, kernelVars, sockVars, AcceptConnection, accept,
        add_connection, ResizeFor
  <2>3. TableTypeOK'
    BY <1>13, KernelAssumption, SMTT(30)
    DEF TypeOK, TableTypeOK, Flag, serverVars, tableVars, AcceptConnection,
        accept, add_connection, ResizeFor
  <2>4. LoopTypeOK' /\ HistoryTypeOK'
    BY <1>13
    DEF TypeOK, LoopTypeOK, HistoryTypeOK, serverVars, loopVars, history,
        AcceptConnection, accept, add_connection, ResizeFor
  <2>5. QED
    BY <2>1, <2>2, <2>3, <2>4 DEF TypeOK
<1>14. CASE AcceptUnwatched
  <2>1. KernelTypeOK'
    BY <1>14
    DEF TypeOK, KernelTypeOK, kernelVars, epollVars, AcceptUnwatched, accept
  <2>2. SocketTypeOK(Request, Response)'
    BY <1>14
    DEF TypeOK, SocketTypeOK, kernelVars, sockVars, AcceptUnwatched, accept
  <2>3. TableTypeOK'
    BY <1>14
    DEF TypeOK, TableTypeOK, Flag, serverVars, tableVars, AcceptUnwatched,
        accept
  <2>4. LoopTypeOK' /\ HistoryTypeOK'
    BY <1>14
    DEF TypeOK, LoopTypeOK, HistoryTypeOK, serverVars, loopVars, history,
        AcceptUnwatched, accept
  <2>5. QED
    BY <2>1, <2>2, <2>3, <2>4 DEF TypeOK
<1>15. CASE AcceptDone
  BY <1>15
  DEF TypeOK, KernelTypeOK, SocketTypeOK, TableTypeOK, LoopTypeOK,
      HistoryTypeOK, Flag, kernelVars, epollVars, sockVars, serverVars,
      tableVars, loopVars, history, AcceptDone, EventDone
<1>16. CASE EndStep
  BY <1>16, EndInvariant DEF IInv
<1>17. CASE ReadSome
  <2>0. cur \in Fd /\ peerOf[cur] \in Peer
    BY <1>17, CurrentPeer DEF ReadSome
  <2>1. KernelTypeOK'
    BY <1>17, <2>0
    DEF TypeOK, KernelTypeOK, kernelVars, epollVars, ReadSome
  <2>2. SocketTypeOK(Request, Response)'
    BY <1>17, <2>0
    DEF TypeOK, SocketTypeOK, kernelVars, sockVars, ReadSome
  <2>3. TableTypeOK'
    BY <1>17, <2>0
    DEF TypeOK, TableTypeOK, SocketTypeOK, Flag, serverVars, tableVars,
        ReadSome
  <2>4. LoopTypeOK' /\ HistoryTypeOK'
    BY <1>17, <2>0
    DEF TypeOK, LoopTypeOK, HistoryTypeOK, serverVars, loopVars, history,
        ReadSome
  <2>5. QED
    BY <2>1, <2>2, <2>3, <2>4 DEF TypeOK
<1>18. CASE ReadAgain
  BY <1>18
  DEF TypeOK, KernelTypeOK, SocketTypeOK, TableTypeOK, LoopTypeOK,
      HistoryTypeOK, Flag, kernelVars, epollVars, sockVars, serverVars,
      tableVars, loopVars, history, ReadAgain
<1>19. CASE ReadClosed
  <2>0. cur \in Fd /\ peerOf[cur] \in Peer
    BY <1>19, CurrentPeer DEF ReadClosed
  <2>1. QED
    BY <1>19, <2>0
    DEF TypeOK, KernelTypeOK, SocketTypeOK, TableTypeOK, LoopTypeOK,
        HistoryTypeOK, Flag, kernelVars, epollVars, sockVars, serverVars,
        tableVars, loopVars, history, ReadClosed, set_connection_state,
        NextFlags, epoll_ctl_mod, AfterRead
<1>20. CASE ServeDone
  <2>0. cur \in Fd /\ peerOf[cur] \in Peer
    BY <1>20, CurrentPeer DEF ServeDone
  <2>1. KernelTypeOK'
    BY <1>20, <2>0
    DEF TypeOK, KernelTypeOK, kernelVars, epollVars, ServeDone, NextFlags,
        epoll_ctl_mod, AfterRead
  <2>2. SocketTypeOK(Request, Response)'
    BY <1>20, <2>0
    DEF TypeOK, SocketTypeOK, kernelVars, sockVars, ServeDone, NextFlags,
        AfterRead
  <2>3. TableTypeOK'
    BY <1>20, <2>0, ZenonT(60)
    DEF TypeOK, TableTypeOK, Flag, serverVars, tableVars, ServeDone, NextFlags,
        AfterRead
  <2>4. LoopTypeOK' /\ HistoryTypeOK'
    BY <1>20, <2>0
    DEF TypeOK, LoopTypeOK, HistoryTypeOK, serverVars, loopVars, history,
        ServeDone, NextFlags, AfterRead
  <2>5. QED
    BY <2>1, <2>2, <2>3, <2>4 DEF TypeOK
<1>21. CASE WriteSome
  <2>0. cur \in Fd /\ peerOf[cur] \in Peer
    BY <1>21, CurrentPeer DEF WriteSome
  <2>1. KernelTypeOK'
    BY <1>21, <2>0
    DEF TypeOK, KernelTypeOK, kernelVars, epollVars, WriteSome,
        set_connection_state, NextFlags, epoll_ctl_mod
  <2>2. SocketTypeOK(Request, Response)'
    <3>1. Head(outgoing[cur]) \in Response
      BY <1>21, <2>0 DEF WriteSome, TypeOK, TableTypeOK
    <3>2. net' \in [Peer -> Seq(Response)]
      BY <1>21, <2>0, <3>1 DEF WriteSome, TypeOK, SocketTypeOK
    <3>3. QED
      BY <1>21, <3>2 DEF WriteSome, TypeOK, SocketTypeOK
  <2>3. TableTypeOK'
    <3>1. outgoing' \in [Fd -> Seq(Response)]
      BY <1>21, <2>0 DEF WriteSome, TypeOK, TableTypeOK
    <3>2. flags' \in [Fd -> SUBSET Flag]
      <4>1. set_connection_state({cur}, "READING") \/ UNCHANGED flags
        BY <1>21 DEF WriteSome
      <4>2. QED
        BY <4>1
        DEF TypeOK, TableTypeOK, set_connection_state, NextFlags, Flag
    <3>3. QED
      BY <1>21, <3>1, <3>2 DEF WriteSome, TypeOK, TableTypeOK
  <2>4. LoopTypeOK' /\ HistoryTypeOK'
    BY <1>21, <2>0
    DEF TypeOK, LoopTypeOK, HistoryTypeOK, serverVars, loopVars, history,
        WriteSome, set_connection_state, NextFlags
  <2>5. QED
    BY <2>1, <2>2, <2>3, <2>4 DEF TypeOK
<1>22. CASE WriteAgain
  BY <1>22
  DEF TypeOK, KernelTypeOK, SocketTypeOK, TableTypeOK, LoopTypeOK,
      HistoryTypeOK, Flag, kernelVars, epollVars, sockVars, serverVars,
      tableVars, loopVars, history, WriteAgain
<1>23. CASE WriteError
  <2>0. cur \in Fd /\ peerOf[cur] \in Peer
    BY <1>23, CurrentPeer DEF WriteError
  <2>1. QED
    BY <1>23, <2>0
    DEF TypeOK, KernelTypeOK, SocketTypeOK, TableTypeOK, LoopTypeOK,
        HistoryTypeOK, Flag, kernelVars, epollVars, sockVars, serverVars,
        tableVars, loopVars, history, WriteError, set_connection_state,
        NextFlags, epoll_ctl_mod
<1>24. CASE Restart
  BY <1>24, RestartInvariant DEF IInv
<1>25. CASE TryOneRequest
  <2>1. cur \in Fd
    BY <1>25 DEF TryOneRequest, Handling
  <2>2. QED
    BY <1>25, <2>1, ServeType
<1>26. QED
  BY <1>1, <1>2, <1>3, <1>4, <1>5, <1>6, <1>7, <1>8, <1>9, <1>10, <1>11, <1>12,
      <1>13, <1>14, <1>15, <1>16, <1>17, <1>18, <1>19, <1>20, <1>21, <1>22,
      <1>23, <1>24, <1>25
  DEF Next, ServerStep, LoopStep, AcceptStep, ReadStep, WriteStep, EndStep,
      NetworkStep, PeerStep, LateDelivery, Blocked, Stopped

(* Every step keeps flags, masks and handlers together. *)
LEMMA ModeStep ==
  ASSUME TypeOK, Watched, ModeAgrees, Handling, AuthNamed, Down,
         [Next]_vars
  PROVE  Watched' /\ ModeAgrees' /\ Handling' /\ AuthNamed'
<1>1. CASE UNCHANGED vars
  BY <1>1
  DEF TypeOK, KernelTypeOK, Watched, ModeAgrees, Handling, AuthNamed, has_flag,
      vars, kernelVars, epollVars, sockVars, serverVars, tableVars, loopVars,
      history
<1>2. ASSUME NEW p \in Peer, Connect(p), UNCHANGED serverVars PROVE Watched' /\ ModeAgrees' /\ Handling' /\ AuthNamed'
  BY <1>2, KernelAssumption
  DEF TypeOK, KernelTypeOK, TableTypeOK, LoopTypeOK, Flag, Watched, ModeAgrees,
      Handling, AuthNamed, has_flag, kernelVars, epollVars, sockVars,
      serverVars, tableVars, loopVars, history, Connect
<1>3. ASSUME NEW p \in Peer, PeerSend(p), UNCHANGED serverVars PROVE Watched' /\ ModeAgrees' /\ Handling' /\ AuthNamed'
  BY <1>3, KernelAssumption
  DEF TypeOK, KernelTypeOK, TableTypeOK, LoopTypeOK, Flag, Watched, ModeAgrees,
      Handling, AuthNamed, has_flag, kernelVars, epollVars, sockVars,
      serverVars, tableVars, loopVars, history, PeerSend, Watching
<1>4. ASSUME NEW p \in Peer, PeerRecv(p), UNCHANGED serverVars PROVE Watched' /\ ModeAgrees' /\ Handling' /\ AuthNamed'
  BY <1>4, KernelAssumption
  DEF TypeOK, KernelTypeOK, TableTypeOK, LoopTypeOK, Flag, Watched, ModeAgrees,
      Handling, AuthNamed, has_flag, kernelVars, epollVars, sockVars,
      serverVars, tableVars, loopVars, history, PeerRecv, Watching
<1>5. ASSUME NEW p \in Peer, PeerClose(p), UNCHANGED serverVars PROVE Watched' /\ ModeAgrees' /\ Handling' /\ AuthNamed'
  BY <1>5, KernelAssumption
  DEF TypeOK, KernelTypeOK, TableTypeOK, LoopTypeOK, Flag, Watched, ModeAgrees,
      Handling, AuthNamed, has_flag, kernelVars, epollVars, sockVars,
      serverVars, tableVars, loopVars, history, PeerClose, Watching
<1>6. ASSUME NEW p \in Peer, PeerAbort(p), UNCHANGED serverVars PROVE Watched' /\ ModeAgrees' /\ Handling' /\ AuthNamed'
  BY <1>6, KernelAssumption
  DEF TypeOK, KernelTypeOK, TableTypeOK, LoopTypeOK, Flag, Watched, ModeAgrees,
      Handling, AuthNamed, has_flag, kernelVars, epollVars, sockVars,
      serverVars, tableVars, loopVars, history, PeerAbort, Reset, Watching
<1>7. ASSUME NEW p \in Peer, KernelReset(p), UNCHANGED serverVars PROVE Watched' /\ ModeAgrees' /\ Handling' /\ AuthNamed'
  BY <1>7, KernelAssumption
  DEF TypeOK, KernelTypeOK, TableTypeOK, LoopTypeOK, Flag, Watched, ModeAgrees,
      Handling, AuthNamed, has_flag, kernelVars, epollVars, sockVars,
      serverVars, tableVars, loopVars, history, KernelReset, Reset, Watching
<1>8. CASE EpollWait
  BY <1>8, KernelAssumption
  DEF TypeOK, KernelTypeOK, TableTypeOK, LoopTypeOK, Flag, Watched, ModeAgrees,
      Handling, AuthNamed, has_flag, kernelVars, epollVars, sockVars,
      serverVars, tableVars, loopVars, history, EpollWait, Pollable, PollReady
<1>9. CASE DispatchListen
  BY <1>9, KernelAssumption
  DEF TypeOK, KernelTypeOK, TableTypeOK, LoopTypeOK, Flag, Watched, ModeAgrees,
      Handling, AuthNamed, has_flag, kernelVars, epollVars, sockVars,
      serverVars, tableVars, loopVars, history, DispatchListen
<1>10. CASE DispatchConnection
  BY <1>10, KernelAssumption
  DEF TypeOK, KernelTypeOK, TableTypeOK, LoopTypeOK, Flag, Watched, ModeAgrees,
      Handling, AuthNamed, has_flag, kernelVars, epollVars, sockVars,
      serverVars, tableVars, loopVars, history, DispatchConnection
<1>11. CASE RemoveConnection
  BY <1>11, KernelAssumption
  DEF TypeOK, KernelTypeOK, TableTypeOK, LoopTypeOK, Flag, Watched, ModeAgrees,
      Handling, AuthNamed, has_flag, kernelVars, epollVars, sockVars,
      serverVars, tableVars, loopVars, history, RemoveConnection,
      remove_connection, epoll_ctl_del, EventDone
<1>12. CASE KeepConnection
  BY <1>12, KernelAssumption
  DEF TypeOK, KernelTypeOK, TableTypeOK, LoopTypeOK, Flag, Watched, ModeAgrees,
      Handling, AuthNamed, has_flag, kernelVars, epollVars, sockVars,
      serverVars, tableVars, loopVars, history, KeepConnection, EventDone
<1>13. CASE AcceptConnection
  <2>1. PICK f \in Fd, q \in Peer : accept(f, q) /\ add_connection(f, q)
    BY <1>13 DEF AcceptConnection
  <2>2. f \notin fds
    BY <2>1, LowestFree DEF accept
  <2>3. mask[f] = "none" /\ f # ListenFd
    BY <2>2, KernelAssumption DEF Watched, TypeOK, KernelTypeOK
  <2>4. Watched' /\ ModeAgrees' /\ AuthNamed'
    BY <1>13, <2>1, <2>3
    DEF AcceptConnection, accept, add_connection, epoll_ctl_add, TypeOK, KernelTypeOK,
        TableTypeOK, Watched, ModeAgrees, AuthNamed, has_flag
  <2>5. Handling'
    BY <1>13 DEF AcceptConnection, Handling, loopVars
  <2>6. QED
    BY <2>4, <2>5
<1>14. CASE AcceptUnwatched
  BY <1>14, KernelAssumption
  DEF TypeOK, KernelTypeOK, TableTypeOK, LoopTypeOK, Flag, Watched, ModeAgrees,
      Handling, AuthNamed, has_flag, kernelVars, epollVars, sockVars,
      serverVars, tableVars, loopVars, history, AcceptUnwatched, accept
<1>15. CASE AcceptDone
  BY <1>15, KernelAssumption
  DEF TypeOK, KernelTypeOK, TableTypeOK, LoopTypeOK, Flag, Watched, ModeAgrees,
      Handling, AuthNamed, has_flag, kernelVars, epollVars, sockVars,
      serverVars, tableVars, loopVars, history, AcceptDone, EventDone
<1>16. CASE EndStep
  BY <1>16, EndInvariant DEF IInv
<1>17. CASE ReadSome
  BY <1>17, KernelAssumption
  DEF TypeOK, KernelTypeOK, TableTypeOK, LoopTypeOK, Flag, Watched, ModeAgrees,
      Handling, AuthNamed, has_flag, kernelVars, epollVars, sockVars,
      serverVars, tableVars, loopVars, history, ReadSome
<1>18. CASE ReadAgain
  BY <1>18, KernelAssumption
  DEF TypeOK, KernelTypeOK, TableTypeOK, LoopTypeOK, Flag, Watched, ModeAgrees,
      Handling, AuthNamed, has_flag, kernelVars, epollVars, sockVars,
      serverVars, tableVars, loopVars, history, ReadAgain
<1>19. CASE ReadClosed
  BY <1>19, KernelAssumption
  DEF TypeOK, KernelTypeOK, TableTypeOK, LoopTypeOK, Flag, Watched, ModeAgrees,
      Handling, AuthNamed, has_flag, kernelVars, epollVars, sockVars,
      serverVars, tableVars, loopVars, history, ReadClosed,
      set_connection_state, NextFlags, epoll_ctl_mod, AfterRead
<1>20. CASE ServeDone
  <2>1. cur \in Fd /\ has_flag(cur, "WANT_READ") /\ has_flag(cur, "IS_ACTIVE")
    BY <1>20, CurrentPeer DEF ServeDone, ModeAgrees, Handling, has_flag
  <2>2. UNCHANGED <<fds, peerOf, usernames, cur, todo>>
    BY <1>20 DEF ServeDone, loopVars, tableVars
  <2>3. PICK closing \in {flags[cur], flags[cur] \cup {"WANT_CLOSE"}} :
          \/ /\ flags' = [flags EXCEPT ![cur] = (closing \ {"WANT_READ"}) \cup {"WANT_WRITE"}]
             /\ mask' = [f \in Fd |-> IF f \in {cur} THEN "out" ELSE mask[f]]
          \/ /\ flags' = [flags EXCEPT ![cur] = closing]
             /\ UNCHANGED mask
    BY <1>20 DEF ServeDone, NextFlags, epoll_ctl_mod, epollVars
  <2>4. Watched' /\ ModeAgrees' /\ AuthNamed'
    <3>1. \A f \in Fd \ {cur} : flags'[f] = flags[f] /\ mask'[f] = mask[f]
      BY <2>3 DEF TypeOK, KernelTypeOK, TableTypeOK
    <3>2. \/ /\ flags'[cur] = (closing \ {"WANT_READ"}) \cup {"WANT_WRITE"}
             /\ mask'[cur] = "out"
          \/ flags'[cur] = closing /\ mask'[cur] = mask[cur]
      BY <2>1, <2>3 DEF TypeOK, KernelTypeOK, TableTypeOK
    <3>3. \A x \in Flag \ {"WANT_READ", "WANT_WRITE", "WANT_CLOSE"} :
            x \in flags'[cur] <=> x \in flags[cur]
      BY <2>3, <3>2 DEF Flag
    <3>4. \A x \in {"WANT_READ", "WANT_WRITE"} :
            x \in closing <=> x \in flags[cur]
      BY <2>3
    <3>5. QED
      BY <2>1, <2>2, <3>1, <3>2, <3>3, <3>4
      DEF Watched, ModeAgrees, AuthNamed, has_flag, Flag
  <2>5. Handling'
    <3>1. pc' = IF "WANT_WRITE" \in flags'[cur] THEN "write" ELSE "check"
      BY <1>20 DEF ServeDone, AfterRead
    <3>2. QED
      BY <2>1, <2>2, <3>1 DEF Handling, has_flag
  <2>6. QED
    BY <2>4, <2>5
<1>21. CASE WriteSome
  <2>1. cur \in Fd /\ has_flag(cur, "IS_ACTIVE")
    BY <1>21, CurrentPeer DEF WriteSome, ModeAgrees, Handling, has_flag
  <2>2. UNCHANGED <<fds, peerOf, usernames, cur, todo>>
    BY <1>21 DEF WriteSome, loopVars
  <2>3. CASE Tail(outgoing[cur]) = << >>
    <3>1. set_connection_state({cur}, "READING") /\ pc' = "check"
      BY <1>21, <2>3 DEF WriteSome
    <3>2. Watched' /\ ModeAgrees' /\ AuthNamed'
      BY <2>1, <2>2, <3>1, SetStateLemma
    <3>3. Handling'
      BY <2>1, <2>2, <3>1 DEF Handling
    <3>4. QED
      BY <3>2, <3>3
  <2>4. CASE Tail(outgoing[cur]) # << >>
    <3>1. UNCHANGED <<flags, mask, pc>>
      BY <1>21, <2>4 DEF WriteSome, epollVars
    <3>2. QED
      BY <2>2, <3>1 DEF Watched, ModeAgrees, Handling, AuthNamed, has_flag
  <2>5. QED
    BY <2>3, <2>4
<1>22. CASE WriteAgain
  BY <1>22, KernelAssumption
  DEF TypeOK, KernelTypeOK, TableTypeOK, LoopTypeOK, Flag, Watched, ModeAgrees,
      Handling, AuthNamed, has_flag, kernelVars, epollVars, sockVars,
      serverVars, tableVars, loopVars, history, WriteAgain
<1>23. CASE WriteError
  BY <1>23, KernelAssumption
  DEF TypeOK, KernelTypeOK, TableTypeOK, LoopTypeOK, Flag, Watched, ModeAgrees,
      Handling, AuthNamed, has_flag, kernelVars, epollVars, sockVars,
      serverVars, tableVars, loopVars, history, WriteError,
      set_connection_state, NextFlags, epoll_ctl_mod
<1>24. CASE Restart
  BY <1>24, RestartInvariant DEF IInv
<1>25. CASE TryOneRequest
  <2>1. cur \in Fd /\ pc = "serve" /\ UNCHANGED <<pc, cur, todo, fds, peerOf>>
    BY <1>25 DEF TryOneRequest, Handling, loopVars
  <2>2. cur \notin Recipients /\ Recipients \subseteq Fd
    BY DEF Recipients
  <2>3. \A f \in Recipients : has_flag(f, "IS_ACTIVE")
    BY DEF Recipients, ModeAgrees, has_flag
  <2>4. Handling'
    <3>1. flags'[cur] = flags[cur] \/ flags'[cur] = flags[cur] \cup {"IS_AUTH"}
      BY <1>25, <2>1, <2>2, ServeEffectLemma
      DEF ServeEffect, set_connection_state, TypeOK, TableTypeOK
    <3>2. QED
      BY <2>1, <3>1 DEF Handling, has_flag
  <2>5. AuthNamed'
    BY <1>25, <2>1, ServeNames
  <2>6. Watched' /\ ModeAgrees'
    <3>1. CASE \E fs \in SUBSET Recipients : set_connection_state(fs, "WRITING")
      BY <2>1, <2>2, <2>3, <3>1, SetStateLemma
    <3>2. CASE UNCHANGED <<flags, epollVars>>
      BY <2>1, <3>2 DEF Watched, ModeAgrees, has_flag, epollVars
    <3>3. CASE /\ flags' = [flags EXCEPT ![cur] = @ \cup {"IS_AUTH"}]
               /\ UNCHANGED epollVars
      BY <2>1, <3>3
      DEF Watched, ModeAgrees, Handling, has_flag, epollVars, TypeOK, TableTypeOK
    <3>4. QED
      BY <1>25, <3>1, <3>2, <3>3, ServeEffectLemma DEF ServeEffect
  <2>7. QED
    BY <2>4, <2>5, <2>6
<1>26. QED
  BY <1>1, <1>2, <1>3, <1>4, <1>5, <1>6, <1>7, <1>8, <1>9, <1>10, <1>11, <1>12,
      <1>13, <1>14, <1>15, <1>16, <1>17, <1>18, <1>19, <1>20, <1>21, <1>22,
      <1>23, <1>24, <1>25
  DEF Next, ServerStep, LoopStep, AcceptStep, ReadStep, WriteStep, EndStep,
      NetworkStep, PeerStep, LateDelivery, Blocked, Stopped

(* No step loses a wake-up. *)
LEMMA WakeupStep ==
  ASSUME TypeOK, Watched, ModeAgrees, Handling, AuthNamed, Down, NoLostWakeup,
         [Next]_vars
  PROVE  NoLostWakeup'
<1>1. CASE UNCHANGED vars
  BY <1>1
  DEF TypeOK, KernelTypeOK, SocketTypeOK, LoopTypeOK, Watched, ModeAgrees,
      Handling, has_flag, NoLostWakeup, PollReady, ReadyUnder, Readable,
      Writable, vars, kernelVars, epollVars, sockVars, serverVars, tableVars,
      loopVars, history
<1>2. ASSUME NEW p \in Peer, Connect(p), UNCHANGED serverVars PROVE NoLostWakeup'
  BY <1>2, KernelAssumption
  DEF TypeOK, KernelTypeOK, SocketTypeOK, LoopTypeOK, Watched, ModeAgrees,
      Handling, has_flag, NoLostWakeup, PollReady, ReadyUnder, Readable,
      Writable, kernelVars, epollVars, sockVars, serverVars, tableVars,
      loopVars, history, Connect
<1>3. ASSUME NEW p \in Peer, PeerSend(p), UNCHANGED serverVars PROVE NoLostWakeup'
  BY <1>3, KernelAssumption
  DEF TypeOK, KernelTypeOK, SocketTypeOK, LoopTypeOK, Watched, ModeAgrees,
      Handling, has_flag, NoLostWakeup, PollReady, ReadyUnder, Readable,
      Writable, kernelVars, epollVars, sockVars, serverVars, tableVars,
      loopVars, history, PeerSend, Watching
<1>4. ASSUME NEW p \in Peer, PeerRecv(p), UNCHANGED serverVars PROVE NoLostWakeup'
  BY <1>4, KernelAssumption
  DEF TypeOK, KernelTypeOK, SocketTypeOK, LoopTypeOK, Watched, ModeAgrees,
      Handling, has_flag, NoLostWakeup, PollReady, ReadyUnder, Readable,
      Writable, kernelVars, epollVars, sockVars, serverVars, tableVars,
      loopVars, history, PeerRecv, Watching
<1>5. ASSUME NEW p \in Peer, PeerClose(p), UNCHANGED serverVars PROVE NoLostWakeup'
  BY <1>5, KernelAssumption
  DEF TypeOK, KernelTypeOK, SocketTypeOK, LoopTypeOK, Watched, ModeAgrees,
      Handling, has_flag, NoLostWakeup, PollReady, ReadyUnder, Readable,
      Writable, kernelVars, epollVars, sockVars, serverVars, tableVars,
      loopVars, history, PeerClose, Watching
<1>6. ASSUME NEW p \in Peer, PeerAbort(p), UNCHANGED serverVars PROVE NoLostWakeup'
  BY <1>6, KernelAssumption
  DEF TypeOK, KernelTypeOK, SocketTypeOK, LoopTypeOK, Watched, ModeAgrees,
      Handling, has_flag, NoLostWakeup, PollReady, ReadyUnder, Readable,
      Writable, kernelVars, epollVars, sockVars, serverVars, tableVars,
      loopVars, history, PeerAbort, Reset, Watching
<1>7. ASSUME NEW p \in Peer, KernelReset(p), UNCHANGED serverVars PROVE NoLostWakeup'
  BY <1>7, KernelAssumption
  DEF TypeOK, KernelTypeOK, SocketTypeOK, LoopTypeOK, Watched, ModeAgrees,
      Handling, has_flag, NoLostWakeup, PollReady, ReadyUnder, Readable,
      Writable, kernelVars, epollVars, sockVars, serverVars, tableVars,
      loopVars, history, KernelReset, Reset, Watching
<1>8. CASE EpollWait
  BY <1>8, KernelAssumption
  DEF TypeOK, KernelTypeOK, SocketTypeOK, LoopTypeOK, Watched, ModeAgrees,
      Handling, has_flag, NoLostWakeup, PollReady, ReadyUnder, Readable,
      Writable, kernelVars, epollVars, sockVars, serverVars, tableVars,
      loopVars, history, EpollWait, Pollable
<1>9. CASE DispatchListen
  BY <1>9, KernelAssumption
  DEF TypeOK, KernelTypeOK, SocketTypeOK, LoopTypeOK, Watched, ModeAgrees,
      Handling, has_flag, NoLostWakeup, PollReady, ReadyUnder, Readable,
      Writable, kernelVars, epollVars, sockVars, serverVars, tableVars,
      loopVars, history, DispatchListen
<1>10. CASE DispatchConnection
  BY <1>10, KernelAssumption
  DEF TypeOK, KernelTypeOK, SocketTypeOK, LoopTypeOK, Watched, ModeAgrees,
      Handling, has_flag, NoLostWakeup, PollReady, ReadyUnder, Readable,
      Writable, kernelVars, epollVars, sockVars, serverVars, tableVars,
      loopVars, history, DispatchConnection
<1>11. CASE RemoveConnection
  <2>1. cur \in Fd /\ flags \in [Fd -> SUBSET Flag]
    BY <1>11 DEF RemoveConnection, Handling, TypeOK, TableTypeOK
  <2>2. \A f \in Fd \ {cur} : /\ PollReady(f)' <=> PollReady(f)
                              /\ flags'[f] = flags[f]
                              /\ f \in ready => f \in ready'
    BY <1>11, <2>1
    DEF RemoveConnection, remove_connection, epoll_ctl_del, TypeOK, KernelTypeOK,
        PollReady, ReadyUnder, Readable, Writable, sockVars
  <2>3. \A f \in Fd : f = cur => ~PollReady(f)'
    BY <1>11, <2>1
    DEF RemoveConnection, remove_connection, epoll_ctl_del, TypeOK, KernelTypeOK, PollReady
  <2>4. ListenFd \in ready => ListenFd \in ready'
    BY <1>11, <2>1, KernelAssumption DEF RemoveConnection, remove_connection, epoll_ctl_del
  <2>5. pc = "check" /\ UNCHANGED <<todo, backlog>>
    BY <1>11 DEF RemoveConnection
  <2>6. \A f \in Fd : PollReady(f)' => f \in (ready \cup todo)' \/ has_flag(f, "WANT_CLOSE")'
    BY <2>2, <2>3, <2>5 DEF NoLostWakeup, has_flag
  <2>7. QED
    BY <2>4, <2>5, <2>6 DEF NoLostWakeup
<1>12. CASE KeepConnection
  BY <1>12, KernelAssumption
  DEF TypeOK, KernelTypeOK, SocketTypeOK, LoopTypeOK, Watched, ModeAgrees,
      Handling, has_flag, NoLostWakeup, PollReady, ReadyUnder, Readable,
      Writable, kernelVars, epollVars, sockVars, serverVars, tableVars,
      loopVars, history, KeepConnection, EventDone
<1>13. CASE AcceptConnection
  <2>1. PICK f \in Fd, q \in Peer : accept(f, q) /\ add_connection(f, q)
    BY <1>13 DEF AcceptConnection
  <2>2. pc' = "accept" /\ UNCHANGED <<sockVars, todo, cur, pc>>
    BY <1>13 DEF AcceptConnection, loopVars
  <2>3. \A g \in Fd \ {f} : /\ PollReady(g)' <=> PollReady(g)
                            /\ flags'[g] = flags[g]
    BY <2>1, <2>2
    DEF accept, add_connection, epoll_ctl_add, TypeOK, KernelTypeOK, TableTypeOK,
        PollReady, ReadyUnder, Readable, Writable, sockVars
  <2>4. PollReady(f)' => f \in ready'
    BY <2>1, <2>2
    DEF accept, add_connection, epoll_ctl_add, TypeOK, KernelTypeOK,
        PollReady, ReadyUnder, Readable, Writable, sockVars
  <2>5. ready \subseteq ready'
    BY <2>1 DEF add_connection, epoll_ctl_add
  <2>6. QED
    BY <1>13, <2>2, <2>3, <2>4, <2>5 DEF NoLostWakeup, AcceptConnection, has_flag
<1>14. CASE AcceptUnwatched
  <2>1. PICK f \in Fd, q \in Peer : accept(f, q)
    BY <1>14 DEF AcceptUnwatched
  <2>2. mask[f] = "none"
    BY <2>1, LowestFree DEF accept, Watched
  <2>3. UNCHANGED <<sockVars, epollVars, flags, todo, cur, pc>> /\ pc = "accept"
    BY <1>14 DEF AcceptUnwatched, loopVars
  <2>4. \A g \in Fd : PollReady(g)' => PollReady(g)
    BY <2>1, <2>2, <2>3
    DEF accept, TypeOK, KernelTypeOK, PollReady, ReadyUnder, Readable, Writable,
        sockVars, epollVars
  <2>5. QED
    BY <2>3, <2>4 DEF NoLostWakeup, has_flag, epollVars
<1>15. CASE AcceptDone
  BY <1>15, KernelAssumption
  DEF TypeOK, KernelTypeOK, SocketTypeOK, LoopTypeOK, Watched, ModeAgrees,
      Handling, has_flag, NoLostWakeup, PollReady, ReadyUnder, Readable,
      Writable, kernelVars, epollVars, sockVars, serverVars, tableVars,
      loopVars, history, AcceptDone, EventDone
<1>16. CASE EndStep
  BY <1>16, EndInvariant DEF IInv
<1>17. CASE ReadSome
  BY <1>17, KernelAssumption
  DEF TypeOK, KernelTypeOK, SocketTypeOK, LoopTypeOK, Watched, ModeAgrees,
      Handling, has_flag, NoLostWakeup, PollReady, ReadyUnder, Readable,
      Writable, kernelVars, epollVars, sockVars, serverVars, tableVars,
      loopVars, history, ReadSome
<1>18. CASE ReadAgain
  BY <1>18, KernelAssumption
  DEF TypeOK, KernelTypeOK, SocketTypeOK, LoopTypeOK, Watched, ModeAgrees,
      Handling, has_flag, NoLostWakeup, PollReady, ReadyUnder, Readable,
      Writable, kernelVars, epollVars, sockVars, serverVars, tableVars,
      loopVars, history, ReadAgain
<1>19. CASE ReadClosed
  BY <1>19, KernelAssumption
  DEF TypeOK, KernelTypeOK, SocketTypeOK, LoopTypeOK, Watched, ModeAgrees,
      Handling, has_flag, NoLostWakeup, PollReady, ReadyUnder, Readable,
      Writable, kernelVars, epollVars, sockVars, serverVars, tableVars,
      loopVars, history, ReadClosed, set_connection_state, NextFlags,
      epoll_ctl_mod, AfterRead
<1>20. CASE ServeDone
  <2>1. cur \in Fd /\ pc = "serve"
    BY <1>20, CurrentPeer DEF ServeDone
  <2>2. UNCHANGED <<sockVars, peerOf, todo, cur, backlog>>
    BY <1>20 DEF ServeDone, loopVars
  <2>3. \A f \in Fd \ {cur} : flags'[f] = flags[f] /\ mask'[f] = mask[f]
    BY <1>20, <2>1 DEF ServeDone, epoll_ctl_mod, epollVars, TypeOK, KernelTypeOK, TableTypeOK
  <2>4. ready \subseteq ready'
    BY <1>20 DEF ServeDone, epoll_ctl_mod, epollVars
  <2>5. \A f \in Fd \ {cur} : PollReady(f)' <=> PollReady(f)
    BY <2>2, <2>3 DEF PollReady, ReadyUnder, Readable, Writable, sockVars
  <2>6. \/ PollReady(cur)' => cur \in ready'
        \/ (PollReady(cur)' <=> PollReady(cur)) /\ flags[cur] \subseteq flags'[cur]
    <3>1. CASE outgoing[cur] # << >>
      BY <1>20, <2>1, <2>2, <3>1
      DEF ServeDone, epoll_ctl_mod, TypeOK, KernelTypeOK, PollReady, ReadyUnder,
          Readable, Writable, sockVars
    <3>2. CASE outgoing[cur] = << >>
      <4>1. flags[cur] \subseteq flags'[cur] /\ UNCHANGED mask
        BY <1>20, <2>1, <3>2 DEF ServeDone, NextFlags, epollVars, TypeOK, TableTypeOK
      <4>2. QED
        BY <2>2, <4>1 DEF PollReady, ReadyUnder, Readable, Writable, sockVars
    <3>3. QED
      BY <3>1, <3>2
  <2>7. QED
    BY <2>1, <2>2, <2>3, <2>4, <2>5, <2>6 DEF NoLostWakeup, has_flag
<1>21. CASE WriteSome
  <2>1. cur \in Fd /\ peerOf[cur] \in Peer /\ pc = "write"
    BY <1>21, CurrentPeer DEF WriteSome
  <2>2. UNCHANGED <<rcvq, fin, err, peerOf, todo, cur, backlog>>
    BY <1>21 DEF WriteSome, loopVars
  <2>3. \A q \in Peer : (Readable(q)' <=> Readable(q)) /\ (Writable(q)' => Writable(q))
    <3>1. Len(net'[peerOf[cur]]) = Len(net[peerOf[cur]]) + 1
      BY <1>21, <2>1 DEF WriteSome, TypeOK, SocketTypeOK
    <3>2. \A q \in Peer \ {peerOf[cur]} : net'[q] = net[q]
      BY <1>21, <2>1 DEF WriteSome, TypeOK, SocketTypeOK
    <3>3. Len(net[peerOf[cur]]) \in Nat
      BY <2>1 DEF TypeOK, SocketTypeOK
    <3>4. QED
      BY <2>2, <3>1, <3>2, <3>3, KernelAssumption DEF Readable, Writable
  <2>4. CASE Tail(outgoing[cur]) = << >>
    <3>1. set_connection_state({cur}, "READING")
      BY <1>21, <2>4 DEF WriteSome
    <3>2. \A f \in Fd \ {cur} : flags'[f] = flags[f] /\ mask'[f] = mask[f]
      BY <3>1 DEF set_connection_state, epoll_ctl_mod
    <3>3. ready \subseteq ready' /\ mask'[cur] = "in"
      BY <2>1, <3>1 DEF set_connection_state, epoll_ctl_mod
    <3>4. Readable(peerOf[cur]) => cur \in ready'
      BY <2>1, <3>1 DEF set_connection_state, epoll_ctl_mod, ReadyUnder
    <3>5. \A f \in Fd \ {cur} : PollReady(f)' => PollReady(f)
      BY <2>2, <2>3, <3>2 DEF PollReady, ReadyUnder, Watched
    <3>6. PollReady(cur)' => cur \in ready'
      BY <2>1, <2>2, <2>3, <3>3, <3>4 DEF PollReady, ReadyUnder
    <3>7. QED
      BY <2>1, <2>2, <3>2, <3>3, <3>5, <3>6 DEF NoLostWakeup, has_flag
  <2>5. CASE Tail(outgoing[cur]) # << >>
    <3>1. UNCHANGED <<flags, mask, ready, pc>>
      BY <1>21, <2>5 DEF WriteSome, epollVars
    <3>2. \A f \in Fd : PollReady(f)' => PollReady(f)
      BY <2>2, <2>3, <3>1 DEF PollReady, ReadyUnder, Watched
    <3>3. QED
      BY <2>2, <3>1, <3>2 DEF NoLostWakeup, has_flag
  <2>6. QED
    BY <2>4, <2>5
<1>22. CASE WriteAgain
  BY <1>22, KernelAssumption
  DEF TypeOK, KernelTypeOK, SocketTypeOK, LoopTypeOK, Watched, ModeAgrees,
      Handling, has_flag, NoLostWakeup, PollReady, ReadyUnder, Readable,
      Writable, kernelVars, epollVars, sockVars, serverVars, tableVars,
      loopVars, history, WriteAgain
<1>23. CASE WriteError
  BY <1>23, KernelAssumption
  DEF TypeOK, KernelTypeOK, SocketTypeOK, LoopTypeOK, Watched, ModeAgrees,
      Handling, has_flag, NoLostWakeup, PollReady, ReadyUnder, Readable,
      Writable, kernelVars, epollVars, sockVars, serverVars, tableVars,
      loopVars, history, WriteError, set_connection_state, NextFlags,
      epoll_ctl_mod
<1>24. CASE Restart
  BY <1>24, RestartInvariant DEF IInv
<1>25. CASE TryOneRequest
  <2>1. cur \in Fd /\ pc = "serve"
    BY <1>25 DEF TryOneRequest, Handling
  <2>2. UNCHANGED <<sockVars, peerOf, backlog, todo, cur, pc>>
    BY <1>25 DEF TryOneRequest, loopVars
  <2>3. CASE \E fs \in SUBSET Recipients : set_connection_state(fs, "WRITING")
    <3>1. PICK fs \in SUBSET Recipients : set_connection_state(fs, "WRITING")
      BY <2>3
    <3>2. \A f \in Fd \ fs : flags'[f] = flags[f] /\ mask'[f] = mask[f]
      BY <3>1 DEF set_connection_state, epoll_ctl_mod
    <3>3. ready \subseteq ready' /\ \A f \in fs : mask'[f] = "out"
      BY <3>1 DEF set_connection_state, epoll_ctl_mod, Recipients
    <3>4. \A f \in fs : ReadyUnder("out", peerOf[f]) => f \in ready'
      BY <3>1 DEF set_connection_state, epoll_ctl_mod
    <3>5. \A f \in Fd \ fs : PollReady(f)' => PollReady(f)
      BY <2>2, <3>2 DEF PollReady, ReadyUnder, Readable, Writable, sockVars
    <3>6. \A f \in fs : PollReady(f)' => f \in ready'
      BY <2>2, <3>3, <3>4 DEF PollReady, ReadyUnder, Readable, Writable, sockVars
    <3>7. QED
      BY <2>2, <3>2, <3>3, <3>5, <3>6 DEF NoLostWakeup, has_flag
  <2>4. CASE UNCHANGED epollVars /\ \A f \in Fd : flags[f] \subseteq flags'[f]
    BY <2>2, <2>4
    DEF NoLostWakeup, has_flag, PollReady, ReadyUnder, Readable, Writable, sockVars, epollVars
  <2>5. QED
    BY <1>25, <2>1, <2>3, <2>4, ServeEffectLemma DEF ServeEffect, TypeOK, TableTypeOK
<1>26. QED
  BY <1>1, <1>2, <1>3, <1>4, <1>5, <1>6, <1>7, <1>8, <1>9, <1>10, <1>11, <1>12,
      <1>13, <1>14, <1>15, <1>16, <1>17, <1>18, <1>19, <1>20, <1>21, <1>22,
      <1>23, <1>24, <1>25
  DEF Next, ServerStep, LoopStep, AcceptStep, ReadStep, WriteStep, EndStep,
      NetworkStep, PeerStep, LateDelivery, Blocked, Stopped

-----------------------------------------------------------------------------
(* The initial states satisfy the invariant. *)
LEMMA InitInvariant == Init => IInv
<1> SUFFICES ASSUME Init PROVE IInv
  OBVIOUS
<1>1. TypeOK
  <2>1. \A S, T : \A v \in T : [x \in S |-> v] \in [S -> T]
    OBVIOUS
  <2>2. /\ << >> \in Seq(Peer)
        /\ << >> \in Seq(Request)
        /\ << >> \in Seq(Response)
    BY EmptySeq
  <2>3. KernelTypeOK
    BY <2>1, <2>2 DEF Init, KernelInit, KernelTypeOK
  <2>4. SocketTypeOK(Request, Response)
    BY <2>1, <2>2 DEF Init, KernelInit, SocketTypeOK
  <2>5. TableTypeOK
    BY <2>1, <2>2, ServerAssumption DEF Init, TableTypeOK, SlotName
  <2>6. LoopTypeOK /\ HistoryTypeOK
    BY <2>1, <2>2 DEF Init, LoopTypeOK, HistoryTypeOK
  <2>7. QED
    BY <2>3, <2>4, <2>5, <2>6 DEF TypeOK
<1>2. Watched /\ ModeAgrees /\ Handling /\ AuthNamed /\ Down
  BY DEF Init, KernelInit, Watched, ModeAgrees, Handling, AuthNamed, Down, has_flag
<1>3. NoLostWakeup
  BY DEF Init, KernelInit, NoLostWakeup, PollReady
<1>4. QED
  BY <1>1, <1>2, <1>3 DEF IInv

(* The invariant is inductive. *)
LEMMA StepInvariant == IInv /\ [Next]_vars => IInv'
  BY TypeStep, ModeStep, DownStep, WakeupStep DEF IInv

(* The invariant holds in every behaviour of the specification. *)
THEOREM Invariance == Spec => []IInv
  BY InitInvariant, StepInvariant, PTL DEF Spec

(* The types, among them that the handlers of server_utils.cpp only ever   *)
(* queue messages of the protocol.                                         *)
THEOREM TypeCorrect == Spec => []TypeOK
<1>1. IInv => TypeOK
  BY DEF IInv
<1>2. QED
  BY <1>1, Invariance, PTL

(* set_connection_state, add_connection, remove_connection and the         *)
(* broadcasts keep the mode bits and the masks of epoll together.          *)
THEOREM ModesAgree == Spec => []ModeAgrees
<1>1. IInv => ModeAgrees
  BY DEF IInv
<1>2. QED
  BY <1>1, Invariance, PTL

(* With edge-triggered epoll, the event loop never waits while a client is *)
(* ready and its readiness will not be reported.                           *)
THEOREM WakeupsKept == Spec => []NoLostWakeup
<1>1. IInv => NoLostWakeup
  BY DEF IInv
<1>2. QED
  BY <1>1, Invariance, PTL

=============================================================================
