----------------------------- MODULE ChatProofs -----------------------------
(***************************************************************************)
(* Proofs about what the clients of ChatServer get to see: a chat message  *)
(* only reaches connections it is for, and the world broadcasts reach each *)
(* authenticated connection without gaps and in one order.                 *)
(***************************************************************************)
EXTENDS ServiceProofs, FiniteSetTheorems

(* What is on its way to a connection, as a set. *)
LEMMA StreamElements ==
  ASSUME TypeOK, NEW f \in Fd, peerOf[f] \in Peer
  PROVE  ToSet(Stream(f)) = Sent(peerOf[f]) \cup Queued(f)
<1>1. /\ got[peerOf[f]] \in Seq(Response) /\ net[peerOf[f]] \in Seq(Response)
      /\ outgoing[f] \in Seq(Response)
  BY DEF TypeOK, SocketTypeOK, TableTypeOK
<1>2. got[peerOf[f]] \o net[peerOf[f]] \in Seq(Response)
  BY <1>1, ConcatProperties
<1>3. ToSet(Stream(f)) = ToSet(got[peerOf[f]] \o net[peerOf[f]]) \cup ToSet(outgoing[f])
  BY <1>1, <1>2, ToSetConcat, ZenonT(60) DEF Stream
<1>4. ToSet(got[peerOf[f]] \o net[peerOf[f]]) = ToSet(got[peerOf[f]]) \cup ToSet(net[peerOf[f]])
  BY <1>1, ToSetConcat
<1>5. QED
  BY <1>3, <1>4 DEF Sent, Queued

(* The name a connection speaks under is one it has logged in with. *)
NamedIdents == \A f \in Fd : has_flag(f, "IS_AUTH") => usernames[f] \in idents[f]

(* Message m may be seen by connection f. *)
Confined(f, m) ==
  IsChat(m) =>
    /\ idents[f] # {}
    /\ m.tag = "TAG_P2P_BROADCAST" => {m.username, m.recipient} \cap idents[f] # {}
    /\ \E g \in fds : m.username \in idents[g]

(* ChatConfined for the parts of a stream. *)
AllConfined ==
  \A f \in fds : \A m \in Sent(peerOf[f]) \cup Queued(f) : Confined(f, m)

(* Nothing but the end of the process takes a name from a connection. *)
LEMMA IdentsGrow ==
  ASSUME IInv, [Next]_vars, ~EndStep
  PROVE  \A f \in Fd : idents[f] \subseteq idents'[f]
<1>1. CASE TryOneRequest
  <2>1. TypeOK /\ cur \in Fd
    BY <1>1, ServeCur
  <2>2. ASSUME NEW id, Authenticate(id)
        PROVE  \A f \in Fd : idents[f] \subseteq idents'[f]
    BY <2>1, <2>2 DEF Authenticate, TypeOK, HistoryTypeOK
  <2>3. QED
    BY <1>1, <2>1, <2>2, ServeOutcome
<1>2. CASE ~TryOneRequest
  BY <1>2, AccountsFrame
<1>3. QED
  BY <1>1, <1>2

(* Nothing but the end of the process closes a descriptor, and an open one *)
(* keeps its peer.                                                         *)
LEMMA FdsGrow ==
  ASSUME IInv, [Next]_vars, ~EndStep
  PROVE  fds \subseteq fds' /\ \A f \in fds : peerOf'[f] = peerOf[f]
<1>1. CASE AcceptConnection \/ AcceptUnwatched
  <2>1. PICK f \in Fd, p \in Peer : accept(f, p)
    BY <1>1 DEF AcceptConnection, AcceptUnwatched
  <2>2. f \notin fds /\ fds' = fds \cup {f} /\ peerOf' = [peerOf EXCEPT ![f] = p]
    BY <2>1, LowestFree DEF accept
  <2>3. QED
    BY <2>2 DEF IInv, TypeOK, KernelTypeOK
<1>2. ASSUME NEW p \in Peer, PeerMoves(p) PROVE UNCHANGED <<fds, peerOf>>
  BY <1>2, PeerStepLemma
<1>3. CASE LoopOnly
  BY <1>3, LoopOnlyLemma
<1>4. CASE RemoveConnection \/ ReadSome \/ ReadClosed \/ TryOneRequest \/ ServeDone
           \/ WriteSome \/ WriteError
  BY <1>4
  DEF RemoveConnection, remove_connection, ReadSome, ReadClosed, TryOneRequest,
      ServeDone, WriteSome, WriteError
<1>5. CASE Restart
  BY <1>5 DEF Restart, KernelRestart
<1>6. CASE UNCHANGED vars
  BY <1>6 DEF vars, kernelVars
<1>7. QED
  BY <1>1, <1>2, <1>3, <1>4, <1>5, <1>6, NextCases

(* A connection that has just been accepted has nothing in its stream. *)
LEMMA AcceptedIsSilent ==
  ASSUME CInv, [Next]_vars, ~EndStep, NEW f \in fds' \ fds
  PROVE  f \in Fd /\ Sent(peerOf[f])' = {} /\ Queued(f)' = {}
<1>1. CASE AcceptConnection \/ AcceptUnwatched
  <2>1. PICK g \in Fd, p \in Peer : accept(g, p)
    BY <1>1 DEF AcceptConnection, AcceptUnwatched
  <2>2. f = g /\ f \notin fds /\ peerOf'[f] = p
    BY <2>1, LowestFree DEF accept, CInv, IInv, TypeOK, KernelTypeOK
  <2>3. backlog \in Seq(Peer) /\ backlog # << >> /\ p = Head(backlog)
    BY <2>1 DEF accept, CInv, IInv, TypeOK, KernelTypeOK
  <2>4. Unaccepted(p)
    BY <2>3, ToSetTail DEF Unaccepted
  <2>5. got[p] = << >> /\ net[p] = << >> /\ outgoing[f] = << >>
    BY <2>2, <2>4 DEF CInv, Endpoints, FreshSlot
  <2>6. UNCHANGED <<got, net, outgoing>>
    BY <1>1 DEF AcceptConnection, AcceptUnwatched, sockVars, tableVars
  <2>7. QED
    BY <2>2, <2>5, <2>6, ToSetEmpty DEF Sent, Queued
<1>2. ASSUME NEW p \in Peer, PeerMoves(p) PROVE fds' = fds
  BY <1>2, PeerStepLemma
<1>3. CASE LoopOnly
  BY <1>3, LoopOnlyLemma
<1>4. CASE RemoveConnection \/ ReadSome \/ ReadClosed \/ TryOneRequest \/ ServeDone
           \/ WriteSome \/ WriteError
  BY <1>4
  DEF RemoveConnection, remove_connection, ReadSome, ReadClosed, TryOneRequest,
      ServeDone, WriteSome, WriteError
<1>5. CASE Restart
  BY <1>5 DEF Restart, KernelRestart
<1>6. CASE UNCHANGED vars
  BY <1>6 DEF vars, kernelVars
<1>7. QED
  BY <1>1, <1>2, <1>3, <1>4, <1>5, <1>6, NextCases

-----------------------------------------------------------------------------
(* A chat message is answered only to a connection that has logged in and  *)
(* in its own name, and a private one goes to a connection of that name.   *)
LEMMA ServeChat ==
  ASSUME IInv, TryOneRequest, IsChat(Reply)
  PROVE  /\ has_flag(cur, "IS_AUTH") /\ Reply.username = usernames[cur]
         /\ UNCHANGED idents
         /\ \A f \in Fd \ {cur} : Queued(f)' # Queued(f) =>
              /\ has_flag(f, "IS_AUTH")
              /\ Reply.tag = "TAG_P2P_BROADCAST" => usernames[f] = Reply.recipient
<1> DEFINE req == Head(incoming[cur])
<1>1. TypeOK /\ cur \in Fd
  BY ServeCur
<1>2. ASSUME NEW m, NEW fs, Respond(m, fs)
      PROVE  Reply = m /\ \A f \in Fd \ {cur} : Queued(f)' # Queued(f) => f \in fs
  BY <1>1, <1>2, RespondReply DEF Respond, Queued
<1>3. BroadcastVerdict(req) = "RESP_OK" => has_flag(cur, "IS_AUTH")
  BY DEF BroadcastVerdict
<1>4. CASE ServeRegister(req) \/ ServeLogin(req)
  <2>1. CASE ServeRegister(req)
    <3>1. PICK fault : Respond(register_user(db, req, fault).response, {})
      BY <2>1 DEF ServeRegister
    <3>2. register_user(db, req, fault).response.type = "REGISTER"
      BY DEF register_user, build_user_response, build_server_response
    <3>3. Reply = register_user(db, req, fault).response
      BY <1>2, <3>1
    <3>4. QED
      BY <3>2, <3>3 DEF IsChat
  <2>2. CASE ServeLogin(req)
    <3>1. PICK fault : outgoing' = [outgoing EXCEPT ![cur] =
                                      Append(@, login_user(db, req, fault).response)]
      BY <2>2 DEF ServeLogin
    <3>2. login_user(db, req, fault).response.type = "LOGIN"
      BY DEF login_user, build_user_response, build_server_response
    <3>3. outgoing'[cur] = Append(outgoing[cur], login_user(db, req, fault).response)
      BY <1>1, <3>1 DEF TypeOK, TableTypeOK
    <3>4. Reply = login_user(db, req, fault).response
      BY <1>1, <3>3, ReplyLemma
    <3>5. QED
      BY <3>2, <3>4 DEF IsChat
  <2>3. QED
    BY <1>4, <2>1, <2>2
<1>5. CASE ServeRefused(req)
  <2>1. Reply.rc # "RESP_OK"
    BY <1>2, <1>5 DEF ServeRefused, build_server_response
  <2>2. QED
    BY <2>1 DEF IsChat
<1>6. CASE ServeWorld(req)
  <2> DEFINE note == build_world_broadcast_notification(usernames[cur], req.content)
  <2>1. note.username = usernames[cur] /\ note.tag = "TAG_WORLD_BROADCAST"
    BY DEF build_world_broadcast_notification, build_server_response
  <2> HIDE DEF note
  <2>2. Respond(note, Recipients) /\ UNCHANGED idents /\ BroadcastVerdict(req) = "RESP_OK"
    BY <1>6 DEF ServeWorld, note
  <2>3. QED
    BY <1>2, <1>3, <2>1, <2>2 DEF Recipients
<1>7. CASE ServeP2P(req)
  <2> DEFINE note == build_p2p_broadcast_notification(usernames[cur], req.recipient,
                                                      req.content)
             sorry == build_server_response("CHAT", "RESP_ERROR_USER_NOT_FOUND")
             named == {f \in Recipients : usernames[f] = req.recipient}
  <2>1. note.username = usernames[cur] /\ note.recipient = req.recipient
    BY DEF build_p2p_broadcast_notification, build_server_response
  <2>2. sorry.rc # "RESP_OK"
    BY DEF build_server_response
  <2>3. P2PRecipients(req) \subseteq named
    <3>1. named \subseteq Nat
      BY KernelAssumption DEF Recipients
    <3>2. named # {} => Min(named) \in named
      BY <3>1, MinProperties
    <3>3. QED
      BY <3>2 DEF P2PRecipients
  <2> HIDE DEF note, sorry
  <2>4. /\ Respond(IF P2PRecipients(req) = {} THEN sorry ELSE note, P2PRecipients(req))
        /\ UNCHANGED idents /\ BroadcastVerdict(req) = "RESP_OK"
    BY <1>7 DEF ServeP2P, note, sorry, history
  <2>5. Reply = note
    BY <1>2, <2>2, <2>4 DEF IsChat
  <2>6. QED
    BY <1>2, <1>3, <2>1, <2>3, <2>4, <2>5 DEF Recipients
<1>8. CASE ServeUnknown(req)
  <2>1. Reply.type # "CHAT"
    BY <1>2, <1>8 DEF ServeUnknown, build_server_response
  <2>2. QED
    BY <2>1 DEF IsChat
<1>9. QED
  BY <1>4, <1>5, <1>6, <1>7, <1>8 DEF TryOneRequest

(* A login adds the name to the names of the connection. *)
LEMMA NamedStep ==
  ASSUME IInv, NamedIdents, [Next]_vars
  PROVE  NamedIdents'
<1>1. CASE TryOneRequest
  <2>1. TypeOK /\ cur \in Fd
    BY <1>1, ServeCur
  <2>2. CASE /\ UNCHANGED <<usernames, idents>>
             /\ \A f \in Fd : has_flag(f, "IS_AUTH")' = has_flag(f, "IS_AUTH")
    BY <2>2 DEF NamedIdents
  <2>3. ASSUME NEW id, Authenticate(id) PROVE NamedIdents'
    <3>1. \A f \in Fd \ {cur} : /\ usernames'[f] = usernames[f] /\ idents'[f] = idents[f]
                                /\ has_flag(f, "IS_AUTH")' = has_flag(f, "IS_AUTH")
      BY <2>1, <2>3 DEF Authenticate, has_flag, TypeOK, TableTypeOK, HistoryTypeOK
    <3>2. usernames'[cur] = db[id].username /\ db[id].username \in idents'[cur]
      BY <2>1, <2>3 DEF Authenticate, TypeOK, TableTypeOK, HistoryTypeOK
    <3>3. QED
      BY <3>1, <3>2 DEF NamedIdents
  <2>4. QED
    BY <1>1, <2>1, <2>2, <2>3, ServeOutcome
<1>2. CASE EndStep
  BY <1>2, EndLemma DEF NamedIdents, has_flag
<1>3. CASE ~TryOneRequest /\ ~EndStep
  BY <1>3, AccountsFrame DEF NamedIdents
<1>4. QED
  BY <1>1, <1>2, <1>3

(* Every step keeps the messages where they may be. *)
LEMMA ConfinedStep ==
  ASSUME CInv, NamedIdents, AllConfined, [Next]_vars
  PROVE  AllConfined'
<1>1. CASE EndStep
  BY <1>1, EndLemma DEF AllConfined
<1>2. CASE ~EndStep
  <2>1. /\ fds \subseteq fds' /\ \A f \in fds : peerOf'[f] = peerOf[f]
        /\ \A f \in Fd : idents[f] \subseteq idents'[f]
    BY <1>2, FdsGrow, IdentsGrow DEF CInv
  <2>2. fds \subseteq Fd /\ IInv
    BY DEF CInv, IInv, TypeOK, KernelTypeOK
  <2>3. \A f \in fds : \A m : Confined(f, m) => Confined(f, m)'
    BY <2>1, <2>2 DEF Confined
  <2>4. \A f \in fds' \ fds : Sent(peerOf[f])' = {} /\ Queued(f)' = {}
    BY <1>2, AcceptedIsSilent
  <2>5. CASE ~TryOneRequest
    <3>1. \A f \in fds : Queued(f)' \subseteq Queued(f)
      BY <2>2, <2>5, Flow
    <3>2. ASSUME NEW f \in fds, NEW m \in Sent(peerOf[f])'
          PROVE  m \in Sent(peerOf[f]) \cup Queued(f)
      <4>1. PICK p \in Peer : p = peerOf[f]
        BY <2>2 DEF CInv, Endpoints
      <4>2. m \in Sent(p)'
        BY <2>1, <3>2, <4>1 DEF Sent
      <4>3. CASE m \notin Sent(p)
        <5>1. PICK g \in fds : peerOf[g] = p /\ m \in Queued(g)
          BY <2>2, <2>5, <4>2, <4>3, Flow
        <5>2. g = f
          BY <4>1, <5>1 DEF CInv, Endpoints
        <5>3. QED
          BY <5>1, <5>2
      <4>4. QED
        BY <4>1, <4>3
    <3>3. QED
      BY <2>1, <2>3, <2>4, <3>1, <3>2 DEF AllConfined
  <2>6. CASE TryOneRequest
    <3>1. cur \in fds /\ cur \in Fd
      BY <2>2, <2>6, ServeCur
    <3>2. ASSUME NEW f \in fds
          PROVE  Sent(peerOf[f])' = Sent(peerOf[f])
      <4>1. PICK p \in Peer : p = peerOf[f]
        BY <2>2 DEF CInv, Endpoints
      <4>2. Sent(p)' = Sent(p)
        BY <2>2, <2>6, ServeFlow
      <4>3. QED
        BY <2>1, <4>1, <4>2 DEF Sent
    <3>3. \A f \in fds : Queued(f)' \subseteq Queued(f) \cup {Reply}
      BY <2>2, <2>6, ServeFlow
    <3>4. ASSUME NEW f \in fds, NEW m \in Queued(f)', m \notin Queued(f)
          PROVE  Confined(f, m)'
      <4>1. m = Reply
        BY <3>3, <3>4
      <4>2. SUFFICES ASSUME IsChat(m) PROVE Confined(f, m)'
        BY DEF Confined
      <4>3. /\ has_flag(cur, "IS_AUTH") /\ m.username = usernames[cur]
            /\ UNCHANGED idents
            /\ f # cur => /\ has_flag(f, "IS_AUTH")
                          /\ m.tag = "TAG_P2P_BROADCAST" => usernames[f] = m.recipient
        BY <2>2, <2>6, <3>4, <4>1, <4>2, ServeChat
      <4>4. m.username \in idents[cur] /\ usernames[f] \in idents[f]
        BY <2>2, <3>1, <4>3 DEF NamedIdents
      <4>5. QED
        BY <2>1, <3>1, <4>3, <4>4 DEF Confined
    <3>5. QED
      BY <2>1, <2>3, <2>4, <3>2, <3>4 DEF AllConfined
  <2>7. QED
    BY <2>5, <2>6
<1>3. QED
  BY <1>1, <1>2

(***************************************************************************)
(* handle_broadcast_message: whatever the modes, the partial writes, the   *)
(* removals and the logins under other names that come between, a chat     *)
(* message reaches only connections that have logged in, a private one     *)
(* only its sender and its recipient, and the sender's name is one that a  *)
(* connection has logged in with.                                          *)
(***************************************************************************)
THEOREM ChatIsConfined == Spec => []ChatConfined
<1>1. Init => NamedIdents /\ AllConfined
  BY DEF Init, KernelInit, NamedIdents, AllConfined, has_flag
<1>2. CInv /\ NamedIdents /\ AllConfined /\ [Next]_vars => NamedIdents' /\ AllConfined'
  BY NamedStep, ConfinedStep DEF CInv
<1>3. CInv /\ AllConfined => ChatConfined
  <2> SUFFICES ASSUME CInv, AllConfined, NEW f \in fds, NEW m \in ToSet(Stream(f))
               PROVE  Confined(f, m)
    BY DEF ChatConfined, Confined
  <2>1. f \in Fd /\ peerOf[f] \in Peer /\ TypeOK
    BY DEF CInv, IInv, TypeOK, KernelTypeOK, Endpoints
  <2>2. m \in Sent(peerOf[f]) \cup Queued(f)
    BY <2>1, StreamElements
  <2>3. QED
    BY <2>2 DEF AllConfined
<1>4. QED
  BY <1>1, <1>2, <1>3, Connections, PTL DEF Spec


-----------------------------------------------------------------------------
(* Counting world broadcasts. *)
LEMMA WorldsFinite ==
  ASSUME NEW s, NEW i \in Nat
  PROVE  IsFiniteSet(WorldsIn(s, i)) /\ Cardinality(WorldsIn(s, i)) \in Nat
<1>1. IsFiniteSet(1 .. i)
  BY FS_Interval
<1>2. WorldsIn(s, i) \in SUBSET (1 .. i)
  BY DEF WorldsIn
<1>3. QED
  BY <1>1, <1>2, FS_Subset, FS_CardinalityType

(* The number of a world broadcast is at least 1, at most that of all. *)
LEMMA WorldNumber ==
  ASSUME NEW s, NEW n \in Nat, NEW i \in 1 .. n, IsWorld(s[i])
  PROVE  /\ Cardinality(WorldsIn(s, i)) \in Nat \ {0}
         /\ Cardinality(WorldsIn(s, i)) =< Cardinality(WorldsIn(s, n))
<1>1. i \in WorldsIn(s, i) /\ WorldsIn(s, i) \in SUBSET WorldsIn(s, n)
  BY DEF WorldsIn
<1>2. IsFiniteSet(WorldsIn(s, i)) /\ IsFiniteSet(WorldsIn(s, n))
  BY WorldsFinite
<1>3. Cardinality(WorldsIn(s, i)) # 0
  BY <1>1, <1>2, FS_EmptySet
<1>4. QED
  BY <1>1, <1>2, <1>3, FS_Subset, WorldsFinite

(* One message more. *)
LEMMA WorldsAppend ==
  ASSUME NEW s \in Seq(Response), NEW m \in Response
  PROVE  /\ \A i \in 0 .. Len(s) : WorldsIn(Append(s, m), i) = WorldsIn(s, i)
         /\ Cardinality(WorldsIn(Append(s, m), Len(s) + 1)) =
              Cardinality(WorldsIn(s, Len(s))) + (IF IsWorld(m) THEN 1 ELSE 0)
<1>1. /\ Len(s) \in Nat /\ Append(s, m)[Len(s) + 1] = m
      /\ \A k \in 1 .. Len(s) : Append(s, m)[k] = s[k]
  BY AppendProperties, LenProperties
<1>2. \A i \in 0 .. Len(s) : WorldsIn(Append(s, m), i) = WorldsIn(s, i)
  BY <1>1 DEF WorldsIn
<1>3. WorldsIn(Append(s, m), Len(s) + 1) =
        WorldsIn(s, Len(s)) \cup (IF IsWorld(m) THEN {Len(s) + 1} ELSE {})
  BY <1>1 DEF WorldsIn
<1>4. Len(s) + 1 \notin WorldsIn(s, Len(s)) /\ IsFiniteSet(WorldsIn(s, Len(s)))
      /\ Cardinality(WorldsIn(s, Len(s))) \in Nat
  BY <1>1, WorldsFinite DEF WorldsIn
<1>5. CASE IsWorld(m)
  <2>1. WorldsIn(Append(s, m), Len(s) + 1) = WorldsIn(s, Len(s)) \cup {Len(s) + 1}
    BY <1>3, <1>5
  <2>2. Cardinality(WorldsIn(s, Len(s)) \cup {Len(s) + 1}) = Cardinality(WorldsIn(s, Len(s))) + 1
    BY <1>4, FS_AddElement
  <2>3. QED
    BY <1>2, <1>5, <2>1, <2>2
<1>6. CASE ~IsWorld(m)
  <2>1. WorldsIn(Append(s, m), Len(s) + 1) = WorldsIn(s, Len(s))
    BY <1>3, <1>6
  <2>2. QED
    BY <1>2, <1>4, <1>6, <2>1
<1>7. QED
  BY <1>5, <1>6

(* Another message, which is not a world broadcast. *)
LEMMA FollowsOther ==
  ASSUME NEW s \in Seq(Response), NEW m \in Response, ~IsWorld(m), NEW j, NEW lg,
         Follows(s, j, lg)
  PROVE  Follows(Append(s, m), j, lg)
<1>1. /\ Len(s) \in Nat /\ Append(s, m)[Len(s) + 1] = m /\ Len(Append(s, m)) = Len(s) + 1
      /\ \A k \in 1 .. Len(s) : Append(s, m)[k] = s[k]
      /\ DOMAIN s = 1 .. Len(s) /\ DOMAIN Append(s, m) = 1 .. Len(s) + 1
  BY AppendProperties, LenProperties
<1>2. /\ \A i \in 0 .. Len(s) : WorldsIn(Append(s, m), i) = WorldsIn(s, i)
      /\ Cardinality(WorldsIn(Append(s, m), Len(s) + 1)) = Cardinality(WorldsIn(s, Len(s)))
  <2>1. Cardinality(WorldsIn(s, Len(s))) \in Nat
    BY <1>1, WorldsFinite
  <2>2. QED
    BY <2>1, WorldsAppend
<1>3. ASSUME NEW i \in 1 .. Len(s) + 1, IsWorld(Append(s, m)[i])
      PROVE  Append(s, m)[i] = lg[j + Cardinality(WorldsIn(Append(s, m), i))]
  <2>1. i \in 1 .. Len(s)
    BY <1>1, <1>3
  <2>2. Append(s, m)[i] = s[i] /\ WorldsIn(Append(s, m), i) = WorldsIn(s, i)
    BY <1>1, <1>2, <2>1
  <2>3. QED
    BY <1>1, <1>3, <2>1, <2>2 DEF Follows
<1>4. QED
  BY <1>1, <1>2, <1>3 DEF Follows

(* The next world broadcast, at the end of the stream and of the log. *)
LEMMA FollowsWorld ==
  ASSUME NEW s \in Seq(Response), NEW m \in Response, IsWorld(m), NEW j \in Nat,
         NEW lg \in Seq(Response), Follows(s, j, lg)
  PROVE  Follows(Append(s, m), j, Append(lg, m))
<1>1. /\ Len(s) \in Nat /\ Append(s, m)[Len(s) + 1] = m /\ Len(Append(s, m)) = Len(s) + 1
      /\ \A k \in 1 .. Len(s) : Append(s, m)[k] = s[k]
      /\ DOMAIN s = 1 .. Len(s) /\ DOMAIN Append(s, m) = 1 .. Len(s) + 1
  BY AppendProperties, LenProperties
<1>2. /\ Len(lg) \in Nat /\ Append(lg, m)[Len(lg) + 1] = m /\ Len(Append(lg, m)) = Len(lg) + 1
      /\ \A k \in 1 .. Len(lg) : Append(lg, m)[k] = lg[k]
  BY AppendProperties, LenProperties
<1>3. PICK c \in Nat : c = Cardinality(WorldsIn(s, Len(s)))
  BY <1>1, WorldsFinite
<1>4. c = Len(lg) - j
  BY <1>3 DEF Follows
<1>5. /\ \A i \in 0 .. Len(s) : WorldsIn(Append(s, m), i) = WorldsIn(s, i)
      /\ Cardinality(WorldsIn(Append(s, m), Len(s) + 1)) = c + 1
  BY <1>3, WorldsAppend
<1>6. ASSUME NEW i \in 1 .. Len(s) + 1, IsWorld(Append(s, m)[i])
      PROVE  Append(s, m)[i] = Append(lg, m)[j + Cardinality(WorldsIn(Append(s, m), i))]
  <2>1. CASE i = Len(s) + 1
    <3>1. j + (c + 1) = Len(lg) + 1
      BY <1>2, <1>4
    <3>2. QED
      BY <1>1, <1>2, <1>5, <2>1, <3>1
  <2>2. CASE i \in 1 .. Len(s)
    <3>1. Append(s, m)[i] = s[i] /\ WorldsIn(Append(s, m), i) = WorldsIn(s, i) /\ IsWorld(s[i])
      BY <1>1, <1>5, <1>6, <2>2
    <3>2. PICK d \in Nat : d = Cardinality(WorldsIn(s, i)) /\ d # 0 /\ d =< c
      <4>1. /\ Cardinality(WorldsIn(s, i)) \in Nat \ {0}
            /\ Cardinality(WorldsIn(s, i)) =< Cardinality(WorldsIn(s, Len(s)))
        BY <1>1, <2>2, <3>1, WorldNumber
      <4>2. QED
        BY <1>3, <4>1
    <3>3. s[i] = lg[j + d]
      BY <1>1, <2>2, <3>1, <3>2 DEF Follows
    <3>4. j + d \in 1 .. Len(lg)
      BY <1>2, <1>4, <3>2
    <3>5. QED
      BY <1>2, <3>1, <3>2, <3>3, <3>4
  <2>3. i = Len(s) + 1 \/ i \in 1 .. Len(s)
    BY <1>1
  <2>4. QED
    BY <2>1, <2>2, <2>3
<1>7. Cardinality(WorldsIn(Append(s, m), Len(s) + 1)) = Len(Append(lg, m)) - j
  BY <1>2, <1>4, <1>5
<1>8. QED
  BY <1>1, <1>6, <1>7 DEF Follows

(* A stream without world broadcasts follows the end of the log. *)
LEMMA FollowsNothing ==
  ASSUME NEW s \in Seq(Response), WorldsIn(s, Len(s)) = {}, NEW lg \in Seq(Response)
  PROVE  Follows(s, Len(lg), lg)
<1>1. DOMAIN s = 1 .. Len(s) /\ Len(lg) \in Nat
  BY LenProperties
<1>2. \A i \in DOMAIN s : ~IsWorld(s[i])
  BY <1>1 DEF WorldsIn
<1>3. QED
  BY <1>1, <1>2, FS_EmptySet DEF Follows

-----------------------------------------------------------------------------
(***************************************************************************)
(* GaplessBroadcast is not inductive: a login starts from a stream without *)
(* world broadcasts, which every connection has until then.                *)
(***************************************************************************)
Following ==
  \A f \in Fd : has_flag(f, "IS_ACTIVE") /\ f \notin Lost =>
    IF has_flag(f, "IS_AUTH")
    THEN Follows(Inbox[f], joined[f], log)
    ELSE WorldsIn(Inbox[f], Len(Inbox[f])) = {}

(* An inbox is a sequence of messages. *)
LEMMA InboxType ==
  ASSUME CInv, NEW f \in Fd
  PROVE  Inbox[f] \in Seq(Response)
<1>1. << >> \in Seq(Response)
  BY EmptySeq
<1>2. peerOf[f] # NoPeer => f \in fds
  BY DEF CInv, Endpoints
<1>3. QED
  BY <1>1, <1>2, StreamParts DEF Inbox

(* No other step logs anybody in, and a new connection starts logged out. *)
LEMMA SessionsFrame ==
  ASSUME IInv, [Next]_vars, ~TryOneRequest, ~EndStep
  PROVE  /\ UNCHANGED <<log, joined>>
         /\ \A f \in Fd : has_flag(f, "IS_ACTIVE")' =>
              \/ has_flag(f, "IS_ACTIVE") /\ (has_flag(f, "IS_AUTH")' <=> has_flag(f, "IS_AUTH"))
              \/ f \notin fds /\ ~has_flag(f, "IS_AUTH")'
<1> USE DEF has_flag
<1> DEFINE Kept(g, h) == \A flag \in {"IS_ACTIVE", "IS_AUTH"} : flag \in g <=> flag \in h
<1>1. CASE UNCHANGED vars
  BY <1>1 DEF vars, serverVars, history
<1>2. ASSUME NEW p \in Peer, PeerMoves(p)
      PROVE  UNCHANGED <<log, joined, flags>>
  BY <1>2, PeerStepLemma
<1>3. CASE LoopOnly
  BY <1>3, LoopOnlyLemma
<1>4. CASE RemoveConnection
  BY <1>4
  DEF RemoveConnection, remove_connection, history, IInv, TypeOK, TableTypeOK
<1>5. CASE AcceptConnection
  <2>1. PICK f \in Fd, p \in Peer : accept(f, p) /\ add_connection(f, p)
    BY <1>5 DEF AcceptConnection
  <2>2. f \notin fds
    BY <2>1, LowestFree DEF accept
  <2>3. flags' = [flags EXCEPT ![f] = {"IS_ACTIVE", "WANT_READ"}] /\ flags \in [Fd -> SUBSET Flag]
    BY <2>1 DEF add_connection, IInv, TypeOK, TableTypeOK
  <2>4. QED
    BY <1>5, <2>2, <2>3 DEF AcceptConnection, history
<1>6. CASE AcceptUnwatched \/ ReadSome
  BY <1>6 DEF AcceptUnwatched, ReadSome, history
<1>7. CASE ReadClosed \/ WriteError
  <2>1. \A f \in Fd : Kept(flags'[f], flags[f])
    BY <1>7 DEF ReadClosed, WriteError, set_connection_state, NextFlags
  <2>2. QED
    BY <1>7, <2>1 DEF ReadClosed, WriteError, history
<1>8. CASE ServeDone
  <2>1. cur \in Fd /\ flags \in [Fd -> SUBSET Flag]
    BY <1>8 DEF ServeDone, IInv, TypeOK, TableTypeOK, Handling
  <2>2. \A f \in Fd \ {cur} : flags'[f] = flags[f]
    BY <1>8, <2>1 DEF ServeDone
  <2>3. PICK cl \in {flags[cur], NextFlags(flags[cur], "CLOSING")} :
          flags'[cur] \in {cl, NextFlags(cl, "WRITING")}
    BY <1>8, <2>1 DEF ServeDone
  <2>4. Kept(flags'[cur], flags[cur])
    BY <2>3 DEF NextFlags
  <2>5. QED
    BY <1>8, <2>2, <2>4 DEF ServeDone, history
<1>9. CASE WriteSome
  <2>1. \A f \in Fd : Kept(flags'[f], flags[f])
    BY <1>9 DEF WriteSome, set_connection_state, NextFlags
  <2>2. QED
    BY <1>9, <2>1 DEF WriteSome, history
<1>10. CASE Restart
  BY <1>10 DEF Restart, history
<1>11. QED
  BY <1>1, <1>2, <1>3, <1>4, <1>5, <1>6, <1>7, <1>8, <1>9, <1>10, NextCases

(* What a served request does to the log and to who is logged in. *)
WorldServed(m, fs) ==
  /\ IsWorld(m) /\ has_flag(cur, "IS_AUTH") /\ fs = Recipients
  /\ log' = Append(log, m) /\ joined' = joined
  /\ \A f \in Fd : /\ has_flag(f, "IS_AUTH")' <=> has_flag(f, "IS_AUTH")
                   /\ has_flag(f, "IS_ACTIVE")' <=> has_flag(f, "IS_ACTIVE")

OtherServed(m) ==
  /\ ~IsWorld(m) /\ log' = log
  /\ \A f \in Fd :
       /\ has_flag(f, "IS_ACTIVE")' <=> has_flag(f, "IS_ACTIVE")
       /\ \/ (has_flag(f, "IS_AUTH")' <=> has_flag(f, "IS_AUTH")) /\ joined'[f] = joined[f]
          \/ ~has_flag(f, "IS_AUTH") /\ has_flag(f, "IS_AUTH")' /\ joined'[f] = Len(log)

(* A message more for some sessions; the log grows with a world broadcast, *)
(* which goes to all that are logged in, and only then.                    *)
LEMMA ServeWorlds ==
  ASSUME CInv, TryOneRequest
  PROVE  \E m \in Response : \E fs \in SUBSET Recipients :
           /\ Lost' = Lost /\ Service!Send(fs \cup {cur}, m)
           /\ WorldServed(m, fs) \/ OtherServed(m)
<1> DEFINE req == Head(incoming[cur])
<1>1. cur \in Fd /\ TypeOK
  BY ServeCur DEF CInv
<1>2. ASSUME NEW m, NEW fs \in SUBSET Recipients, Respond(m, fs)
      PROVE  /\ Lost' = Lost /\ Service!Send(fs \cup {cur}, m) /\ m \in Response
             /\ \A f \in Fd : /\ has_flag(f, "IS_AUTH")' <=> has_flag(f, "IS_AUTH")
                              /\ has_flag(f, "IS_ACTIVE")' <=> has_flag(f, "IS_ACTIVE")
  <2>1. Lost' = Lost /\ Service!Send(fs \cup {cur}, m) /\ m \in Response
    BY <1>2, ServeSend DEF Respond
  <2>2. QED
    BY <1>2, <2>1 DEF Respond, set_connection_state, NextFlags, has_flag
<1> DEFINE Goal == \E m \in Response : \E fs \in SUBSET Recipients :
                     /\ Lost' = Lost /\ Service!Send(fs \cup {cur}, m)
                     /\ WorldServed(m, fs) \/ OtherServed(m)
<1>3. ASSUME NEW m, NEW fs \in SUBSET Recipients, Respond(m, fs), ~IsWorld(m),
             UNCHANGED <<log, joined>>
      PROVE  Goal
  <2>1. OtherServed(m)
    BY <1>2, <1>3 DEF OtherServed
  <2>2. QED
    BY <1>2, <1>3, <2>1
<1>4. CASE ServeRegister(req)
  <2>1. PICK fault : Respond(register_user(db, req, fault).response, {})
    BY <1>4 DEF ServeRegister
  <2>2. PICK m : m = register_user(db, req, fault).response
    OBVIOUS
  <2>3. ~IsWorld(m)
    <3>1. m.type = "REGISTER"
      BY <2>2 DEF register_user, build_user_response, build_server_response
    <3>2. QED
      BY <3>1 DEF IsWorld, IsChat
  <2>4. {} \in SUBSET Recipients /\ Respond(m, {}) /\ UNCHANGED <<log, joined>>
    BY <1>4, <2>1, <2>2 DEF ServeRegister, history
  <2>5. QED
    BY <1>3, <2>3, <2>4
<1>5. CASE ServeLogin(req)
  <2>1. PICK fault :
          LET result == login_user(db, req, fault)
          IN /\ outgoing' = [outgoing EXCEPT ![cur] = Append(@, result.response)]
             /\ IF result.id # 0
                THEN Authenticate(result.id)
                ELSE UNCHANGED <<flags, user_ids, usernames, joined, idents>>
    BY <1>5 DEF ServeLogin
  <2>2. PICK r : r = login_user(db, req, fault)
    OBVIOUS
  <2>3. ~IsWorld(r.response)
    <3>1. login_user(db, req, fault).response.type = "LOGIN"
      BY DEF login_user, build_user_response, build_server_response
    <3>2. QED
      BY <2>2, <3>1 DEF IsWorld, IsChat
  <2>4. {} \in SUBSET Recipients
    OBVIOUS
  <2>5. outgoing' = [f \in Fd |-> IF f \in {} \cup {cur} THEN Append(outgoing[f], r.response)
                                                         ELSE outgoing[f]]
    BY <1>1, <2>1, <2>2 DEF TypeOK, TableTypeOK
  <2>6. Lost' = Lost /\ Service!Send({} \cup {cur}, r.response) /\ r.response \in Response
    BY <2>4, <2>5, ServeSend
  <2>7. OtherServed(r.response)
    <3>1. flags \in [Fd -> SUBSET Flag] /\ joined \in [Fd -> Nat]
      BY <1>1 DEF TypeOK, TableTypeOK, HistoryTypeOK
    <3>2. log' = log
      BY <1>5 DEF ServeLogin
    <3>3. CASE r.id = 0
      BY <2>1, <2>2, <2>3, <3>2, <3>3 DEF OtherServed, has_flag
    <3>4. CASE r.id # 0
      <4>1. Authenticate(r.id)
        BY <2>1, <2>2, <3>4
      <4>2. /\ \A f \in Fd \ {cur} : flags'[f] = flags[f] /\ joined'[f] = joined[f]
            /\ flags'[cur] = flags[cur] \cup {"IS_AUTH"}
            /\ joined'[cur] = IF "IS_AUTH" \in flags[cur] THEN joined[cur] ELSE Len(log)
        BY <1>1, <3>1, <4>1 DEF Authenticate, has_flag
      <4>3. QED
        BY <2>3, <3>2, <4>2 DEF OtherServed, has_flag
    <3>5. QED
      BY <3>3, <3>4
  <2>8. QED
    BY <2>4, <2>6, <2>7
<1>6. CASE ServeRefused(req) \/ ServeUnknown(req)
  <2>1. PICK type, rc : rc # "RESP_OK" /\ Respond(build_server_response(type, rc), {})
    BY <1>6 DEF ServeRefused, ServeUnknown
  <2>2. PICK m : m = build_server_response(type, rc)
    OBVIOUS
  <2>3. ~IsWorld(m)
    BY <2>1, <2>2 DEF build_server_response, IsWorld, IsChat
  <2>4. {} \in SUBSET Recipients /\ Respond(m, {}) /\ UNCHANGED <<log, joined>>
    BY <1>6, <2>1, <2>2 DEF ServeRefused, ServeUnknown, history
  <2>5. QED
    BY <1>3, <2>3, <2>4
<1>7. CASE ServeWorld(req)
  <2>1. PICK note : note = build_world_broadcast_notification(usernames[cur], req.content)
    OBVIOUS
  <2>2. /\ Respond(note, Recipients) /\ log' = Append(log, note) /\ joined' = joined
        /\ BroadcastVerdict(req) = "RESP_OK"
    BY <1>7, <2>1 DEF ServeWorld
  <2>3. IsWorld(note) /\ has_flag(cur, "IS_AUTH")
    <3>1. IsWorld(note)
      BY <2>1 DEF build_world_broadcast_notification, build_server_response, IsWorld, IsChat
    <3>2. QED
      BY <2>2, <3>1 DEF BroadcastVerdict
  <2>4. WorldServed(note, Recipients)
    BY <1>2, <2>2, <2>3 DEF WorldServed
  <2>5. QED
    BY <1>2, <2>2, <2>4
<1>8. CASE ServeP2P(req)
  <2>1. PICK note : note = build_p2p_broadcast_notification(usernames[cur], req.recipient,
                                                            req.content)
    OBVIOUS
  <2>2. PICK absent : absent = build_server_response("CHAT", "RESP_ERROR_USER_NOT_FOUND")
    OBVIOUS
  <2>3. ~IsWorld(note) /\ ~IsWorld(absent)
    <3>1. ~IsWorld(note)
      BY <2>1 DEF build_p2p_broadcast_notification, build_server_response, IsWorld
    <3>2. QED
      BY <2>2, <3>1 DEF build_server_response, IsWorld, IsChat
  <2>4. Respond(IF P2PRecipients(req) = {} THEN absent ELSE note, P2PRecipients(req))
    BY <1>8, <2>1, <2>2 DEF ServeP2P
  <2>5. P2PRecipients(req) \in SUBSET Recipients
    BY P2PRecipientsLemma
  <2>6. QED
    BY <1>3, <1>8, <2>3, <2>4, <2>5 DEF ServeP2P, history
<1>9. QED
  BY <1>4, <1>5, <1>6, <1>7, <1>8 DEF TryOneRequest

(* Such a step keeps Following. *)
LEMMA FollowingServe ==
  ASSUME CInv, Following, TryOneRequest
  PROVE  Following'
<1>1. PICK m \in Response : \E fs \in SUBSET Recipients :
        /\ Lost' = Lost /\ Service!Send(fs \cup {cur}, m)
        /\ WorldServed(m, fs) \/ OtherServed(m)
  BY ServeWorlds
<1>2. PICK fs \in SUBSET Recipients :
        /\ Lost' = Lost /\ Service!Send(fs \cup {cur}, m)
        /\ WorldServed(m, fs) \/ OtherServed(m)
  BY <1>1
<1>3. log \in Seq(Response) /\ joined \in [Fd -> Nat] /\ Len(log) \in Nat
  BY LenProperties DEF CInv, IInv, TypeOK, HistoryTypeOK
<1>4. SUFFICES ASSUME NEW f \in Fd, has_flag(f, "IS_ACTIVE")', f \notin Lost
               PROVE  IF has_flag(f, "IS_AUTH")'
                      THEN Follows(Inbox'[f], joined'[f], log')
                      ELSE WorldsIn(Inbox'[f], Len(Inbox'[f])) = {}
  BY <1>2 DEF Following
<1>5. PICK s \in Seq(Response) : s = Inbox[f]
  BY InboxType
<1>6. PICK t \in Seq(Response) :
        t = Inbox'[f] /\ t = (IF f \in fs \cup {cur} THEN Append(s, m) ELSE s)
  <2>1. Append(s, m) \in Seq(Response)
    BY AppendProperties
  <2>2. Inbox'[f] = (IF f \in fs \cup {cur} THEN Append(s, m) ELSE s)
    BY <1>2, <1>4, <1>5 DEF Service!Send
  <2>3. QED
    BY <2>1, <2>2
<1>7. has_flag(f, "IS_ACTIVE")
  BY <1>2, <1>4 DEF WorldServed, OtherServed
<1>8. /\ has_flag(f, "IS_AUTH") => Follows(s, joined[f], log)
      /\ ~has_flag(f, "IS_AUTH") => WorldsIn(s, Len(s)) = {}
  BY <1>4, <1>5, <1>7 DEF Following
<1>9. CASE WorldServed(m, fs)
  <2>1. f \in fs \cup {cur} <=> has_flag(f, "IS_AUTH")
    <3>1. Recipients = Service!Members \ {cur}
      BY RecipientsAreMembers
    <3>2. Service!Members = {g \in Fd : has_flag(g, "IS_AUTH")}
      BY ServiceMembers DEF CInv, IInv
    <3>3. fs = Recipients /\ has_flag(cur, "IS_AUTH")
      BY <1>9 DEF WorldServed
    <3>4. QED
      BY <3>1, <3>2, <3>3
  <2>2. /\ IsWorld(m) /\ log' = Append(log, m) /\ joined' = joined
        /\ has_flag(f, "IS_AUTH")' <=> has_flag(f, "IS_AUTH")
    BY <1>9 DEF WorldServed
  <2>3. CASE has_flag(f, "IS_AUTH")
    <3>1. Follows(Append(s, m), joined[f], Append(log, m))
      BY <1>3, <1>8, <2>2, <2>3, FollowsWorld
    <3>2. t = Append(s, m)
      BY <1>6, <2>1, <2>3
    <3>3. QED
      BY <1>6, <2>2, <2>3, <3>1, <3>2
  <2>4. CASE ~has_flag(f, "IS_AUTH")
    <3>1. t = s
      BY <1>6, <2>1, <2>4
    <3>2. QED
      BY <1>6, <1>8, <2>2, <2>4, <3>1
  <2>5. QED
    BY <2>3, <2>4
<1>10. CASE OtherServed(m)
  <2>1. ~IsWorld(m) /\ log' = log
    BY <1>10 DEF OtherServed
  <2>2. \/ (has_flag(f, "IS_AUTH")' <=> has_flag(f, "IS_AUTH")) /\ joined'[f] = joined[f]
        \/ ~has_flag(f, "IS_AUTH") /\ has_flag(f, "IS_AUTH")' /\ joined'[f] = Len(log)
    BY <1>10 DEF OtherServed
  <2>3. ASSUME NEW j, Follows(s, j, log)
        PROVE  Follows(t, j, log)
    BY <1>6, <2>1, <2>3, FollowsOther
  <2>4. CASE has_flag(f, "IS_AUTH")
    BY <1>6, <1>8, <2>1, <2>2, <2>3, <2>4
  <2>5. CASE ~has_flag(f, "IS_AUTH") /\ has_flag(f, "IS_AUTH")'
    <3>1. Follows(s, Len(log), log)
      BY <1>3, <1>8, <2>5, FollowsNothing
    <3>2. Follows(t, Len(log), log)
      BY <2>3, <3>1
    <3>3. QED
      BY <1>6, <2>1, <2>2, <2>5, <3>2
  <2>6. CASE ~has_flag(f, "IS_AUTH") /\ ~has_flag(f, "IS_AUTH")'
    <3>1. WorldsIn(s, Len(s)) = {}
      BY <1>8, <2>6
    <3>2. WorldsIn(t, Len(t)) = {}
      <4>1. CASE t = s
        BY <3>1, <4>1
      <4>2. CASE t = Append(s, m)
        <5>1. /\ Len(s) \in Nat /\ Append(s, m)[Len(s) + 1] = m
              /\ Len(Append(s, m)) = Len(s) + 1
              /\ \A k \in 1 .. Len(s) : Append(s, m)[k] = s[k]
          BY AppendProperties, LenProperties
        <5>2. QED
          BY <2>1, <3>1, <4>2, <5>1 DEF WorldsIn
      <4>3. QED
        BY <1>6, <4>1, <4>2
    <3>3. QED
      BY <1>6, <2>6, <3>2
  <2>7. QED
    BY <2>4, <2>5, <2>6
<1>11. QED
  BY <1>2, <1>9, <1>10

(* Every step keeps Following. *)
LEMMA FollowingStep ==
  ASSUME CInv, Following, [Next]_vars
  PROVE  Following'
<1>1. CASE EndStep
  <2>1. flags' = [f \in Fd |-> {}]
    BY <1>1, EndLemma
  <2>2. QED
    BY <2>1 DEF Following, has_flag
<1>2. CASE TryOneRequest
  BY <1>2, FollowingServe
<1>3. CASE ~EndStep /\ ~TryOneRequest
  <2>1. /\ log' = log /\ joined' = joined
        /\ \A f \in Fd : has_flag(f, "IS_ACTIVE")' =>
             \/ has_flag(f, "IS_ACTIVE") /\ (has_flag(f, "IS_AUTH")' <=> has_flag(f, "IS_AUTH"))
             \/ f \notin fds /\ ~has_flag(f, "IS_AUTH")'
    BY <1>3, SessionsFrame DEF CInv
  <2>2. \A f \in Fd : f \notin Lost' => f \notin Lost /\ Inbox'[f] = Inbox[f]
    <3>1. ASSUME NEW p \in Peer, PeerMoves(p), PeerAbort(p) \/ KernelReset(p)
          PROVE  \/ Inbox' = Inbox /\ Lost' = Lost
                 \/ \E f \in Fd : Inbox' = [Inbox EXCEPT ![f] = << >>] /\ Lost' = Lost \cup {f}
      BY <3>1, ResetStream
    <3>2. CASE \A p \in Peer : PeerMoves(p) => ~PeerAbort(p) /\ ~KernelReset(p)
      BY <1>3, <3>2, QuietStream
    <3>3. Inbox = [f \in Fd |-> Inbox[f]]
      BY DEF Inbox
    <3>4. QED
      BY <3>1, <3>2, <3>3
  <2>3. SUFFICES ASSUME NEW f \in Fd, has_flag(f, "IS_ACTIVE")', f \notin Lost'
                 PROVE  IF has_flag(f, "IS_AUTH")'
                        THEN Follows(Inbox[f], joined[f], log)
                        ELSE WorldsIn(Inbox[f], Len(Inbox[f])) = {}
    BY <2>1, <2>2 DEF Following
  <2>4. CASE has_flag(f, "IS_ACTIVE") /\ (has_flag(f, "IS_AUTH")' <=> has_flag(f, "IS_AUTH"))
    BY <2>2, <2>3, <2>4 DEF Following
  <2>5. CASE f \notin fds /\ ~has_flag(f, "IS_AUTH")'
    <3>1. Inbox[f] = << >>
      BY <2>5, ClosedInbox
    <3>2. WorldsIn(<< >>, Len(<< >>)) = {}
      BY DEF WorldsIn
    <3>3. QED
      BY <2>5, <3>1, <3>2
  <2>6. QED
    BY <2>1, <2>3, <2>4, <2>5
<1>4. QED
  BY <1>1, <1>2, <1>3

(* Of a connection that is logged in, the inbox is the stream. *)
LEMMA FollowingImplies ==
  ASSUME CInv, Following
  PROVE  GaplessBroadcast
<1>1. SUFFICES ASSUME NEW f \in Fd, has_flag(f, "IS_AUTH"), err[peerOf[f]] = "ok"
               PROVE  Follows(Stream(f), joined[f], log)
  BY DEF GaplessBroadcast
<1>2. has_flag(f, "IS_ACTIVE") /\ mask[f] # "none"
  BY <1>1 DEF CInv, IInv, ModeAgrees
<1>3. peerOf[f] # NoPeer
  <2>1. f \in fds
    BY <1>2 DEF CInv, IInv, Watched
  <2>2. QED
    BY <2>1, StreamParts
<1>4. f \notin Lost /\ Inbox[f] = Stream(f)
  BY <1>1, <1>3 DEF Lost, Inbox, Broken
<1>5. QED
  BY <1>1, <1>2, <1>4 DEF Following

(***************************************************************************)
(* Every authenticated connection sees all world broadcasts since its      *)
(* login, once each and in the order in which the server served them, from *)
(* handle_world_broadcast_message to the peer, for any number of clients.  *)
(***************************************************************************)
THEOREM BroadcastsAreGapless == Spec => []GaplessBroadcast
<1>1. Init => Following
  BY DEF Init, Following, has_flag
<1>2. ASSUME CInv, Following, [Next]_vars
      PROVE  Following'
  BY <1>2, FollowingStep
<1>3. CInv /\ Following => GaplessBroadcast
  BY FollowingImplies
<1>4. Spec => []CInv
  BY Connections
<1>5. QED
  BY <1>1, <1>2, <1>3, <1>4, PTL DEF Spec
=============================================================================
