---------------------------- MODULE ServiceProofs ----------------------------
(***************************************************************************)
(* Proof that ChatServer implements ChatService: under the mapping of      *)
(* ChatServerProperties, every step of the event loop, of the clients and  *)
(* of the network is a step of the abstract chat service or changes        *)
(* nothing that a session sees.                                            *)
(***************************************************************************)
EXTENDS TableProofs

(* The two services of the user table are the same in both modules. *)
LEMMA SameAccounts ==
  ASSUME NEW d, NEW req, NEW fault
  PROVE  /\ Service!register_user(d, req, fault) = register_user(d, req, fault)
         /\ Service!login_user(d, req, fault) = login_user(d, req, fault)
<1>1. Service!get_user_by_username(d, string_to_lower[req.username], fault) =
        get_user_by_username(d, string_to_lower[req.username], fault)
  BY DEF Service!get_user_by_username, get_user_by_username, Service!Matches, Matches,
         Service!Min, Min
<1>2. Service!InsertFails(d, req.username, fault) = InsertFails(d, req.username, fault)
  BY DEF Service!InsertFails, InsertFails
<1>3. \A type, rc : Service!build_server_response(type, rc) = build_server_response(type, rc)
  BY DEF Service!build_server_response, build_server_response
<1>4. \A type, id, name :
        Service!build_user_response(type, id, name) = build_user_response(type, id, name)
  BY <1>3 DEF Service!build_user_response, build_user_response
<1>5. QED
  BY <1>1, <1>2, <1>3, <1>4
  DEF Service!register_user, register_user, Service!login_user, login_user

(* So are the builders. *)
LEMMA SameBuilders ==
  /\ \A type, rc : Service!build_server_response(type, rc) = build_server_response(type, rc)
  /\ \A s, c : Service!build_world_broadcast_notification(s, c) =
                 build_world_broadcast_notification(s, c)
  /\ \A s, r, c : Service!build_p2p_broadcast_notification(s, r, c) =
                    build_p2p_broadcast_notification(s, r, c)
  BY DEF Service!build_server_response, build_server_response,
         Service!build_world_broadcast_notification, build_world_broadcast_notification,
         Service!build_p2p_broadcast_notification, build_p2p_broadcast_notification

(* The initial states are initial states of the service. *)
LEMMA ServiceInit == Init => Service!Init
<1> SUFFICES ASSUME Init PROVE Service!Init
  OBVIOUS
<1>1. \A f \in Fd : peerOf[f] = NoPeer /\ ~Broken(f) /\ ~has_flag(f, "IS_AUTH")
  BY DEF Init, KernelInit, Broken, has_flag
<1>2. db \in Seq(User)
  BY ServerAssumption DEF Init
<1>3. QED
  BY <1>1, <1>2 DEF Service!Init, Service!User, User, Who, Inbox, Lost

-----------------------------------------------------------------------------
(* Sequences: moving the head of one to the end of another. *)
LEMMA MoveHead ==
  ASSUME NEW S, NEW s \in Seq(S), NEW t \in Seq(S), t # << >>
  PROVE  Append(s, Head(t)) \o Tail(t) = s \o t
<1>1. Head(t) \in S /\ Tail(t) \in Seq(S)
  BY HeadTailProperties
<1>2. Append(s, Head(t)) \in Seq(S)
  BY <1>1, AppendProperties
<1>3. /\ s \o t \in Seq(S) /\ Append(s, Head(t)) \o Tail(t) \in Seq(S)
      /\ Len(Append(s, Head(t)) \o Tail(t)) = Len(s) + 1 + Len(Tail(t))
      /\ Len(s \o t) = Len(s) + Len(t) /\ Len(s) \in Nat /\ Len(t) \in Nat \ {0}
      /\ Len(Tail(t)) = Len(t) - 1
  BY <1>1, <1>2, ConcatProperties, AppendProperties, LenProperties, HeadTailProperties, EmptySeq
<1>4. \A i \in 1 .. Len(s) + Len(t) : (Append(s, Head(t)) \o Tail(t))[i] = (s \o t)[i]
  <2> SUFFICES ASSUME NEW i \in 1 .. Len(s) + Len(t)
               PROVE  (Append(s, Head(t)) \o Tail(t))[i] = (s \o t)[i]
    OBVIOUS
  <2>1. (s \o t)[i] = IF i =< Len(s) THEN s[i] ELSE t[i - Len(s)]
    BY ConcatProperties
  <2>2. (Append(s, Head(t)) \o Tail(t))[i] =
          IF i =< Len(s) + 1 THEN Append(s, Head(t))[i] ELSE Tail(t)[i - (Len(s) + 1)]
    BY <1>1, <1>2, <1>3, ConcatProperties, AppendProperties
  <2>3. CASE i =< Len(s)
    BY <1>1, <1>3, <2>1, <2>2, <2>3, AppendProperties
  <2>4. CASE i = Len(s) + 1
    <3>1. Append(s, Head(t))[i] = Head(t) /\ i - Len(s) = 1 /\ ~(i =< Len(s))
      BY <1>1, <1>3, <2>4, AppendProperties
    <3>2. QED
      BY <1>3, <2>1, <2>2, <2>4, <3>1
  <2>5. CASE i > Len(s) + 1
    <3>1. i - (Len(s) + 1) \in 1 .. Len(Tail(t)) /\ i - (Len(s) + 1) + 1 = i - Len(s)
      BY <1>3, <2>5
    <3>2. Tail(t)[i - (Len(s) + 1)] = t[i - Len(s)]
      BY <3>1, HeadTailProperties
    <3>3. QED
      BY <1>3, <2>1, <2>2, <2>5, <3>2
  <2>6. QED
    BY <1>3, <2>3, <2>4, <2>5
<1>5. QED
  BY <1>3, <1>4, SeqEqual, SMTT(30)

(* An element more at the end of the second of two sequences. *)
LEMMA AppendConcat ==
  ASSUME NEW S, NEW s \in Seq(S), NEW t \in Seq(S), NEW m \in S
  PROVE  s \o Append(t, m) = Append(s \o t, m)
<1>1. s \o t \in Seq(S) /\ <<m>> \in Seq(S)
  BY ConcatProperties
<1>2. Append(t, m) = t \o <<m>> /\ Append(s \o t, m) = (s \o t) \o <<m>>
  BY <1>1, AppendIsConcat
<1>3. QED
  BY <1>1, <1>2, ConcatAssociative

-----------------------------------------------------------------------------
(* The parts of a stream are sequences of messages. *)
LEMMA StreamParts ==
  ASSUME CInv, NEW f \in fds
  PROVE  /\ f \in Fd /\ peerOf[f] \in Peer /\ peerOf[f] # NoPeer
         /\ got[peerOf[f]] \in Seq(Response) /\ net[peerOf[f]] \in Seq(Response)
         /\ outgoing[f] \in Seq(Response) /\ Stream(f) \in Seq(Response)
<1>1. f \in Fd /\ peerOf[f] \in Peer
  BY DEF CInv, IInv, TypeOK, KernelTypeOK, Endpoints
<1>2. /\ got[peerOf[f]] \in Seq(Response) /\ net[peerOf[f]] \in Seq(Response)
      /\ outgoing[f] \in Seq(Response)
  BY <1>1 DEF CInv, IInv, TypeOK, SocketTypeOK, TableTypeOK
<1>3. QED
  BY <1>1, <1>2, ConcatProperties, KernelAssumption DEF Stream

(* A descriptor that is not open has no inbox. *)
LEMMA ClosedInbox ==
  ASSUME CInv, NEW f \in Fd \ fds
  PROVE  Inbox[f] = << >> /\ f \notin Lost /\ peerOf[f] = NoPeer
  BY DEF CInv, Endpoints, Inbox, Lost, Broken

(* Read by the peer: the stream is the same. *)
LEMMA RecvStream ==
  ASSUME CInv, NEW p \in Peer, PeerRecv(p), UNCHANGED outgoing
  PROVE  Inbox' = Inbox /\ Lost' = Lost
<1>1. UNCHANGED <<peerOf, err>> /\ net[p] # << >>
  BY DEF PeerRecv
<1>2. /\ \A q \in Peer \ {p} : got'[q] = got[q] /\ net'[q] = net[q]
      /\ got'[p] = Append(got[p], Head(net[p])) /\ net'[p] = Tail(net[p])
  BY DEF PeerRecv, CInv, IInv, TypeOK, SocketTypeOK
<1>3. \A f \in Fd : Broken(f)' = Broken(f)
  BY <1>1 DEF Broken
<1>4. ASSUME NEW f \in Fd, peerOf[f] # NoPeer PROVE Stream(f)' = Stream(f)
  <2>1. f \in fds
    BY <1>4 DEF CInv, Endpoints
  <2>2. CASE peerOf[f] = p
    <3>1. got'[p] \o net'[p] = got[p] \o net[p]
      <4>1. got[p] \in Seq(Response) /\ net[p] \in Seq(Response)
        BY <2>1, <2>2, StreamParts
      <4>2. QED
        BY <1>1, <1>2, <4>1, MoveHead
    <3>2. QED
      BY <1>1, <2>2, <3>1 DEF Stream
  <2>3. CASE peerOf[f] # p
    BY <1>1, <1>2, <2>1, <2>3, StreamParts DEF Stream
  <2>4. QED
    BY <2>2, <2>3
<1>5. QED
  BY <1>1, <1>3, <1>4 DEF Inbox, Lost

(* Written to the socket: the stream is the same. *)
LEMMA WriteStream ==
  ASSUME CInv, WriteSome
  PROVE  Inbox' = Inbox /\ Lost' = Lost
<1>1. cur \in fds /\ outgoing[cur] # << >> /\ UNCHANGED <<peerOf, err, got>>
  BY CurrentPeer DEF WriteSome, CInv, IInv
<1>2. /\ cur \in Fd /\ peerOf[cur] \in Peer /\ got[peerOf[cur]] \in Seq(Response)
      /\ net[peerOf[cur]] \in Seq(Response) /\ outgoing[cur] \in Seq(Response)
  BY <1>1, StreamParts
<1>3. /\ \A q \in Peer \ {peerOf[cur]} : net'[q] = net[q]
      /\ net'[peerOf[cur]] = Append(net[peerOf[cur]], Head(outgoing[cur]))
  BY <1>2 DEF WriteSome, CInv, IInv, TypeOK, SocketTypeOK
<1>4. /\ \A f \in Fd \ {cur} : outgoing'[f] = outgoing[f]
      /\ outgoing'[cur] = Tail(outgoing[cur])
  BY <1>2 DEF WriteSome, CInv, IInv, TypeOK, TableTypeOK
<1>5. \A f \in Fd : Broken(f)' = Broken(f)
  BY <1>1 DEF Broken
<1>6. Stream(cur)' = Stream(cur)
  <2> DEFINE p == peerOf[cur]
  <2>1. Head(outgoing[cur]) \in Response /\ Tail(outgoing[cur]) \in Seq(Response)
    BY <1>1, <1>2, HeadTailProperties
  <2>2. cur' = cur
    BY SMTT(30) DEF WriteSome, loopVars
  <2>3. Stream(cur)' = got[p] \o Append(net[p], Head(outgoing[cur])) \o Tail(outgoing[cur])
    <3>1. /\ peerOf' = peerOf /\ got' = got /\ outgoing'[cur] = Tail(outgoing[cur])
          /\ net'[p] = Append(net[p], Head(outgoing[cur]))
      BY <1>1, <1>3, <1>4
    <3>2. Stream(cur)' = got'[peerOf'[cur]] \o net'[peerOf'[cur]] \o outgoing'[cur]
      BY <2>2 DEF Stream
    <3>3. QED
      BY <3>1, <3>2
  <2>4. got[p] \o Append(net[p], Head(outgoing[cur])) \o Tail(outgoing[cur]) =
          got[p] \o net[p] \o outgoing[cur]
    <3>1. PICK r \in Seq(Response), s \in Seq(Response), o \in Seq(Response) :
            r = got[p] /\ s = net[p] /\ o = outgoing[cur]
      BY <1>2
    <3>2. o # << >> /\ Head(o) \in Response
      BY <1>1, <3>1, HeadTailProperties
    <3>3. r \o Append(s, Head(o)) = Append(r \o s, Head(o))
      BY <3>2, AppendConcat
    <3>4. r \o s \in Seq(Response)
      BY ConcatProperties
    <3>5. Append(r \o s, Head(o)) \o Tail(o) = r \o s \o o
      BY <3>2, <3>4, MoveHead
    <3>6. QED
      BY <3>1, <3>3, <3>5
  <2>5. QED
    BY <2>3, <2>4 DEF Stream
<1>7. ASSUME NEW f \in Fd, f # cur, peerOf[f] # NoPeer PROVE Stream(f)' = Stream(f)
  <2>1. f \in fds /\ peerOf[f] \in Peer
    BY <1>7 DEF CInv, Endpoints
  <2>2. peerOf[f] # peerOf[cur]
    BY <1>1, <1>7, <2>1 DEF CInv, Endpoints
  <2>3. QED
    BY <1>1, <1>3, <1>4, <1>7, <2>1, <2>2 DEF Stream
<1>8. cur' = cur
  BY DEF WriteSome, loopVars
<1>9. \A f \in Fd : peerOf[f] # NoPeer => Stream(f)' = Stream(f)
  BY <1>6, <1>7, <1>8 DEF Stream
<1>10. QED
  BY <1>1, <1>5, <1>9 DEF Inbox, Lost

(* Accepted: the new session has nothing in its inbox. *)
LEMMA AcceptStream ==
  ASSUME CInv, [Next]_vars, ~EndStep, AcceptConnection \/ AcceptUnwatched
  PROVE  Inbox' = Inbox /\ Lost' = Lost
<1>1. PICK f \in Fd, p \in Peer : accept(f, p)
  BY DEF AcceptConnection, AcceptUnwatched
<1>2. f \notin fds /\ fds' = fds \cup {f} /\ peerOf' = [peerOf EXCEPT ![f] = p]
  BY <1>1, LowestFree DEF accept
<1>3. UNCHANGED <<got, net, outgoing, err>>
  BY DEF AcceptConnection, AcceptUnwatched, sockVars, tableVars
<1>4. \A g \in Fd \ {f} : peerOf'[g] = peerOf[g]
  BY <1>2 DEF CInv, IInv, TypeOK, KernelTypeOK
<1>5. peerOf'[f] = p
  BY <1>2 DEF CInv, IInv, TypeOK, KernelTypeOK
<1>6. got[p] = << >> /\ net[p] = << >> /\ err[p] = "ok"
  <2>1. backlog \in Seq(Peer) /\ backlog # << >> /\ p = Head(backlog)
    BY <1>1 DEF accept, CInv, IInv, TypeOK, KernelTypeOK
  <2>2. Unaccepted(p)
    BY <2>1, ToSetTail DEF Unaccepted
  <2>3. QED
    BY <2>2 DEF CInv, Endpoints
<1>7. outgoing[f] = << >>
  BY <1>2 DEF CInv, FreshSlot
<1>8. Inbox[f] = << >> /\ f \notin Lost
  BY <1>2, ClosedInbox
<1>9. ~Broken(f)' /\ Stream(f)' = << >>
  <2>1. << >> \o << >> \o << >> = << >>
    BY EmptySeq, ConcatEmptySeq
  <2>2. QED
    BY <1>3, <1>5, <1>6, <1>7, <2>1 DEF Broken, Stream
<1>10. \A g \in Fd \ {f} : Broken(g)' = Broken(g) /\ Stream(g)' = Stream(g)
  BY <1>3, <1>4 DEF Broken, Stream
<1>11. Inbox' = Inbox
  BY <1>4, <1>8, <1>9, <1>10 DEF Inbox
<1>12. QED
  BY <1>8, <1>9, <1>10, <1>11 DEF Lost

(* A reset breaks the session of the peer, if it has one. *)
LEMMA ResetStream ==
  ASSUME CInv, NEW p \in Peer, PeerMoves(p), PeerAbort(p) \/ KernelReset(p)
  PROVE  \/ Inbox' = Inbox /\ Lost' = Lost
         \/ \E f \in Fd : Inbox' = [Inbox EXCEPT ![f] = << >>] /\ Lost' = Lost \cup {f}
<1>1. UNCHANGED <<fds, peerOf, outgoing, got>>
  BY PeerStepLemma DEF PeerAbort, KernelReset, Reset
<1>2. /\ \A q \in Peer \ {p} : net'[q] = net[q] /\ err'[q] = err[q]
      /\ err'[p] # "ok"
  BY DEF PeerAbort, KernelReset, Reset, CInv, IInv, TypeOK, SocketTypeOK
<1>3. \A g \in Fd : peerOf[g] \in Peer \cup {NoPeer}
  BY DEF CInv, IInv, TypeOK, KernelTypeOK
<1>4. \A g \in Fd : peerOf[g] # p =>
        /\ Broken(g)' = Broken(g)
        /\ peerOf[g] # NoPeer => Stream(g)' = Stream(g)
  BY <1>1, <1>2, <1>3 DEF Broken, Stream
<1>5. CASE \A g \in Fd : peerOf[g] # p
  <2>1. Inbox' = Inbox
    BY <1>1, <1>4, <1>5 DEF Inbox
  <2>2. QED
    BY <1>4, <1>5, <2>1 DEF Lost
<1>6. ASSUME NEW f \in Fd, peerOf[f] = p
      PROVE  Inbox' = [Inbox EXCEPT ![f] = << >>] /\ Lost' = Lost \cup {f}
  <2>1. f \in fds /\ p # NoPeer
    BY <1>6, KernelAssumption DEF CInv, Endpoints
  <2>2. \A g \in Fd \ {f} : peerOf[g] # p
    <3>1. \A g \in Fd : peerOf[g] = p => g \in fds
      BY <2>1 DEF CInv, Endpoints
    <3>2. QED
      BY <1>6, <2>1, <3>1 DEF CInv, Endpoints
  <2>3. Broken(f)'
    BY <1>1, <1>2, <1>6, <2>1 DEF Broken
  <2>4. \A g \in Fd \ {f} : Inbox'[g] = Inbox[g]
    BY <1>1, <1>4, <2>2 DEF Inbox
  <2>5. Inbox'[f] = << >>
    BY <2>3 DEF Inbox
  <2>6. Inbox' = [g \in Fd |-> Inbox'[g]] /\ Inbox = [g \in Fd |-> Inbox[g]]
    BY DEF Inbox
  <2>7. Inbox' = [Inbox EXCEPT ![f] = << >>]
    BY <2>4, <2>5, <2>6
  <2>8. Lost' = Lost \cup {f}
    BY <1>4, <2>2, <2>3 DEF Lost
  <2>9. QED
    BY <2>7, <2>8
<1>7. QED
  BY <1>5, <1>6

(* No other step but the service of a request and the end of the process   *)
(* changes what the sessions have been sent.                               *)
LEMMA QuietStream ==
  ASSUME CInv, [Next]_vars, ~TryOneRequest, ~EndStep,
         \A p \in Peer : PeerMoves(p) => ~PeerAbort(p) /\ ~KernelReset(p)
  PROVE  Inbox' = Inbox /\ Lost' = Lost
<1>1. ASSUME UNCHANGED <<peerOf, got, net, outgoing, err>>
      PROVE  Inbox' = Inbox /\ Lost' = Lost
  BY <1>1 DEF Inbox, Lost, Broken, Stream
<1>2. ASSUME NEW p \in Peer, PeerMoves(p)
      PROVE  Inbox' = Inbox /\ Lost' = Lost
  <2>1. UNCHANGED <<peerOf, outgoing>>
    BY <1>2, PeerStepLemma
  <2>2. CASE PeerRecv(p)
    BY <2>1, <2>2, RecvStream
  <2>3. CASE Connect(p) \/ PeerSend(p) \/ PeerClose(p)
    BY <1>1, <2>1, <2>3 DEF Connect, PeerSend, PeerClose
  <2>4. QED
    BY <1>2, <2>2, <2>3 DEF PeerMoves, PeerStep
<1>3. CASE LoopOnly
  BY <1>1, <1>3, LoopOnlyLemma
<1>4. CASE RemoveConnection \/ ReadSome \/ ReadClosed \/ ServeDone \/ WriteError
  BY <1>1, <1>4
  DEF RemoveConnection, remove_connection, ReadSome, ReadClosed, ServeDone,
      WriteError, sockVars, tableVars
<1>5. CASE AcceptConnection \/ AcceptUnwatched
  BY <1>5, AcceptStream
<1>6. CASE WriteSome
  BY <1>6, WriteStream
<1>7. CASE Restart
  <2>1. UNCHANGED peerOf /\ \A f \in Fd : peerOf[f] = NoPeer
    BY <1>7 DEF Restart, KernelRestart, CInv, Endpoints
  <2>2. QED
    BY <2>1 DEF Inbox, Lost, Broken
<1>8. CASE UNCHANGED vars
  BY <1>1, <1>8 DEF vars, kernelVars, sockVars, serverVars, tableVars
<1>9. QED
  BY <1>2, <1>3, <1>4, <1>5, <1>6, <1>7, <1>8, NextCases

(* A session is logged in until its connection is removed. *)
LEMMA WhoFrame ==
  ASSUME CInv, [Next]_vars, ~TryOneRequest, ~EndStep
  PROVE  /\ RemoveConnection => cur \in Fd /\ Who' = [Who EXCEPT ![cur] = None]
         /\ ~RemoveConnection => Who' = Who
<1> USE DEF has_flag
<1>1. UNCHANGED usernames
  BY AccountsFrame DEF CInv
<1>2. ASSUME RemoveConnection PROVE cur \in Fd /\ Who' = [Who EXCEPT ![cur] = None]
  <2>1. cur \in Fd
    BY <1>2 DEF RemoveConnection, CInv, IInv, Handling
  <2>2. flags' = [flags EXCEPT ![cur] = {}] /\ flags \in [Fd -> SUBSET Flag]
    BY <1>2 DEF RemoveConnection, remove_connection, CInv, IInv, TypeOK, TableTypeOK
  <2>3. QED
    BY <1>1, <2>1, <2>2 DEF Who
<1> SUFFICES ASSUME ~RemoveConnection PROVE Who' = Who
  BY <1>2
<1>3. ASSUME \A f \in Fd : has_flag(f, "IS_AUTH")' <=> has_flag(f, "IS_AUTH")
      PROVE  Who' = Who
  BY <1>1, <1>3 DEF Who
<1>4. ASSUME NEW p \in Peer, PeerMoves(p) PROVE Who' = Who
  BY <1>3, <1>4, PeerStepLemma
<1>5. CASE LoopOnly
  BY <1>3, <1>5, LoopOnlyLemma
<1>6. CASE AcceptConnection
  <2>1. PICK f \in Fd, p \in Peer : accept(f, p) /\ add_connection(f, p)
    BY <1>6 DEF AcceptConnection
  <2>2. f \notin fds
    BY <2>1, LowestFree DEF accept
  <2>3. flags[f] = {} /\ flags' = [flags EXCEPT ![f] = {"IS_ACTIVE", "WANT_READ"}]
    BY <2>1, <2>2 DEF add_connection, CInv, FreshSlot
  <2>4. \A g \in Fd : has_flag(g, "IS_AUTH")' <=> has_flag(g, "IS_AUTH")
    BY <2>3 DEF CInv, IInv, TypeOK, TableTypeOK
  <2>5. QED
    BY <1>3, <2>4
<1>7. CASE AcceptUnwatched \/ ReadSome
  BY <1>3, <1>7 DEF AcceptUnwatched, ReadSome
<1>8. CASE ReadClosed \/ WriteError
  <2>1. \A f \in Fd : has_flag(f, "IS_AUTH")' <=> has_flag(f, "IS_AUTH")
    BY <1>8 DEF ReadClosed, WriteError, set_connection_state, NextFlags
  <2>2. QED
    BY <1>3, <2>1
<1>9. CASE ServeDone
  <2>1. \A f \in Fd \ {cur} : flags'[f] = flags[f]
    BY <1>9 DEF ServeDone, CInv, IInv, TypeOK, TableTypeOK
  <2>2. cur \in Fd /\ flags \in [Fd -> SUBSET Flag]
    BY <1>9 DEF ServeDone, CInv, IInv, TypeOK, TableTypeOK, Handling
  <2>3. PICK cl \in {flags[cur], NextFlags(flags[cur], "CLOSING")} :
          flags'[cur] \in {cl, NextFlags(cl, "WRITING")}
    BY <1>9, <2>2 DEF ServeDone
  <2>4. "IS_AUTH" \in flags'[cur] <=> "IS_AUTH" \in flags[cur]
    BY <2>3 DEF NextFlags
  <2>5. QED
    BY <1>3, <2>1, <2>4
<1>10. CASE WriteSome
  <2>1. \A f \in Fd : has_flag(f, "IS_AUTH")' <=> has_flag(f, "IS_AUTH")
    BY <1>10 DEF WriteSome, set_connection_state, NextFlags
  <2>2. QED
    BY <1>3, <2>1
<1>11. CASE Restart
  BY <1>3, <1>11 DEF Restart
<1>12. CASE UNCHANGED vars
  BY <1>3, <1>12 DEF vars, serverVars
<1>13. QED
  BY <1>4, <1>5, <1>6, <1>7, <1>8, <1>9, <1>10, <1>11, <1>12, NextCases

-----------------------------------------------------------------------------
(* The requests that reach the server are those that the peers send. *)
AllRequests == UNION {Requests[p] : p \in Peer}

Asked ==
  /\ rcvq \in [Peer -> Seq(AllRequests)]
  /\ incoming \in [Fd -> Seq(AllRequests)]

(* At the start there are none. *)
LEMMA AskedInit == Init => Asked
<1> SUFFICES ASSUME Init PROVE Asked
  OBVIOUS
<1>1. << >> \in Seq(AllRequests)
  BY EmptySeq
<1>2. rcvq = [p \in Peer |-> << >>] /\ incoming = [f \in Fd |-> << >>]
  BY DEF Init, KernelInit
<1>3. rcvq \in [Peer -> Seq(AllRequests)]
  BY <1>1, <1>2
<1>4. incoming \in [Fd -> Seq(AllRequests)]
  BY <1>1, <1>2
<1>5. QED
  BY <1>3, <1>4 DEF Asked

(* read() and the service of a request keep them. *)
LEMMA AskedStep ==
  ASSUME IInv, Asked, [Next]_vars
  PROVE  Asked'
<1> USE DEF Asked
<1>1. ASSUME UNCHANGED <<rcvq, incoming>> PROVE Asked'
  BY <1>1
<1>2. ASSUME NEW p \in Peer, PeerMoves(p) PROVE Asked'
  <2>1. UNCHANGED incoming
    BY <1>2, PeerStepLemma
  <2>2. CASE PeerSend(p)
    <3>1. PICK req \in Requests[p] : rcvq' = [rcvq EXCEPT ![p] = Append(@, req)]
      BY <2>2 DEF PeerSend
    <3>2. req \in AllRequests
      BY <3>1 DEF AllRequests
    <3>3. QED
      BY <2>1, <3>1, <3>2
  <2>3. CASE Connect(p) \/ PeerRecv(p) \/ PeerClose(p) \/ PeerAbort(p) \/ KernelReset(p)
    BY <1>1, <2>1, <2>3 DEF Connect, PeerRecv, PeerClose, PeerAbort, KernelReset, Reset
  <2>4. QED
    BY <1>2, <2>2, <2>3 DEF PeerMoves, PeerStep
<1>3. CASE LoopOnly
  BY <1>1, <1>3, LoopOnlyLemma
<1>4. CASE RemoveConnection \/ AcceptConnection \/ AcceptUnwatched \/ ReadClosed \/ ServeDone
           \/ WriteSome \/ WriteError
  BY <1>1, <1>4
  DEF RemoveConnection, remove_connection, AcceptConnection, AcceptUnwatched,
      ReadClosed, ServeDone, WriteSome, WriteError, sockVars, tableVars
<1>5. CASE ReadSome
  <2>1. cur \in Fd /\ peerOf[cur] \in Peer
    BY <1>5, CurrentPeer DEF ReadSome, IInv
  <2>2. << >> \in Seq(AllRequests)
    BY EmptySeq
  <2>3. incoming[cur] \o rcvq[peerOf[cur]] \in Seq(AllRequests)
    BY <2>1, ConcatProperties
  <2>4. QED
    BY <1>5, <2>1, <2>2, <2>3 DEF ReadSome
<1>6. CASE TryOneRequest
  <2>1. cur \in Fd /\ incoming[cur] # << >>
    BY <1>6, ServeCur DEF TryOneRequest
  <2>2. Tail(incoming[cur]) \in Seq(AllRequests)
    BY <2>1, HeadTailProperties
  <2>3. QED
    BY <1>6, <2>1, <2>2 DEF TryOneRequest, sockVars
<1>7. CASE EndStep
  <2>1. << >> \in Seq(AllRequests)
    BY EmptySeq
  <2>2. QED
    BY <1>7, <2>1, EndLemma, ZenonT(60)
<1>8. CASE Restart
  BY <1>1, <1>8 DEF Restart, KernelRestart, tableVars
<1>9. CASE UNCHANGED vars
  BY <1>1, <1>9 DEF vars, kernelVars, sockVars, serverVars, tableVars
<1>10. QED
  BY <1>2, <1>3, <1>4, <1>5, <1>6, <1>7, <1>8, <1>9, NextCases

-----------------------------------------------------------------------------
(* One answer, put in the buffers of the sessions that it is for, is one   *)
(* Send of the service: it comes last in the stream of each of them.       *)
LEMMA ServeSend ==
  ASSUME CInv, TryOneRequest, NEW m, NEW fs \in SUBSET Recipients,
         NEW ss, ss = fs \cup {cur},
         outgoing' = [f \in Fd |-> IF f \in fs \cup {cur} THEN Append(outgoing[f], m)
                                                          ELSE outgoing[f]]
  PROVE  Lost' = Lost /\ Service!Send(ss, m) /\ m \in Response
<1>1. cur \in Fd /\ cur \in fds /\ TypeOK
  BY ServeCur DEF CInv
<1>2. \A f \in ss : f \in Fd /\ f \in fds
  <2>1. \A f \in fs : f \in Fd /\ has_flag(f, "IS_AUTH")
    BY DEF Recipients
  <2>2. \A f \in fs : f \in fds
    BY <2>1 DEF CInv, IInv, ModeAgrees, Watched
  <2>3. QED
    BY <1>1, <2>1, <2>2
<1>3. UNCHANGED <<peerOf, got, net, err>>
  BY DEF TryOneRequest, sockVars
<1>4. m \in Response
  <2>1. outgoing'[cur] = Append(outgoing[cur], m)
    BY <1>1
  <2>2. Reply = m
    BY <1>1, <2>1, ReplyLemma
  <2>3. QED
    BY <2>2, ServeFlow DEF CInv
<1>5. \A f \in Fd : Broken(f)' = Broken(f)
  BY <1>3 DEF Broken
<1>6. Lost' = Lost
  BY <1>5 DEF Lost
<1>7. ASSUME NEW f \in ss PROVE Stream(f)' = Append(Stream(f), m)
  <2>1. PICK r \in Seq(Response), s \in Seq(Response), o \in Seq(Response) :
          r = got[peerOf[f]] /\ s = net[peerOf[f]] /\ o = outgoing[f]
    BY <1>2, StreamParts
  <2>2. r \o s \in Seq(Response)
    BY ConcatProperties
  <2>3. r \o s \o Append(o, m) = Append(r \o s \o o, m)
    BY <1>4, <2>2, AppendConcat
  <2>4. outgoing'[f] = Append(o, m)
    BY <1>2, <2>1
  <2>5. Stream(f)' = r \o s \o Append(o, m)
    BY <1>3, <2>1, <2>4 DEF Stream
  <2>6. Stream(f) = r \o s \o o
    BY <2>1 DEF Stream
  <2>7. QED
    BY <2>3, <2>5, <2>6
<1>8. \A f \in Fd \ ss : Stream(f)' = Stream(f)
  BY <1>3 DEF Stream
<1>9. \A f \in ss : peerOf[f] # NoPeer
  BY <1>2, StreamParts
<1>10. \A f \in Fd : Inbox'[f] = IF f \in ss \ Lost THEN Append(Inbox[f], m) ELSE Inbox[f]
  BY <1>3, <1>5, <1>7, <1>8, <1>9 DEF Inbox, Lost
<1>11. Inbox' = [f \in Fd |-> Inbox'[f]]
  BY DEF Inbox
<1>12. Inbox' = [f \in Fd |-> IF f \in ss \ Lost THEN Append(Inbox[f], m) ELSE Inbox[f]]
  BY <1>10, <1>11
<1>13. QED
  BY <1>4, <1>6, <1>12 DEF Service!Send

(* Turning connections around logs nobody in or out. *)
LEMMA WhoKept ==
  ASSUME NEW fs, set_connection_state(fs, "WRITING"), UNCHANGED usernames
  PROVE  Who' = Who
<1>1. \A f \in Fd : has_flag(f, "IS_AUTH")' <=> has_flag(f, "IS_AUTH")
  BY DEF set_connection_state, NextFlags, has_flag
<1>2. QED
  BY <1>1 DEF Who

(* The sessions that are logged in. *)
LEMMA ServiceMembers ==
  ASSUME AuthNamed
  PROVE  /\ \A f \in Fd : Who[f] # None <=> has_flag(f, "IS_AUTH")
         /\ Service!Members = {f \in Fd : has_flag(f, "IS_AUTH")}
<1>1. \A f \in Fd : Who[f] # None <=> has_flag(f, "IS_AUTH")
  BY ProtocolAssumption DEF Who, AuthNamed
<1>2. QED
  BY <1>1 DEF Service!Members

(* The scan of the table finds all of them: it is large enough. *)
LEMMA RecipientsAreMembers ==
  ASSUME CInv
  PROVE  Recipients = Service!Members \ {cur}
<1>1. Service!Members = {f \in Fd : has_flag(f, "IS_AUTH")}
  BY ServiceMembers DEF CInv, IInv
<1>2. \A f \in Fd : has_flag(f, "IS_AUTH") => f < table_size
  BY DEF CInv, IInv, ModeAgrees, TableCovers
<1>3. QED
  BY <1>1, <1>2 DEF Recipients

(* The server refuses what the service does not admit. *)
LEMMA VerdictLemma ==
  ASSUME CInv, cur \in Fd, NEW req
  PROVE  /\ BroadcastVerdict(req) = "RESP_OK" =>
              Who[cur] = usernames[cur] /\ Who[cur] # None /\ Service!Admissible(cur, req)
         /\ BroadcastVerdict(req) # "RESP_OK" =>
              \/ /\ Who[cur] = None
                 /\ BroadcastVerdict(req) = "RESP_ERROR_INVALID_CREDENTIALS"
              \/ /\ Who[cur] # None /\ ~Service!Admissible(cur, req)
                 /\ BroadcastVerdict(req) = "RESP_ERROR_MALFORMED"
<1>1. Who[cur] # None <=> has_flag(cur, "IS_AUTH")
  BY ServiceMembers DEF CInv, IInv
<1>2. has_flag(cur, "IS_AUTH") => Who[cur] = usernames[cur]
  BY DEF Who
<1>3. CASE ~has_flag(cur, "IS_AUTH")
  BY <1>1, <1>3 DEF BroadcastVerdict
<1>4. CASE has_flag(cur, "IS_AUTH")
  <2>1. BroadcastVerdict(req) = IF Service!Admissible(cur, req) THEN "RESP_OK"
                                                               ELSE "RESP_ERROR_MALFORMED"
    BY <1>2, <1>4 DEF BroadcastVerdict, Service!Admissible, Service!Empty, Empty
  <2>2. QED
    BY <1>1, <1>2, <1>4, <2>1
<1>5. QED
  BY <1>3, <1>4

-----------------------------------------------------------------------------
(* The handlers, one by one. *)
LEMMA ServiceRegister ==
  ASSUME CInv, TryOneRequest, NEW req, ServeRegister(req)
  PROVE  Service!Register(cur, req)
<1>1. PICK fault \in (Faults \cap DbFault) \cup {"none"} :
        /\ db' = register_user(db, req, fault).db
        /\ Respond(register_user(db, req, fault).response, {})
  BY DEF ServeRegister
<1>2. Who' = Who
  BY <1>1, WhoKept DEF ServeRegister, Respond
<1>3. Lost' = Lost /\ Service!Send({cur}, register_user(db, req, fault).response)
  <2>1. {} \in SUBSET Recipients /\ {cur} = {} \cup {cur}
    OBVIOUS
  <2>2. QED
    BY <1>1, <2>1, ServeSend DEF Respond
<1>4. Service!register_user(db, req, fault) = register_user(db, req, fault)
  BY SameAccounts
<1>5. req.type = "REGISTER"
  BY DEF ServeRegister
<1>6. QED
  BY <1>1, <1>2, <1>3, <1>4, <1>5 DEF Service!Register

(* LOGIN is a step of the service. *)
LEMMA ServiceLogin ==
  ASSUME CInv, TryOneRequest, NEW req, ServeLogin(req)
  PROVE  Service!Login(cur, req)
<1>1. PICK fault \in (Faults \cap DbFault) \cup {"none"} :
        LET result == login_user(db, req, fault)
        IN /\ outgoing' = [outgoing EXCEPT ![cur] = Append(@, result.response)]
           /\ IF result.id # 0
              THEN Authenticate(result.id)
              ELSE UNCHANGED <<flags, user_ids, usernames, joined, idents>>
  BY DEF ServeLogin
<1>2. cur \in Fd /\ outgoing \in [Fd -> Seq(Response)]
  BY ServeCur DEF CInv, TypeOK, TableTypeOK
<1>3. PICK r : r = login_user(db, req, fault)
  OBVIOUS
<1>4. Lost' = Lost /\ Service!Send({cur}, r.response)
  <2>1. {} \in SUBSET Recipients /\ {cur} = {} \cup {cur}
    OBVIOUS
  <2>2. outgoing' = [f \in Fd |-> IF f \in {} \cup {cur} THEN Append(outgoing[f], r.response)
                                                         ELSE outgoing[f]]
    BY <1>1, <1>2, <1>3
  <2>3. QED
    BY <2>1, <2>2, ServeSend
<1>5. Who' = [Who EXCEPT ![cur] = IF r.id = 0 THEN @ ELSE db[r.id].username]
  <2>1. CASE r.id = 0
    <3>1. Who' = Who
      BY <1>1, <1>3, <2>1 DEF Who, has_flag
    <3>2. Who = [Who EXCEPT ![cur] = Who[cur]]
      BY <1>2 DEF Who
    <3>3. QED
      BY <2>1, <3>1, <3>2
  <2>2. CASE r.id # 0
    <3>1. Authenticate(r.id)
      BY <1>1, <1>3, <2>2
    <3>2. flags \in [Fd -> SUBSET Flag] /\ usernames \in [Fd -> SlotName]
      BY ServeCur DEF CInv, TypeOK, TableTypeOK
    <3>3. /\ \A f \in Fd \ {cur} : flags'[f] = flags[f] /\ usernames'[f] = usernames[f]
          /\ "IS_AUTH" \in flags'[cur] /\ usernames'[cur] = db[r.id].username
      BY <1>2, <3>1, <3>2 DEF Authenticate
    <3>4. \A f \in Fd : Who'[f] = IF f = cur THEN db[r.id].username ELSE Who[f]
      BY <3>3 DEF Who, has_flag
    <3>5. Who' = [f \in Fd |-> Who'[f]] /\ Who = [f \in Fd |-> Who[f]]
      BY DEF Who
    <3>6. QED
      BY <1>2, <2>2, <3>4, <3>5
  <2>3. QED
    BY <2>1, <2>2
<1>6. Service!login_user(db, req, fault) = r
  BY <1>3, SameAccounts
<1>7. req.type = "LOGIN" /\ db' = db
  BY DEF ServeLogin
<1>8. QED
  BY <1>4, <1>5, <1>6, <1>7 DEF Service!Login

(* A world broadcast is one, to all members. *)
LEMMA ServiceWorld ==
  ASSUME CInv, TryOneRequest, NEW req, ServeWorld(req)
  PROVE  Service!World(cur, req)
<1>1. cur \in Fd
  BY ServeCur DEF CInv
<1>2. Who[cur] = usernames[cur] /\ Who[cur] # None /\ Service!Admissible(cur, req)
  BY <1>1, VerdictLemma DEF ServeWorld
<1>3. PICK note : note = build_world_broadcast_notification(usernames[cur], req.content)
  OBVIOUS
<1>4. Respond(note, Recipients)
  BY <1>3 DEF ServeWorld
<1>5. Who' = Who
  BY <1>4, WhoKept DEF ServeWorld, Respond
<1>6. Service!Members = Recipients \cup {cur}
  <2>1. cur \in Service!Members
    BY <1>1, <1>2 DEF Service!Members
  <2>2. QED
    BY <2>1, RecipientsAreMembers
<1>7. Lost' = Lost /\ Service!Send(Service!Members, note)
  BY <1>4, <1>6, ServeSend DEF Respond
<1>8. note = Service!build_world_broadcast_notification(Who[cur], req.content)
  BY <1>2, <1>3, SameBuilders
<1>9. req.type = "CHAT" /\ req.tag = "TAG_WORLD_BROADCAST" /\ db' = db
  BY DEF ServeWorld
<1>10. QED
  BY <1>2, <1>5, <1>7, <1>8, <1>9 DEF Service!World

(* A private message is one, to one session of that name. *)
LEMMA ServiceP2P ==
  ASSUME CInv, TryOneRequest, NEW req, ServeP2P(req)
  PROVE  Service!P2P(cur, req)
<1> DEFINE named == {g \in Service!Members : Who[g] = req.recipient}
           note == build_p2p_broadcast_notification(usernames[cur], req.recipient,
                                                    req.content)
           absent == build_server_response("CHAT", "RESP_ERROR_USER_NOT_FOUND")
<1>1. cur \in Fd
  BY ServeCur DEF CInv
<1>2. Who[cur] = usernames[cur] /\ Who[cur] # None /\ Service!Admissible(cur, req)
  BY <1>1, VerdictLemma DEF ServeP2P
<1>3. req.type = "CHAT" /\ req.tag = "TAG_P2P_BROADCAST" /\ db' = db /\ UNCHANGED usernames
  BY DEF ServeP2P
<1>4. cur \notin named
  BY <1>2, <1>3 DEF Service!Admissible
<1>5. named = {f \in Recipients : usernames[f] = req.recipient}
  <2>1. \A g \in Recipients : Who[g] = usernames[g]
    BY DEF Recipients, Who
  <2>2. QED
    BY <1>4, <2>1, RecipientsAreMembers
<1>6. Who' = Who
  BY <1>3, WhoKept DEF ServeP2P, Respond
<1>7. CASE named = {}
  <2>1. P2PRecipients(req) = {}
    BY <1>5, <1>7 DEF P2PRecipients
  <2>2. Respond(absent, {})
    BY <2>1 DEF ServeP2P
  <2>3. {} \in SUBSET Recipients /\ {cur} = {} \cup {cur}
    OBVIOUS
  <2>4. Lost' = Lost /\ Service!Send({cur}, absent)
    BY <2>2, <2>3, ServeSend DEF Respond
  <2>5. absent = Service!build_server_response("CHAT", "RESP_ERROR_USER_NOT_FOUND")
    BY SameBuilders
  <2>6. QED
    BY <1>2, <1>3, <1>6, <1>7, <2>4, <2>5 DEF Service!P2P
<1>8. CASE named # {}
  <2>1. named \subseteq Nat
    BY <1>5, KernelAssumption DEF Recipients
  <2>2. PICK g \in named : P2PRecipients(req) = {g}
    BY <1>5, <1>8, <2>1, MinProperties DEF P2PRecipients
  <2>3. Respond(note, {g})
    BY <2>2 DEF ServeP2P
  <2>4. {g} \in SUBSET Recipients /\ {cur, g} = {g} \cup {cur}
    BY <1>5, <2>2
  <2>5. Lost' = Lost /\ Service!Send({cur, g}, note)
    BY <2>3, <2>4, ServeSend DEF Respond
  <2>6. note = Service!build_p2p_broadcast_notification(Who[cur], req.recipient, req.content)
    BY <1>2, SameBuilders
  <2>7. QED
    BY <1>2, <1>3, <1>6, <2>2, <2>5, <2>6 DEF Service!P2P
<1>9. QED
  BY <1>7, <1>8

(* So is a refusal. *)
LEMMA ServiceRefuse ==
  ASSUME CInv, TryOneRequest, NEW req, ServeRefused(req) \/ ServeUnknown(req)
  PROVE  Service!Refuse(cur, req)
<1>1. cur \in Fd
  BY ServeCur DEF CInv
<1>2. db' = db /\ UNCHANGED usernames
  BY DEF ServeRefused, ServeUnknown
<1>3. Who' = Who
  BY <1>2, WhoKept DEF ServeRefused, ServeUnknown, Respond
<1>4. ASSUME NEW m, Respond(m, {}) PROVE Lost' = Lost /\ Service!Send({cur}, m)
  <2>1. {} \in SUBSET Recipients /\ {cur} = {} \cup {cur}
    OBVIOUS
  <2>2. QED
    BY <1>4, <2>1, ServeSend DEF Respond
<1>5. CASE ServeRefused(req)
  <2>1. PICK rc : rc = BroadcastVerdict(req)
    OBVIOUS
  <2>2. req.type = "CHAT" /\ rc # "RESP_OK" /\ Respond(build_server_response("CHAT", rc), {})
    BY <1>5, <2>1 DEF ServeRefused
  <2>3. Lost' = Lost /\ Service!Send({cur}, build_server_response("CHAT", rc))
    BY <1>4, <2>2
  <2>4. build_server_response("CHAT", rc) = Service!build_server_response("CHAT", rc)
    BY SameBuilders
  <2>5. \/ Who[cur] = None /\ rc = "RESP_ERROR_INVALID_CREDENTIALS"
        \/ Who[cur] # None /\ ~Service!Admissible(cur, req) /\ rc = "RESP_ERROR_MALFORMED"
    BY <1>1, <2>1, <2>2, VerdictLemma
  <2>6. QED
    BY <1>2, <1>3, <2>2, <2>3, <2>4, <2>5 DEF Service!Refuse
<1>6. CASE ServeUnknown(req)
  <2> DEFINE m == build_server_response("OTHER", "RESP_ERROR_UNKNOWN_COMMAND")
  <2>1. req.type = "OTHER" /\ Respond(m, {})
    BY <1>6 DEF ServeUnknown
  <2>2. Lost' = Lost /\ Service!Send({cur}, m)
    BY <1>4, <2>1
  <2>3. m = Service!build_server_response("OTHER", "RESP_ERROR_UNKNOWN_COMMAND")
    BY SameBuilders
  <2>4. QED
    BY <1>2, <1>3, <2>1, <2>2, <2>3 DEF Service!Refuse
<1>7. QED
  BY <1>5, <1>6

(* The service of a request is one step of the abstract service. *)
LEMMA ServiceServe ==
  ASSUME CInv, Asked, TryOneRequest
  PROVE  \E f \in Fd : \E req \in AllRequests : Service!Serve(f, req)
<1>1. cur \in Fd /\ incoming[cur] # << >> /\ incoming[cur] \in Seq(AllRequests)
  BY ServeCur DEF CInv, Asked, TryOneRequest
<1>2. PICK req \in AllRequests : req = Head(incoming[cur])
  BY <1>1, HeadTailProperties
<1>3. \/ ServeRegister(req) \/ ServeLogin(req) \/ ServeRefused(req)
      \/ ServeWorld(req) \/ ServeP2P(req) \/ ServeUnknown(req)
  BY <1>2 DEF TryOneRequest
<1>4. Service!Serve(cur, req)
  BY <1>3, ServiceRegister, ServiceLogin, ServiceWorld, ServiceP2P, ServiceRefuse
  DEF Service!Serve
<1>5. QED
  BY <1>1, <1>4

-----------------------------------------------------------------------------
(* The end of the process is the Stop of the service. *)
LEMMA ServiceStop ==
  ASSUME ~IsTest, EndStep
  PROVE  Service!Stop
<1>1. db' = db
  BY EndTable
<1>2. peerOf' = [f \in Fd |-> NoPeer] /\ flags' = [f \in Fd |-> {}]
  BY EndLemma
<1>3. Who' = [f \in Fd |-> None]
  BY <1>2 DEF Who, has_flag
<1>4. Inbox' = [f \in Fd |-> << >>]
  BY <1>2 DEF Inbox
<1>5. Lost' = {}
  BY <1>2 DEF Lost, Broken
<1>6. QED
  BY <1>1, <1>3, <1>4, <1>5 DEF Service!Stop

(* Every step of the server is a step of the service. *)
LEMMA ServiceStep ==
  ASSUME ~IsTest, CInv, Asked, [Next]_vars
  PROVE  [Service!Next]_(Service!vars)
<1>1. CASE EndStep
  BY <1>1, ServiceStop DEF Service!Next
<1>2. CASE TryOneRequest
  BY <1>2, ServiceServe DEF Service!Next, AllRequests
<1> SUFFICES ASSUME ~EndStep, ~TryOneRequest PROVE [Service!Next]_(Service!vars)
  BY <1>1, <1>2
<1>3. db' = db
  BY AccountsFrame DEF CInv
<1>4. ASSUME NEW p \in Peer, PeerMoves(p), PeerAbort(p) \/ KernelReset(p)
      PROVE  [Service!Next]_(Service!vars)
  <2>1. Who' = Who
    BY <1>4, PeerStepLemma DEF Who, has_flag
  <2>2. CASE Inbox' = Inbox /\ Lost' = Lost
    BY <1>3, <2>1, <2>2 DEF Service!vars
  <2>3. ASSUME NEW f \in Fd, Inbox' = [Inbox EXCEPT ![f] = << >>], Lost' = Lost \cup {f}
        PROVE  [Service!Next]_(Service!vars)
    <3>1. Service!Break(f)
      BY <1>3, <2>1, <2>3 DEF Service!Break
    <3>2. QED
      BY <3>1 DEF Service!Next
  <2>4. QED
    BY <1>4, <2>2, <2>3, ResetStream
<1>5. CASE \A p \in Peer : PeerMoves(p) => ~PeerAbort(p) /\ ~KernelReset(p)
  <2>1. Inbox' = Inbox /\ Lost' = Lost
    BY <1>5, QuietStream
  <2>2. CASE RemoveConnection
    <3>1. cur \in Fd /\ Who' = [Who EXCEPT ![cur] = None]
      BY <2>2, WhoFrame
    <3>2. Service!Leave(cur)
      BY <1>3, <2>1, <3>1 DEF Service!Leave
    <3>3. QED
      BY <3>1, <3>2 DEF Service!Next
  <2>3. CASE ~RemoveConnection
    <3>1. Who' = Who
      BY <2>3, WhoFrame
    <3>2. QED
      BY <1>3, <2>1, <3>1 DEF Service!vars
  <2>4. QED
    BY <2>2, <2>3
<1>6. QED
  BY <1>4, <1>5

(***************************************************************************)
(* The server implements the chat service, for every number of clients and *)
(* descriptors, every batch and table size, every fault but the end of a   *)
(* test server, whose close_db drops the user table: each request is       *)
(* served as one step, its answer and its notifications are put at the end *)
(* of the streams of exactly the sessions that they are for, and neither   *)
(* modes, partial writes, reads, removals nor restarts change that.        *)
(***************************************************************************)
THEOREM ServerImplementsService ==
  ASSUME ~IsTest
  PROVE  Spec => ImplementsService
<1>1. Spec => []Asked
  <2>1. IInv /\ Asked /\ [Next]_vars => Asked'
    BY AskedStep
  <2>2. QED
    BY <2>1, AskedInit, Invariance, PTL DEF Spec
<1>2. CInv /\ Asked /\ [Next]_vars => [Service!Next]_(Service!vars)
  BY ServiceStep
<1>3. QED
  BY <1>1, <1>2, ServiceInit, Connections, PTL DEF Spec, ImplementsService, Service!Spec
=============================================================================
