---------------------------- MODULE TableProofs ----------------------------
(***************************************************************************)
(* Proofs about the two tables of ChatServer.                              *)
(*                                                                         *)
(* The connections and their slots: a closing connection is removed within *)
(* its own event, output is never stranded, a new connection starts clean  *)
(* and the table has a slot for whatever epoll reports.  Endpoints, that a *)
(* peer is at one end of at most one descriptor, is what the proofs about  *)
(* messages rest on.                                                       *)
(*                                                                         *)
(* The accounts: the rows of the user table never change, an authenticated *)
(* connection is a registered user, names are unique whatever their letter *)
(* case unless a SELECT fails silently, and what a client was told of an   *)
(* account stays true.                                                     *)
(***************************************************************************)
EXTENDS ChatServerProofs

(* The steps of the loop that only move it to another place in the code. *)
LoopOnly ==
  \/ EpollWait \/ DispatchListen \/ DispatchConnection \/ KeepConnection
  \/ AcceptDone \/ ReadAgain \/ WriteAgain

(* They leave the connections, the table and the messages alone. *)
LEMMA LoopOnlyLemma ==
  ASSUME LoopOnly
  PROVE  UNCHANGED <<fds, peerOf, mask, backlog, peer, nsent, rcvq, fin, err, net,
                     got, flags, incoming, outgoing, user_ids, usernames,
                     table_size, db, server, log, joined, idents>>
  BY DEF LoopOnly, EpollWait, DispatchListen, DispatchConnection, KeepConnection,
         AcceptDone, ReadAgain, WriteAgain, kernelVars, epollVars, sockVars,
         tableVars, history

(* A step of a peer or of the network; of a process that has ended they    *)
(* only deliver what is left.                                              *)
PeerMoves(p) ==
  /\ PeerStep(p)
  /\ server # "running" => PeerRecv(p)
  /\ UNCHANGED serverVars

(* What a step of the specification can be. *)
LEMMA NextCases ==
  ASSUME [Next]_vars
  PROVE  \/ UNCHANGED vars
         \/ \E p \in Peer : PeerMoves(p)
         \/ LoopOnly \/ RemoveConnection \/ AcceptConnection \/ AcceptUnwatched
         \/ ReadSome \/ ReadClosed \/ TryOneRequest \/ ServeDone
         \/ WriteSome \/ WriteError \/ EndStep
         \/ Restart
  BY DEF Next, ServerStep, LoopStep, AcceptStep, ReadStep, WriteStep, EndStep,
         LoopOnly, PeerMoves, NetworkStep, LateDelivery, PeerStep, Blocked, Stopped

(* The peers and the network do not touch descriptors and interests. *)
LEMMA PeerStepLemma ==
  ASSUME NEW p \in Peer, PeerMoves(p)
  PROVE  UNCHANGED <<fds, peerOf, mask, flags, incoming, outgoing, user_ids,
                     usernames, table_size, db, todo, evErr, cur, pc, server,
                     log, joined, idents>>
  BY DEF PeerMoves, PeerStep, Connect, PeerSend, PeerRecv, PeerClose, PeerAbort, KernelReset,
         Reset, serverVars, tableVars, loopVars, history

(* What the end of the process leaves of the connections. *)
LEMMA EndLemma ==
  ASSUME EndStep
  PROVE  /\ fds' = {} /\ backlog' = << >> /\ cur' = ListenFd /\ pc' = "wait"
         /\ peerOf' = [f \in Fd |-> NoPeer] /\ mask' = [f \in Fd |-> "none"]
         /\ flags' = [f \in Fd |-> {}] /\ err' = [p \in Peer |-> "ok"]
         /\ incoming' = [f \in Fd |-> << >>] /\ outgoing' = [f \in Fd |-> << >>]
         /\ rcvq' = [p \in Peer |-> << >>] /\ idents' = [f \in Fd |-> {}]
         /\ UNCHANGED <<peer, net, got>>
  BY DEF EndStep, AcceptError, WriteSigpipe, sigint_handler, EpollInterrupted,
         ProcessEnds, KernelEnd

(* The service of a request as the slots see it: the message m for cur and *)
(* for the connections fs, which turn to writing, and perhaps IS_AUTH.     *)
Answered(m, fs, auth) ==
  /\ outgoing' = [f \in Fd |-> IF f \in fs \cup {cur} THEN Append(outgoing[f], m)
                                                      ELSE outgoing[f]]
  /\ flags' = [f \in Fd |-> IF f \in fs THEN NextFlags(flags[f], "WRITING")
                            ELSE IF f = cur THEN flags[f] \cup auth
                            ELSE flags[f]]
  /\ mask' = [f \in Fd |-> IF f \in fs THEN "out" ELSE mask[f]]

(* The elements of the sequences that the handlers build. *)
LEMMA ToSetEmpty == ToSet(<< >>) = {}
  BY DEF ToSet

(* The elements of a sequence with one more. *)
LEMMA ToSetAppend ==
  ASSUME NEW S, NEW s \in Seq(S), NEW m \in S
  PROVE  ToSet(Append(s, m)) = ToSet(s) \cup {m}
<1>1. DOMAIN Append(s, m) = 1 .. Len(s) + 1 /\ DOMAIN s = 1 .. Len(s) /\ Len(s) \in Nat
  BY AppendProperties, LenProperties
<1>2. /\ \A i \in 1 .. Len(s) : Append(s, m)[i] = s[i]
      /\ Append(s, m)[Len(s) + 1] = m
  BY AppendProperties
<1>3. \A i \in 1 .. Len(s) + 1 : i \in 1 .. Len(s) \/ i = Len(s) + 1
  BY <1>1
<1>4. \A i \in 1 .. Len(s) : i \in 1 .. Len(s) + 1
  BY <1>1
<1>5. Len(s) + 1 \in 1 .. Len(s) + 1
  BY <1>1
<1>6. ASSUME NEW x \in ToSet(Append(s, m)) PROVE x \in ToSet(s) \cup {m}
  BY <1>1, <1>2, <1>3, <1>6 DEF ToSet
<1>7. ASSUME NEW x \in ToSet(s) \cup {m} PROVE x \in ToSet(Append(s, m))
  BY <1>1, <1>2, <1>4, <1>5, <1>7 DEF ToSet
<1>8. QED
  BY <1>6, <1>7

(* The elements of a sequence without its head. *)
LEMMA ToSetTail ==
  ASSUME NEW S, NEW s \in Seq(S), s # << >>
  PROVE  ToSet(s) = {Head(s)} \cup ToSet(Tail(s))
<1>1. /\ Len(s) \in Nat \ {0} /\ DOMAIN s = 1 .. Len(s) /\ Head(s) = s[1]
      /\ DOMAIN Tail(s) = 1 .. Len(s) - 1
      /\ \A i \in 1 .. Len(s) - 1 : Tail(s)[i] = s[i + 1]
  BY HeadTailProperties, LenProperties, EmptySeq
<1>2. \A i \in 1 .. Len(s) : i = 1 \/ (i - 1 \in 1 .. Len(s) - 1 /\ Tail(s)[i - 1] = s[i])
  BY <1>1
<1>3. \A i \in 1 .. Len(s) - 1 : i + 1 \in 1 .. Len(s)
  BY <1>1
<1>4. 1 \in 1 .. Len(s)
  BY <1>1
<1>5. ASSUME NEW x \in ToSet(s) PROVE x \in {Head(s)} \cup ToSet(Tail(s))
  <2>1. PICK i \in 1 .. Len(s) : x = s[i]
    BY <1>1, <1>5 DEF ToSet
  <2>2. QED
    BY <1>1, <1>2, <2>1 DEF ToSet
<1>6. ASSUME NEW x \in {Head(s)} \cup ToSet(Tail(s)) PROVE x \in ToSet(s)
  BY <1>1, <1>3, <1>4, <1>6 DEF ToSet
<1>7. QED
  BY <1>5, <1>6

(* The elements of two sequences. *)
LEMMA ToSetConcat ==
  ASSUME NEW S, NEW s \in Seq(S), NEW t \in Seq(S)
  PROVE  ToSet(s \o t) = ToSet(s) \cup ToSet(t)
<1>1. Len(s) \in Nat /\ Len(t) \in Nat /\ DOMAIN s = 1 .. Len(s) /\ DOMAIN t = 1 .. Len(t)
  BY LenProperties
<1>2. /\ DOMAIN (s \o t) = 1 .. Len(s) + Len(t)
      /\ \A i \in 1 .. Len(s) + Len(t) :
           (s \o t)[i] = IF i =< Len(s) THEN s[i] ELSE t[i - Len(s)]
  BY ConcatProperties, LenProperties
<1>3. \A i \in 1 .. Len(s) : i \in 1 .. Len(s) + Len(t) /\ (s \o t)[i] = s[i]
  BY <1>1, <1>2
<1>4. \A i \in 1 .. Len(t) :
        i + Len(s) \in 1 .. Len(s) + Len(t) /\ (s \o t)[i + Len(s)] = t[i]
  BY <1>1, <1>2
<1>5. \A i \in 1 .. Len(s) + Len(t) :
        \/ i \in 1 .. Len(s) /\ (s \o t)[i] = s[i]
        \/ i - Len(s) \in 1 .. Len(t) /\ (s \o t)[i] = t[i - Len(s)]
  BY <1>1, <1>2
<1>6. ASSUME NEW x \in ToSet(s \o t) PROVE x \in ToSet(s) \cup ToSet(t)
  <2>1. PICK i \in 1 .. Len(s) + Len(t) : x = (s \o t)[i]
    BY <1>2, <1>6 DEF ToSet
  <2>2. QED
    BY <1>1, <1>5, <2>1 DEF ToSet
<1>7. ASSUME NEW x \in ToSet(s) PROVE x \in ToSet(s \o t)
  BY <1>1, <1>2, <1>3, <1>7 DEF ToSet
<1>8. ASSUME NEW x \in ToSet(t) PROVE x \in ToSet(s \o t)
  <2>1. PICK i \in 1 .. Len(t) : x = t[i]
    BY <1>1, <1>8 DEF ToSet
  <2>2. QED
    BY <1>1, <1>2, <1>4, <2>1 DEF ToSet
<1>9. QED
  BY <1>6, <1>7, <1>8

(* The last element of a sequence that something was appended to. *)
LEMMA AppendedType ==
  ASSUME NEW S, NEW s \in Seq(S), NEW m, Append(s, m) \in Seq(S)
  PROVE  m \in S
<1>1. s \in Seq(S \cup {m})
  BY SeqMonotonic
<1>2. Append(s, m)[Len(s) + 1] = m /\ Len(Append(s, m)) = Len(s) + 1
  BY <1>1, AppendProperties
<1>3. Len(s) + 1 \in 1 .. Len(Append(s, m))
  BY <1>2, LenProperties
<1>4. QED
  BY <1>2, <1>3, ElementOfSeq

(* Every request is answered so, with a message of the protocol. *)
LEMMA ServeShape ==
  ASSUME TypeOK, AuthNamed, TryOneRequest, cur \in Fd
  PROVE  \E m \in Response : \E fs \in SUBSET Recipients, auth \in SUBSET {"IS_AUTH"} :
           Answered(m, fs, auth)
<1> DEFINE req == Head(incoming[cur])
<1>1. ASSUME NEW m, NEW fs \in SUBSET Recipients, Respond(m, fs)
      PROVE  Answered(m, fs, {})
  BY <1>1 DEF Answered, Respond, set_connection_state, epoll_ctl_mod, TypeOK, TableTypeOK
<1>2. ASSUME ServeLogin(req)
      PROVE  \E m : \E auth \in SUBSET {"IS_AUTH"} : Answered(m, {}, auth)
  <2>1. PICK fault :
          LET result == login_user(db, req, fault)
          IN /\ outgoing' = [outgoing EXCEPT ![cur] = Append(@, result.response)]
             /\ IF result.id # 0
                THEN Authenticate(result.id)
                ELSE UNCHANGED <<flags, user_ids, usernames, joined, idents>>
    BY <1>2 DEF ServeLogin
  <2> DEFINE result == login_user(db, req, fault)
  <2> HIDE DEF result
  <2>2. outgoing' = [outgoing EXCEPT ![cur] = Append(@, result.response)]
    BY <2>1 DEF result
  <2>3. mask' = mask
    BY <1>2 DEF ServeLogin, epollVars
  <2>4. \/ flags' = [flags EXCEPT ![cur] = @ \cup {"IS_AUTH"}]
        \/ flags' = flags
    BY <2>1 DEF result, Authenticate
  <2>5. \E auth \in SUBSET {"IS_AUTH"} :
          flags' = [f \in Fd |-> IF f = cur THEN flags[f] \cup auth ELSE flags[f]]
    <3>1. CASE flags' = [flags EXCEPT ![cur] = @ \cup {"IS_AUTH"}]
      BY <3>1 DEF TypeOK, TableTypeOK
    <3>2. CASE flags' = flags
      <4>1. flags' = [f \in Fd |-> IF f = cur THEN flags[f] \cup {} ELSE flags[f]]
        BY <3>2 DEF TypeOK, TableTypeOK
      <4>2. QED
        BY <4>1
    <3>3. QED
      BY <2>4, <3>1, <3>2
  <2>6. PICK auth \in SUBSET {"IS_AUTH"} :
          flags' = [f \in Fd |-> IF f = cur THEN flags[f] \cup auth ELSE flags[f]]
    BY <2>5
  <2>7. Answered(result.response, {}, auth)
    BY <2>2, <2>3, <2>6 DEF Answered, TypeOK, TableTypeOK, KernelTypeOK
  <2>8. QED
    BY <2>7
<1>3. ASSUME NEW m, NEW fs \in SUBSET Recipients, Respond(m, fs)
      PROVE  \E n : \E gs \in SUBSET Recipients, auth \in SUBSET {"IS_AUTH"} :
               Answered(n, gs, auth)
  BY <1>1, <1>3
<1>4. \E m : \E fs \in SUBSET Recipients, auth \in SUBSET {"IS_AUTH"} :
        Answered(m, fs, auth)
  <2>1. CASE ServeLogin(req)
    BY <1>2, <2>1
  <2>2. CASE ServeRegister(req)
    BY <1>3, <2>2 DEF ServeRegister
  <2>3. CASE ServeRefused(req)
    BY <1>3, <2>3 DEF ServeRefused
  <2>4. CASE ServeWorld(req)
    BY <1>3, <2>4 DEF ServeWorld
  <2>5. CASE ServeP2P(req)
    <3>1. P2PRecipients(req) \in SUBSET Recipients
      BY P2PRecipientsLemma
    <3>2. QED
      BY <1>3, <2>5, <3>1 DEF ServeP2P
  <2>6. CASE ServeUnknown(req)
    BY <1>3, <2>6 DEF ServeUnknown
  <2>7. QED
    BY <2>1, <2>2, <2>3, <2>4, <2>5, <2>6 DEF TryOneRequest
<1>5. PICK m : \E fs \in SUBSET Recipients, auth \in SUBSET {"IS_AUTH"} :
        Answered(m, fs, auth)
  BY <1>4
<1>6. outgoing'[cur] = Append(outgoing[cur], m) /\ outgoing'[cur] \in Seq(Response)
  BY <1>5, ServeType DEF Answered, TypeOK, TableTypeOK
<1>7. m \in Response
  BY <1>6, AppendedType DEF TypeOK, TableTypeOK
<1>8. QED
  BY <1>5, <1>7

-----------------------------------------------------------------------------
(* A peer of whose connection the server knows nothing yet. *)
Unaccepted(p) == peer[p] = "new" \/ p \in ToSet(backlog)

(***************************************************************************)
(* The descriptors that are open have a peer each, and no two the same; a  *)
(* peer waits at most once in the backlog, and not once it is accepted or  *)
(* before it connects.  Nothing has been sent to a peer that waits.  A     *)
(* process that has ended has no descriptor.                               *)
(***************************************************************************)
Endpoints ==
  /\ \A f \in Fd : IF f \in fds THEN peerOf[f] \in Peer ELSE peerOf[f] = NoPeer
  /\ \A f, g \in fds : peerOf[f] = peerOf[g] => f = g
  /\ \A i, j \in DOMAIN backlog : backlog[i] = backlog[j] => i = j
  /\ \A p \in ToSet(backlog) : peer[p] # "new"
  /\ \A p \in Peer : Unaccepted(p) =>
       /\ \A f \in fds : peerOf[f] # p
       /\ got[p] = << >> /\ net[p] = << >> /\ err[p] = "ok"
  /\ server # "running" => fds = {} /\ backlog = << >>

(* The inductive invariant about connections and slots. *)
CInv ==
  /\ IInv
  /\ ClosePrompt
  /\ FreshSlot
  /\ OutputArmed
  /\ TableCovers
  /\ Endpoints

(* Only the handler of a connection marks it, and the loop then removes it. *)
LEMMA ClosingStep ==
  ASSUME IInv, ClosePrompt, [Next]_vars
  PROVE  ClosePrompt'
<1> USE DEF IInv, ClosePrompt, has_flag
<1>1. CASE UNCHANGED vars
  BY <1>1 DEF vars, serverVars, loopVars
<1>2. ASSUME NEW p \in Peer, PeerMoves(p)
      PROVE  ClosePrompt'
  BY <1>2 DEF PeerMoves, serverVars, loopVars
<1>3. CASE LoopOnly
  BY <1>3, LoopOnlyLemma, KernelAssumption
  DEF LoopOnly, EpollWait, DispatchListen, DispatchConnection, KeepConnection,
      AcceptDone, ReadAgain, WriteAgain, EventDone, loopVars, Handling
<1>4. CASE RemoveConnection
  BY <1>4 DEF RemoveConnection, remove_connection, EventDone, TypeOK, TableTypeOK
<1>5. CASE AcceptConnection
  BY <1>5 DEF AcceptConnection, add_connection, loopVars, TypeOK, TableTypeOK
<1>6. CASE AcceptUnwatched \/ ReadSome
  BY <1>6 DEF AcceptUnwatched, ReadSome, loopVars
<1>7. CASE ReadClosed
  BY <1>7 DEF ReadClosed, set_connection_state, NextFlags, AfterRead, loopVars, Handling
<1>8. CASE TryOneRequest
  <2>1. cur \in Fd /\ UNCHANGED <<cur, pc>>
    BY <1>8 DEF TryOneRequest, loopVars, Handling
  <2>2. \A f \in Fd : has_flag(f, "WANT_CLOSE")' => has_flag(f, "WANT_CLOSE")
    BY <1>8, <2>1, ServeShape DEF Answered, NextFlags
  <2>3. QED
    BY <2>1, <2>2
<1>9. CASE ServeDone
  BY <1>9 DEF ServeDone, NextFlags, AfterRead, loopVars, Handling, TypeOK, TableTypeOK
<1>10. CASE WriteSome
  <2>1. \A f \in Fd : has_flag(f, "WANT_CLOSE")' => has_flag(f, "WANT_CLOSE")
    BY <1>10 DEF WriteSome, set_connection_state, NextFlags
  <2>2. QED
    BY <1>10, <2>1 DEF WriteSome, loopVars
<1>11. CASE WriteError
  BY <1>11 DEF WriteError, set_connection_state, NextFlags, loopVars
<1>12. CASE EndStep
  BY <1>12, EndLemma
<1>13. CASE Restart
  BY <1>13 DEF Restart, loopVars
<1>14. QED
  BY <1>1, <1>2, <1>3, <1>4, <1>5, <1>6, <1>7, <1>8, <1>9, <1>10, <1>11, <1>12,
     <1>13, NextCases

(* Only open descriptors are written to, and none is ever closed while the *)
(* process runs.                                                           *)
LEMMA FreshStep ==
  ASSUME IInv, FreshSlot, [Next]_vars
  PROVE  FreshSlot'
<1> USE DEF FreshSlot
<1>1. CASE UNCHANGED vars
  BY <1>1 DEF vars, kernelVars, serverVars, tableVars
<1>2. ASSUME NEW p \in Peer, PeerMoves(p)
      PROVE  FreshSlot'
  BY <1>2, PeerStepLemma
<1>3. CASE LoopOnly
  BY <1>3, LoopOnlyLemma
<1>4. CASE RemoveConnection
  BY <1>4
  DEF RemoveConnection, remove_connection, tableVars, IInv, TypeOK, TableTypeOK
<1>5. CASE AcceptConnection
  <2>1. PICK f \in Fd, p \in Peer : accept(f, p) /\ add_connection(f, p)
    BY <1>5 DEF AcceptConnection
  <2>2. QED
    BY <1>5, <2>1
    DEF AcceptConnection, accept, add_connection, IInv, TypeOK, TableTypeOK
<1>6. CASE AcceptUnwatched
  BY <1>6 DEF AcceptUnwatched, accept, tableVars
<1>7. CASE ReadSome \/ ReadClosed \/ ServeDone \/ WriteSome \/ WriteError
  <2>1. cur \in fds
    BY <1>7, CurrentPeer
    DEF ReadSome, ReadClosed, ServeDone, WriteSome, WriteError, IInv
  <2>2. fds' = fds
    BY <1>7 DEF ReadSome, ReadClosed, ServeDone, WriteSome, WriteError
  <2>3. \A f \in Fd \ {cur} :
          flags'[f] = flags[f] /\ incoming'[f] = incoming[f] /\ outgoing'[f] = outgoing[f]
    <3>1. CASE ReadSome
      BY <3>1 DEF ReadSome, IInv, TypeOK, TableTypeOK
    <3>2. CASE ReadClosed \/ WriteError
      BY <3>2 DEF ReadClosed, WriteError, tableVars, set_connection_state
    <3>3. CASE ServeDone
      BY <3>3 DEF ServeDone, tableVars, IInv, TypeOK, TableTypeOK
    <3>4. CASE WriteSome
      BY <3>4 DEF WriteSome, set_connection_state, IInv, TypeOK, TableTypeOK
    <3>5. QED
      BY <1>7, <3>1, <3>2, <3>3, <3>4
  <2>4. QED
    BY <2>1, <2>2, <2>3
<1>8. CASE TryOneRequest
  <2>1. cur \in Fd /\ cur \in fds
    BY <1>8, CurrentPeer DEF TryOneRequest, IInv
  <2>2. Recipients \subseteq fds
    BY DEF Recipients, IInv, Watched, ModeAgrees, has_flag
  <2>3. \A f \in Fd \ fds : flags'[f] = flags[f] /\ outgoing'[f] = outgoing[f]
    BY <1>8, <2>1, <2>2, ServeShape DEF Answered, IInv
  <2>4. QED
    BY <1>8, <2>1, <2>3 DEF TryOneRequest, IInv, TypeOK, TableTypeOK
<1>9. CASE EndStep
  BY <1>9, EndLemma
<1>10. CASE Restart
  BY <1>10 DEF Restart, KernelRestart, tableVars
<1>11. QED
  BY <1>1, <1>2, <1>3, <1>4, <1>5, <1>6, <1>7, <1>8, <1>9, <1>10, NextCases

(* An answer goes to cur, whose handler arms it when it has served all, or *)
(* to a recipient, which is armed with it; the mode is left when the       *)
(* buffer is empty; and an accepted connection has a clean slot.           *)
LEMMA OutputStep ==
  ASSUME IInv, FreshSlot, OutputArmed, [Next]_vars
  PROVE  OutputArmed'
<1> USE DEF OutputArmed, has_flag
<1>1. CASE UNCHANGED vars
  BY <1>1 DEF vars, serverVars, tableVars, loopVars
<1>2. ASSUME NEW p \in Peer, PeerMoves(p)
      PROVE  OutputArmed'
  BY <1>2 DEF PeerMoves, serverVars, tableVars, loopVars
<1>3. CASE LoopOnly
  <2>1. UNCHANGED <<flags, outgoing>> /\ pc # "serve"
    BY <1>3, LoopOnlyLemma
    DEF LoopOnly, EpollWait, DispatchListen, DispatchConnection, KeepConnection,
        AcceptDone, ReadAgain, WriteAgain
  <2>2. pc' = "serve" => pc = "read" /\ cur' = cur
    BY <1>3
    DEF LoopOnly, EpollWait, DispatchListen, DispatchConnection, KeepConnection,
        AcceptDone, ReadAgain, WriteAgain, EventDone, loopVars
  <2>3. pc = "read" => cur \in Fd /\ ~has_flag(cur, "WANT_WRITE")
    BY DEF IInv, Handling, ModeAgrees
  <2>4. QED
    BY <2>1, <2>2, <2>3
<1>4. CASE RemoveConnection
  BY <1>4
  DEF RemoveConnection, remove_connection, EventDone, tableVars, IInv, TypeOK, TableTypeOK
<1>5. CASE AcceptConnection
  <2>1. PICK f \in Fd, p \in Peer : accept(f, p) /\ add_connection(f, p)
    BY <1>5 DEF AcceptConnection
  <2>2. f \notin fds
    BY <2>1, LowestFree DEF accept
  <2>3. outgoing[f] = << >>
    BY <2>2 DEF FreshSlot
  <2>4. QED
    BY <1>5, <2>1, <2>3
    DEF AcceptConnection, add_connection, loopVars, IInv, TypeOK, TableTypeOK
<1>6. CASE AcceptUnwatched \/ ReadSome
  BY <1>6 DEF AcceptUnwatched, ReadSome, tableVars, loopVars
<1>7. CASE ReadClosed \/ WriteError
  <2>1. UNCHANGED <<outgoing, cur>> /\ pc # "serve" /\ pc' # "serve"
    BY <1>7 DEF ReadClosed, WriteError, AfterRead, tableVars, loopVars
  <2>2. \A f \in Fd : flags'[f] \in {flags[f], flags[f] \cup {"WANT_CLOSE"}}
    BY <1>7 DEF ReadClosed, WriteError, set_connection_state, NextFlags
  <2>3. QED
    BY <2>1, <2>2
<1>8. CASE TryOneRequest
  <2>1. cur \in Fd /\ pc = "serve" /\ UNCHANGED <<cur, pc>>
    BY <1>8 DEF TryOneRequest, loopVars, IInv, Handling
  <2>2. PICK m \in Response : \E fs \in SUBSET Recipients, auth \in SUBSET {"IS_AUTH"} :
          Answered(m, fs, auth)
    BY <1>8, <2>1, ServeShape DEF IInv
  <2>3. PICK fs \in SUBSET Recipients, auth \in SUBSET {"IS_AUTH"} : Answered(m, fs, auth)
    BY <2>2
  <2>4. \A f \in fs : outgoing'[f] # << >>
    BY <2>3, AppendProperties DEF Answered, IInv, TypeOK, TableTypeOK, Recipients
  <2>5. QED
    BY <2>1, <2>3, <2>4 DEF Answered, NextFlags, Recipients, IInv, ModeAgrees, Handling
<1>9. CASE ServeDone
  <2>1. cur \in Fd /\ pc = "serve" /\ UNCHANGED <<cur, outgoing>> /\ pc' # "serve"
    BY <1>9 DEF ServeDone, AfterRead, tableVars, loopVars, IInv, Handling
  <2>2. \A f \in Fd \ {cur} : flags'[f] = flags[f]
    BY <1>9 DEF ServeDone, IInv, TypeOK, TableTypeOK
  <2>3. has_flag(cur, "WANT_WRITE")' <=> outgoing[cur] # << >>
    <3>1. has_flag(cur, "WANT_READ") /\ ~has_flag(cur, "WANT_WRITE")
      BY <2>1 DEF IInv, ModeAgrees, Handling
    <3>2. QED
      BY <1>9, <2>1, <3>1 DEF ServeDone, NextFlags, IInv, TypeOK, TableTypeOK
  <2>4. has_flag(cur, "IS_ACTIVE")' <=> has_flag(cur, "IS_ACTIVE")
    BY <1>9, <2>1 DEF ServeDone, NextFlags, IInv, TypeOK, TableTypeOK
  <2>5. QED
    BY <2>1, <2>2, <2>3, <2>4
<1>10. CASE WriteSome
  <2>1. cur \in Fd /\ pc = "write" /\ UNCHANGED cur /\ pc' # "serve"
    BY <1>10 DEF WriteSome, loopVars, IInv, Handling
  <2>2. \A f \in Fd \ {cur} : flags'[f] = flags[f] /\ outgoing'[f] = outgoing[f]
    BY <1>10 DEF WriteSome, set_connection_state, IInv, TypeOK, TableTypeOK
  <2>3. outgoing'[cur] = Tail(outgoing[cur])
    BY <1>10, <2>1 DEF WriteSome, IInv, TypeOK, TableTypeOK
  <2>4. has_flag(cur, "WANT_WRITE")
    BY <2>1 DEF IInv, Handling
  <2>5. has_flag(cur, "WANT_WRITE")' <=> Tail(outgoing[cur]) # << >>
    BY <1>10, <2>1, <2>4 DEF WriteSome, set_connection_state, NextFlags
  <2>6. QED
    BY <2>1, <2>2, <2>3, <2>5
<1>11. CASE EndStep
  BY <1>11, EndLemma
<1>12. CASE Restart
  BY <1>12 DEF Restart, tableVars, loopVars
<1>13. QED
  BY <1>1, <1>2, <1>3, <1>4, <1>5, <1>6, <1>7, <1>8, <1>9, <1>10, <1>11, <1>12,
     NextCases

(* The table grows before a descriptor past its end is watched. *)
LEMMA CoverStep ==
  ASSUME IInv, TableCovers, [Next]_vars
  PROVE  TableCovers'
<1> USE DEF TableCovers
<1>1. CASE UNCHANGED vars
  BY <1>1 DEF vars, kernelVars, epollVars, serverVars, tableVars
<1>2. ASSUME NEW p \in Peer, PeerMoves(p)
      PROVE  TableCovers'
  BY <1>2, PeerStepLemma
<1>3. CASE LoopOnly
  BY <1>3, LoopOnlyLemma
<1>4. CASE AcceptConnection
  <2>1. PICK f \in Fd, p \in Peer : add_connection(f, p)
    BY <1>4 DEF AcceptConnection
  <2>2. f \in Nat /\ table_size \in Nat /\ Fd \subseteq Nat
    BY KernelAssumption DEF IInv, TypeOK, TableTypeOK
  <2>3. table_size' \in Nat /\ table_size =< table_size' /\ f < table_size'
    BY <2>1, <2>2 DEF add_connection, ResizeFor
  <2>4. \A g \in Fd \ {f} : mask'[g] = mask[g]
    BY <2>1 DEF add_connection, epoll_ctl_add, IInv, TypeOK, KernelTypeOK
  <2>5. QED
    BY <2>2, <2>3, <2>4
<1>5. ASSUME table_size' = table_size,
             \A f \in Fd : mask'[f] # "none" => mask[f] # "none"
      PROVE  TableCovers'
  BY <1>5
<1>6. CASE RemoveConnection
  BY <1>5, <1>6
  DEF RemoveConnection, remove_connection, epoll_ctl_del, tableVars, IInv, TypeOK,
      KernelTypeOK
<1>7. CASE AcceptUnwatched \/ ReadSome
  BY <1>5, <1>7 DEF AcceptUnwatched, ReadSome, epollVars, tableVars
<1>8. CASE ReadClosed \/ WriteError
  BY <1>5, <1>8 DEF ReadClosed, WriteError, set_connection_state, epollVars, tableVars
<1>9. CASE ServeDone \/ WriteSome
  <2>1. cur \in Fd /\ mask[cur] # "none"
    BY <1>9 DEF ServeDone, WriteSome, IInv, Handling, ModeAgrees
  <2>2. table_size' = table_size
    BY <1>9 DEF ServeDone, WriteSome, tableVars
  <2>3. \A f \in Fd \ {cur} : mask'[f] = mask[f]
    BY <1>9
    DEF ServeDone, WriteSome, set_connection_state, epoll_ctl_mod, epollVars
  <2>4. QED
    BY <1>5, <2>1, <2>2, <2>3
<1>10. CASE TryOneRequest
  <2>1. cur \in Fd
    BY <1>10 DEF TryOneRequest, IInv, Handling
  <2>2. \A f \in Recipients : mask[f] # "none"
    BY DEF Recipients, IInv, ModeAgrees, has_flag
  <2>3. \A f \in Fd : mask'[f] # "none" => mask[f] # "none"
    BY <1>10, <2>1, <2>2, ServeShape DEF Answered, IInv
  <2>4. QED
    BY <1>5, <1>10, <2>3 DEF TryOneRequest
<1>11. CASE EndStep
  BY <1>11, EndLemma
<1>12. CASE Restart
  BY <1>12 DEF Restart, KernelRestart, epollVars, tableVars
<1>13. QED
  BY <1>1, <1>2, <1>3, <1>4, <1>6, <1>7, <1>8, <1>9, <1>10, <1>11, <1>12, NextCases

-----------------------------------------------------------------------------
(* accept() gives the head of the backlog a descriptor of its own. *)
LEMMA AcceptEndpoints ==
  ASSUME IInv, Endpoints, NEW f \in Fd, NEW p \in Peer, accept(f, p),
         UNCHANGED <<peer, got, net, err, server>>
  PROVE  Endpoints'
<1>1. f \notin fds
  BY LowestFree DEF accept
<1>2. backlog \in Seq(Peer) /\ backlog # << >> /\ p = Head(backlog)
  BY DEF accept, IInv, TypeOK, KernelTypeOK
<1>3. fds' = fds \cup {f} /\ backlog' = Tail(backlog) /\ peerOf' = [peerOf EXCEPT ![f] = p]
  BY DEF accept
<1>4. /\ Len(backlog) \in Nat \ {0} /\ DOMAIN backlog = 1 .. Len(backlog) /\ p = backlog[1]
      /\ DOMAIN Tail(backlog) = 1 .. Len(backlog) - 1
      /\ \A i \in 1 .. Len(backlog) - 1 : Tail(backlog)[i] = backlog[i + 1]
  BY <1>2, HeadTailProperties, LenProperties, EmptySeq
<1>5. ToSet(backlog) = {p} \cup ToSet(backlog')
  BY <1>2, <1>3, ToSetTail
<1>6. p \notin ToSet(backlog')
  <2>1. \A i \in 1 .. Len(backlog) - 1 : Tail(backlog)[i] # p
    BY <1>4 DEF Endpoints
  <2>2. QED
    BY <1>3, <1>4, <2>1 DEF ToSet
<1>7. Unaccepted(p) /\ peer[p] # "new"
  BY <1>5 DEF Endpoints, Unaccepted
<1>8. \A q \in Peer : Unaccepted(q)' => Unaccepted(q) /\ q # p
  BY <1>5, <1>6, <1>7 DEF Unaccepted
<1>9. \A g \in Fd : peerOf'[g] = IF g = f THEN p ELSE peerOf[g]
  BY <1>3 DEF IInv, TypeOK, KernelTypeOK
<1>10. \A g \in fds : g \in Fd /\ peerOf[g] # p
  BY <1>7 DEF Endpoints, IInv, TypeOK, KernelTypeOK
<1>11. \A g \in Fd : IF g \in fds' THEN peerOf'[g] \in Peer ELSE peerOf'[g] = NoPeer
  BY <1>3, <1>9 DEF Endpoints
<1>12. \A g, h \in fds' : peerOf'[g] = peerOf'[h] => g = h
  BY <1>1, <1>3, <1>9, <1>10 DEF Endpoints
<1>13. \A i, j \in DOMAIN backlog' : backlog'[i] = backlog'[j] => i = j
  BY <1>3, <1>4 DEF Endpoints
<1>14. \A q \in ToSet(backlog') : peer'[q] # "new"
  BY <1>5 DEF Endpoints
<1>15. \A q \in Peer : Unaccepted(q)' =>
         /\ \A g \in fds' : peerOf'[g] # q
         /\ got'[q] = << >> /\ net'[q] = << >> /\ err'[q] = "ok"
  BY <1>3, <1>8, <1>9, <1>10 DEF Endpoints
<1>16. server' = "running"
  BY <1>2 DEF Endpoints
<1>17. QED
  BY <1>11, <1>12, <1>13, <1>14, <1>15, <1>16 DEF Endpoints

(* A peer whose socket is not new is connected, accepted or gone. *)
LEMMA PeerEndpoints ==
  ASSUME IInv, Endpoints, NEW p \in Peer, PeerMoves(p)
  PROVE  Endpoints'
<1>1. UNCHANGED <<fds, peerOf, server>>
  BY PeerStepLemma
<1>2. CASE Connect(p)
  <2>1. p \notin ToSet(backlog) /\ peer[p] = "new" /\ backlog \in Seq(Peer)
    BY <1>2 DEF Connect, Endpoints, IInv, TypeOK, KernelTypeOK
  <2>2. backlog' = Append(backlog, p) /\ peer' = [peer EXCEPT ![p] = "open"]
    BY <1>2 DEF Connect
  <2>3. ToSet(backlog') = ToSet(backlog) \cup {p}
    BY <2>1, <2>2, ToSetAppend
  <2>4. \A q \in Peer : peer'[q] = IF q = p THEN "open" ELSE peer[q]
    BY <2>2 DEF IInv, TypeOK, SocketTypeOK
  <2>5. \A q \in Peer : Unaccepted(q)' => Unaccepted(q)
    BY <2>1, <2>3, <2>4 DEF Unaccepted
  <2>6. \A i, j \in DOMAIN backlog' : backlog'[i] = backlog'[j] => i = j
    <3>1. /\ DOMAIN backlog' = 1 .. Len(backlog) + 1 /\ Len(backlog) \in Nat
          /\ DOMAIN backlog = 1 .. Len(backlog)
          /\ \A i \in 1 .. Len(backlog) : backlog'[i] = backlog[i]
          /\ backlog'[Len(backlog) + 1] = p
      BY <2>1, <2>2, AppendProperties, LenProperties
    <3>2. \A i \in 1 .. Len(backlog) : backlog[i] # p
      BY <2>1, <3>1 DEF ToSet
    <3>3. QED
      BY <3>1, <3>2 DEF Endpoints
  <2>7. \A q \in ToSet(backlog') : peer'[q] # "new"
    <3>1. ToSet(backlog) \subseteq Peer
      BY <2>1 DEF ToSet
    <3>2. QED
      BY <2>3, <2>4, <3>1 DEF Endpoints
  <2>8. server = "running"
    BY <1>2, <2>1 DEF PeerMoves, PeerRecv
  <2>9. UNCHANGED <<got, net, err>>
    BY <1>2 DEF Connect
  <2>10. QED
    BY <1>1, <2>5, <2>6, <2>7, <2>8, <2>9 DEF Endpoints
<1>3. CASE PeerSend(p) \/ PeerClose(p)
  <2>1. UNCHANGED <<backlog, got, net, err>>
    BY <1>3 DEF PeerSend, PeerClose
  <2>2. \A q \in Peer : peer'[q] = "new" => peer[q] = "new"
    BY <1>3 DEF PeerSend, PeerClose, IInv, TypeOK, SocketTypeOK
  <2>3. ToSet(backlog) \subseteq Peer
    BY DEF ToSet, IInv, TypeOK, KernelTypeOK
  <2>4. QED
    BY <1>1, <2>1, <2>2, <2>3 DEF Endpoints, Unaccepted
<1>4. CASE PeerRecv(p) \/ PeerAbort(p) \/ KernelReset(p)
  <2>1. UNCHANGED backlog /\ net[p] # << >>
    BY <1>4 DEF PeerRecv, PeerAbort, KernelReset, Reset
  <2>2. \A q \in Peer : peer'[q] = "new" => peer[q] = "new"
    BY <1>4 DEF PeerRecv, PeerAbort, KernelReset, IInv, TypeOK, SocketTypeOK
  <2>3. \A q \in Peer : Unaccepted(q)' => Unaccepted(q) /\ q # p
    BY <2>1, <2>2 DEF Unaccepted, Endpoints
  <2>4. \A q \in Peer \ {p} : got'[q] = got[q] /\ net'[q] = net[q] /\ err'[q] = err[q]
    BY <1>4 DEF PeerRecv, PeerAbort, KernelReset, Reset, IInv, TypeOK, SocketTypeOK
  <2>5. ToSet(backlog) \subseteq Peer
    BY DEF ToSet, IInv, TypeOK, KernelTypeOK
  <2>6. QED
    BY <1>1, <2>1, <2>2, <2>3, <2>4, <2>5 DEF Endpoints
<1>5. QED
  BY <1>2, <1>3, <1>4 DEF PeerMoves, PeerStep

(* The other steps leave the endpoints as they are, or empty. *)
LEMMA EndpointsStep ==
  ASSUME IInv, Endpoints, [Next]_vars
  PROVE  Endpoints'
<1> DEFINE Same == UNCHANGED <<fds, peerOf, backlog, peer, got, net, err, server>>
<1>1. ASSUME Same PROVE Endpoints'
  BY <1>1 DEF Endpoints, Unaccepted
<1>2. CASE UNCHANGED vars
  BY <1>1, <1>2 DEF vars, kernelVars, sockVars, serverVars
<1>3. ASSUME NEW p \in Peer, PeerMoves(p)
      PROVE  Endpoints'
  BY <1>3, PeerEndpoints
<1>4. CASE LoopOnly
  BY <1>1, <1>4, LoopOnlyLemma
<1>5. CASE RemoveConnection \/ ReadSome \/ ReadClosed \/ TryOneRequest \/ ServeDone
           \/ WriteError
  BY <1>1, <1>5
  DEF RemoveConnection, remove_connection, ReadSome, ReadClosed, TryOneRequest,
      ServeDone, WriteError, sockVars
<1>6. CASE AcceptConnection \/ AcceptUnwatched
  BY <1>6, AcceptEndpoints DEF AcceptConnection, AcceptUnwatched, sockVars
<1>7. CASE WriteSome
  <2>1. cur \in fds /\ peerOf[cur] \in Peer
    BY <1>7, CurrentPeer DEF WriteSome, IInv
  <2>2. \A q \in Peer \ {peerOf[cur]} : net'[q] = net[q]
    BY <1>7 DEF WriteSome, IInv, TypeOK, SocketTypeOK
  <2>3. ~Unaccepted(peerOf[cur])
    BY <2>1 DEF Endpoints
  <2>4. UNCHANGED <<fds, peerOf, backlog, peer, got, err, server>>
    BY <1>7 DEF WriteSome
  <2>5. QED
    BY <2>2, <2>3, <2>4 DEF Endpoints, Unaccepted
<1>8. CASE EndStep
  BY <1>8, EndLemma, ToSetEmpty DEF Endpoints, Unaccepted
<1>9. CASE Restart
  <2>1. fds = {} /\ backlog = << >> /\ UNCHANGED <<fds, peerOf, backlog, err, got>>
    BY <1>9 DEF Restart, KernelRestart, Endpoints
  <2>2. \A q \in Peer : peer'[q] = "new" => peer[q] = "new"
    BY <1>9 DEF Restart, KernelRestart
  <2>3. \A q \in Peer : net'[q] = << >>
    BY <1>9 DEF Restart, KernelRestart
  <2>4. QED
    BY <2>1, <2>2, <2>3, ToSetEmpty DEF Endpoints, Unaccepted
<1>10. QED
  BY <1>2, <1>3, <1>4, <1>5, <1>6, <1>7, <1>8, <1>9, NextCases

-----------------------------------------------------------------------------
(* The initial states. *)
LEMMA InitConnections == Init => CInv
<1> SUFFICES ASSUME Init PROVE CInv
  OBVIOUS
<1>1. IInv
  BY InitInvariant
<1>2. ClosePrompt /\ FreshSlot /\ OutputArmed /\ TableCovers
  BY DEF Init, KernelInit, ClosePrompt, FreshSlot, OutputArmed, TableCovers, has_flag
<1>3. Endpoints
  <2>1. DOMAIN backlog = {} /\ ToSet(backlog) = {}
    BY ToSetEmpty, LenProperties, EmptySeq DEF Init, KernelInit
  <2>2. QED
    BY <2>1 DEF Init, KernelInit, Endpoints, Unaccepted
<1>4. QED
  BY <1>1, <1>2, <1>3 DEF CInv

(* The invariant is inductive. *)
LEMMA StepConnections == CInv /\ [Next]_vars => CInv'
  BY StepInvariant, ClosingStep, FreshStep, OutputStep, CoverStep, EndpointsStep DEF CInv

(* The invariant about connections and slots holds in every behaviour. *)
THEOREM Connections == Spec => []CInv
  BY InitConnections, StepConnections, PTL DEF Spec

(* The WANT_CLOSE that handle_read_connection, try_one_request and         *)
(* handle_write_connection set is looked at by the loop before any other   *)
(* event or broadcast can meet the slot.                                   *)
THEOREM ClosingIsPrompt == Spec => []ClosePrompt
<1>1. CInv => ClosePrompt
  BY DEF CInv
<1>2. QED
  BY <1>1, Connections, PTL

(* Whatever the handlers and the broadcasts queue is in write mode by the  *)
(* time its connection is not being served, and write() has data.          *)
THEOREM OutputIsArmed == Spec => []OutputArmed
<1>1. CInv => OutputArmed
  BY DEF CInv
<1>2. QED
  BY <1>1, Connections, PTL

(* accept_all_connections never hands out a slot that holds the bytes of   *)
(* another client, although no code empties a slot.                        *)
THEOREM SlotsAreFresh == Spec => []FreshSlot
<1>1. CInv => FreshSlot
  BY DEF CInv
<1>2. QED
  BY <1>1, Connections, PTL

(* The index with which the event loop looks into conn_manager's vectors   *)
(* is never out of their range.                                            *)
THEOREM TableIsLargeEnough == Spec => []TableCovers
<1>1. CInv => TableCovers
  BY DEF CInv
<1>2. QED
  BY <1>1, Connections, PTL

(* Two connections never share a client: a descriptor that accept()        *)
(* returned stands for one peer as long as the process runs.               *)
THEOREM OneDescriptorPerPeer == Spec => []Endpoints
<1>1. CInv => Endpoints
  BY DEF CInv
<1>2. QED
  BY <1>1, Connections, PTL

-----------------------------------------------------------------------------
(* What the service of a request does to the table and what it tells. *)

(* The message that try_one_request queues for the requester. *)
Reply == outgoing'[cur][Len(outgoing[cur]) + 1]

(* What is appended to the outgoing buffer of cur is the reply. *)
LEMMA ReplyLemma ==
  ASSUME TypeOK, cur \in Fd, NEW m, outgoing'[cur] = Append(outgoing[cur], m)
  PROVE  Reply = m
<1>1. outgoing[cur] \in Seq(Response \cup {m})
  BY SeqMonotonic DEF TypeOK, TableTypeOK
<1>2. QED
  BY <1>1, AppendProperties DEF Reply

(* Respond queues its message for the requester. *)
LEMMA RespondReply ==
  ASSUME TypeOK, cur \in Fd, NEW m, NEW fs, Respond(m, fs)
  PROVE  Reply = m
<1>1. outgoing'[cur] = Append(outgoing[cur], m)
  BY DEF Respond
<1>2. QED
  BY <1>1, ReplyLemma

(***************************************************************************)
(* The service of a request: only a registration adds a row, only a login  *)
(* authenticates, and only these two tell an id.                           *)
(***************************************************************************)
LEMMA ServeOutcome ==
  ASSUME TypeOK, cur \in Fd, TryOneRequest
  PROVE  \/ /\ UNCHANGED <<db, user_ids, usernames, idents>>
            /\ Reply.user_id = 0
            /\ \A f \in Fd : has_flag(f, "IS_AUTH")' = has_flag(f, "IS_AUTH")
         \/ /\ UNCHANGED <<user_ids, usernames, idents>>
            /\ \E req \in Request, fault \in (Faults \cap DbFault) \cup {"none"} :
                 /\ db' = Append(db, NewRow(req))
                 /\ Reply = build_user_response("REGISTER", Len(db) + 1, req.username)
                 /\ fault = "step" \/ Matches(db, string_to_lower[req.username]) = {}
            /\ \A f \in Fd : has_flag(f, "IS_AUTH")' = has_flag(f, "IS_AUTH")
         \/ /\ UNCHANGED db
            /\ \E id \in DOMAIN db :
                 /\ Reply = build_user_response("LOGIN", id, db[id].username)
                 /\ Authenticate(id)
<1> DEFINE req == Head(incoming[cur])
<1>1. req \in Request /\ db \in Seq(User)
  BY DEF TypeOK, TableTypeOK, TryOneRequest
<1>2. ASSUME NEW m, NEW fs, Respond(m, fs)
      PROVE  Reply = m /\ \A f \in Fd : has_flag(f, "IS_AUTH")' = has_flag(f, "IS_AUTH")
  <2>1. Reply = m
    BY <1>2, RespondReply
  <2>2. QED
    BY <1>2, <2>1 DEF Respond, set_connection_state, NextFlags, has_flag
<1>3. CASE ServeRegister(req)
  <2>1. PICK fault \in (Faults \cap DbFault) \cup {"none"} :
          LET result == register_user(db, req, fault)
          IN db' = result.db /\ Respond(result.response, {})
    BY <1>3 DEF ServeRegister
  <2> DEFINE r == register_user(db, req, fault)
  <2>2. \/ r.db = db /\ r.response.user_id = 0
        \/ /\ r.db = Append(db, NewRow(req))
           /\ r.response = build_user_response("REGISTER", Len(db) + 1, req.username)
           /\ fault = "step" \/ Matches(db, string_to_lower[req.username]) = {}
    BY <1>1, RegisterOutcome
  <2> HIDE DEF r
  <2>3. db' = r.db /\ Reply = r.response
    BY <1>2, <2>1 DEF r
  <2>4. /\ UNCHANGED <<user_ids, usernames, idents>>
        /\ \A f \in Fd : has_flag(f, "IS_AUTH")' = has_flag(f, "IS_AUTH")
    BY <1>2, <1>3, <2>1 DEF ServeRegister, history
  <2>5. QED
    BY <1>1, <2>1, <2>2, <2>3, <2>4
<1>4. CASE ServeLogin(req)
  <2>1. PICK fault :
          LET result == login_user(db, req, fault)
          IN /\ outgoing' = [outgoing EXCEPT ![cur] = Append(@, result.response)]
             /\ IF result.id # 0
                THEN Authenticate(result.id)
                ELSE UNCHANGED <<flags, user_ids, usernames, joined, idents>>
    BY <1>4 DEF ServeLogin
  <2> DEFINE r == login_user(db, req, fault)
  <2>2. \/ r.id = 0 /\ r.response.user_id = 0
        \/ /\ r.id \in DOMAIN db
           /\ r.response = build_user_response("LOGIN", r.id, db[r.id].username)
    BY <1>1, LoginOutcome
  <2> HIDE DEF r
  <2>3. Reply = r.response
    <3>1. outgoing'[cur] = Append(outgoing[cur], r.response)
      BY <2>1 DEF r, TypeOK, TableTypeOK
    <3>2. QED
      BY <3>1, ReplyLemma
  <2>4. UNCHANGED db
    BY <1>4 DEF ServeLogin
  <2>5. CASE r.id = 0 /\ r.response.user_id = 0
    BY <2>1, <2>3, <2>4, <2>5 DEF r, has_flag
  <2>6. CASE /\ r.id \in DOMAIN db
             /\ r.response = build_user_response("LOGIN", r.id, db[r.id].username)
    <3>1. r.id # 0
      BY <1>1, <2>6
    <3>2. Authenticate(r.id)
      BY <2>1, <3>1 DEF r
    <3>3. QED
      BY <2>3, <2>4, <2>6, <3>2
  <2>7. QED
    BY <2>2, <2>5, <2>6
<1>5. CASE ServeRefused(req)
  BY <1>2, <1>5 DEF ServeRefused, history, build_server_response
<1>6. CASE ServeWorld(req)
  <2> DEFINE note == build_world_broadcast_notification(usernames[cur], req.content)
  <2>1. note.user_id = 0
    BY DEF build_world_broadcast_notification, build_server_response
  <2> HIDE DEF note
  <2>2. Respond(note, Recipients) /\ UNCHANGED <<db, user_ids, usernames, idents>>
    BY <1>6 DEF ServeWorld, note
  <2>3. QED
    BY <1>2, <2>1, <2>2
<1>7. CASE ServeP2P(req)
  <2> DEFINE note == IF P2PRecipients(req) = {}
                     THEN build_server_response("CHAT", "RESP_ERROR_USER_NOT_FOUND")
                     ELSE build_p2p_broadcast_notification(usernames[cur], req.recipient,
                                                           req.content)
  <2>1. note.user_id = 0
    BY DEF build_p2p_broadcast_notification, build_server_response
  <2> HIDE DEF note
  <2>2. Respond(note, P2PRecipients(req)) /\ UNCHANGED <<db, user_ids, usernames, idents>>
    BY <1>7 DEF ServeP2P, note, history
  <2>3. QED
    BY <1>2, <2>1, <2>2
<1>8. CASE ServeUnknown(req)
  BY <1>2, <1>8 DEF ServeUnknown, history, build_server_response
<1>9. QED
  BY <1>3, <1>4, <1>5, <1>6, <1>7, <1>8 DEF TryOneRequest

-----------------------------------------------------------------------------
(* Every step but the end of the process keeps the rows of the table. *)

(* Every row that the table has stays as it is. *)
RowsKept == \A i \in DOMAIN db : i \in DOMAIN db' /\ db'[i] = db[i]

(* A row more keeps the others. *)
LEMMA AppendKeepsRows ==
  ASSUME NEW S, NEW d \in Seq(S), NEW row \in S
  PROVE  \A i \in DOMAIN d : i \in DOMAIN Append(d, row) /\ Append(d, row)[i] = d[i]
<1>1. DOMAIN d = 1 .. Len(d) /\ Len(d) \in Nat /\ DOMAIN Append(d, row) = 1 .. Len(d) + 1
  BY LenProperties, AppendProperties
<1>2. QED
  BY <1>1, AppendProperties

(* A request adds at most a row. *)
LEMMA ServeKeepsRows ==
  ASSUME TypeOK, cur \in Fd, TryOneRequest
  PROVE  RowsKept
<1>1. CASE UNCHANGED db
  BY <1>1 DEF RowsKept
<1>2. ASSUME NEW req \in Request, db' = Append(db, NewRow(req))
      PROVE  RowsKept
  <2>1. NewRow(req) \in User /\ db \in Seq(User)
    BY DEF NewRow, Request, User, TypeOK, TableTypeOK
  <2>2. QED
    BY <1>2, <2>1, AppendKeepsRows DEF RowsKept
<1>3. QED
  BY <1>1, <1>2, ServeOutcome

(* No step but the service of a request and the end of the process touches *)
(* the accounts and who is authenticated, except that a connection ends.   *)
LEMMA AccountsFrame ==
  ASSUME IInv, [Next]_vars, ~TryOneRequest, ~EndStep
  PROVE  /\ UNCHANGED <<db, user_ids, usernames, idents>>
         /\ \A f \in Fd : has_flag(f, "IS_AUTH")' => has_flag(f, "IS_AUTH")
<1> USE DEF has_flag
<1>1. CASE UNCHANGED vars
  BY <1>1 DEF vars, serverVars, tableVars, history
<1>2. ASSUME NEW p \in Peer, PeerMoves(p)
      PROVE  UNCHANGED <<db, user_ids, usernames, idents, flags>>
  BY <1>2, PeerStepLemma
<1>3. CASE LoopOnly
  BY <1>3, LoopOnlyLemma
<1>4. CASE RemoveConnection
  BY <1>4
  DEF RemoveConnection, remove_connection, tableVars, history, IInv, TypeOK, TableTypeOK
<1>5. CASE AcceptConnection
  <2>1. \A f \in Fd : flags'[f] \in {flags[f], {"IS_ACTIVE", "WANT_READ"}}
    BY <1>5 DEF AcceptConnection, add_connection, IInv, TypeOK, TableTypeOK
  <2>2. QED
    BY <1>5, <2>1 DEF AcceptConnection, history
<1>6. CASE AcceptUnwatched \/ ReadSome
  BY <1>6 DEF AcceptUnwatched, ReadSome, tableVars, history
<1>7. CASE ReadClosed \/ WriteError
  BY <1>7
  DEF ReadClosed, WriteError, set_connection_state, NextFlags, tableVars, history
<1>8. CASE ServeDone
  <2>1. \A f \in Fd : has_flag(f, "IS_AUTH")' => has_flag(f, "IS_AUTH")
    <3>1. \A fl : /\ "IS_AUTH" \in NextFlags(fl, "CLOSING") => "IS_AUTH" \in fl
                  /\ "IS_AUTH" \in NextFlags(fl, "WRITING") => "IS_AUTH" \in fl
      BY DEF NextFlags
    <3>2. QED
      BY <1>8, <3>1, ZenonT(60) DEF ServeDone, IInv, TypeOK, TableTypeOK
  <2>2. QED
    BY <1>8, <2>1 DEF ServeDone, tableVars, history
<1>9. CASE WriteSome
  <2>1. \A f \in Fd : has_flag(f, "IS_AUTH")' => has_flag(f, "IS_AUTH")
    BY <1>9 DEF WriteSome, set_connection_state, NextFlags
  <2>2. QED
    BY <1>9, <2>1 DEF WriteSome, history
<1>10. CASE Restart
  BY <1>10 DEF Restart, tableVars, history
<1>11. QED
  BY <1>1, <1>2, <1>3, <1>4, <1>5, <1>6, <1>7, <1>8, <1>9, <1>10, NextCases

(* The end of the process keeps the table, but for a test server's. *)
LEMMA EndTable ==
  ASSUME EndStep
  PROVE  db' = db \/ (IsTest /\ db' = << >>)
  BY DEF EndStep, AcceptError, WriteSigpipe, sigint_handler, EpollInterrupted, close_db

(* A served request is one of a connection. *)
LEMMA ServeCur ==
  ASSUME IInv, TryOneRequest
  PROVE  TypeOK /\ AuthNamed /\ cur \in Fd /\ cur \in fds /\ peerOf[cur] \in Peer
  BY CurrentPeer DEF TryOneRequest, IInv

(***************************************************************************)
(* The rows of the users table never change and never go, through failed   *)
(* statements, signals at any point and restarts: no code of the server    *)
(* updates or deletes a row, and close_db only removes a test's table.     *)
(***************************************************************************)
THEOREM RowsAreKept ==
  ASSUME ~IsTest
  PROVE  Spec => [][RowsKept]_vars
<1>1. IInv /\ [Next]_vars => [RowsKept]_vars
  <2> SUFFICES ASSUME IInv, [Next]_vars PROVE RowsKept
    OBVIOUS
  <2>1. CASE TryOneRequest
    BY <2>1, ServeCur, ServeKeepsRows
  <2>2. CASE EndStep
    BY <2>2, EndTable DEF RowsKept
  <2>3. CASE ~TryOneRequest /\ ~EndStep
    BY <2>3, AccountsFrame DEF RowsKept
  <2>4. QED
    BY <2>1, <2>2, <2>3
<1>2. QED
  BY <1>1, Invariance, PTL DEF Spec

-----------------------------------------------------------------------------
(* login_user returns a row, rows are kept, and the end of the process     *)
(* leaves nobody authenticated.                                            *)
LEMMA RegisteredStep ==
  ASSUME IInv, AuthRegistered, [Next]_vars
  PROVE  AuthRegistered'
<1>1. CASE TryOneRequest
  <2>1. TypeOK /\ cur \in Fd /\ RowsKept
    BY <1>1, ServeCur, ServeKeepsRows
  <2>2. CASE /\ UNCHANGED <<user_ids, usernames>>
             /\ \A f \in Fd : has_flag(f, "IS_AUTH")' = has_flag(f, "IS_AUTH")
    BY <2>1, <2>2 DEF AuthRegistered, RowsKept
  <2>3. ASSUME UNCHANGED db, NEW id \in DOMAIN db, Authenticate(id)
        PROVE  AuthRegistered'
    <3>1. \A f \in Fd \ {cur} : /\ user_ids'[f] = user_ids[f] /\ usernames'[f] = usernames[f]
                                /\ has_flag(f, "IS_AUTH")' = has_flag(f, "IS_AUTH")
      BY <2>1, <2>3 DEF Authenticate, has_flag, TypeOK, TableTypeOK
    <3>2. user_ids'[cur] = id /\ usernames'[cur] = db[id].username
      BY <2>1, <2>3 DEF Authenticate, TypeOK, TableTypeOK
    <3>3. QED
      BY <2>3, <3>1, <3>2 DEF AuthRegistered
  <2>4. QED
    BY <1>1, <2>1, <2>2, <2>3, ServeOutcome
<1>2. CASE EndStep
  BY <1>2, EndLemma DEF AuthRegistered, has_flag
<1>3. CASE ~TryOneRequest /\ ~EndStep
  BY <1>3, AccountsFrame DEF AuthRegistered
<1>4. QED
  BY <1>1, <1>2, <1>3

(* handle_login gives a slot the id and the name of one row, and the two   *)
(* stay those of that row for as long as the connection is authenticated.  *)
THEOREM AuthenticatedAreRegistered == Spec => []AuthRegistered
<1>1. Init => AuthRegistered
  BY DEF Init, AuthRegistered, has_flag
<1>2. IInv /\ AuthRegistered /\ [Next]_vars => AuthRegistered'
  BY RegisteredStep
<1>3. QED
  BY <1>1, <1>2, Invariance, PTL DEF Spec

-----------------------------------------------------------------------------
(***************************************************************************)
(* register_user looks the lower case name up before it inserts, so names  *)
(* that are unique up to case stay so, provided that no sqlite3_step of    *)
(* the SELECT fails: get_user_by_username takes such a failure for "no     *)
(* such user".                                                             *)
(***************************************************************************)
THEOREM NamesStayUnique ==
  ASSUME "step" \notin Faults,
         \A i, j \in DOMAIN Accounts :
           string_to_lower[Accounts[i].username] = string_to_lower[Accounts[j].username]
             => i = j
  PROVE  Spec => []CaseInsensitiveUnique
<1>1. Init => CaseInsensitiveUnique
  BY DEF Init, CaseInsensitiveUnique
<1>2. IInv /\ CaseInsensitiveUnique /\ [Next]_vars => CaseInsensitiveUnique'
  <2> SUFFICES ASSUME IInv, CaseInsensitiveUnique, [Next]_vars
               PROVE  CaseInsensitiveUnique'
    OBVIOUS
  <2>1. CASE UNCHANGED db
    BY <2>1 DEF CaseInsensitiveUnique
  <2>2. ASSUME NEW req \in Request, db' = Append(db, NewRow(req)),
               Matches(db, string_to_lower[req.username]) = {}
        PROVE  CaseInsensitiveUnique'
    <3>1. NewRow(req) \in User /\ db \in Seq(User) /\ NewRow(req).username = req.username
      BY DEF NewRow, Request, User, IInv, TypeOK, TableTypeOK
    <3>2. /\ DOMAIN db' = 1 .. Len(db) + 1 /\ DOMAIN db = 1 .. Len(db) /\ Len(db) \in Nat
          /\ \A i \in 1 .. Len(db) : db'[i] = db[i]
          /\ db'[Len(db) + 1] = NewRow(req)
      BY <2>2, <3>1, AppendProperties, LenProperties
    <3>3. \A i \in 1 .. Len(db) :
            string_to_lower[db[i].username] # string_to_lower[req.username]
      BY <2>2, <3>2 DEF Matches
    <3>4. QED
      BY <3>1, <3>2, <3>3 DEF CaseInsensitiveUnique
  <2>3. CASE TryOneRequest
    <3>1. TypeOK /\ cur \in Fd
      BY <2>3, ServeCur
    <3>2. \A fault \in (Faults \cap DbFault) \cup {"none"} : fault # "step"
      OBVIOUS
    <3>3. QED
      BY <2>1, <2>2, <2>3, <3>1, <3>2, ServeOutcome
  <2>4. CASE EndStep
    <3>1. CASE db' = << >>
      <4>1. DOMAIN db' = {}
        BY <3>1, EmptySeq, LenProperties
      <4>2. QED
        BY <4>1 DEF CaseInsensitiveUnique
    <3>2. QED
      BY <2>1, <2>4, <3>1, EndTable
  <2>5. CASE ~TryOneRequest /\ ~EndStep
    BY <2>1, <2>5, AccountsFrame
  <2>6. QED
    BY <2>3, <2>4, <2>5
<1>3. QED
  BY <1>1, <1>2, Invariance, PTL DEF Spec

-----------------------------------------------------------------------------
(* How messages move: what a peer has got or will get, and what waits in   *)
(* the outgoing buffer of a slot.                                          *)
Sent(p) == ToSet(got[p]) \cup ToSet(net[p])
Queued(f) == ToSet(outgoing[f])

(* The network and write() make up no message. *)
LEMMA Flow ==
  ASSUME IInv, [Next]_vars, ~TryOneRequest
  PROVE  /\ \A f \in Fd : Queued(f)' \subseteq Queued(f)
         /\ \A p \in Peer : \A m \in Sent(p)' \ Sent(p) :
              \E f \in fds : peerOf[f] = p /\ m \in Queued(f)
<1> DEFINE Goal == /\ \A f \in Fd : Queued(f)' \subseteq Queued(f)
                   /\ \A p \in Peer : \A m \in Sent(p)' \ Sent(p) :
                        \E f \in fds : peerOf[f] = p /\ m \in Queued(f)
<1>1. /\ \A p \in Peer : got[p] \in Seq(Response) /\ net[p] \in Seq(Response)
      /\ \A f \in Fd : outgoing[f] \in Seq(Response)
  BY DEF IInv, TypeOK, SocketTypeOK, TableTypeOK
<1>2. ASSUME UNCHANGED <<got, net, outgoing>> PROVE Goal
  BY <1>2 DEF Sent, Queued
<1>3. ASSUME NEW p \in Peer, PeerMoves(p) PROVE Goal
  <2>1. UNCHANGED outgoing
    BY <1>3, PeerStepLemma
  <2>2. CASE PeerRecv(p)
    <3>1. net[p] # << >>
      BY <2>2 DEF PeerRecv
    <3>2. \A q \in Peer \ {p} : got'[q] = got[q] /\ net'[q] = net[q]
      BY <2>2 DEF PeerRecv, IInv, TypeOK, SocketTypeOK
    <3>3. got'[p] = Append(got[p], Head(net[p])) /\ net'[p] = Tail(net[p])
      BY <2>2 DEF PeerRecv, IInv, TypeOK, SocketTypeOK
    <3>4. Head(net[p]) \in Response
      BY <1>1, <3>1, HeadTailProperties
    <3>5. ToSet(got'[p]) = ToSet(got[p]) \cup {Head(net[p])}
      BY <1>1, <3>3, <3>4, ToSetAppend
    <3>6. ToSet(net[p]) = {Head(net[p])} \cup ToSet(net'[p])
      BY <1>1, <3>1, <3>3, ToSetTail
    <3>7. \A q \in Peer : Sent(q)' = Sent(q)
      BY <3>2, <3>5, <3>6 DEF Sent
    <3>8. QED
      BY <2>1, <3>7 DEF Queued
  <2>3. CASE PeerAbort(p) \/ KernelReset(p)
    <3>1. \A q \in Peer : net'[q] \in {net[q], << >>}
      BY <2>3 DEF PeerAbort, KernelReset, Reset, IInv, TypeOK, SocketTypeOK
    <3>2. \A q \in Peer : ToSet(net'[q]) \subseteq ToSet(net[q])
      BY <3>1, ToSetEmpty
    <3>3. UNCHANGED got
      BY <2>3 DEF PeerAbort, KernelReset, Reset
    <3>4. QED
      BY <2>1, <3>2, <3>3 DEF Sent, Queued
  <2>4. CASE Connect(p) \/ PeerSend(p) \/ PeerClose(p)
    BY <1>2, <2>1, <2>4 DEF Connect, PeerSend, PeerClose
  <2>5. QED
    BY <1>3, <2>2, <2>3, <2>4 DEF PeerMoves, PeerStep
<1>4. CASE LoopOnly
  BY <1>2, <1>4, LoopOnlyLemma
<1>5. CASE RemoveConnection \/ AcceptConnection \/ AcceptUnwatched \/ ReadSome \/ ReadClosed
           \/ ServeDone \/ WriteError
  BY <1>2, <1>5
  DEF RemoveConnection, remove_connection, AcceptConnection, AcceptUnwatched,
      ReadSome, ReadClosed, ServeDone, WriteError, sockVars, tableVars
<1>6. CASE WriteSome
  <2>1. cur \in Fd /\ cur \in fds /\ peerOf[cur] \in Peer /\ outgoing[cur] # << >>
    BY <1>6, CurrentPeer DEF WriteSome, IInv
  <2>2. Head(outgoing[cur]) \in Response
    BY <1>1, <2>1, HeadTailProperties
  <2>3. ToSet(outgoing[cur]) = {Head(outgoing[cur])} \cup ToSet(Tail(outgoing[cur]))
    BY <1>1, <2>1, ToSetTail
  <2>4. outgoing' = [outgoing EXCEPT ![cur] = Tail(@)]
    BY <1>6 DEF WriteSome
  <2>5. /\ \A q \in Peer \ {peerOf[cur]} : net'[q] = net[q]
        /\ net'[peerOf[cur]] = Append(net[peerOf[cur]], Head(outgoing[cur]))
        /\ UNCHANGED got
    BY <1>6, <2>1 DEF WriteSome, IInv, TypeOK, SocketTypeOK
  <2>6. ToSet(net'[peerOf[cur]]) = ToSet(net[peerOf[cur]]) \cup {Head(outgoing[cur])}
    BY <1>1, <2>1, <2>2, <2>5, ToSetAppend
  <2>7. \A f \in Fd : Queued(f)' \subseteq Queued(f)
    BY <2>3, <2>4 DEF Queued, IInv, TypeOK, TableTypeOK
  <2>8. \A q \in Peer : \A m \in Sent(q)' \ Sent(q) :
          q = peerOf[cur] /\ m = Head(outgoing[cur])
    BY <2>5, <2>6 DEF Sent
  <2>9. Head(outgoing[cur]) \in Queued(cur)
    BY <2>3 DEF Queued
  <2>10. QED
    BY <2>1, <2>7, <2>8, <2>9
<1>7. CASE EndStep
  BY <1>7, EndLemma, ToSetEmpty DEF Sent, Queued
<1>8. CASE Restart
  BY <1>8, ToSetEmpty DEF Restart, KernelRestart, tableVars, Sent, Queued
<1>9. CASE UNCHANGED vars
  BY <1>2, <1>9 DEF vars, kernelVars, sockVars, serverVars, tableVars
<1>10. QED
  BY <1>3, <1>4, <1>5, <1>6, <1>7, <1>8, <1>9, NextCases

(* The service of a request adds one message to some of the slots. *)
LEMMA ServeFlow ==
  ASSUME IInv, TryOneRequest
  PROVE  /\ Reply \in Response
         /\ \A p \in Peer : Sent(p)' = Sent(p)
         /\ \E fs \in SUBSET Recipients :
              \A f \in Fd :
                Queued(f)' = IF f \in fs \cup {cur} THEN Queued(f) \cup {Reply}
                                                    ELSE Queued(f)
<1>1. TypeOK /\ AuthNamed /\ cur \in Fd
  BY ServeCur
<1>2. PICK m \in Response : \E fs \in SUBSET Recipients, auth \in SUBSET {"IS_AUTH"} :
        Answered(m, fs, auth)
  BY <1>1, ServeShape
<1>3. PICK fs \in SUBSET Recipients, auth \in SUBSET {"IS_AUTH"} : Answered(m, fs, auth)
  BY <1>2
<1>4. \A f \in Fd : outgoing'[f] = IF f \in fs \cup {cur} THEN Append(outgoing[f], m)
                                                          ELSE outgoing[f]
  BY <1>3 DEF Answered
<1>5. Reply = m
  BY <1>1, <1>4, ReplyLemma
<1>6. \A f \in Fd : ToSet(Append(outgoing[f], m)) = ToSet(outgoing[f]) \cup {m}
  BY <1>1, ToSetAppend DEF TypeOK, TableTypeOK
<1>7. \A p \in Peer : Sent(p)' = Sent(p)
  BY DEF TryOneRequest, sockVars, Sent
<1>8. \A f \in Fd : Queued(f)' = IF f \in fs \cup {cur} THEN Queued(f) \cup {m}
                                                        ELSE Queued(f)
  BY <1>4, <1>6 DEF Queued
<1>9. QED
  BY <1>3, <1>5, <1>7, <1>8

-----------------------------------------------------------------------------
(* What a message says of an account is what the table d says. *)
Told(m, d) ==
  m.user_id # 0 => m.user_id \in DOMAIN d /\ d[m.user_id].username = m.username

(* No message anywhere says anything else.  AckedDurable is about the      *)
(* messages that have arrived; those on the way have to agree already.     *)
AllTold ==
  /\ \A p \in Peer : \A m \in Sent(p) : Told(m, db)
  /\ \A f \in Fd : \A m \in Queued(f) : Told(m, db)

(* The answer to a registration or a login names the row as it is. *)
LEMMA ReplyTold ==
  ASSUME IInv, TryOneRequest
  PROVE  Told(Reply, db')
<1>1. TypeOK /\ cur \in Fd /\ db \in Seq(User)
  BY ServeCur DEF TypeOK, TableTypeOK
<1>2. CASE Reply.user_id = 0
  BY <1>2 DEF Told
<1>3. ASSUME NEW req \in Request, db' = Append(db, NewRow(req)),
             Reply = build_user_response("REGISTER", Len(db) + 1, req.username)
      PROVE  Told(Reply, db')
  <2>1. NewRow(req) \in User /\ NewRow(req).username = req.username
    BY DEF NewRow, Request, User
  <2>2. Len(db) + 1 \in DOMAIN db' /\ db'[Len(db) + 1] = NewRow(req)
    BY <1>1, <1>3, <2>1, AppendProperties, LenProperties
  <2>3. Reply.user_id = Len(db) + 1 /\ Reply.username = req.username
    BY <1>3 DEF build_user_response, build_server_response
  <2>4. QED
    BY <2>1, <2>2, <2>3 DEF Told
<1>4. ASSUME UNCHANGED db, NEW id \in DOMAIN db,
             Reply = build_user_response("LOGIN", id, db[id].username)
      PROVE  Told(Reply, db')
  <2>1. Reply.user_id = id /\ Reply.username = db[id].username
    BY <1>4 DEF build_user_response, build_server_response
  <2>2. QED
    BY <1>4, <2>1 DEF Told
<1>5. QED
  BY <1>1, <1>2, <1>3, <1>4, ServeOutcome

(***************************************************************************)
(* The id and the name that build_register_response and                    *)
(* build_login_response put in an answer are those of a row for ever, so   *)
(* that a client may rely on what it has been told through any crash of    *)
(* the server (a test server drops its table when it is stopped).          *)
(***************************************************************************)
THEOREM AcknowledgedIsDurable ==
  ASSUME ~IsTest
  PROVE  Spec => []AckedDurable
<1>1. Init => AllTold
  <2> SUFFICES ASSUME Init PROVE AllTold
    OBVIOUS
  <2>1. \A p \in Peer : Sent(p) = {}
    BY ToSetEmpty DEF Init, KernelInit, Sent
  <2>2. \A f \in Fd : Queued(f) = {}
    BY ToSetEmpty DEF Init, KernelInit, Queued
  <2>3. QED
    BY <2>1, <2>2 DEF AllTold
<1>2. IInv /\ AllTold /\ [Next]_vars => AllTold'
  <2> SUFFICES ASSUME IInv, AllTold, [Next]_vars PROVE AllTold'
    OBVIOUS
  <2>1. RowsKept
    <3>1. CASE TryOneRequest
      BY <3>1, ServeCur, ServeKeepsRows
    <3>2. CASE EndStep
      BY <3>2, EndTable DEF RowsKept
    <3>3. QED
      BY <3>1, <3>2, AccountsFrame DEF RowsKept
  <2>2. \A m : Told(m, db) => Told(m, db')
    BY <2>1 DEF Told, RowsKept
  <2>3. CASE TryOneRequest
    <3>1. \A p \in Peer : Sent(p)' = Sent(p)
      BY <2>3, ServeFlow
    <3>2. \A f \in Fd : Queued(f)' \subseteq Queued(f) \cup {Reply}
      BY <2>3, ServeFlow
    <3>3. QED
      BY <2>2, <2>3, <3>1, <3>2, ReplyTold DEF AllTold
  <2>4. CASE ~TryOneRequest
    <3>1. \A f \in Fd : \A m \in Queued(f)' : Told(m, db')
      BY <2>2, <2>4, Flow DEF AllTold
    <3>2. fds \subseteq Fd
      BY DEF IInv, TypeOK, KernelTypeOK
    <3>3. \A p \in Peer : \A m \in Sent(p)' : Told(m, db')
      BY <2>2, <2>4, <3>2, Flow DEF AllTold
    <3>4. QED
      BY <3>1, <3>3 DEF AllTold
  <2>5. QED
    BY <2>3, <2>4
<1>3. AllTold => AckedDurable
  BY DEF AllTold, Sent, Told, AckedDurable
<1>4. QED
  BY <1>1, <1>2, <1>3, Invariance, PTL DEF Spec

=============================================================================
