------------------------ MODULE ChatServerProperties ------------------------
(***************************************************************************)
(* What is asked of ChatServer: invariants, action properties and liveness *)
(* properties, and three statements of the repository that do not hold.    *)
(***************************************************************************)
EXTENDS ChatServer

(***************************************************************************)
(* No lost wake-up.  With EPOLLET the kernel reports a change once, so a   *)
(* handler that stops early, or a mode that changes without EPOLL_CTL_MOD, *)
(* leaves a client unserved for good.  Whatever is ready is on the ready   *)
(* list, in the batch, being drained, or about to be removed.              *)
(***************************************************************************)
NoLostWakeup ==
  /\ \A f \in Fd :
       PollReady(f) => \/ f \in ready \cup todo
                       \/ f = cur /\ pc \in {"read", "write"}
                       \/ has_flag(f, "WANT_CLOSE")
  /\ backlog # << >> => ListenFd \in ready \cup todo \/ pc = "accept"

(***************************************************************************)
(* The mode bits of a connection and the mask that epoll has for it are    *)
(* kept apart (flags and the kernel) and always agree, also when a         *)
(* broadcast turns another connection around in the middle of a batch; a   *)
(* slot with a mode is active, an authenticated one too.                   *)
(***************************************************************************)
ModeAgrees ==
  \A f \in Fd :
    /\ has_flag(f, "WANT_READ") <=> mask[f] = "in"
    /\ has_flag(f, "WANT_WRITE") <=> mask[f] = "out"
    /\ has_flag(f, "IS_ACTIVE") <=> mask[f] # "none"
    /\ has_flag(f, "IS_AUTH") => has_flag(f, "IS_ACTIVE")

(***************************************************************************)
(* Output is never stranded: a live connection with bytes to write is in   *)
(* write mode, but for the one being served; and write mode always has     *)
(* something to write, so that write() is not called with no data.         *)
(***************************************************************************)
OutputArmed ==
  \A f \in Fd : has_flag(f, "IS_ACTIVE") =>
    IF f = cur /\ pc = "serve"
    THEN ~has_flag(f, "WANT_WRITE")
    ELSE has_flag(f, "WANT_WRITE") <=> outgoing[f] # << >>

(* A closing connection is removed within its own event: no other event,   *)
(* broadcast or login meets a slot that is marked for closing.             *)
ClosePrompt ==
  \A f \in Fd : has_flag(f, "WANT_CLOSE") => f = cur /\ pc \in {"write", "check"}

(***************************************************************************)
(* A new connection starts clean.  Nothing empties the buffers of a slot,  *)
(* neither remove_connection nor add_connection: that the next client of a *)
(* slot does not get the bytes of the last one rests on no descriptor ever *)
(* coming back.                                                            *)
(***************************************************************************)
FreshSlot ==
  \A f \in Fd \ fds :
    flags[f] = {} /\ incoming[f] = << >> /\ outgoing[f] = << >>

(* The loop indexes the table with any descriptor epoll reports. *)
TableCovers == \A f \in Fd : mask[f] # "none" => f < table_size

-----------------------------------------------------------------------------
(* What the peers see.  Stream(f) is all that was ever put in f's outgoing *)
(* buffer, in that order, unless a reset dropped a part of it.             *)

Stream(f) == got[peerOf[f]] \o net[peerOf[f]] \o outgoing[f]

IsChat(m) == m.type = "CHAT" /\ m.rc = "RESP_OK"
IsWorld(m) == IsChat(m) /\ m.tag = "TAG_WORLD_BROADCAST"

(* The world broadcasts among the first i messages of s. *)
WorldsIn(s, i) == {k \in 1 .. i : IsWorld(s[k])}

(* They are the messages of lg after the first j, in that order. *)
Follows(s, j, lg) ==
  /\ Cardinality(WorldsIn(s, Len(s))) = Len(lg) - j
  /\ \A i \in DOMAIN s :
       IsWorld(s[i]) => s[i] = lg[j + Cardinality(WorldsIn(s, i))]

(***************************************************************************)
(* Every authenticated connection sees all world broadcasts since its      *)
(* login, once each and in one order that is the same for all, its own     *)
(* among them, whatever modes and partial writes came between.             *)
(***************************************************************************)
GaplessBroadcast ==
  \A f \in Fd :
    has_flag(f, "IS_AUTH") /\ err[peerOf[f]] = "ok" =>
      Follows(Stream(f), joined[f], log)

(***************************************************************************)
(* A chat message reaches only connections that have logged in, and a      *)
(* private one only its sender and its recipient; its sender is a name     *)
(* that some connection has logged in with, whatever the request claimed.  *)
(***************************************************************************)
ChatConfined ==
  \A f \in fds : \A m \in ToSet(Stream(f)) :
    IsChat(m) =>
      /\ idents[f] # {}
      /\ m.tag = "TAG_P2P_BROADCAST" => {m.username, m.recipient} \cap idents[f] # {}
      /\ \E g \in fds : m.username \in idents[g]

(***************************************************************************)
(* The server implements ChatService: whatever batches, modes, partial     *)
(* writes, slots and restarts come between, every request is served as if  *)
(* at once, and each session gets its answers and all that concerns it, in *)
(* the order of service.                                                   *)
(***************************************************************************)
Broken(f) == peerOf[f] # NoPeer /\ err[peerOf[f]] # "ok"

Who == [f \in Fd |-> IF has_flag(f, "IS_AUTH") THEN usernames[f] ELSE None]
Inbox == [f \in Fd |-> IF peerOf[f] = NoPeer \/ Broken(f) THEN << >> ELSE Stream(f)]
Lost == {f \in Fd : Broken(f)}

Service ==
  INSTANCE ChatService WITH
    Session <- Fd,
    Served <- UNION {Requests[p] : p \in Peer},
    TableFaults <- Faults \cap DbFault,
    rows <- db,
    who <- Who,
    inbox <- Inbox,
    lost <- Lost

ImplementsService == Service!Spec

(* An authenticated connection carries the id and the name of one row. *)
AuthRegistered ==
  \A f \in Fd : has_flag(f, "IS_AUTH") =>
    user_ids[f] \in DOMAIN db /\ db[user_ids[f]].username = usernames[f]

(* Case-insensitive uniqueness of the registered names: the check and the  *)
(* INSERT are two statements, and UNIQUE alone tells letter cases apart.   *)
CaseInsensitiveUnique ==
  \A i, j \in DOMAIN db :
    string_to_lower[db[i].username] = string_to_lower[db[j].username] => i = j

(***************************************************************************)
(* What a client has been told of an account stays true: the row with that *)
(* id has that name for ever, through failed statements, signals at any    *)
(* point and restarts.                                                     *)
(***************************************************************************)
AckedDurable ==
  \A p \in Peer : \A m \in ToSet(got[p]) :
    m.user_id # 0 =>
      m.user_id \in DOMAIN db /\ db[m.user_id].username = m.username

-----------------------------------------------------------------------------
(* What comments and tests of the repository say and the code does not do. *)

(* "Closes a connection from the TCP server" (remove_connection): the      *)
(* descriptor of a connection that left the table is closed.               *)
RemovedIsClosed == \A f \in fds : has_flag(f, "IS_ACTIVE")

(* "write() error. Closing connection" (handle_write_connection): a write  *)
(* that fails costs its connection, not the server.                        *)
SurvivesWriteError == server # "killed"

(* "the server rejects a request when the sender username doesn't match    *)
(* the username of the authenticated client": with RESP_ERROR_MALFORMED.   *)
SenderMismatchRejected ==
  [][LET req == Head(incoming[cur]) IN
     /\ pc = "serve" /\ incoming' # incoming
     /\ req.type = "CHAT" /\ has_flag(cur, "IS_AUTH")
     /\ req.username # usernames[cur]
     => Last(outgoing'[cur]).rc = "RESP_ERROR_MALFORMED"]_vars

-----------------------------------------------------------------------------
(* Liveness, under Fairness. *)

(* The connection of p was accepted and has been removed. *)
Removed(p) == \E f \in fds : peerOf[f] = p /\ ~has_flag(f, "IS_ACTIVE")

(* p has sent something that is not served yet. *)
Pending(p) ==
  rcvq[p] # << >> \/ \E f \in fds : peerOf[f] = p /\ incoming[f] # << >>

(* What p sends is read and served, however the modes of its connection    *)
(* change meanwhile, unless p closes or its connection is removed.         *)
EventuallyServed ==
  \A p \in Peer :
    Pending(p) ~>
      ~Pending(p) \/ peer[p] = "closed" \/ Removed(p) \/ server # "running"

(***************************************************************************)
(* Whatever is put in an outgoing buffer, be it from another connection's  *)
(* event, is written, however slowly the peer reads.                       *)
(***************************************************************************)
EventuallyWritten ==
  \A f \in Fd :
    outgoing[f] # << >> ~>
      outgoing[f] = << >> \/ ~has_flag(f, "IS_ACTIVE") \/ server # "running"

(* A connection whose peer is gone leaves the table, also when it is in    *)
(* write mode, where a FIN is not watched for.                             *)
EventuallyRemoved ==
  \A p \in Peer : peer[p] = "closed" ~> Removed(p) \/ server # "running"

=============================================================================
