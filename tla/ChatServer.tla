----------------------------- MODULE ChatServer -----------------------------
(***************************************************************************)
(* The event loop of server.cpp and the handlers of server_utils.cpp: one  *)
(* thread that waits for edge-triggered readiness, accepts, reads, serves  *)
(* the requests it has read and writes the answers.  The peers and the     *)
(* network (module Kernel) take steps between any two of its system calls. *)
(*                                                                         *)
(* An action is one system call with the code up to the next one, or the   *)
(* service of one request, which makes none on a socket.                   *)
(***************************************************************************)
EXTENDS Users, Kernel, FiniteSetsExt, SequencesExt

CONSTANTS
  MAX_EVENTS,        \* events that one epoll_wait returns at most
  INITIAL_CAPACITY,  \* slots of the connection table at the start
  Accounts,          \* the rows of the user table at the start
  IsTest,            \* the argument is_test: the table is in DB_TEST_PATH
  Faults             \* what the environment may do to the server's process

ASSUME ServerAssumption ==
  /\ MAX_EVENTS \in Nat \ {0}
  /\ INITIAL_CAPACITY \in Nat
  /\ Accounts \in Seq(User)
  /\ Requests \in [Peer -> SUBSET Request]
  /\ IsTest \in BOOLEAN
  /\ Faults \subseteq {"epoll_add", "signal", "restart", "prepare", "step", "insert"}

VARIABLES
  flags,       \* conn_manager.flags: the set of the bits that are set
  incoming,    \* conn_manager.incoming_buffers
  outgoing,    \* conn_manager.outgoing_buffers
  user_ids,    \* conn_manager.user_ids
  usernames,   \* conn_manager.usernames
  table_size,  \* conn_manager.get_size()
  db,          \* the users table
  todo,        \* descriptors of events[] that the loop has not come to
  evErr,       \* those whose event has EPOLLERR
  pc,          \* where the server is
  cur,         \* events[i].data.fd, ListenFd when no connection is handled
  server,      \* the process: running, exited or killed by a signal
  log,         \* history: the world broadcasts in the order of their service
  joined,      \* history: length of log when a connection authenticated
  idents       \* history: the names a connection has authenticated as

tableVars == <<incoming, outgoing, user_ids, usernames, table_size>>
loopVars == <<todo, evErr, cur>>
history == <<log, joined, idents>>
serverVars == <<flags, tableVars, db, loopVars, pc, server, history>>
vars == <<kernelVars, serverVars>>

Flag == {"WANT_READ", "WANT_WRITE", "WANT_CLOSE", "IS_ACTIVE", "IS_AUTH"}

(* What a slot of the table can hold as its user name. *)
SlotName == Name \cup {"user", ""}

Init ==
  /\ KernelInit
  /\ flags = [f \in Fd |-> {}]
  /\ incoming = [f \in Fd |-> << >>]
  /\ outgoing = [f \in Fd |-> << >>]
  /\ user_ids = [f \in Fd |-> 0]
  /\ usernames = [f \in Fd |-> IF f < INITIAL_CAPACITY THEN "user" ELSE ""]
  /\ table_size = INITIAL_CAPACITY
  /\ db = Accounts
  /\ todo = {}
  /\ evErr = {}
  /\ pc = "wait"
  /\ cur = ListenFd
  /\ server = "running"
  /\ log = << >>
  /\ joined = [f \in Fd |-> 0]
  /\ idents = [f \in Fd |-> {}]

has_flag(f, flag) == flag \in flags[f]

(***************************************************************************)
(* set_connection_state for the connections fs.  CLOSING leaves epoll and  *)
(* the two modes alone: the loop removes the connection when the event     *)
(* ends.                                                                   *)
(***************************************************************************)
NextFlags(fl, next_state) ==
  CASE next_state = "READING" -> (fl \cup {"WANT_READ"}) \ {"WANT_WRITE"}
    [] next_state = "WRITING" -> (fl \ {"WANT_READ"}) \cup {"WANT_WRITE"}
    [] next_state = "CLOSING" -> fl \cup {"WANT_CLOSE"}

(* Mutant: write mode without EPOLL_CTL_MOD. *)
set_connection_state_NoMod(fs, next_state) ==
  /\ flags' = [f \in Fd |-> IF f \in fs THEN NextFlags(flags[f], next_state)
                                        ELSE flags[f]]
  /\ IF next_state = "READING" THEN epoll_ctl_mod(fs, "in")
                               ELSE UNCHANGED epollVars

set_connection_state(fs, next_state) ==
  /\ flags' = [f \in Fd |-> IF f \in fs THEN NextFlags(flags[f], next_state)
                                        ELSE flags[f]]
  /\ CASE next_state = "READING" -> epoll_ctl_mod(fs, "in")
       [] next_state = "WRITING" -> epoll_ctl_mod(fs, "out")
       [] next_state = "CLOSING" -> UNCHANGED epollVars

(* The loop goes on with the next event of the batch or waits again. *)
EventDone(rest) ==
  /\ cur' = ListenFd
  /\ pc' = IF rest = {} THEN "wait" ELSE "loop"

(* The process ends, and its memory and its descriptors with it. *)
ProcessEnds(how) ==
  /\ server' = how
  /\ KernelEnd
  /\ flags' = [f \in Fd |-> {}]
  /\ incoming' = [f \in Fd |-> << >>]
  /\ outgoing' = [f \in Fd |-> << >>]
  /\ user_ids' = [f \in Fd |-> 0]
  /\ usernames' = [f \in Fd |-> IF f < INITIAL_CAPACITY THEN "user" ELSE ""]
  /\ table_size' = INITIAL_CAPACITY
  /\ todo' = {} /\ evErr' = {} /\ pc' = "wait" /\ cur' = ListenFd
  /\ log' = << >>
  /\ joined' = [f \in Fd |-> 0]
  /\ idents' = [f \in Fd |-> {}]

-----------------------------------------------------------------------------
(* The event loop. *)

(***************************************************************************)
(* epoll_wait: all that is pollable, or as much of it as events[] holds.   *)
(* The rest stays in the ready list.                                       *)
(***************************************************************************)
EpollWait ==
  /\ pc = "wait"
  /\ \E batch \in (SUBSET Pollable) \ {{}} :
       /\ \/ batch = Pollable /\ Cardinality(batch) =< MAX_EVENTS
          \/ Cardinality(batch) = MAX_EVENTS
       /\ todo' = batch
       /\ evErr' = {f \in batch \cap Fd : err[peerOf[f]] # "ok"}
       /\ ready' = Pollable \ batch
  /\ pc' = "loop"
  /\ UNCHANGED <<fds, peerOf, mask, backlog, sockVars, flags, tableVars, db,
                 cur, server, history>>

(* The event of the listening socket, which never has an error in Kernel:  *)
(* the branch that returns from main on its EPOLLERR is not taken.         *)
DispatchListen ==
  /\ pc = "loop"
  /\ ListenFd \in todo
  /\ todo' = todo \ {ListenFd}
  /\ pc' = "accept"
  /\ UNCHANGED <<kernelVars, flags, tableVars, db, evErr, cur, server, history>>

(* The event of a connection: read it, write it, or only see whether it is *)
(* to be removed, according to its flags and not to the event.             *)
DispatchConnection ==
  /\ pc = "loop"
  /\ \E f \in todo \cap Fd :
       /\ todo' = todo \ {f}
       /\ cur' = f
       /\ pc' = CASE has_flag(f, "WANT_READ") -> "read"
                  [] ~has_flag(f, "WANT_READ") /\ has_flag(f, "WANT_WRITE") ->
                       "write"
                  [] OTHER -> "check"
  /\ UNCHANGED <<kernelVars, flags, tableVars, db, evErr, server, history>>

(* The end of handle_read_connection in the loop: the flags are looked at  *)
(* again, as the handler may have put the connection in write mode.        *)
AfterRead(f) == pc' = IF "WANT_WRITE" \in flags'[f] THEN "write" ELSE "check"

(* Mutant: the descriptor is closed and the slot's buffers are kept. *)
remove_connection_Closing(f) ==
  /\ flags' = [flags EXCEPT ![f] = {}]
  /\ epoll_ctl_del(f)
  /\ fds' = fds \ {f}
  /\ UNCHANGED tableVars

(***************************************************************************)
(* remove_connection: the slot's flags and the interest in epoll go.  The  *)
(* descriptor stays open and the slot's buffers keep what they hold.       *)
(***************************************************************************)
remove_connection(f) ==
  /\ flags' = [flags EXCEPT ![f] = {}]
  /\ epoll_ctl_del(f)
  /\ UNCHANGED <<fds, tableVars>>

RemoveConnection ==
  /\ pc = "check"
  /\ cur \in evErr \/ has_flag(cur, "WANT_CLOSE")
  /\ remove_connection(cur)
  /\ EventDone(todo)
  /\ UNCHANGED <<peerOf, backlog, sockVars, db, todo, evErr, server, history>>

(* Mutant: WANT_CLOSE is not looked at. *)
KeepConnection_Closing ==
  /\ pc = "check"
  /\ cur \notin evErr
  /\ EventDone(todo)
  /\ UNCHANGED <<kernelVars, flags, tableVars, db, todo, evErr, server, history>>

KeepConnection ==
  /\ pc = "check"
  /\ cur \notin evErr
  /\ ~has_flag(cur, "WANT_CLOSE")
  /\ EventDone(todo)
  /\ UNCHANGED <<kernelVars, flags, tableVars, db, todo, evErr, server, history>>

-----------------------------------------------------------------------------
(* accept_all_connections: until accept() has nothing left. *)

(* accept() takes a descriptor before it looks at the queue, so that it    *)
(* fails whenever none is left, whatever the backlog holds.                *)
FdsLeft == Fd \ fds # {}

(* The connection at the head of the queue gets the lowest free descriptor. *)
accept(f, p) ==
  /\ FdsLeft
  /\ backlog # << >>
  /\ p = Head(backlog)
  /\ f = Min(Fd \ fds)
  /\ backlog' = Tail(backlog)
  /\ fds' = fds \cup {f}
  /\ peerOf' = [peerOf EXCEPT ![f] = p]

(* Mutant: off by one. *)
ResizeFor_Late(f) == table_size' = IF table_size < f THEN f + 1 ELSE table_size

(* The table has a slot for f: it grows when f is past its end. *)
ResizeFor(f) == table_size' = IF table_size =< f THEN f + 1 ELSE table_size

(* The flags are set, the slot's buffers are left as they are. *)
add_connection(f, p) ==
  /\ epoll_ctl_add(f, p)
  /\ ResizeFor(f)
  /\ flags' = [flags EXCEPT ![f] = {"IS_ACTIVE", "WANT_READ"}]

AcceptConnection ==
  /\ pc = "accept"
  /\ \E f \in Fd, p \in Peer : accept(f, p) /\ add_connection(f, p)
  /\ UNCHANGED <<sockVars, incoming, outgoing, user_ids, usernames, db,
                 loopVars, pc, server, history>>

(* EPOLL_CTL_ADD fails: the descriptor stays open, unwatched, in no slot. *)
AcceptUnwatched ==
  /\ pc = "accept"
  /\ "epoll_add" \in Faults
  /\ \E f \in Fd, p \in Peer : accept(f, p)
  /\ UNCHANGED <<epollVars, sockVars, flags, tableVars, db, loopVars, pc,
                 server, history>>

(* EAGAIN: every completed connection is accepted. *)
AcceptDone ==
  /\ pc = "accept"
  /\ FdsLeft
  /\ backlog = << >>
  /\ EventDone(todo)
  /\ UNCHANGED <<kernelVars, flags, tableVars, db, todo, evErr, server, history>>

(* Any other error of accept(), here EMFILE, ends the program. *)
AcceptError ==
  /\ pc = "accept"
  /\ ~FdsLeft
  /\ ProcessEnds("exited")
  /\ UNCHANGED db

-----------------------------------------------------------------------------
(* handle_read_connection: first read() until EAGAIN, then serve. *)

(* read() returns data: one call takes all that has arrived. *)
ReadSome ==
  /\ pc = "read"
  /\ rcvq[peerOf[cur]] # << >>
  /\ incoming' = [incoming EXCEPT ![cur] = @ \o rcvq[peerOf[cur]]]
  /\ rcvq' = [rcvq EXCEPT ![peerOf[cur]] = << >>]
  /\ UNCHANGED <<fds, peerOf, backlog, epollVars, peer, nsent, fin, err, net,
                 got, flags, outgoing, user_ids, usernames, table_size, db,
                 loopVars, pc, server, history>>

(* Mutant: one read() per event, as if epoll were level-triggered. *)
ReadAgain_Once ==
  /\ pc = "read"
  /\ pc' = "serve"
  /\ UNCHANGED <<kernelVars, flags, tableVars, db, loopVars, server, history>>

(* EAGAIN: the socket is drained, serve what has been read. *)
ReadAgain ==
  /\ pc = "read"
  /\ ~Readable(peerOf[cur])
  /\ pc' = "serve"
  /\ UNCHANGED <<kernelVars, flags, tableVars, db, loopVars, server, history>>

(* End of file or an error: close, and serve nothing of what was read. *)
ReadClosed ==
  /\ pc = "read"
  /\ rcvq[peerOf[cur]] = << >>
  /\ Readable(peerOf[cur])
  /\ set_connection_state({cur}, "CLOSING")
  /\ AfterRead(cur)
  /\ UNCHANGED <<fds, peerOf, backlog, sockVars, tableVars, db, loopVars,
                 server, history>>

-----------------------------------------------------------------------------
(* try_one_request on the first request of cur's incoming buffer. *)

(* Mutant: the scan stops one slot short. *)
Recipients_Short ==
  {f \in Fd \ {cur} : f + 1 < table_size /\ has_flag(f, "IS_AUTH")}

(* The other authenticated connections: who a broadcast can reach. *)
Recipients ==
  {f \in Fd \ {cur} : f < table_size /\ has_flag(f, "IS_AUTH")}

(* Mutant: the recipients are not put in write mode. *)
Respond_Unarmed(response, fs) ==
  /\ outgoing' = [f \in Fd |-> IF f \in fs \cup {cur}
                               THEN Append(outgoing[f], response)
                               ELSE outgoing[f]]
  /\ set_connection_state({}, "WRITING")

(* The response goes to the end of cur's outgoing buffer, a notification   *)
(* to the end of the buffer of every connection in fs.                     *)
Respond(response, fs) ==
  /\ outgoing' = [f \in Fd |-> IF f \in fs \cup {cur}
                               THEN Append(outgoing[f], response)
                               ELSE outgoing[f]]
  /\ set_connection_state(fs, "WRITING")

ServeRegister(req) ==
  /\ req.type = "REGISTER"
  /\ \E fault \in (Faults \cap DbFault) \cup {"none"} :
       LET result == register_user(db, req, fault)
       IN db' = result.db /\ Respond(result.response, {})
  /\ UNCHANGED <<user_ids, usernames, history>>

(* Mutant: the name of the slot is not updated. *)
Authenticate_IdOnly(id) ==
  /\ user_ids' = [user_ids EXCEPT ![cur] = id]
  /\ flags' = [flags EXCEPT ![cur] = @ \cup {"IS_AUTH"}]
  /\ joined' = IF has_flag(cur, "IS_AUTH") THEN joined
                                           ELSE [joined EXCEPT ![cur] = Len(log)]
  /\ idents' = [idents EXCEPT ![cur] = @ \cup {db[id].username}]
  /\ UNCHANGED usernames

(* A connection may log in again, as the same user or as another. *)
Authenticate(id) ==
  /\ user_ids' = [user_ids EXCEPT ![cur] = id]
  /\ usernames' = [usernames EXCEPT ![cur] = db[id].username]
  /\ flags' = [flags EXCEPT ![cur] = @ \cup {"IS_AUTH"}]
  /\ joined' = IF has_flag(cur, "IS_AUTH") THEN joined
                                           ELSE [joined EXCEPT ![cur] = Len(log)]
  /\ idents' = [idents EXCEPT ![cur] = @ \cup {db[id].username}]

ServeLogin(req) ==
  /\ req.type = "LOGIN"
  /\ \E fault \in (Faults \cap DbFault) \cup {"none"} :
       LET result == login_user(db, req, fault)
       IN /\ outgoing' = [outgoing EXCEPT ![cur] = Append(@, result.response)]
          /\ IF result.id # 0
             THEN Authenticate(result.id)
             ELSE UNCHANGED <<flags, user_ids, usernames, joined, idents>>
  /\ UNCHANGED <<epollVars, db, log>>

(* Mutant: IS_AUTH is not looked at. *)
BroadcastVerdict_Open(req) ==
  IF \/ req.tag = "TAG_OTHER" \/ ~req.parses \/ req.content = Empty
     \/ req.tag = "TAG_P2P_BROADCAST" /\ req.recipient = usernames[cur]
  THEN "RESP_ERROR_MALFORMED"
  ELSE "RESP_OK"

(* The response code with which handle_broadcast_message refuses, RESP_OK  *)
(* when it does not.                                                       *)
BroadcastVerdict(req) ==
  CASE ~has_flag(cur, "IS_AUTH") -> "RESP_ERROR_INVALID_CREDENTIALS"
    [] /\ has_flag(cur, "IS_AUTH")
       /\ \/ req.tag = "TAG_OTHER" \/ ~req.parses \/ req.content = Empty
          \/ /\ req.tag = "TAG_P2P_BROADCAST"
             /\ req.recipient = usernames[cur] -> "RESP_ERROR_MALFORMED"
    [] OTHER -> "RESP_OK"

ServeRefused(req) ==
  /\ req.type = "CHAT"
  /\ BroadcastVerdict(req) # "RESP_OK"
  /\ Respond(build_server_response("CHAT", BroadcastVerdict(req)), {})
  /\ UNCHANGED <<user_ids, usernames, db, history>>

(* The server fills in the sender: the name in the request is dropped. *)
ServeWorld(req) ==
  /\ req.type = "CHAT"
  /\ req.tag = "TAG_WORLD_BROADCAST"
  /\ BroadcastVerdict(req) = "RESP_OK"
  /\ LET note == build_world_broadcast_notification(usernames[cur], req.content)
     IN Respond(note, Recipients) /\ log' = Append(log, note)
  /\ UNCHANGED <<user_ids, usernames, db, joined, idents>>

(* Mutant: the first authenticated connection, whatever its name. *)
P2PRecipients_AnyName(req) ==
  IF Recipients = {} THEN {} ELSE {Min(Recipients)}

(* The lowest connection that is authenticated under exactly this name. *)
P2PRecipients(req) ==
  LET named == {f \in Recipients : usernames[f] = req.recipient}
  IN IF named = {} THEN {} ELSE {Min(named)}

ServeP2P(req) ==
  /\ req.type = "CHAT"
  /\ req.tag = "TAG_P2P_BROADCAST"
  /\ BroadcastVerdict(req) = "RESP_OK"
  /\ Respond(IF P2PRecipients(req) = {}
             THEN build_server_response("CHAT", "RESP_ERROR_USER_NOT_FOUND")
             ELSE build_p2p_broadcast_notification(usernames[cur],
                                                   req.recipient, req.content),
             P2PRecipients(req))
  /\ UNCHANGED <<user_ids, usernames, db, history>>

ServeUnknown(req) ==
  /\ req.type = "OTHER"
  /\ Respond(build_server_response("OTHER", "RESP_ERROR_UNKNOWN_COMMAND"), {})
  /\ UNCHANGED <<user_ids, usernames, db, history>>

TryOneRequest ==
  /\ pc = "serve"
  /\ incoming[cur] # << >>
  /\ ~Head(incoming[cur]).oversize
  /\ \/ ServeRegister(Head(incoming[cur]))
     \/ ServeLogin(Head(incoming[cur]))
     \/ ServeRefused(Head(incoming[cur]))
     \/ ServeWorld(Head(incoming[cur]))
     \/ ServeP2P(Head(incoming[cur]))
     \/ ServeUnknown(Head(incoming[cur]))
  /\ incoming' = [incoming EXCEPT ![cur] = Tail(@)]
  /\ UNCHANGED <<fds, peerOf, backlog, sockVars, table_size, loopVars, pc,
                 server>>

(***************************************************************************)
(* try_one_request returns false: nothing is left, or the next request is  *)
(* oversize, which marks the connection for closing and stays in the       *)
(* buffer.  Then handle_read_connection turns to writing if it has output. *)
(***************************************************************************)
ServeDone ==
  /\ pc = "serve"
  /\ LET oversize == incoming[cur] # << >> /\ Head(incoming[cur]).oversize
         closing == IF oversize THEN NextFlags(flags[cur], "CLOSING")
                                ELSE flags[cur]
     IN /\ incoming[cur] = << >> \/ oversize
        /\ IF outgoing[cur] # << >>
           THEN /\ flags' = [flags EXCEPT ![cur] = NextFlags(closing, "WRITING")]
                /\ epoll_ctl_mod({cur}, "out")
           ELSE /\ flags' = [flags EXCEPT ![cur] = closing]
                /\ UNCHANGED epollVars
  /\ AfterRead(cur)
  /\ UNCHANGED <<fds, peerOf, backlog, sockVars, tableVars, db, loopVars,
                 server, history>>

-----------------------------------------------------------------------------
(* handle_write_connection: write() until the buffer is empty or EAGAIN. *)

(* Mutant: a partial write consumes the whole buffer. *)
WriteSome_ConsumeAll ==
  /\ pc = "write"
  /\ LET p == peerOf[cur] IN
       /\ err[p] = "ok"
       /\ outgoing[cur] # << >>
       /\ Len(net[p]) < SndCap
       /\ net' = [net EXCEPT ![p] = Append(@, Head(outgoing[cur]))]
  /\ outgoing' = [outgoing EXCEPT ![cur] = << >>]
  /\ set_connection_state({cur}, "READING")
  /\ pc' = "check"
  /\ UNCHANGED <<fds, peerOf, backlog, peer, nsent, rcvq, fin, err, got,
                 incoming, user_ids, usernames, table_size, db, loopVars,
                 server, history>>

(* write() takes a part of the buffer; once it is empty, read mode again. *)
WriteSome ==
  /\ pc = "write"
  /\ LET p == peerOf[cur] IN
       /\ err[p] = "ok"
       /\ outgoing[cur] # << >>
       /\ Len(net[p]) < SndCap
       /\ net' = [net EXCEPT ![p] = Append(@, Head(outgoing[cur]))]
  /\ outgoing' = [outgoing EXCEPT ![cur] = Tail(@)]
  /\ IF Tail(outgoing[cur]) = << >>
     THEN set_connection_state({cur}, "READING") /\ pc' = "check"
     ELSE UNCHANGED <<flags, epollVars, pc>>
  /\ UNCHANGED <<fds, peerOf, backlog, peer, nsent, rcvq, fin, err, got,
                 incoming, user_ids, usernames, table_size, db, loopVars,
                 server, history>>

(* EAGAIN: the connection stays in write mode. *)
WriteAgain ==
  /\ pc = "write"
  /\ ~Writable(peerOf[cur])
  /\ pc' = "check"
  /\ UNCHANGED <<kernelVars, flags, tableVars, db, loopVars, server, history>>

(* write() fails with ECONNRESET. *)
WriteError ==
  /\ pc = "write"
  /\ err[peerOf[cur]] = "ECONNRESET"
  /\ set_connection_state({cur}, "CLOSING")
  /\ pc' = "check"
  /\ UNCHANGED <<fds, peerOf, backlog, sockVars, tableVars, db, loopVars,
                 server, history>>

(* With EPIPE the kernel also raises SIGPIPE, which the program neither    *)
(* handles nor ignores: write() does not return.                           *)
WriteSigpipe ==
  /\ pc = "write"
  /\ err[peerOf[cur]] = "EPIPE"
  /\ ProcessEnds("killed")
  /\ UNCHANGED db

-----------------------------------------------------------------------------
(* The process. *)

(* epoll_wait without a timeout blocks while nothing is pollable. *)
Blocked ==
  /\ pc = "wait"
  /\ Pollable = {}
  /\ UNCHANGED vars

(* Mutant: the file of the table is removed whichever it is. *)
close_db_Always == << >>

(* close_db removes DB_TEST_PATH, and with it the table of a test server. *)
close_db == IF IsTest THEN << >> ELSE db

(* SIGINT or SIGTERM at any point: close_db() and exit(). *)
sigint_handler ==
  /\ "signal" \in Faults
  /\ db' = close_db
  /\ ProcessEnds("exited")

(* A stop and a continuation of the process that meet an epoll_wait that   *)
(* waits: it returns EINTR, which the loop takes for an error.             *)
EpollInterrupted ==
  /\ "signal" \in Faults
  /\ pc = "wait"
  /\ Pollable = {}
  /\ ProcessEnds("exited")
  /\ UNCHANGED db

(* The program is started again, after any end: main up to the loop opens  *)
(* the user table as it is.                                                *)
Restart ==
  /\ "restart" \in Faults
  /\ server # "running"
  /\ server' = "running"
  /\ KernelRestart
  /\ UNCHANGED <<flags, tableVars, db, loopVars, pc, history>>

LoopStep ==
  \/ EpollWait \/ DispatchListen \/ DispatchConnection
  \/ RemoveConnection \/ KeepConnection

AcceptStep ==
  \/ AcceptConnection \/ AcceptUnwatched \/ AcceptDone \/ AcceptError

ReadStep ==
  \/ ReadSome \/ ReadAgain \/ ReadClosed \/ TryOneRequest \/ ServeDone

WriteStep ==
  \/ WriteSome \/ WriteAgain \/ WriteError \/ WriteSigpipe

ServerStep ==
  /\ server = "running"
  /\ LoopStep \/ AcceptStep \/ ReadStep \/ WriteStep

NetworkStep(p) ==
  /\ server = "running"
  /\ PeerStep(p)
  /\ UNCHANGED serverVars

(* The process has ended; the kernel still delivers what it has of it. *)
LateDelivery(p) ==
  /\ server # "running"
  /\ PeerRecv(p)
  /\ UNCHANGED serverVars

(* Nobody has to start it again. *)
Stopped == server # "running" /\ UNCHANGED vars

Next ==
  \/ ServerStep
  \/ \E p \in Peer : NetworkStep(p) \/ LateDelivery(p)
  \/ server = "running" /\ (Blocked \/ sigint_handler \/ EpollInterrupted)
  \/ Stopped
  \/ Restart

Spec == Init /\ [][Next]_vars

(***************************************************************************)
(* Fairness: the operating system runs the server's thread and delivers    *)
(* resets, and a client reads what arrives (its socket thread does nothing *)
(* else).  The ready list of epoll is a FIFO queue: a descriptor that      *)
(* stays ready is reported, even when a batch cannot hold all of them.     *)
(***************************************************************************)
Fairness ==
  /\ WF_vars(ServerStep)
  /\ \A f \in Fd \cup {ListenFd} :
       SF_vars(server = "running" /\ EpollWait /\ f \in todo')
  /\ \A p \in Peer :
       /\ WF_vars(server = "running" /\ PeerRecv(p) /\ UNCHANGED serverVars)
       /\ WF_vars(server = "running" /\ KernelReset(p) /\ UNCHANGED serverVars)

FairSpec == Spec /\ Fairness

-----------------------------------------------------------------------------
TableTypeOK ==
  /\ flags \in [Fd -> SUBSET Flag]
  /\ incoming \in [Fd -> Seq(Request)]
  /\ outgoing \in [Fd -> Seq(Response)]
  /\ user_ids \in [Fd -> Nat]
  /\ usernames \in [Fd -> SlotName]
  /\ table_size \in Nat
  /\ db \in Seq(User)

LoopTypeOK ==
  /\ todo \subseteq Fd \cup {ListenFd}
  /\ evErr \subseteq Fd
  /\ pc \in {"wait", "loop", "accept", "read", "serve", "write", "check"}
  /\ cur \in Fd \cup {ListenFd}
  /\ server \in {"running", "exited", "killed"}

HistoryTypeOK ==
  /\ log \in Seq(Response)
  /\ joined \in [Fd -> Nat]
  /\ idents \in [Fd -> SUBSET Name]

(* Every variable has its type; so every message that the handlers build   *)
(* is one of the protocol's.                                               *)
TypeOK ==
  /\ KernelTypeOK
  /\ SocketTypeOK(Request, Response)
  /\ TableTypeOK
  /\ LoopTypeOK
  /\ HistoryTypeOK

=============================================================================
