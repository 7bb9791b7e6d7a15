----------------------------- MODULE ChatClient -----------------------------
(***************************************************************************)
(* The interactive client of client.cpp and client_utils.cpp: a main       *)
(* thread that reads lines and sends requests, a socket thread that reads  *)
(* and handles what the server sends, the struct conn_t that both use, the *)
(* pipe by which the first ends the second, and SIGINT.  The server is     *)
(* what ChatService promises, behind a TCP connection that delays and      *)
(* breaks.                                                                 *)
(*                                                                         *)
(* The stream from the server is counted in halves, as read_one_message    *)
(* reads it: the header of message k is half 2k-1, its payload half 2k.  A *)
(* message without a payload has no half to wait for after its header.     *)
(***************************************************************************)
EXTENDS Users

CONSTANTS
  Lines,     \* the lines the user may type
  Accounts,  \* the rows of the user table at the start
  Others,    \* the requests that another session may make ...
  OtherName, \* ... and the name it is logged in with
  Events,    \* what may happen: "sigint", "eof" (of stdin), "server_exit"
  UpCap,     \* requests that the direction to the server holds
  RcvCap,    \* halves that the client's receive buffer holds
  OutCap,    \* halves that wait for the client before the server reads no more
  MaxLines,  \* bound: lines typed
  MaxOther   \* bound: requests of the other session

Command == {"", "/p2p", "/world", "/login", "/register", "/quit", "unknown"}

(* A line: complete when no argument of the command is missing, fits when  *)
(* none is too long for the builder of its request; the command decides    *)
(* the type of the request.                                                *)
Line == {line \in [command : Command, complete : BOOLEAN, fits : BOOLEAN,
                   request : Request] :
           /\ line.command = "/login" => line.request.type = "LOGIN"
           /\ line.command = "/register" => line.request.type = "REGISTER"
           /\ line.command \in {"/p2p", "/world"} => line.request.type = "CHAT"}

ASSUME ClientAssumption ==
  /\ Lines \subseteq Line
  /\ Accounts \in Seq(User)
  /\ Others \subseteq Request
  /\ OtherName \in Name
  /\ Events \subseteq {"sigint", "eof", "server_exit"}
  /\ {UpCap, RcvCap, OutCap} \subseteq Nat \ {0}
  /\ {MaxLines, MaxOther} \subseteq Nat

VARIABLES
  mpc,             \* where the main thread is
  spc,             \* where the socket thread is
  request,         \* the request the main thread has in hand
  username,        \* g_client_conn->user.username
  is_auth,         \* IS_AUTH of g_client_conn->flags
  g_keep_running,
  shutdown_pipe,   \* a byte is in g_shutdown_pipe
  process,         \* running, exited, aborted (std::terminate) or killed
  up,              \* requests the server has not read
  arrived,         \* halves that are in the client's receive buffer or read
  consumed,        \* halves the socket thread has read
  server,          \* the server's end: open, closed (FIN) or reset (RST)
  cut,             \* halves that were sent before the FIN or the RST
  err,             \* the error the next call on the socket returns
  nlines, nother,  \* how much of MaxLines, MaxOther is used
  rows, who, inbox, lost  \* of ChatService

threadVars == <<mpc, spc, request>>
connVars == <<username, is_auth>>
netVars == <<up, arrived, consumed, server, cut, err>>
serviceVars == <<rows, who, inbox, lost>>
vars == <<threadVars, connVars, g_keep_running, shutdown_pipe, process, netVars,
          nlines, nother, serviceVars>>

(* The session of this client, and one that stands for all others, whose   *)
(* inbox is of no interest here.                                           *)
Service == INSTANCE ChatService WITH Session <- {"me", "other"}, TableFaults <- {},
                                     Served <- Others

NoRequest == None

Init ==
  /\ mpc = "loop" /\ spc = "poll"
  /\ request = NoRequest
  /\ username = None /\ is_auth = FALSE
  /\ g_keep_running = TRUE
  /\ shutdown_pipe = FALSE
  /\ process = "running"
  /\ up = << >>
  /\ arrived = 0 /\ consumed = 0
  /\ server = "open" /\ cut = 0 /\ err = "ok"
  /\ nlines = 0 /\ nother = 0
  /\ rows = Accounts
  /\ who = [s \in {"me", "other"} |-> IF s = "me" THEN None ELSE OtherName]
  /\ inbox = [s \in {"me", "other"} |-> << >>]
  /\ lost = {"other"}

-----------------------------------------------------------------------------
(* The main thread: run_messaging_loop and command_shell. *)

(* while (g_keep_running). *)
LoopTest ==
  /\ mpc = "loop"
  /\ mpc' = IF g_keep_running THEN "getline" ELSE "signal"
  /\ UNCHANGED <<spc, request, connVars, g_keep_running, shutdown_pipe, process,
                 netVars, nlines, nother, serviceVars>>

IsChatLine(line) == line.command \in {"/p2p", "/world"}
IsUserLine(line) == line.command \in {"/login", "/register"}

(* Mutant: chat commands do not look at IS_AUTH. *)
command_shell_Open(line) ==
  CASE line.command = "/quit" -> "signal"
    [] IsChatLine(line) /\ line.complete -> "name"
    [] IsUserLine(line) /\ ~is_auth /\ line.complete /\ line.fits -> "write"
    [] OTHER -> "loop"

(***************************************************************************)
(* command_shell up to its first step that another thread can meet: flags  *)
(* and user are read without the mutex.  "name": conn.user.username is     *)
(* about to be copied, for a chat request or to say who is logged in.      *)
(***************************************************************************)
command_shell(line) ==
  CASE line.command = "/quit" -> "signal"
    [] IsChatLine(line) /\ is_auth /\ line.complete -> "name"
    [] IsUserLine(line) /\ is_auth -> "name"
    [] IsUserLine(line) /\ ~is_auth /\ line.complete /\ line.fits -> "write"
    [] OTHER -> "loop"

(* std::getline returns a line. *)
Getline ==
  /\ mpc = "getline"
  /\ nlines < MaxLines
  /\ nlines' = nlines + 1
  /\ \E line \in Lines :
       /\ mpc' = command_shell(line)
       /\ request' = IF mpc' \in {"name", "write"}
                     THEN [line.request EXCEPT !.parses = line.fits] ELSE NoRequest
  /\ UNCHANGED <<spc, connVars, g_keep_running, shutdown_pipe, process, netVars,
                 nother, serviceVars>>

(* It fails at the end of the input: run_messaging_loop returns with       *)
(* socket_thread joinable, whose destructor calls std::terminate.          *)
GetlineEof ==
  /\ mpc = "getline"
  /\ "eof" \in Events
  /\ process' = "aborted"
  /\ UNCHANGED <<threadVars, connVars, g_keep_running, shutdown_pipe, netVars,
                 nlines, nother, serviceVars>>

(***************************************************************************)
(* handle_world_message or handle_peer_message copies the sender's name    *)
(* and builds the request; a copy that races with the assignment of a      *)
(* second login may be any name.  The builder refuses what is too long and *)
(* a private message to the sender himself.                                *)
(***************************************************************************)
CopyName ==
  /\ mpc = "name"
  /\ \E name \in IF spc = "login" THEN Name ELSE {username} :
       LET builds == /\ request.type = "CHAT" /\ request.parses
                     /\ request.tag = "TAG_P2P_BROADCAST" => request.recipient # name
       IN IF builds
          THEN mpc' = "write" /\ request' = [request EXCEPT !.username = name]
          ELSE mpc' = "loop" /\ request' = NoRequest
  /\ UNCHANGED <<spc, connVars, g_keep_running, shutdown_pipe, process, netVars,
                 nlines, nother, serviceVars>>

(* write_one_message: waits while the buffer is full, tries again after    *)
(* EINTR, gives up after any other error.                                  *)
WriteRequest ==
  /\ mpc = "write"
  /\ \/ err = "ok" /\ Len(up) < UpCap /\ up' = Append(up, request) /\ UNCHANGED err
     \/ err = "ECONNRESET" /\ err' = "EPIPE" /\ UNCHANGED up
  /\ mpc' = "loop"
  /\ request' = NoRequest
  /\ UNCHANGED <<spc, connVars, g_keep_running, shutdown_pipe, process, arrived,
                 consumed, server, cut, nlines, nother, serviceVars>>

(* After a FIN and a RST, or after an error was returned once: SIGPIPE. *)
WriteSigpipe ==
  /\ mpc = "write"
  /\ err = "EPIPE"
  /\ process' = "killed"
  /\ UNCHANGED <<threadVars, connVars, g_keep_running, shutdown_pipe, netVars,
                 nlines, nother, serviceVars>>

SignalThread ==
  /\ mpc = "signal"
  /\ shutdown_pipe' = TRUE
  /\ mpc' = "join"
  /\ UNCHANGED <<spc, request, connVars, g_keep_running, process, netVars, nlines,
                 nother, serviceVars>>

(* join(), then the descriptors are closed and main returns. *)
JoinThread ==
  /\ mpc = "join"
  /\ spc = "done"
  /\ process' = "exited"
  /\ UNCHANGED <<threadVars, connVars, g_keep_running, shutdown_pipe, netVars,
                 nlines, nother, serviceVars>>

MainStep ==
  \/ LoopTest \/ CopyName \/ WriteRequest \/ WriteSigpipe \/ SignalThread
  \/ JoinThread

-----------------------------------------------------------------------------
(* The socket thread: socket_thread_handler. *)

(* The message that half h belongs to, and the end of the stream. *)
MessageOf(h) == inbox["me"][(h + 1) \div 2]
StreamEnd == server # "open" /\ arrived = cut

Readable == consumed < arrived \/ StreamEnd \/ err # "ok"

(* Mutant: the shutdown pipe is not looked at. *)
PollThread_SocketOnly ==
  /\ spc = "poll"
  /\ Readable
  /\ spc' = "header"
  /\ UNCHANGED <<mpc, request, connVars, g_keep_running, shutdown_pipe, process,
                 netVars, nlines, nother, serviceVars>>

(* poll returns: the pipe goes before what has arrived, which stays unread. *)
PollThread ==
  /\ spc = "poll"
  /\ shutdown_pipe \/ Readable
  /\ spc' = IF shutdown_pipe THEN "done" ELSE "header"
  /\ UNCHANGED <<mpc, request, connVars, g_keep_running, shutdown_pipe, process,
                 netVars, nlines, nother, serviceVars>>

(* Only a successful response to a request has a payload. *)
HasPayload(m) == m.rc = "RESP_OK"

(* read_one_message, the header: read() returns what has arrived. *)
ReadHeader ==
  /\ spc = "header"
  /\ consumed < arrived
  /\ spc' = IF HasPayload(MessageOf(consumed + 1)) THEN "payload" ELSE "handle"
  /\ consumed' = IF HasPayload(MessageOf(consumed + 1)) THEN consumed + 1
                                                        ELSE consumed + 2
  /\ UNCHANGED <<mpc, request, connVars, g_keep_running, shutdown_pipe, process, up,
                 arrived, server, cut, err, nlines, nother, serviceVars>>

(* ... and the payload, for which it waits. *)
ReadPayload ==
  /\ spc = "payload"
  /\ consumed < arrived
  /\ spc' = "handle"
  /\ consumed' = consumed + 1
  /\ UNCHANGED <<mpc, request, connVars, g_keep_running, shutdown_pipe, process, up,
                 arrived, server, cut, err, nlines, nother, serviceVars>>

(* End of file or an error in either: handle_server_response is false. *)
ReadFails ==
  /\ spc \in {"header", "payload"}
  /\ consumed = arrived
  /\ StreamEnd \/ err # "ok"
  /\ spc' = "done"
  /\ err' = IF err = "ECONNRESET" THEN "EPIPE" ELSE err
  /\ UNCHANGED <<mpc, request, connVars, g_keep_running, shutdown_pipe, process, up,
                 arrived, consumed, server, cut, nlines, nother, serviceVars>>

(* Mutant: a refused login is taken for a successful one. *)
HandleResponse_AnyCode ==
  /\ spc = "handle"
  /\ spc' = IF MessageOf(consumed).type = "LOGIN" THEN "login" ELSE "poll"
  /\ UNCHANGED <<mpc, request, connVars, g_keep_running, shutdown_pipe, process,
                 netVars, nlines, nother, serviceVars>>

(* handle_registration_response, handle_broadcast_response and a refused   *)
(* login only print; handle_login_response goes on to take the mutex.      *)
HandleResponse ==
  /\ spc = "handle"
  /\ LET m == MessageOf(consumed)
     IN spc' = IF m.type = "LOGIN" /\ m.rc = "RESP_OK" THEN "login" ELSE "poll"
  /\ UNCHANGED <<mpc, request, connVars, g_keep_running, shutdown_pipe, process,
                 netVars, nlines, nother, serviceVars>>

(* Mutant: the handler returns as if the connection had ended. *)
SetUser_Last ==
  /\ spc = "login"
  /\ username' = MessageOf(consumed).username
  /\ is_auth' = TRUE
  /\ spc' = "done"
  /\ UNCHANGED <<mpc, request, g_keep_running, shutdown_pipe, process, netVars,
                 nlines, nother, serviceVars>>

(* The end of handle_login_response, under a mutex that the main thread    *)
(* does not take before the join.                                          *)
SetUser ==
  /\ spc = "login"
  /\ username' = MessageOf(consumed).username
  /\ is_auth' = TRUE
  /\ spc' = "poll"
  /\ UNCHANGED <<mpc, request, g_keep_running, shutdown_pipe, process, netVars,
                 nlines, nother, serviceVars>>

SocketStep ==
  \/ PollThread \/ ReadHeader \/ ReadPayload \/ ReadFails \/ HandleResponse \/ SetUser

-----------------------------------------------------------------------------
(* SIGINT, without SA_RESTART, to either thread. *)

(***************************************************************************)
(* handle_client_sigint in the main thread.  A getline that is waiting     *)
(* fails with EINTR and ends the process like the end of the input does;   *)
(* one that has not begun to wait does not notice.                         *)
(***************************************************************************)
SigintMain ==
  /\ g_keep_running' = FALSE
  /\ \/ UNCHANGED process
     \/ mpc = "getline" /\ process' = "aborted"
  /\ UNCHANGED <<threadVars, connVars, shutdown_pipe, netVars, nlines, nother,
                 serviceVars>>

(* Mutant: a payload that is interrupted is given up, the thread goes on. *)
SigintSocket_Resume ==
  /\ g_keep_running' = FALSE
  /\ spc' = IF spc = "payload" /\ consumed = arrived THEN "poll" ELSE spc
  /\ UNCHANGED <<mpc, request, connVars, shutdown_pipe, process, netVars, nlines,
                 nother, serviceVars>>

(* ... in the socket thread: EINTR ends a poll that waits and the read of  *)
(* a payload that waits, and with it the thread.                           *)
SigintSocket ==
  /\ g_keep_running' = FALSE
  /\ spc' = IF \/ spc = "poll" /\ ~shutdown_pipe /\ ~Readable
               \/ spc = "payload" /\ consumed = arrived /\ ~StreamEnd /\ err = "ok"
            THEN "done" ELSE spc
  /\ UNCHANGED <<mpc, request, connVars, shutdown_pipe, process, netVars, nlines,
                 nother, serviceVars>>

(* One SIGINT; a second finds nothing to change but for getline. *)
Sigint ==
  /\ "sigint" \in Events
  /\ g_keep_running
  /\ SigintMain \/ SigintSocket

-----------------------------------------------------------------------------
(* The server and the network. *)

(* The server reads and serves a request.  It reads no more while the      *)
(* client does not take what it has written (write mode of ChatServer).    *)
ServeRequest ==
  /\ server = "open"
  /\ up # << >>
  /\ 2 * Len(inbox["me"]) - arrived < OutCap
  /\ Service!Serve("me", Head(up))
  /\ up' = Tail(up)
  /\ UNCHANGED <<threadVars, connVars, g_keep_running, shutdown_pipe, process,
                 arrived, consumed, server, cut, err, nlines, nother>>

(* The requests of another session; its broadcasts reach this client. *)
ServeOther ==
  /\ server = "open"
  /\ nother < MaxOther
  /\ nother' = nother + 1
  /\ \E req \in Others : Service!Serve("other", req)
  /\ UNCHANGED <<threadVars, connVars, g_keep_running, shutdown_pipe, process,
                 netVars, nlines>>

(* A half arrives, with the empty payload of a message that has none. *)
Deliver ==
  /\ arrived < IF server = "open" THEN 2 * Len(inbox["me"]) ELSE cut
  /\ arrived - consumed < RcvCap
  /\ arrived' = IF arrived % 2 = 0 /\ ~HasPayload(MessageOf(arrived + 1))
                THEN arrived + 2 ELSE arrived + 1
  /\ UNCHANGED <<threadVars, connVars, g_keep_running, shutdown_pipe, process, up,
                 consumed, server, cut, err, nlines, nother, serviceVars>>

(* The server's process ends.  What its kernel has still comes, then the   *)
(* FIN, also in the middle of a message; requests it has not read make it  *)
(* a RST, and nothing more comes.                                          *)
ServerExit ==
  /\ "server_exit" \in Events
  /\ server = "open"
  /\ IF up = << >>
     THEN /\ server' = "closed"
          /\ \E last \in arrived .. 2 * Len(inbox["me"]) :
               /\ last % 2 = 1 => HasPayload(MessageOf(last))
               /\ cut' = last
          /\ UNCHANGED <<up, err>>
     ELSE server' = "reset" /\ cut' = arrived /\ up' = << >> /\ err' = "ECONNRESET"
  /\ UNCHANGED <<threadVars, connVars, g_keep_running, shutdown_pipe, process,
                 arrived, consumed, nlines, nother, serviceVars>>

(* A request reaches the closed end: RST, and EPIPE from now on. *)
KernelReset ==
  /\ server = "closed"
  /\ up # << >>
  /\ up' = << >>
  /\ err' = "EPIPE"
  /\ UNCHANGED <<threadVars, connVars, g_keep_running, shutdown_pipe, process,
                 arrived, consumed, server, cut, nlines, nother, serviceVars>>

-----------------------------------------------------------------------------
(* The user does not type. *)
UserIdle == mpc = "getline" /\ UNCHANGED vars

Ended == process # "running" /\ UNCHANGED vars

Next ==
  \/ /\ process = "running"
     /\ \/ MainStep \/ Getline \/ GetlineEof \/ SocketStep \/ Sigint \/ UserIdle
        \/ ServeRequest \/ ServeOther \/ Deliver \/ ServerExit \/ KernelReset
  \/ Ended

Spec == Init /\ [][Next]_vars

(***************************************************************************)
(* Fairness: both threads run, the server serves what it has read and the  *)
(* network delivers.  Nothing makes the user type.                         *)
(***************************************************************************)
FairSpec ==
  /\ Spec
  /\ WF_vars(process = "running" /\ MainStep)
  /\ WF_vars(process = "running" /\ SocketStep)
  /\ WF_vars(process = "running" /\ ServeRequest)
  /\ WF_vars(process = "running" /\ Deliver)
  /\ WF_vars(process = "running" /\ KernelReset)

-----------------------------------------------------------------------------
(* Every variable of the client and of its connection has its type, and    *)
(* the halves are counted consistently.                                    *)
ClientTypeOK ==
  /\ mpc \in {"loop", "getline", "name", "write", "signal", "join"}
  /\ spc \in {"poll", "header", "payload", "handle", "login", "done"}
  /\ request \in Request \cup {NoRequest}
  /\ username \in Name \cup {None}
  /\ {is_auth, g_keep_running, shutdown_pipe} \subseteq BOOLEAN
  /\ process \in {"running", "exited", "aborted", "killed"}
  /\ up \in Seq(Request)
  /\ {arrived, consumed, cut, nlines, nother} \subseteq Nat
  /\ consumed =< arrived /\ arrived =< 2 * Len(inbox["me"])
  /\ server \in {"open", "closed", "reset"}
  /\ err \in {"ok", "ECONNRESET", "EPIPE"}

(***************************************************************************)
(* The two sides agree on who is speaking: once all answers are handled,   *)
(* the name and the flag of conn_t are those of the session at the server, *)
(* also after logins that were typed before the first was answered.        *)
(***************************************************************************)
IdentityAgrees ==
  /\ spc \notin {"handle", "login"}
  /\ consumed = 2 * Len(inbox["me"])
  => username = who["me"] /\ is_auth = (who["me"] # None)

(***************************************************************************)
(* The flag that the main thread reads without the mutex may be old, never *)
(* wrong: a chat request on its way meets a session that has logged in, so *)
(* the server has no reason to refuse it for its credentials.              *)
(***************************************************************************)
ChatAuthorised ==
  \A i \in DOMAIN up : up[i].type = "CHAT" => who["me"] # None

(* The socket thread looks for a header only where a message begins, after *)
(* signals and broken connections too.                                     *)
InStep == spc \in {"poll", "header", "handle", "login"} => consumed % 2 = 0

(***************************************************************************)
(* /quit ends the process in order, though join waits for a thread that    *)
(* may be in the middle of a message and does not look at the pipe there.  *)
(***************************************************************************)
QuitTerminates == process = "running" /\ mpc = "signal" ~> process = "exited"

(***************************************************************************)
(* No write waits for ever: the server reads on as long as the socket      *)
(* thread takes its answers, which nothing but a signal ends before the    *)
(* connection does.                                                        *)
(***************************************************************************)
WriteReturns ==
  mpc = "write" ~> mpc # "write" \/ process # "running" \/ ~g_keep_running

(* "Sets up signal handlers for the client; for graceful shutdown"         *)
(* (setup_client_signal_handlers): a SIGINT ends the process by its own    *)
(* way out, never by std::terminate.                                       *)
GracefulSigint == process # "aborted"

=============================================================================
