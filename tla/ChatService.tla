----------------------------- MODULE ChatService -----------------------------
(***************************************************************************)
(* What the chat server promises its clients, with no sockets, no modes    *)
(* and no event loop in it: one user table and a set of sessions.  A       *)
(* request is served in one step, which puts the answer in the requester's *)
(* inbox and the notification in the inbox of every session it is for.     *)
(* ChatServer implements this specification; ChatClient is written against *)
(* it.                                                                     *)
(***************************************************************************)
EXTENDS Users

CONSTANTS
  Session,     \* the sessions a client may have
  Served,      \* the requests
  TableFaults  \* the calls of SQLite that may fail

VARIABLES
  rows,   \* the user table
  who,    \* the name a session has logged in with, None before and after
  inbox,  \* all that has been sent to a session
  lost    \* the sessions whose connection is broken

Init ==
  /\ rows \in Seq(User)
  /\ who = [s \in Session |-> None]
  /\ inbox = [s \in Session |-> << >>]
  /\ lost = {}

(* The message m for the sessions ss. *)
Send(ss, m) ==
  inbox' = [s \in Session |-> IF s \in ss \ lost THEN Append(inbox[s], m) ELSE inbox[s]]

Members == {s \in Session : who[s] # None}

Register(s, req) ==
  /\ req.type = "REGISTER"
  /\ \E fault \in TableFaults \cup {"none"} :
       LET result == register_user(rows, req, fault)
       IN rows' = result.db /\ Send({s}, result.response)
  /\ UNCHANGED <<who, lost>>

Login(s, req) ==
  /\ req.type = "LOGIN"
  /\ \E fault \in TableFaults \cup {"none"} :
       LET result == login_user(rows, req, fault)
       IN /\ Send({s}, result.response)
          /\ who' = [who EXCEPT ![s] = IF result.id = 0 THEN @
                                                        ELSE rows[result.id].username]
  /\ UNCHANGED <<rows, lost>>

(* A session that is not logged in says nothing, no text is empty, and     *)
(* nobody writes to himself.                                               *)
Admissible(s, req) ==
  /\ req.parses
  /\ req.tag # "TAG_OTHER"
  /\ req.content # Empty
  /\ req.tag = "TAG_P2P_BROADCAST" => req.recipient # who[s]

World(s, req) ==
  /\ req.type = "CHAT" /\ req.tag = "TAG_WORLD_BROADCAST"
  /\ who[s] # None /\ Admissible(s, req)
  /\ Send(Members, build_world_broadcast_notification(who[s], req.content))
  /\ UNCHANGED <<rows, who, lost>>

(* To one of the sessions that go by the recipient's name, whichever. *)
P2P(s, req) ==
  /\ req.type = "CHAT" /\ req.tag = "TAG_P2P_BROADCAST"
  /\ who[s] # None /\ Admissible(s, req)
  /\ LET named == {t \in Members : who[t] = req.recipient}
         note == build_p2p_broadcast_notification(who[s], req.recipient, req.content)
     IN \/ \E t \in named : Send({s, t}, note)
        \/ /\ named = {}
           /\ Send({s}, build_server_response("CHAT", "RESP_ERROR_USER_NOT_FOUND"))
  /\ UNCHANGED <<rows, who, lost>>

Refuse(s, req) ==
  /\ \/ /\ req.type = "CHAT" /\ who[s] = None
        /\ Send({s}, build_server_response("CHAT", "RESP_ERROR_INVALID_CREDENTIALS"))
     \/ /\ req.type = "CHAT" /\ who[s] # None /\ ~Admissible(s, req)
        /\ Send({s}, build_server_response("CHAT", "RESP_ERROR_MALFORMED"))
     \/ /\ req.type = "OTHER"
        /\ Send({s}, build_server_response("OTHER", "RESP_ERROR_UNKNOWN_COMMAND"))
  /\ UNCHANGED <<rows, who, lost>>

Serve(s, req) ==
  Register(s, req) \/ Login(s, req) \/ World(s, req) \/ P2P(s, req) \/ Refuse(s, req)

(* A session ends; what was sent to it stays sent. *)
Leave(s) ==
  /\ who' = [who EXCEPT ![s] = None]
  /\ UNCHANGED <<rows, inbox, lost>>

(* The connection of a session breaks, with what it had not delivered. *)
Break(s) ==
  /\ lost' = lost \cup {s}
  /\ inbox' = [inbox EXCEPT ![s] = << >>]
  /\ UNCHANGED <<rows, who>>

(* The server stops, and may start again: only the user table is left. *)
Stop ==
  /\ who' = [s \in Session |-> None]
  /\ inbox' = [s \in Session |-> << >>]
  /\ lost' = {}
  /\ UNCHANGED rows

vars == <<rows, who, inbox, lost>>

(* Nothing that concerns a session happens. *)
Idle == UNCHANGED vars

Next ==
  \/ Idle
  \/ \E s \in Session : Leave(s) \/ Break(s) \/ \E req \in Served : Serve(s, req)
  \/ Stop

Spec == Init /\ [][Next]_vars

=============================================================================
