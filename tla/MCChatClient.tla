---------------------------- MODULE MCChatClient ----------------------------
(* Small instances of ChatClient. *)
EXTENDS ChatClient

MCNames == {"Alice", "alice", "Bob", "bob", "carol"}
MCLower == [n \in MCNames |-> CASE n = "Alice" -> "alice"
                                [] n = "Bob" -> "bob"
                                [] OTHER -> n]
TwoAccounts == <<[username |-> "Alice", password |-> "pw"],
                 [username |-> "Bob", password |-> "pw"]>>

Base == [type |-> "CHAT", oversize |-> FALSE, parses |-> TRUE,
         tag |-> "TAG_WORLD_BROADCAST", username |-> "Bob",
         password |-> "pw", recipient |-> "Bob", content |-> "hi"]
Login(u) == [Base EXCEPT !.type = "LOGIN", !.username = u]
Register(u) == [Base EXCEPT !.type = "REGISTER", !.username = u]
P2P(u) == [Base EXCEPT !.tag = "TAG_P2P_BROADCAST", !.recipient = u]

Typed(command, req) ==
  [command |-> command, complete |-> TRUE, fits |-> TRUE, request |-> req]

(* Two users to log in as, one of them also with a wrong password, one to  *)
(* register, a message to Bob, which Bob himself cannot send, and /quit.   *)
MCLines == {Typed("/login", Login("alice")), Typed("/login", Login("bob")),
            Typed("/login", [Login("alice") EXCEPT !.password = "bad"]),
            Typed("/register", Register("carol")), Typed("/p2p", P2P("Bob")),
            Typed("/quit", Base)}
MCOthers == {Base}
=============================================================================
