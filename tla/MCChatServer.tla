---------------------------- MODULE MCChatServer ----------------------------
(* Small instances of ChatServer. *)
EXTENDS ChatServerProperties

CONSTANTS p1, p2, p3

(* How many messages the peers send. *)
OneEach == [p \in Peer |-> 1]
TwoEach == [p \in Peer |-> 2]
TwoOne == (p1 :> 2) @@ (p2 :> 1)
ThreeOneOne == (p1 :> 3) @@ (p2 :> 1) @@ (p3 :> 1)

PeerSymmetry == Permutations(Peer)

MCNames == {"Alice", "alice", "Bob", "bob", "carol"}
MCLower == [n \in MCNames |-> CASE n = "Alice" -> "alice"
                                [] n = "Bob" -> "bob"
                                [] OTHER -> n]
MCAccounts == [i \in 1 .. 3 |-> [username |-> <<"Alice", "Bob", "carol">>[i],
                                 password |-> "pw"]]
NoAccounts == << >>
OneAccount == <<[username |-> "Bob", password |-> "pw"]>>

(* A well-formed request, of which a run changes the fields it is about.   *)
(* Its sender calls itself Bob.                                            *)
Base == [type |-> "CHAT", oversize |-> FALSE, parses |-> TRUE,
         tag |-> "TAG_WORLD_BROADCAST", username |-> "Bob",
         password |-> "pw", recipient |-> "Bob", content |-> "hi"]

Login(u) == [Base EXCEPT !.type = "LOGIN", !.username = u]
Register(u) == [Base EXCEPT !.type = "REGISTER", !.username = u]
World == Base
P2P(u) == [Base EXCEPT !.tag = "TAG_P2P_BROADCAST", !.recipient = u]
Unknown == [Base EXCEPT !.type = "OTHER"]
Oversize == [Base EXCEPT !.oversize = TRUE]
Malformed(req) == [req EXCEPT !.parses = FALSE]
WrongPassword(req) == [req EXCEPT !.password = "bad"]

(* What the peers send. *)
ChatRequests == [p \in Peer |-> {Login("alice"), World}]
OneTalks == [p \in Peer |-> IF p = p1 THEN {Login("alice"), World}
                                      ELSE {Login("Bob")}]
Conversation == (p1 :> {Login("alice"), World, P2P("Bob")})
                @@ (p2 :> {Login("bob")})
                @@ (p3 :> {Login("carol")})
AccountRequests == [p \in Peer |-> {Register("Alice"), Register("alice"),
                                    Login("alice"), WrongPassword(Login("alice")),
                                    Login("bob")}]
MixedRequests == [p \in Peer |-> {Oversize, Unknown, Register("Alice"), Register("alice"),
                                  Login("alice")}]
=============================================================================
