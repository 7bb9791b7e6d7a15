------------------------------- MODULE Framing -------------------------------
(***************************************************************************)
(* How one connection turns messages into bytes and back: protocol.cpp,    *)
(* with the buffers of server_utils.cpp between them.  The client writes   *)
(* its requests with write_one_message and reads with read_one_message,    *)
(* both blocking; the server collects whatever read() returns and cuts     *)
(* messages off the front of its incoming buffer.  Either direction hands  *)
(* over any number of bytes at a time.                                     *)
(*                                                                         *)
(* The wake-ups of epoll are those of ChatServer and are not repeated: the *)
(* server comes to a connection that is ready for its mode.                *)
(***************************************************************************)
EXTENDS Naturals, SequencesExt, FiniteSetsExt

CONSTANTS
  Request,               \* the messages a client may send
  Answer,                \* the messages a server may build
  MSG_MAX_PAYLOAD_SIZE,
  NetCap,                \* bytes a direction holds (kernel buffers)
  MaxSend                \* bound: messages sent in either direction

MSG_HEADER_SIZE == 7

Byte == 0 .. 255

(* A message_t that is not in a buffer; its version is always 1, and its   *)
(* payload_length is a uint32_t, so the length is below 2^32.              *)
Message ==
  {m \in [type : Byte, rc : Byte, payload : Seq(Byte)] :
     Len(m.payload) \div 2^24 < 256}

ASSUME FramingAssumption ==
  /\ Request \subseteq Message
  /\ Answer \subseteq {m \in Message : Len(m.payload) =< MSG_MAX_PAYLOAD_SIZE}
  /\ MSG_MAX_PAYLOAD_SIZE \in Nat
  /\ NetCap \in Nat \ {0}
  /\ MaxSend \in Nat

VARIABLES
  unsent,    \* client: what is left of the message it is writing
  up,        \* bytes on the way to the server
  incoming,  \* server: incoming_buffers[fd]
  outgoing,  \* server: outgoing_buffers[fd]
  spc,       \* server: where it is with this connection
  closing,   \* server: WANT_CLOSE
  down,      \* bytes on the way to the client
  partial,   \* client: header_buffer and payload, as far as they are read
  requests,  \* history: the messages the client has sent
  served,    \* history: the messages the server has served
  answers,   \* history: the messages the server has put in its buffer
  received   \* history: the messages the client has received

upVars == <<unsent, up, requests>>
downVars == <<down, partial, received>>
vars == <<upVars, incoming, outgoing, spc, closing, served, answers, downVars>>

-----------------------------------------------------------------------------
(* The wire format. *)

(* The length in network byte order. *)
htonl(n) == <<(n \div 2^24) % 256, (n \div 2^16) % 256, (n \div 2^8) % 256, n % 256>>
ntohl(b) == b[1] * 2^24 + b[2] * 2^16 + b[3] * 2^8 + b[4]

(* write_message_to_buffer, and the header of the builders of requests. *)
Encode(m) == <<1, m.type, m.rc>> \o htonl(Len(m.payload)) \o m.payload

payload_length(buffer) == ntohl(SubSeq(buffer, 4, 7))

(* Mutant: the payload is taken to start with the length field's last byte. *)
parse_message_Early(buffer) ==
  [type |-> buffer[2], rc |-> buffer[3],
   payload |-> SubSeq(buffer, MSG_HEADER_SIZE,
                      MSG_HEADER_SIZE + payload_length(buffer) - 1)]

(* The message at the front of a buffer that holds all of it. *)
parse_message(buffer) ==
  [type |-> buffer[2], rc |-> buffer[3],
   payload |-> SubSeq(buffer, MSG_HEADER_SIZE + 1,
                      MSG_HEADER_SIZE + payload_length(buffer))]

(* Mutant: one byte too few when a message ends inside the buffer. *)
buf_consume_Short(buffer, n) ==
  SubSeq(buffer, IF n < Len(buffer) THEN n ELSE n + 1, Len(buffer))

(* What is left of a buffer whose first n bytes are done with. *)
buf_consume(buffer, n) == SubSeq(buffer, n + 1, Len(buffer))

Transfer(n, from, to) == to \o SubSeq(from, 1, n)

-----------------------------------------------------------------------------
Init ==
  /\ unsent = << >> /\ up = << >> /\ requests = << >>
  /\ incoming = << >> /\ outgoing = << >> /\ served = << >> /\ answers = << >>
  /\ spc = "wait" /\ closing = FALSE
  /\ down = << >> /\ partial = << >> /\ received = << >>

(* The client's main thread: build a request and start to write it. *)
ClientSend(m) ==
  /\ unsent = << >>
  /\ Len(requests) < MaxSend
  /\ unsent' = Encode(m)
  /\ requests' = Append(requests, m)
  /\ UNCHANGED <<up, incoming, outgoing, spc, closing, served, answers, downVars>>

(* write_one_message: a write() that takes n bytes; the loop goes on with  *)
(* the others, also after EINTR.                                           *)
write_one_message ==
  /\ \E n \in 1 .. Min({Len(unsent), NetCap - Len(up)}) :
       up' = Transfer(n, unsent, up) /\ unsent' = buf_consume(unsent, n)
  /\ UNCHANGED <<requests, incoming, outgoing, spc, closing, served, answers,
                 downVars>>

(* Where the message at the front of partial ends, as far as is known. *)
MessageEnd(buffer) ==
  IF Len(buffer) < MSG_HEADER_SIZE
  THEN MSG_HEADER_SIZE
  ELSE MSG_HEADER_SIZE + payload_length(buffer)

(***************************************************************************)
(* read_one_message on the client's socket thread: a read() never asks for *)
(* more than what is missing from the header, and then from the payload.   *)
(* The message is complete when the payload is, at once if it has none.    *)
(***************************************************************************)
read_one_message ==
  /\ \E n \in 1 .. Min({Len(down), MessageEnd(partial) - Len(partial)}) :
       LET read == Transfer(n, down, partial) IN
       /\ down' = buf_consume(down, n)
       /\ IF Len(read) = MessageEnd(read)
          THEN partial' = << >> /\ received' = Append(received, parse_message(read))
          ELSE partial' = read /\ UNCHANGED received
  /\ UNCHANGED <<upVars, incoming, outgoing, spc, closing, served, answers>>

-----------------------------------------------------------------------------
(* The server, for one connection. *)

(* The end of an event: remove_connection or wait for the next one. *)
EventEnd(isClosing) == spc' = IF isClosing THEN "closed" ELSE "wait"

(* An event: input in read mode, room in write mode. *)
Wake ==
  /\ spc = "wait"
  /\ \/ outgoing = << >> /\ up # << >> /\ spc' = "read"
     \/ outgoing # << >> /\ Len(down) < NetCap /\ spc' = "write"
  /\ UNCHANGED <<upVars, incoming, outgoing, closing, served, answers, downVars>>

(* read() returns n bytes; again, until EAGAIN. *)
ReadSome ==
  /\ spc = "read"
  /\ \E n \in 1 .. Len(up) :
       incoming' = Transfer(n, up, incoming) /\ up' = buf_consume(up, n)
  /\ UNCHANGED <<unsent, requests, outgoing, spc, closing, served, answers,
                 downVars>>

ReadAgain ==
  /\ spc = "read"
  /\ up = << >>
  /\ spc' = "serve"
  /\ UNCHANGED <<upVars, incoming, outgoing, closing, served, answers, downVars>>

(* The first check of try_one_request: header and one byte of payload. *)
HeaderHere == Len(incoming) >= MSG_HEADER_SIZE + 1

Oversize == HeaderHere /\ payload_length(incoming) > MSG_MAX_PAYLOAD_SIZE

(* Mutant: the last byte in the buffer is not counted. *)
Complete_Late ==
  HeaderHere /\ ~Oversize
    /\ MSG_HEADER_SIZE + payload_length(incoming) < Len(incoming)

Complete ==
  HeaderHere /\ ~Oversize
    /\ MSG_HEADER_SIZE + payload_length(incoming) =< Len(incoming)

(* try_one_request returns true; what it answers is ChatServer's concern. *)
TryOneRequest ==
  /\ spc = "serve"
  /\ Complete
  /\ served' = Append(served, parse_message(incoming))
  /\ incoming' = buf_consume(incoming, MSG_HEADER_SIZE + payload_length(incoming))
  /\ \E a \in Answer : outgoing' = outgoing \o Encode(a) /\ answers' = Append(answers, a)
  /\ UNCHANGED <<upVars, spc, closing, downVars>>

ServeDone ==
  /\ spc = "serve"
  /\ ~Complete
  /\ closing' = Oversize
  /\ IF outgoing # << >> THEN spc' = "write" ELSE EventEnd(Oversize)
  /\ UNCHANGED <<upVars, incoming, outgoing, served, answers, downVars>>

(* Mutant: insert(begin()) for insert(end()). *)
Notify_Front(a) ==
  /\ spc = "wait"
  /\ Len(answers) < MaxSend
  /\ outgoing' = Encode(a) \o outgoing
  /\ answers' = Append(answers, a)
  /\ UNCHANGED <<upVars, incoming, spc, closing, served, downVars>>

(* A broadcast of another connection, served while this one waits. *)
Notify(a) ==
  /\ spc = "wait"
  /\ Len(answers) < MaxSend
  /\ outgoing' = outgoing \o Encode(a)
  /\ answers' = Append(answers, a)
  /\ UNCHANGED <<upVars, incoming, spc, closing, served, downVars>>

(* write() takes n bytes; until nothing is left. *)
WriteSome ==
  /\ spc = "write"
  /\ \E n \in 1 .. Min({Len(outgoing), NetCap - Len(down)}) :
       /\ down' = Transfer(n, outgoing, down)
       /\ outgoing' = buf_consume(outgoing, n)
       /\ IF n = Len(outgoing) THEN EventEnd(closing) ELSE UNCHANGED spc
  /\ UNCHANGED <<upVars, incoming, closing, served, answers, partial, received>>

WriteAgain ==
  /\ spc = "write"
  /\ Len(down) = NetCap
  /\ EventEnd(closing)
  /\ UNCHANGED <<upVars, incoming, outgoing, closing, served, answers, downVars>>

ServerStep ==
  Wake \/ ReadSome \/ ReadAgain \/ TryOneRequest \/ ServeDone \/ WriteSome \/ WriteAgain

Next ==
  \/ \E m \in Request : ClientSend(m)
  \/ write_one_message
  \/ read_one_message
  \/ ServerStep
  \/ \E a \in Answer : Notify(a)

Spec == Init /\ [][Next]_vars

(* The threads of both processes run, and a blocked write() goes on once   *)
(* there is room.                                                          *)
FairSpec ==
  Spec /\ WF_vars(write_one_message) /\ WF_vars(read_one_message) /\ WF_vars(ServerStep)

-----------------------------------------------------------------------------
(* The bytes of the messages ms, one after the other. *)
Bytes(ms) ==
  LET b[n \in 0 .. Len(ms)] == IF n = 0 THEN << >> ELSE b[n - 1] \o Encode(ms[n])
  IN b[Len(ms)]

(***************************************************************************)
(* No byte is lost, repeated or moved in either direction, and both        *)
(* readers always stand at the start of a message: what was served, what   *)
(* waits in the buffers and what is on its way make up what was sent.      *)
(***************************************************************************)
BytesConserved ==
  /\ Bytes(requests) = Bytes(served) \o incoming \o up \o unsent
  /\ Bytes(answers) = Bytes(received) \o partial \o down \o outgoing

Requests == INSTANCE MessageQueue
              WITH Message <- Request, sent <- requests, taken <- served
Answers == INSTANCE MessageQueue
              WITH Message <- Answer, sent <- answers, taken <- received

(* Bytes and chunks implement a queue of messages towards the server. *)
RequestsQueue == Requests!Spec

(* Responses and notifications that share one buffer and are written in    *)
(* parts implement a queue of messages towards the client.                 *)
AnswersQueue == Answers!Spec

(***************************************************************************)
(* Every request is served unless an oversize one closes the connection.   *)
(* A request without payload needs another one behind it: the server does  *)
(* not look at a buffer that holds a header only.                          *)
(***************************************************************************)
EventuallyFramed ==
  \A i \in 1 .. MaxSend :
    i =< Len(requests) /\ (i < Len(requests) \/ requests[i].payload # << >>)
      ~> Len(served) >= i \/ closing

=============================================================================
