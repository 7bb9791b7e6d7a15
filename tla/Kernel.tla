------------------------------- MODULE Kernel -------------------------------
(***************************************************************************)
(* What the server's process sees of Linux: the TCP sockets of its clients *)
(* and an edge-triggered epoll instance.  None of it is code of the        *)
(* repository; it is modelled from the system calls that server.cpp and    *)
(* server_utils.cpp make.  A peer is one client socket, from its connect() *)
(* to its close(); a client that comes back is another peer.               *)
(*                                                                         *)
(* A TCP direction is a FIFO queue of whole messages: how messages are cut *)
(* into segments and put together again is not told apart here.            *)
(***************************************************************************)
EXTENDS Naturals, Sequences, FiniteSets

CONSTANTS
  Peer,        \* the client sockets
  NoPeer,      \* the peer of a descriptor that is not a connection
  Fd,          \* the descriptors accept() may return, up to the process's limit
  ListenFd,    \* the listening socket
  Requests,    \* what each peer may send
  LISTENQ,     \* the backlog given to listen()
  SndCap,      \* messages a server to peer direction holds (kernel buffers)
  RcvCap,      \* messages a peer to server direction holds
  MaxSend,     \* bound: messages each peer sends
  Closers      \* bound: the peers that may close their socket

ASSUME KernelAssumption ==
  /\ NoPeer \notin Peer
  /\ Fd \subseteq Nat
  /\ Fd # {}
  /\ ListenFd \in Nat \ Fd
  /\ LISTENQ \in Nat
  /\ SndCap \in Nat \ {0}
  /\ RcvCap \in Nat \ {0}
  /\ MaxSend \in [Peer -> Nat]
  /\ Closers \subseteq Peer

VARIABLES
  fds,      \* the connection descriptors open in the server's process
  peerOf,   \* the peer at the other end of a descriptor
  mask,     \* the events epoll watches on a descriptor, with EPOLLET
  ready,    \* the ready list of the epoll instance
  backlog,  \* connections the kernel completed and the server did not accept
  peer,     \* the state of each client socket
  nsent,    \* how many messages a peer has sent
  rcvq,     \* from a peer, not yet read by the server
  fin,      \* the peer's FIN has arrived
  err,      \* the error pending on the server's socket (sk_err)
  net,      \* to a peer, not yet read by it
  got       \* history: what a peer has read

epollVars == <<mask, ready>>
sockVars == <<peer, nsent, rcvq, fin, err, net, got>>
kernelVars == <<fds, peerOf, backlog, epollVars, sockVars>>

KernelInit ==
  /\ fds = {}
  /\ peerOf = [f \in Fd |-> NoPeer]
  /\ mask = [f \in Fd |-> "none"]
  /\ ready = {}
  /\ backlog = << >>
  /\ peer = [p \in Peer |-> "new"]
  /\ nsent = [p \in Peer |-> 0]
  /\ rcvq = [p \in Peer |-> << >>]
  /\ fin = [p \in Peer |-> FALSE]
  /\ err = [p \in Peer |-> "ok"]
  /\ net = [p \in Peer |-> << >>]
  /\ got = [p \in Peer |-> << >>]

-----------------------------------------------------------------------------
(* Readiness, as poll on a socket reports it. *)

Readable(p) == rcvq[p] # << >> \/ fin[p] \/ err[p] # "ok"

Writable(p) == Len(net[p]) < SndCap \/ err[p] # "ok"

(* EPOLLERR is reported whatever the mask. *)
ReadyUnder(m, p) ==
  \/ m = "in" /\ Readable(p)
  \/ m = "out" /\ Writable(p)

PollReady(f) == mask[f] # "none" /\ ReadyUnder(mask[f], peerOf[f])

(* What epoll_wait can report: the members of the ready list that are      *)
(* still ready.  The others are dropped from the list without an event.    *)
Pollable ==
  {f \in ready \cap Fd : PollReady(f)}
    \cup (IF backlog # << >> THEN ready \cap {ListenFd} ELSE {})

(* The descriptors through which the server watches p for one of ms. *)
Watching(p, ms) == {f \in Fd : peerOf[f] = p /\ mask[f] \in ms}

(* EPOLL_CTL_MOD on the descriptors fs: a descriptor that is ready under   *)
(* the new mask enters the ready list at once.                             *)
epoll_ctl_mod(fs, m) ==
  /\ mask' = [f \in Fd |-> IF f \in fs THEN m ELSE mask[f]]
  /\ ready' = ready \cup {f \in fs : ReadyUnder(m, peerOf[f])}

(* EPOLL_CTL_ADD of a new descriptor f for peer p, with EPOLLIN. *)
epoll_ctl_add(f, p) ==
  /\ mask' = [mask EXCEPT ![f] = "in"]
  /\ ready' = ready \cup (IF Readable(p) THEN {f} ELSE {})

(* EPOLL_CTL_DEL. *)
epoll_ctl_del(f) ==
  /\ mask' = [mask EXCEPT ![f] = "none"]
  /\ ready' = ready \ {f}

-----------------------------------------------------------------------------
(* The peers and the network. *)

(* The handshake ends; the kernel needs no accept() for it.  The queue of  *)
(* Linux takes one connection more than the backlog argument.              *)
Connect(p) ==
  /\ peer[p] = "new"
  /\ Len(backlog) =< LISTENQ
  /\ peer' = [peer EXCEPT ![p] = "open"]
  /\ backlog' = Append(backlog, p)
  /\ ready' = ready \cup {ListenFd}
  /\ UNCHANGED <<fds, peerOf, mask, nsent, rcvq, fin, err, net, got>>

(* A request arrives; it may arrive before the connection is accepted. *)
PeerSend(p) ==
  /\ peer[p] = "open"
  /\ nsent[p] < MaxSend[p]
  /\ Len(rcvq[p]) < RcvCap
  /\ \E req \in Requests[p] : rcvq' = [rcvq EXCEPT ![p] = Append(@, req)]
  /\ nsent' = [nsent EXCEPT ![p] = @ + 1]
  /\ ready' = ready \cup Watching(p, {"in"})
  /\ UNCHANGED <<fds, peerOf, mask, backlog, peer, fin, err, net, got>>

(* The peer reads a message, which makes room in the server's direction. *)
PeerRecv(p) ==
  /\ peer[p] = "open"
  /\ net[p] # << >>
  /\ got' = [got EXCEPT ![p] = Append(@, Head(net[p]))]
  /\ net' = [net EXCEPT ![p] = Tail(@)]
  /\ ready' = ready \cup Watching(p, {"out"})
  /\ UNCHANGED <<fds, peerOf, mask, backlog, peer, nsent, rcvq, fin, err>>

(* close(): a FIN.  What the server has sent may still be on its way. *)
PeerClose(p) ==
  /\ p \in Closers
  /\ peer[p] = "open"
  /\ peer' = [peer EXCEPT ![p] = "closed"]
  /\ fin' = [fin EXCEPT ![p] = TRUE]
  /\ ready' = ready \cup Watching(p, {"in"})
  /\ UNCHANGED <<fds, peerOf, mask, backlog, nsent, rcvq, err, net, got>>

(* A reset of the connection with error e, which drops what was not sent. *)
Reset(p, e) ==
  /\ err' = [err EXCEPT ![p] = e]
  /\ net' = [net EXCEPT ![p] = << >>]
  /\ ready' = ready \cup Watching(p, {"in", "out"})
  /\ UNCHANGED <<fds, peerOf, mask, backlog, nsent, rcvq, fin, got>>

(* close() with received data unread: a RST instead of the FIN. *)
PeerAbort(p) ==
  /\ p \in Closers
  /\ peer[p] = "open"
  /\ net[p] # << >>
  /\ peer' = [peer EXCEPT ![p] = "closed"]
  /\ Reset(p, "ECONNRESET")

(* Data reaches a peer that closed: its kernel answers with a RST.  The    *)
(* server's socket has had the FIN (CLOSE_WAIT), so that the error is      *)
(* EPIPE and not ECONNRESET.                                               *)
KernelReset(p) ==
  /\ peer[p] = "closed"
  /\ err[p] = "ok"
  /\ net[p] # << >>
  /\ Reset(p, "EPIPE")
  /\ UNCHANGED peer

(* The server's process ends: its descriptors are closed, what its clients *)
(* sent and it did not read is gone.                                       *)
KernelEnd ==
  /\ fds' = {}
  /\ peerOf' = [f \in Fd |-> NoPeer]
  /\ mask' = [f \in Fd |-> "none"]
  /\ ready' = {}
  /\ backlog' = << >>
  /\ rcvq' = [p \in Peer |-> << >>]
  /\ fin' = [p \in Peer |-> FALSE]
  /\ err' = [p \in Peer |-> "ok"]
  /\ UNCHANGED <<peer, nsent, net, got>>

(* By the time that another takes its place, every client that was         *)
(* connected has found its connection closed.                              *)
KernelRestart ==
  /\ peer' = [p \in Peer |-> IF peer[p] = "open" THEN "closed" ELSE peer[p]]
  /\ net' = [p \in Peer |-> << >>]
  /\ UNCHANGED <<fds, peerOf, backlog, epollVars, nsent, rcvq, fin, err, got>>

PeerStep(p) ==
  \/ Connect(p)
  \/ PeerSend(p)
  \/ PeerRecv(p)
  \/ PeerClose(p)
  \/ PeerAbort(p)
  \/ KernelReset(p)

-----------------------------------------------------------------------------
KernelTypeOK ==
  /\ fds \subseteq Fd
  /\ peerOf \in [Fd -> Peer \cup {NoPeer}]
  /\ mask \in [Fd -> {"none", "in", "out"}]
  /\ ready \subseteq Fd \cup {ListenFd}
  /\ backlog \in Seq(Peer)

SocketTypeOK(Up, Down) ==
  /\ peer \in [Peer -> {"new", "open", "closed"}]
  /\ nsent \in [Peer -> Nat]
  /\ rcvq \in [Peer -> Seq(Up)]
  /\ fin \in [Peer -> BOOLEAN]
  /\ err \in [Peer -> {"ok", "ECONNRESET", "EPIPE"}]
  /\ net \in [Peer -> Seq(Down)]
  /\ got \in [Peer -> Seq(Down)]

=============================================================================
