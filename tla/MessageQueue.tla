---------------------------- MODULE MessageQueue ----------------------------
(***************************************************************************)
(* What one direction of a connection promises, with no bytes in it: the   *)
(* messages are taken one at a time, each once, in the order in which they *)
(* were sent.  ChatServer and Kernel are written against this promise.     *)
(***************************************************************************)
EXTENDS Naturals, Sequences

CONSTANT Message

VARIABLES
  sent,   \* all messages sent so far
  taken   \* all messages taken so far

Init == sent = << >> /\ taken = << >>

Send(m) == sent' = Append(sent, m) /\ UNCHANGED taken

Take ==
  /\ Len(taken) < Len(sent)
  /\ taken' = Append(taken, sent[Len(taken) + 1])
  /\ UNCHANGED sent

Next == Take \/ \E m \in Message : Send(m)

Spec == Init /\ [][Next]_<<sent, taken>>

=============================================================================
