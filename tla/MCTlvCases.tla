----------------------------- MODULE MCTlvCases -----------------------------
(* Names and texts of given lengths for TlvCases. *)
EXTENDS TlvCases

CONSTANTS
  NameSizes,    \* lengths of the names that are tried
  ContentSizes  \* lengths of the texts that are tried

MCNames == {[i \in 1 .. n |-> c] : n \in NameSizes, c \in {65, 66}}
MCTexts == {[i \in 1 .. n |-> 67] : n \in ContentSizes} \cup {<<67, 0, 67>>}

=============================================================================
