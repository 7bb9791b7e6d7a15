------------------------------ MODULE MCFraming ------------------------------
(* Small instances of Framing: payloads of 0 to 2 bytes, 3 is oversize. *)
EXTENDS Framing

Msg(type, rc, payload) == [type |-> type, rc |-> rc, payload |-> payload]

MCRequest == {Msg(9, 0, << >>), Msg(0, 0, <<4>>), Msg(2, 0, <<5, 0>>),
              Msg(1, 0, <<0, 1, 0>>)}
MCAnswer == {Msg(1, 4, << >>), Msg(2, 0, <<4, 0>>)}
=============================================================================
