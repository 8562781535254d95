----------------------------- MODULE MCFraming -----------------------------
(* Values for the model checker. *)
EXTENDS EchoServer

SomePayloads == {<<>>, <<1>>, <<0, 3>>, <<2, 0, 1>>}
SomeBadHeaders == {-1, 4, 5}
OneField == <<3>>
=============================================================================
