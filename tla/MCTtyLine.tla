------------------------------ MODULE MCTtyLine ------------------------------
(* A small instance of TtyLine for TLC. *)
EXTENDS TtyLine

MCCommands == {<<"x", "y">>, <<"y", "x">>, <<"y", "y">>}
MCNames == {<<"x", "y">>}
=============================================================================
