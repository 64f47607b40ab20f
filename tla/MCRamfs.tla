------------------------------- MODULE MCRamfs -------------------------------
(* Small instance of the RAM file system. *)
EXTENDS Ramfs

\* AB~1 is an 8.3 alias that answers to ABC.
MCNames == {"AB~1", "ABC", "X"}
MCAliases == {<<"AB~1", "ABC">>}
=============================================================================
