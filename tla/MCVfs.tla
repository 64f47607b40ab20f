-------------------------------- MODULE MCVfs --------------------------------
(* Small instance of the name space for TLC: a directory in two spellings, a
   name that can be a link, and a CD with a circular pair of links. *)
EXTENDS Vfs

MCFold == [n \in {"d", "D", "f", "l", "dev"} |-> CASE n \in {"d", "D"} -> "D" [] n = "f" -> "F"
                                                   [] n = "l" -> "L" [] n = "dev" -> "DEV"]
MCTreePaths == {<<"D">>, <<"F">>, <<"L">>, <<"D", "L">>}
Abs(c) == [abs |-> TRUE, comps |-> c]
Rel(c) == [abs |-> FALSE, comps |-> c]
MCRawPaths == {Abs(<<"d">>), Abs(<<"D">>), Rel(<<"f">>), Rel(<<"l">>), Rel(<<"..", ".", "l">>), Abs(<<"dev">>),
               Abs(<<"d", "l">>), Rel(<<"d", "..">>), Rel(<<"..", "..">>)}
MCTarget == [t \in {"to_f", "up_l", "to_dl"} |->
                CASE t = "to_f" -> Abs(<<"f">>) [] t = "up_l" -> Rel(<<"..", "l">>) [] t = "to_dl" -> Rel(<<"d", "l">>)]
MCIsoTree == [p \in MCTreePaths |-> CASE p = <<"D">> -> "dir" [] p = <<"F">> -> "file"
                                      [] p = <<"L">> -> "to_dl" [] p = <<"D", "L">> -> "up_l"]
=============================================================================
