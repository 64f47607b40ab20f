-------------------------------- MODULE MCMsh --------------------------------
(* A small instance of Msh: the words c, cc and d, a directory with d, dd and
   a hidden name, and a history file with lists, redirections and wildcards. *)
EXTENDS Msh

MCPrograms == {<<"c">>, <<"c", "c">>}
MCDirectory == <<<<".", "d">>, <<"d">>, <<"d", "d">>>>
MCSubDirs == {<<"d", "d">>}
MCExit == <<"e">>
MCCd == <<"k">>
MCStored == {
    <<>>,
    <<<<"c", "|", "|", "c", "&", "&", "c">>, <<"c", ">", "d", ">", ">", "c">>>>,
    <<<<"c", "2", ">", "d", "<", "c">>, <<"k", " ", "*", ">", "c">>, <<"k", " ", "*", ">", "c">>>>,
    <<<<"c", ";", "e", ";", "c">>, <<">", "d", ";", "'", ";", "'">>>>}
MCExtra == {{4}, {3, 4}}
=============================================================================
