----------------------------- MODULE MCFat12Disk -----------------------------
(* Small instances of the FAT12 floppy for TLC. *)
EXTENDS Fat12Disk

\* A name that is a file or a directory, and one in that directory.
MCPaths == {<<"A">>, <<"B">>, <<"B", "A">>}
=============================================================================
