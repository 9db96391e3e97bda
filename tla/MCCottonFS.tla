----------------------------- MODULE MCCottonFS -----------------------------
(* Small trees, writes and call sets for the runs of CottonFS.             *)
EXTENDS CottonFS

FlatPaths == {<<"d">>, <<"a">>, <<"b">>}
NestedPaths == {<<"d">>, <<"b">>, <<"d", "a">>}
TopFiles == {<<"a">>, <<"b">>}
NestedFiles == {<<"d", "a">>}
BootDirPaths == {<<"d">>}
DirsAtBoot == << <<"d">> >>
FilesAtBoot == << << <<"b">>, << <<0>> >> >> >>
NoFilesAtBoot == <<>>

\* One cell, which as a seek goes to the second block and may leave a hole;
\* two cells.
ShortWrites == {<<3, << <<1>> >> >>, <<0, << <<2>>, <<2>> >> >>}

\* Four cells: as a block number, a block that files own.
AliasWrites == {<<0, << <<1>> >> >>, <<0, [k \in 1 .. 4 |-> <<2>>]>>}
=============================================================================
