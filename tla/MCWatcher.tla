------------------------------ MODULE MCWatcher ------------------------------
(***************************************************************************)
(* A project with a source directory that may be moved, a nested one, an   *)
(* ignored one and contextd's own, all of them under the watched root.     *)
(***************************************************************************)
EXTENDS Watcher, TLC

MCRoot == <<"r">>
MCDirs == {MCRoot, <<"r", "s">>, <<"r", "s", "t">>, <<"r", "x">>, <<"r", "x", "t">>,
           <<"r", "own">>}
MCFiles == {<<"r", "x", "m">>, <<"r", "own", "db">>}
MCOwn == {<<"r", "own">>, <<"r", "own", "db">>}
MCDb  == <<"r", "own", "db">>

=============================================================================
