---------------------------- MODULE MCFileTools ----------------------------
(***************************************************************************)
(* The file programs for TLC.                                              *)
(***************************************************************************)
EXTENDS FileTools, TLC

(* The first line is empty, and the last has no newline.                   *)
SomeTexts  == {<<"LF", "a", "LF", "b">>}
PlainTexts == {<<"a", "LF", "b", "LF">>}
SomeModes  == {{"S_IRUSR", "S_IWUSR", "S_IXUSR", "S_IXGRP", "S_IWGRP"}}
SomeOctals == {{"S_ISVTX", "S_ISUID", "S_IWGRP"}}

Alike == Permutations(Procs)
=============================================================================
