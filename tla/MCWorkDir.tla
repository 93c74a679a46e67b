----------------------------- MODULE MCWorkDir -----------------------------
(* WorkDir for TLC: a file or directory, one below it, one named with ".", *)
(* and two that are rejected.                                              *)
EXTENDS WorkDir

SamplePaths == {<<"a">>, <<"a", "b">>, <<".", "b">>, <<".">>, <<"..", "a">>}

=============================================================================
