-------------------------- MODULE MCNachosSyscalls --------------------------
(* System calls of programs with a small table and a small host, for TLC.  *)
EXTENDS NachosSyscalls

CONSTANTS f, g

TwoFiles == {f, g}

=============================================================================
