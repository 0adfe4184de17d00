---------------------------- MODULE MCClientTree ----------------------------
(* The instance of ClientTree that TLC checks.                             *)
EXTENDS ClientTree

Ids == 1 .. 10
=============================================================================
