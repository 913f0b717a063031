-------------------------- MODULE MCOpenTaskUsers --------------------------
(* Small instances of OpenTaskUsers: three or four users and four calls.      *)
EXTENDS OpenTaskUsers
=============================================================================
