--------------------------- MODULE MCTrafficLoop ---------------------------
(* A client and a server.                                                  *)
EXTENDS TrafficLoop

Both == {"client", "server"}
Client == {"client"}
=============================================================================
