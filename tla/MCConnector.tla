----------------------------- MODULE MCConnector -----------------------------
(* One thread besides the owner's is enough for a call to be half made while *)
(* the loop goes on; three calls, so that one can connect, stop and connect. *)
EXTENDS Connector
MCRetryCounts == {-1, 1}
==============================================================================
