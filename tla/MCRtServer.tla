----------------------------- MODULE MCRtServer -----------------------------
(* The RT server with the bounds its configurations give.                  *)
EXTENDS RtServer
=============================================================================
