-------------------------- MODULE MCProjectTCPServer --------------------------
(* Bounds for checking ProjectTCPServer.                                   *)
EXTENDS ProjectTCPServer
=============================================================================
