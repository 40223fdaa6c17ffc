-------------------------- MODULE MCRemoteDesktop --------------------------
(* The instance of RemoteDesktop: every kind of server. *)
EXTENDS RemoteDesktop

EveryBackend == AllBackends
=============================================================================
