-------------------------- MODULE MCRelayLifecycle --------------------------
(* Instances of RelayLifecycle for TLC: delays in tenths of a second, with  *)
(* the default interval of 2 s and the default cap of 60 s.                 *)
EXTENDS RelayLifecycle
=============================================================================
