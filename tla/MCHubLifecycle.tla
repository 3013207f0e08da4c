--------------------------- MODULE MCHubLifecycle ---------------------------
(* HubLifecycle on the instance of HubLifecycle.cfg. *)
EXTENDS HubLifecycle
=============================================================================
