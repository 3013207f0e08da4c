----------------------------- MODULE MCHubMesh ------------------------------
(* HubMesh on the instance of HubMesh.cfg. *)
EXTENDS HubMesh
=============================================================================
