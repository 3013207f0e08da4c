---------------------------- MODULE MCTunnelMesh ----------------------------
EXTENDS TunnelMesh
=============================================================================
