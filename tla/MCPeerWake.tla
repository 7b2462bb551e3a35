----------------------------- MODULE MCPeerWake -----------------------------
EXTENDS PeerWake
=============================================================================
