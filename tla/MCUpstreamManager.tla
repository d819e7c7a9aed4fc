-------------------------- MODULE MCUpstreamManager --------------------------
EXTENDS UpstreamManager
=============================================================================
