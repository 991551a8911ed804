-------------------------- MODULE MCHeartbeatGate --------------------------
\* HeartbeatGate for TLC.
EXTENDS HeartbeatGate
=============================================================================
