--------------------------- MODULE MCPushVersions ---------------------------
(* Instances of PushVersions for TLC.                                        *)
EXTENDS PushVersions
=============================================================================
