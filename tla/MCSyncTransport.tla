-------------------------- MODULE MCSyncTransport ---------------------------
(* SyncTransport on a few devices, interchangeable.                        *)
EXTENDS SyncTransport, TLC

CONSTANTS d1, d2, d3

=============================================================================
