----------------------- MODULE MCHostBandwidthHandler -----------------------
(* Instances of HostBandwidthHandler for TLC.                               *)
EXTENDS HostBandwidthHandler

IdleOrBusy == {0, 8}

\* With a share of 3, modulo 64, a host that demands 51 seems to have 16 to spare, or 13 if its
\* delta was computed before the share: two such deltas add up to 32, which is -32, or to 29.
BusyOrBusier == {8, 51}

=============================================================================
