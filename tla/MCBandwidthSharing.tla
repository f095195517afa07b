------------------------- MODULE MCBandwidthSharing -------------------------
(* An instance of BandwidthSharing for TLC: idle hosts.                     *)
EXTENDS BandwidthSharing

Idle == {0}

=============================================================================
