---------------------------- MODULE MCNodeShell ----------------------------
(* An instance of NodeShell for TLC. *)
EXTENDS NodeShell

\* The kinds of private directory of BandwidthShare.py:310: bound and temporary.
Dirs      == <<"log", "mn">>
BoundDirs == {"log"}
=============================================================================
