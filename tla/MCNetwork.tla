----------------------------- MODULE MCNetwork -----------------------------
(* Instances of Network for TLC. *)
EXTENDS Network

\* Fat trees of degree 2, 3 (an odd degree leaves ports unused) and 4; BWShareTest.py's
\* single switch with the controller that a clean-up ends and one that it misses.
=============================================================================
