------------------- MODULE MCWorkConservationFlowHandler -------------------
(* Instances of WorkConservationFlowHandler for TLC, with factors of 0.05.  *)
EXTENDS WorkConservationFlowHandler

\* A rate of 0, one that a guarantee of 40 is sufficient for, and one that it is not.
SomeRates == {0, 1, 21}
SomeGuarantees == {40, 400}
OneGuarantee == {40}

=============================================================================
