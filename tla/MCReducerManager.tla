-------------------------- MODULE MCReducerManager --------------------------
(* An instance of ReducerManager for TLC, on two hosts. *)
EXTENDS ReducerManager

\* A job may have both reducers of a host, and ask for both.
BothOfHost0 == {<<0, 0>>, <<0, 1>>}
FirstOfHost0 == {<<0, 0>>}

=============================================================================
