----------------------------- MODULE MCTestRun -----------------------------
(* An instance of TestRun for TLC. *)
EXTENDS TestRun

\* One client, or one on either host.
C1 == [host |-> "h1", port |-> 5001]
C2 == [host |-> "h2", port |-> 5002]
ClientSets == {{C1}, {C1, C2}}

\* job1 and job12, job1 and job2, and a file with one job.
Files == {<<<<1>>, <<1, 2>>>>, <<<<2>>, <<1>>>>, <<<<1>>>>}
\* Two programs share the directory that is kept tidy; the first may die.
Names == {"plain/", "nested/", "plain"}
Runs  == [d \in Names |-> IF d = "plain/" THEN 2 ELSE 1]
=============================================================================
