---------------------------- MODULE MCScheduler ----------------------------
(* Instances of Scheduler for TLC: small work files over 3 hosts.           *)
EXTENDS Scheduler

Line(job, input, reduce) == [job |-> job, inputBytes |-> input, reduceBytes |-> reduce]

\* Three jobs that need 1, 3 and 1 hosts: the first two take all 4 reducers that are looked
\* at, and the third waits; the second needs every host and may find no last pair.  The file
\* also has lines that admit no job: empty, nothing to reduce, more hosts needed than there
\* are, and one behind the limit of the test.
Contention ==
    <<Line("a", 1, 1), EmptyLine, Line("b", 6, 2), Line("z", 1, 0), Line("y", 9, 5),
      Line("c", 0, 3), Line("z", 1, 1)>>

\* A job that needs all three hosts, behind one that has half of the reducers.
EveryHost == <<Line("a", 3, 1), Line("b", 5, 2)>>

\* Two jobs of one name.
SameName == <<Line("a", 0, 4), Line("a", 3, 5)>>

\* Jobs that all reduce as many bytes; one job only; no job at all.
SameSize == <<Line("a", 1, 4), Line("b", 1, 4)>>
OneJob == <<Line("a", 4, 4)>>
NoJobs == <<Line("z", 1, 0)>>

ThreeHostFiles == {Contention, EveryHost, SameName, SameSize, OneJob, NoJobs}

=============================================================================
