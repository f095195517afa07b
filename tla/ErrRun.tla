------------------------------- MODULE ErrRun -------------------------------
(***************************************************************************)
(* How the programs run other programs and collect what they print:        *)
(* errRun, quietRun, oldQuietRun and errFail of mininet/util.py, popen,    *)
(* pexec and pexecNoWait of mininet/node.py.  The child writes to pipes of *)
(* finite size and waits when one is full; the parent polls them.  What is *)
(* written is only counted.                                                *)
(***************************************************************************)
EXTENDS Naturals, Sequences

CONSTANTS
    PipeSize,    \* what a pipe holds
    ReadSize,    \* what one read of the parent asks for (1024)
    MaxWrites    \* bound on what a child writes

ASSUME PipeAssumption == PipeSize \in Nat \ {0} /\ ReadSize \in Nat \ {0} /\ MaxWrites \in Nat

VARIABLES
    call,    \* the function the parent is in, or "none"
    where,   \* where in it: "poll", "handle", "read", "communicate", "wait", or "none"
    ready,   \* the events of the last poll that were not yet handled
    done,    \* outDone and errDone, as the set of pipes that are done
    polled,  \* the pipes registered with the poller
    got,     \* what the parent has of each pipe
    reading, \* the pipe it reads, or "none"
    have,    \* what the read it is in has got so far
    script,  \* what the child still writes, to which pipe
    wrote,   \* what the child wrote to each pipe
    pipe,    \* what is in each pipe
    child    \* "none", "running", "exited" (a zombie) or "reaped"

parentVars == <<call, where, ready, done, polled, got, reading, have>>
childVars  == <<script, wrote, pipe, child>>
errVars    == <<parentVars, childVars>>

Fds   == {"stdout", "stderr"}
Empty == [fd \in Fds |-> 0]

ErrInit ==
    /\ call = "none" /\ where = "none" /\ ready = {} /\ done = {} /\ polled = {}
    /\ got = Empty /\ reading = "none" /\ have = 0
    /\ script = <<>> /\ wrote = Empty /\ pipe = Empty /\ child = "none"

-----------------------------------------------------------------------------
(* The child: it writes its script, then exits, which closes its ends.  A  *)
(* pipe that holds data is readable; an empty one whose writer is gone is  *)
(* hung up.                                                                *)
ChildWrite ==
    /\ child = "running" /\ script # <<>>
    /\ pipe[Head(script)] < PipeSize
    /\ pipe'   = [pipe EXCEPT ![Head(script)] = @ + 1]
    /\ wrote'  = [wrote EXCEPT ![Head(script)] = @ + 1]
    /\ script' = Tail(script)
    /\ UNCHANGED <<parentVars, child>>

ChildExit ==
    /\ child = "running" /\ script = <<>>
    /\ child' = "exited"
    /\ UNCHANGED <<parentVars, script, wrote, pipe>>

Child == ChildWrite \/ ChildExit

Events(fds) == {<<fd, "in">> : fd \in {f \in fds : pipe[f] > 0}} \union
               {<<fd, "hup">> : fd \in {f \in fds : pipe[f] = 0 /\ child = "exited"}}

-----------------------------------------------------------------------------
(* Popen with the pipes of each function.  stderr=STDOUT gives the child   *)
(* one pipe for both.                                                      *)
Merged(f)  == f \in {"quietRun", "oldQuietRun"}
PipesOf(f) == IF Merged(f) THEN {"stdout"} ELSE Fds

(* A child may write anything to its pipes, in any order. *)
Scripts(f) == UNION {[1 .. n -> PipesOf(f)] : n \in 0 .. MaxWrites}

Start(f, first) ==
    /\ call = "none" /\ child \in {"none", "exited", "reaped"}
    /\ call' = f /\ where' = first
    /\ \E s \in Scripts(f) : script' = s
    /\ child' = "running" /\ wrote' = Empty /\ pipe' = Empty /\ got' = Empty
    /\ done' = Fds \ PipesOf(f) /\ polled' = PipesOf(f) /\ ready' = {}
    /\ UNCHANGED <<reading, have>>

errRun      == Start("errRun", "poll")
quietRun    == Start("quietRun", "poll")
oldQuietRun == Start("oldQuietRun", "poll")
pexec       == Start("pexec", "communicate")

(* popen returns the process at once, and pexecNoWait with it. *)
pexecNoWait ==
    /\ call = "none" /\ child \in {"none", "exited", "reaped"}
    /\ \E s \in Scripts("pexecNoWait") : script' = s
    /\ child' = "running" /\ wrote' = Empty /\ pipe' = Empty /\ got' = Empty
    /\ UNCHANGED <<call, where, ready, done, polled, reading, have>>

-----------------------------------------------------------------------------
(* The loop of errRun and quietRun.  A poll returns events for some pipes, *)
(* handled one after the other.                                            *)
Poll ==
    /\ call \in {"errRun", "quietRun"} /\ where = "poll"
    /\ Events(polled) # {}
    /\ ready' = Events(polled) /\ where' = "handle"
    /\ UNCHANGED <<call, done, polled, got, reading, have, childVars>>

\* Faulty: the loop ends with the first pipe that is done.
EitherDone(d) == d # {}

AllDone(d) == d = Fds

Handled(rest, d) ==
    where' = IF rest # {} THEN "handle" ELSE IF AllDone(d) THEN "wait" ELSE "poll"

(* A readable pipe is read. *)
BeginRead ==
    /\ call \in {"errRun", "quietRun"} /\ where = "handle"
    /\ \E fd \in Fds :
          /\ <<fd, "in">> \in ready
          /\ reading' = fd /\ ready' = ready \ {<<fd, "in">>}
    /\ where' = "read"
    /\ UNCHANGED <<call, done, polled, got, have, childVars>>

(* A pipe that is only hung up is done and no longer polled. *)
HangUp ==
    /\ call \in {"errRun", "quietRun"} /\ where = "handle"
    /\ \E fd \in Fds :
          /\ <<fd, "hup">> \in ready
          /\ done' = done \union {fd} /\ polled' = polled \ {fd}
          /\ ready' = ready \ {<<fd, "hup">>}
    /\ Handled(ready', done')
    /\ UNCHANGED <<call, got, reading, have, childVars>>

(* read( 1024 ) of a file returns so much, or what there is at the end of  *)
(* the pipe: until then it waits, and nobody reads the other pipe.         *)
ReadSome ==
    LET n == IF pipe[reading] < ReadSize - have THEN pipe[reading] ELSE ReadSize - have
    IN  /\ where = "read" /\ n > 0
        /\ pipe' = [pipe EXCEPT ![reading] = @ - n]
        /\ have' = have + n
        /\ UNCHANGED <<call, where, ready, done, polled, got, reading, script, wrote, child>>

ReadEnds == where = "read" /\ (have = ReadSize \/ Events({reading}) = {<<reading, "hup">>})

(* An empty result says that the pipe is done. *)
ReadReturns ==
    /\ ReadEnds /\ call \in {"errRun", "quietRun"}
    /\ got'  = [got EXCEPT ![reading] = @ + have]
    /\ done' = IF have = 0 THEN done \union {reading} ELSE done
    /\ Handled(ready, done')
    /\ have' = 0 /\ reading' = "none"
    /\ UNCHANGED <<call, ready, polled, childVars>>

-----------------------------------------------------------------------------
(* oldQuietRun polls its one pipe, reads, and looks for the end of the     *)
(* child when a read was empty.                                            *)
OldPoll ==
    /\ call = "oldQuietRun" /\ where = "poll" /\ Events({"stdout"}) # {}
    /\ where' = "read" /\ reading' = "stdout"
    /\ UNCHANGED <<call, ready, done, polled, got, have, childVars>>

\* Faulty: the end of the output ends only the inner loop.
GoesOn == FALSE

Returned == have = 0 /\ child = "exited"

OldReadReturns ==
    /\ ReadEnds /\ call = "oldQuietRun"
    /\ got' = [got EXCEPT !["stdout"] = @ + have]
    /\ where'  = IF Returned THEN "wait" ELSE "poll"
    /\ have' = 0 /\ reading' = "none"
    /\ UNCHANGED <<call, ready, done, polled, childVars>>

(* communicate reads from both pipes as they fill. *)
Communicate ==
    /\ where = "communicate"
    /\ \/ /\ \E fd \in Fds :
                /\ pipe[fd] > 0
                /\ got' = [got EXCEPT ![fd] = @ + pipe[fd]] /\ pipe' = [pipe EXCEPT ![fd] = 0]
          /\ UNCHANGED where
       \/ /\ child = "exited" /\ pipe = Empty
          /\ where' = "wait" /\ UNCHANGED <<got, pipe>>
    /\ UNCHANGED <<call, ready, done, polled, reading, have, script, wrote, child>>

(* wait, and the return with what was read. *)
Wait ==
    /\ where = "wait" /\ child = "exited"
    /\ child' = "reaped"
    /\ call' = "none" /\ where' = "none" /\ ready' = {} /\ done' = {} /\ polled' = {}
    /\ UNCHANGED <<got, reading, have, script, wrote, pipe>>

-----------------------------------------------------------------------------
StartCall == errRun \/ quietRun \/ oldQuietRun \/ pexec \/ pexecNoWait
Parent    == \/ Poll \/ BeginRead \/ HangUp \/ ReadSome \/ ReadReturns
             \/ OldPoll \/ OldReadReturns \/ Communicate \/ Wait

-----------------------------------------------------------------------------
(* Properties *)

ErrTypeOK ==
    /\ call \in {"none", "errRun", "quietRun", "oldQuietRun", "pexec"}
    /\ where \in {"none", "poll", "handle", "read", "communicate", "wait"}
    /\ ready \subseteq Fds \X {"in", "hup"} /\ done \subseteq Fds /\ polled \subseteq Fds
    /\ where = "handle" => ready # {}
    /\ (where = "read") <=> (reading \in Fds)
    /\ reading \in Fds \union {"none"} /\ have \in 0 .. ReadSize
    /\ \A fd \in Fds : pipe[fd] \in 0 .. PipeSize /\ wrote[fd] \in 0 .. MaxWrites
    /\ child \in {"none", "running", "exited", "reaped"}

\* A call that has returned has waited for its child and returns all the child wrote to
\* each pipe, whatever the order of writes, polls, reads and the exit, and whatever pipe
\* was seen readable or hung up first (errRun, quietRun, oldQuietRun, pexec).
OutputIsComplete ==
    child = "reaped" => got = wrote /\ pipe = Empty

\* The parent waits for the rest of a read on one pipe and the child for room in the other.
EachWaits ==
    /\ call = "errRun" /\ where = "read" /\ pipe[reading] = 0
    /\ child = "running" /\ script # <<>> /\ Head(script) # reading
    /\ pipe[Head(script)] = PipeSize

\* Every call returns, but for a call of errRun that reads one pipe while the child waits for
\* room in the other one (util.py:133): the parent's read and the child's write then wait for
\* each other for ever.  No other call can end so, however the child writes: quietRun and
\* oldQuietRun give it one pipe for both, communicate reads both.
EveryCallReturns == (call # "none") ~> (call = "none" \/ EachWaits)
=============================================================================
