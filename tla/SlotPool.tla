------------------------------ MODULE SlotPool ------------------------------
(***************************************************************************)
(* What the scheduler promises about the mapper and reducer slots of the    *)
(* hosts, whatever its threads do: a slot has at most one owner; the jobs   *)
(* are served one after the other, in the order of the work queue; a job    *)
(* gets a mapper and a reducer of different hosts at a time; and a slot is  *)
(* only given back when its owner is over.                                  *)
(*                                                                          *)
(* Abstract specification of handing out and giving back slots in           *)
(* src/MapReducerScheduler/MapReduceScheduler.py; Scheduler implements it.  *)
(***************************************************************************)
EXTENDS Integers

CONSTANTS Slots,    \* pairs of a host and an index
          Jobs,     \* the places of the work queue: natural numbers, in order
          NoOwner   \* the owner of a free slot, which is no job

VARIABLES mapperOwner,   \* the job a mapper slot belongs to
          reducerOwner,  \* the job a reducer slot belongs to
          phase          \* "waiting" for slots, "running" or "over", for each job

poolVars == <<mapperOwner, reducerOwner, phase>>

PoolInit ==
    /\ mapperOwner = [s \in Slots |-> NoOwner]
    /\ reducerOwner = [s \in Slots |-> NoOwner]
    /\ phase = [k \in Jobs |-> "waiting"]

\* Every job before k has got its slots: it is the turn of k.
Turn(k) ==
    /\ phase[k] = "waiting"
    /\ \A j \in Jobs : j < k => phase[j] # "waiting"

Acquire(k, m, r) ==
    /\ Turn(k)
    /\ mapperOwner[m] = NoOwner
    /\ reducerOwner[r] = NoOwner
    /\ m[1] # r[1]
    /\ mapperOwner' = [mapperOwner EXCEPT ![m] = k]
    /\ reducerOwner' = [reducerOwner EXCEPT ![r] = k]
    /\ UNCHANGED phase

Begin(k) ==
    /\ Turn(k)
    /\ \E m \in Slots : mapperOwner[m] = k
    /\ phase' = [phase EXCEPT ![k] = "running"]
    /\ UNCHANGED <<mapperOwner, reducerOwner>>

End(k) ==
    /\ phase[k] = "running"
    /\ phase' = [phase EXCEPT ![k] = "over"]
    /\ UNCHANGED <<mapperOwner, reducerOwner>>

ReleaseMapper(m) ==
    /\ mapperOwner[m] \in {k \in Jobs : phase[k] = "over"}
    /\ mapperOwner' = [mapperOwner EXCEPT ![m] = NoOwner]
    /\ UNCHANGED <<reducerOwner, phase>>

ReleaseReducer(r) ==
    /\ reducerOwner[r] \in {k \in Jobs : phase[k] = "over"}
    /\ reducerOwner' = [reducerOwner EXCEPT ![r] = NoOwner]
    /\ UNCHANGED <<mapperOwner, phase>>

PoolNext ==
    \/ \E k \in Jobs, m, r \in Slots : Acquire(k, m, r)
    \/ \E k \in Jobs : Begin(k) \/ End(k)
    \/ \E s \in Slots : ReleaseMapper(s) \/ ReleaseReducer(s)

PoolSpec == PoolInit /\ [][PoolNext]_poolVars

=============================================================================
