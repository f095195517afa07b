----------------------------- MODULE WCEnabler -----------------------------
(***************************************************************************)
(* The WCEnabler on a host, but for its flow handler: the two threads of    *)
(* src/WCEnabler/BandwidthCommunicator.cpp, of which one has a guarantee    *)
(* enforced that the BGAdaptor sends and the other reports the rate of the  *)
(* host; the queues of the kernel that TCControl.cpp replaces; and the      *)
(* thread of BandwidthCalculator.cpp that makes rates of their counters.    *)
(* The counters start again whenever the queues are replaced, and a rate is *)
(* an unsigned difference.                                                  *)
(***************************************************************************)
EXTENDS Integers

CONSTANTS
    Agents,         \* the hosts
    Guarantees,     \* the guarantees that the BGAdaptor sends
    Word,           \* the number of values of an unsigned integer: 2^32
    MaxBytes        \* what a class of a queue is looked at to send before it is replaced

ASSUME AgentAssumption ==
    /\ Guarantees \subseteq Nat
    /\ MaxBytes \in Nat /\ Word \in Nat /\ Word > 2 * MaxBytes

VARIABLES
    incomingPc, bandwidthGuarantee,     \* the receiving thread, and what it stores
    parts, ceil,                    \* the queues: what there is of them, and the rate of 1:11
    sent,                           \* the counters of the classes 1:11 and 1:12
    calcPc, counters, last,         \* the calculating thread, and what its calculators keep
    bandwidthGuaranteeRate, workConservingRate, totalRate,
    outgoingPc, reported                \* the sending thread, and the rate it last sent

incomingVars == <<incomingPc, bandwidthGuarantee>>
queueVars == <<parts, ceil, sent>>
rateVars == <<bandwidthGuaranteeRate, workConservingRate, totalRate>>
calcVars == <<calcPc, counters, last, rateVars>>
outgoingVars == <<outgoingPc, reported>>
vars == <<incomingVars, queueVars, calcVars, outgoingVars>>

Nothing == -1

\* The classes for guaranteed and for work conserving traffic, under one for the link.
Classes == {"1:11", "1:12"}
Parts == {"root", "1:1", "filters"} \cup Classes

NoBytes == [c \in Classes |-> 0]

\* The queues that the host has had from its link before are none of the above.
Init ==
    /\ incomingPc = [a \in Agents |-> "start"] /\ bandwidthGuarantee = [a \in Agents |-> 0]
    /\ parts = [a \in Agents |-> {}] /\ ceil = [a \in Agents |-> 0]
    /\ sent = [a \in Agents |-> NoBytes]
    /\ calcPc = [a \in Agents |-> "start"]
    /\ counters = [a \in Agents |-> NoBytes] /\ last = [a \in Agents |-> NoBytes]
    /\ bandwidthGuaranteeRate = [a \in Agents |-> 0]
    /\ workConservingRate = [a \in Agents |-> 0] /\ totalRate = [a \in Agents |-> 0]
    /\ outgoingPc = [a \in Agents |-> "start"] /\ reported = [a \in Agents |-> Nothing]

\* A thread ends if it looks at its flag before startDetachedThread has raised it.
Start(a) ==
    \/ /\ incomingPc[a] = "start"
       /\ \E pc \in {"receive", "exited"} : incomingPc' = [incomingPc EXCEPT ![a] = pc]
       /\ UNCHANGED <<bandwidthGuarantee, queueVars, calcVars, outgoingVars>>
    \/ /\ calcPc[a] = "start"
       /\ \E pc \in {"show", "exited"} : calcPc' = [calcPc EXCEPT ![a] = pc]
       /\ UNCHANGED <<incomingVars, queueVars, counters, last, rateVars, outgoingVars>>
    \/ /\ outgoingPc[a] = "start"
       /\ \E pc \in {"send", "exited"} : outgoingPc' = [outgoingPc EXCEPT ![a] = pc]
       /\ UNCHANGED <<incomingVars, queueVars, calcVars, reported>>

-----------------------------------------------------------------------------
(* The receiving thread, and the queues.                                    *)

\* The guarantee is stored before it is enforced; one that is stored already is left alone.
\* Nobody but the adaptor sends to the host, so its address is overwritten with itself.
Receive(a, guarantee) ==
    /\ incomingPc[a] = "receive"
    /\ incomingPc' = [incomingPc EXCEPT ![a] =
          IF guarantee = bandwidthGuarantee[a] THEN "receive" ELSE "clear"]
    /\ bandwidthGuarantee' = [bandwidthGuarantee EXCEPT ![a] = guarantee]
    /\ UNCHANGED <<queueVars, calcVars, outgoingVars>>

\* Faulty: the queues of before stay.
NotCleared(a) == parts[a]

\* Deleting the root deletes everything.
Cleared(a) == {}

\* clearTCCommands
Clear(a) ==
    /\ incomingPc[a] = "clear" /\ incomingPc' = [incomingPc EXCEPT ![a] = "root"]
    /\ parts' = [parts EXCEPT ![a] = Cleared(a)]
    /\ UNCHANGED <<bandwidthGuarantee, ceil, sent, calcVars, outgoingVars>>

\* Faulty: the classes are added before the class above them.
ClassesFirst == [part \in Parts |->
    CASE part = "root" -> "1:11" [] part = "1:11" -> "1:12" [] part = "1:12" -> "1:1"
      [] part = "1:1" -> "filters" [] part = "filters" -> "receive"]

\* The commands of setEgressBandwidth in their order, the filters as one.
After == [part \in Parts |->
    CASE part = "root" -> "1:1" [] part = "1:1" -> "1:11" [] part = "1:11" -> "1:12"
      [] part = "1:12" -> "filters" [] part = "filters" -> "receive"]

ParentsOf == [part \in Parts |->
    CASE part = "root" -> {} [] part \in {"1:1", "filters"} -> {"root"}
      [] part \in Classes -> {"1:1"}]

\* tc adds nothing that there is, nothing to what there is not, and no class with a rate of 0.
TcAdds(a, part) ==
    /\ part \notin parts[a] /\ ParentsOf[part] \subseteq parts[a]
    /\ part = "1:11" => bandwidthGuarantee[a] # 0

\* setEgressBandwidth, which does not look at what became of a command.
Add(a) ==
    /\ incomingPc[a] \in Parts
    /\ incomingPc' = [incomingPc EXCEPT ![a] = After[incomingPc[a]]]
    /\ IF TcAdds(a, incomingPc[a])
       THEN /\ parts' = [parts EXCEPT ![a] = @ \cup {incomingPc[a]}]
            /\ ceil' = [ceil EXCEPT ![a] =
                  IF incomingPc[a] = "1:11" THEN bandwidthGuarantee[a] ELSE @]
            /\ sent' = [sent EXCEPT ![a] =
                  [c \in Classes |-> IF c = incomingPc[a] THEN 0 ELSE @[c]]]
       ELSE UNCHANGED queueVars
    /\ UNCHANGED <<bandwidthGuarantee, calcVars, outgoingVars>>

\* Without filters everything goes to 1:11.
Transmit(a) ==
    /\ \E c \in Classes \cap parts[a] :
          /\ c = "1:12" => "filters" \in parts[a]
          /\ sent[a][c] < MaxBytes
          /\ sent' = [sent EXCEPT ![a][c] = @ + 1]
    /\ UNCHANGED <<incomingVars, parts, ceil, calcVars, outgoingVars>>

-----------------------------------------------------------------------------
(* The calculating thread.                                                  *)

\* The output of tc -s class show is too short to be parsed unless it has all three classes.
Show(a) ==
    /\ calcPc[a] = "show"
    /\ {"1:1"} \cup Classes \subseteq parts[a]
    /\ calcPc' = [calcPc EXCEPT ![a] = "guaranteed"]
    /\ counters' = [counters EXCEPT ![a] = sent[a]]
    /\ UNCHANGED <<incomingVars, queueVars, last, rateVars, outgoingVars>>

DataDelta(a, c) == (counters[a][c] - last[a][c]) % Word

\* SimpleRateCalculation, dt seconds after the last time.  The rate goes through a float, of
\* which only this is kept: the highest value is rounded to 2^32, which is no unsigned
\* integer; the build may make 0 of it.
Rates(a, c, dt) ==
    LET rate == DataDelta(a, c) \div dt IN {rate} \cup (IF rate = Word - 1 THEN {0} ELSE {})

\* Faulty: the last value is not set back with the counter.
HighestValue(a, c) == IF counters[a][c] > last[a][c] THEN counters[a][c] ELSE last[a][c]

LastValue(a, c) == counters[a][c]

\* calculateRate for one class after the other, with a time in seconds whose difference
\* counts as 1 if it is 0, and then the total.
Calculate(a) ==
    /\ UNCHANGED <<incomingVars, queueVars, counters, outgoingVars>>
    /\ \/ /\ calcPc[a] = "guaranteed" /\ calcPc' = [calcPc EXCEPT ![a] = "conserving"]
          /\ \E dt \in {1, 2} : \E rate \in Rates(a, "1:11", dt) :
                bandwidthGuaranteeRate' = [bandwidthGuaranteeRate EXCEPT ![a] = rate]
          /\ last' = [last EXCEPT ![a]["1:11"] = LastValue(a, "1:11")]
          /\ UNCHANGED <<workConservingRate, totalRate>>
       \/ /\ calcPc[a] = "conserving" /\ calcPc' = [calcPc EXCEPT ![a] = "total"]
          /\ \E dt \in {1, 2} : \E rate \in Rates(a, "1:12", dt) :
                workConservingRate' = [workConservingRate EXCEPT ![a] = rate]
          /\ last' = [last EXCEPT ![a]["1:12"] = LastValue(a, "1:12")]
          /\ UNCHANGED <<bandwidthGuaranteeRate, totalRate>>
       \/ /\ calcPc[a] = "total" /\ calcPc' = [calcPc EXCEPT ![a] = "show"]
          /\ totalRate' = [totalRate EXCEPT ![a] =
                (bandwidthGuaranteeRate[a] + workConservingRate[a]) % Word]
          /\ UNCHANGED <<last, bandwidthGuaranteeRate, workConservingRate>>

-----------------------------------------------------------------------------
(* The sending thread.                                                      *)

Send(a) ==
    /\ outgoingPc[a] = "send"
    /\ reported' = [reported EXCEPT ![a] = totalRate[a]]
    /\ UNCHANGED <<incomingVars, queueVars, calcVars, outgoingPc>>

-----------------------------------------------------------------------------

Queues(a) == Clear(a) \/ Add(a)
Calculator(a) == Show(a) \/ Calculate(a)

Next == \E a \in Agents :
    \/ Start(a) \/ Queues(a) \/ Transmit(a) \/ Calculator(a) \/ Send(a)
    \/ \E g \in Guarantees : Receive(a, g)

Spec == Init /\ [][Next]_vars

\* The threads are scheduled and their commands end.
AgentsRun == \A a \in Agents :
    WF_vars(Start(a)) /\ WF_vars(Queues(a)) /\ WF_vars(Calculator(a)) /\ WF_vars(Send(a))

FairSpec == Spec /\ AgentsRun

-----------------------------------------------------------------------------
(* Properties.                                                              *)

TypeOK ==
    /\ incomingPc \in [Agents -> {"start", "receive", "clear", "exited"} \cup Parts]
    /\ bandwidthGuarantee \in [Agents -> Guarantees \cup {0}]
    /\ parts \in [Agents -> SUBSET Parts] /\ ceil \in [Agents -> Guarantees \cup {0}]
    /\ sent \in [Agents -> [Classes -> 0 .. MaxBytes]]
    /\ calcPc \in [Agents -> {"start", "show", "guaranteed", "conserving", "total", "exited"}]
    /\ counters \in [Agents -> [Classes -> 0 .. MaxBytes]]
    /\ last \in [Agents -> [Classes -> 0 .. MaxBytes]]
    /\ bandwidthGuaranteeRate \in [Agents -> 0 .. Word - 1]
    /\ workConservingRate \in [Agents -> 0 .. Word - 1] /\ totalRate \in [Agents -> 0 .. Word - 1]
    /\ outgoingPc \in [Agents -> {"start", "send", "exited"}]
    /\ reported \in [Agents -> {Nothing} \cup 0 .. Word - 1]

\* While the receiving thread waits, the queues are complete and enforce the guarantee that
\* it has stored, unless that is 0, through any sequence of guarantees: what is stored and
\* not enforced would never be, since an equal guarantee is left alone.
QueuesEnforceTheGuarantee == \A a \in Agents :
    incomingPc[a] = "receive" /\ bandwidthGuarantee[a] # 0 =>
        parts[a] = Parts /\ ceil[a] = bandwidthGuarantee[a]

\* Once the guarantees have settled on one that is not 0, the host comes to report what its
\* classes have really sent: the enormous rate that is measured when the counters start
\* again under the calculating thread is gone a pass later.
SpikesPass == \A a \in Agents :
    <>[](incomingPc[a] = "receive" /\ bandwidthGuarantee[a] # 0)
        => <>[](reported[a] <= 2 * MaxBytes)

=============================================================================
