-------------------------- MODULE BandwidthSharing --------------------------
(***************************************************************************)
(* The BGAdaptor (HostBandwidthHandler) and the WCEnablers of its hosts     *)
(* (WCEnabler) together, as src/MapReducerScheduler/BandwidthShare.py       *)
(* starts them, over a network that loses datagrams: from the first report  *)
(* of a host to the queues that enforce its share.  Allocation is static,   *)
(* so that what the hosts report plays no part, and they are left idle.     *)
(***************************************************************************)
EXTENDS HostBandwidthHandler

VARIABLES
    incomingPc, bandwidthGuarantee, parts, ceil, sent, calcPc, counters, last,
    bandwidthGuaranteeRate, workConservingRate, totalRate, outgoingPc, reported,
    toHost      \* the guarantee that is on its way to each host, or what became of it

agentVars == <<incomingPc, bandwidthGuarantee, parts, ceil, sent, calcPc, counters, last,
               bandwidthGuaranteeRate, workConservingRate, totalRate, outgoingPc, reported>>
sharingVars == <<vars, agentVars, toHost>>

Agent == INSTANCE WCEnabler WITH
    Agents <- Hosts, Guarantees <- 0 .. TotalBandwidth, MaxBytes <- 0

Lost == -2

SharingInit ==
    /\ Init /\ Agent!Init
    /\ toHost = [h \in Hosts |-> Nothing]

\* A host sends its rate again and again, so that the last one it sent may arrive at any time.
Hear(h) ==
    /\ reported[h] # Nothing
    /\ Receive(h) /\ report'.demand = reported[h]
    /\ UNCHANGED <<agentVars, toHost>>

\* Where SendTo is what the send thread does next.
AtSendTo == sendPc = "send" \/ (sendPc = "next" /\ phase = "send" /\ todo # {})

Tell ==
    /\ SendTo
    /\ \E arrives \in BOOLEAN : toHost' = [toHost EXCEPT ![host] =
          IF host \notin address THEN @ ELSE IF arrives THEN guarantee[host] ELSE Lost]
    /\ UNCHANGED agentVars

AdaptorSends == Tell \/ (~AtSendTo /\ Send /\ UNCHANGED <<agentVars, toHost>>)
AdaptorReceives == Recv /\ UNCHANGED <<agentVars, toHost>>
AdaptorStarts == Main /\ UNCHANGED <<agentVars, toHost>>

Deliver(h) ==
    /\ toHost[h] >= 0
    /\ Agent!Receive(h, toHost[h])
    /\ toHost' = [toHost EXCEPT ![h] = Nothing]
    /\ UNCHANGED vars

\* But for the calculating thread, which would measure an idle host.
AgentRuns(h) ==
    /\ Agent!Start(h) \/ Agent!Queues(h) \/ Agent!Send(h)
    /\ UNCHANGED <<vars, calcPc, toHost>>

SharingNext ==
    \/ AdaptorStarts \/ AdaptorReceives \/ AdaptorSends
    \/ \E h \in Hosts : Hear(h) \/ Deliver(h) \/ AgentRuns(h)

\* The threads are scheduled, of the reports of a host not all are lost, and a datagram that
\* is not lost arrives.
SharingSpec ==
    /\ SharingInit /\ [][SharingNext]_sharingVars
    /\ WF_sharingVars(AdaptorStarts)
    /\ WF_sharingVars(AdaptorReceives)
    /\ WF_sharingVars(AdaptorSends)
    /\ \A h \in Hosts :
          /\ SF_sharingVars(Hear(h))
          /\ WF_sharingVars(Deliver(h))
          /\ WF_sharingVars(AgentRuns(h))

-----------------------------------------------------------------------------
(* Properties.                                                              *)

AllThreadsStart ==
    /\ recvPc # "exited"
    /\ \A h \in Hosts : incomingPc[h] # "exited" /\ outgoingPc[h] # "exited"

\* Nobody is limited unless all are known: queues of a host enforce nothing before every
\* host of the tenant has reported, and then what hosts are told is an equal share, and what
\* they enforce fits the tenant, however reports interleave with the sharing.
LimitsNeedEveryHost ==
    /\ \A h \in Hosts : told[h] \in {Nothing, TotalBandwidth \div NumberOfHosts}
    /\ \A h \in Hosts : ceil[h] # 0 =>
          bandwidthMap = Hosts /\ SumFunction(ceil) <= TotalBandwidth

\* The adaptor stops waiting: once every host has come up it begins to hand out shares,
\* though it waits for an exact number of hosts and reports are lost.
StartsOnceAllReport == []AllThreadsStart => <>(phase # "wait")

\* A host whose datagram is not lost comes to enforce its share, which is sent once.
ToldHostsEnforce == \A h \in Hosts :
    [](AllThreadsStart /\ toHost[h] # Lost) =>
        (told[h] > 0 ~> ceil[h] = TotalBandwidth \div NumberOfHosts)

=============================================================================
