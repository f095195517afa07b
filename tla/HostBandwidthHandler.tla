------------------------ MODULE HostBandwidthHandler ------------------------
(***************************************************************************)
(* The two threads of src/BGAdaptor/HostBandwidthHandler.cpp.  One receives *)
(* the demand of each host; the other waits for all hosts, gives each an    *)
(* equal share as its guarantee, and then, if allocation is dynamic, moves  *)
(* bandwidth from the hosts that demand less to those that demand more.     *)
(* They share the atomic fields of BandwidthGuaranteeHost and no lock.      *)
(***************************************************************************)
EXTENDS Integers, FiniteSets, FiniteSetsExt, Functions

CONSTANTS
    NumberOfHosts,
    TotalBandwidth,
    DynamicAllocation,  \* BOOLEAN
    Demands,            \* the rates that hosts report
    SafetyFactor,       \* what a host has to spare to be a donor: 1000
    Word,               \* the number of values of an unsigned integer: 2^32
    MaxRounds           \* the rounds of the dynamic allocation that are looked at

ASSUME HandlerAssumption ==
    /\ NumberOfHosts \in Nat \ {0} /\ TotalBandwidth \in Nat \ {0}
    /\ DynamicAllocation \in BOOLEAN
    /\ SafetyFactor \in Nat /\ MaxRounds \in Nat
    /\ Word \in Nat /\ Word % 2 = 0 /\ Word > TotalBandwidth
    /\ Demands \subseteq 0 .. Word - 1

\* The hosts in the order of their addresses, which is that of the map.
Hosts == 1 .. NumberOfHosts

VARIABLES
    bandwidthMap,               \* the hosts that are in the map
    address,                    \* those whose address is set
    demand, guarantee, delta,
    incomingRunning, outgoingRunning,
    mainPc,                     \* what the constructor does next
    recvPc, report, recvLoaded, \* the receive thread, its report and the guarantee it loaded
    sendPc, todo, sendLoaded,   \* the send thread, the hosts to come and the demand it loaded
                                \* (what was loaded is forgotten after its last use)
    phase,                      \* the loop that it is in
    donors, receivers, contribution, perHostDonation, rounds,
    told                        \* the guarantee last sent to each host

hostVars == <<bandwidthMap, address, demand, guarantee, delta>>
mainVars == <<incomingRunning, outgoingRunning, mainPc>>
recvVars == <<recvPc, report, recvLoaded>>
roundVars == <<donors, receivers, contribution, perHostDonation, rounds>>
sendVars == <<sendPc, todo, sendLoaded, phase, roundVars, told>>
vars == <<hostVars, mainVars, recvVars, sendVars>>

Nothing == -1

\* A sum or difference of unsigned integers, and static_cast< int > of one.
Unsigned(i) == i % Word
Signed(w) == IF w >= Word \div 2 THEN w - Word ELSE w

\* The fields of a host get their values when it is put into the map; its delta and its
\* address are not initialised even then, and neither is read before it is set, but for
\* the address in SendTo.
Init ==
    /\ bandwidthMap = {} /\ address = {}
    /\ demand = [h \in Hosts |-> 0] /\ guarantee = [h \in Hosts |-> 0]
    /\ delta = [h \in Hosts |-> 0]
    /\ incomingRunning = FALSE /\ outgoingRunning = FALSE
    /\ mainPc = "createReceive"
    /\ recvPc = "none" /\ report = [host |-> 1, demand |-> 0] /\ recvLoaded = 0
    /\ sendPc = "none" /\ phase = "wait" /\ todo = {} /\ sendLoaded = 0
    /\ donors = {} /\ receivers = {} /\ contribution = 0 /\ perHostDonation = 0 /\ rounds = 0
    /\ told = [h \in Hosts |-> Nothing]

-----------------------------------------------------------------------------
(* The constructor.  A thread runs from pthread_create on, and its flag is  *)
(* raised only after that.                                                  *)

CreateReceive ==
    /\ mainPc = "createReceive" /\ mainPc' = "flagReceive"
    /\ recvPc' = "check"
    /\ UNCHANGED <<hostVars, incomingRunning, outgoingRunning, report, recvLoaded, sendVars>>

FlagReceive ==
    /\ mainPc = "flagReceive" /\ mainPc' = "createSend"
    /\ incomingRunning' = TRUE
    /\ UNCHANGED <<hostVars, outgoingRunning, recvVars, sendVars>>

CreateSend ==
    /\ mainPc = "createSend" /\ mainPc' = "flagSend"
    /\ sendPc' = "next"
    /\ UNCHANGED <<hostVars, incomingRunning, outgoingRunning, recvVars, phase, todo,
                   sendLoaded, roundVars, told>>

FlagSend ==
    /\ mainPc = "flagSend" /\ mainPc' = "done"
    /\ outgoingRunning' = TRUE
    /\ UNCHANGED <<hostVars, incomingRunning, recvVars, sendVars>>

Main == CreateReceive \/ FlagReceive \/ CreateSend \/ FlagSend

-----------------------------------------------------------------------------
(* The receive thread.                                                      *)

CheckIncoming ==
    /\ recvPc = "check"
    /\ recvPc' = IF incomingRunning THEN "receive" ELSE "exited"
    /\ UNCHANGED <<hostVars, mainVars, report, recvLoaded, sendVars>>

\* Reports may be lost: any host may be the next that is heard.
Receive(h) ==
    /\ recvPc = "receive" /\ recvPc' = "address"
    /\ \E d \in Demands : report' = [host |-> h, demand |-> d]
    /\ bandwidthMap' = bandwidthMap \cup {h}
    /\ UNCHANGED <<address, demand, guarantee, delta, mainVars, recvLoaded, sendVars>>

SetAddress ==
    /\ recvPc = "address" /\ recvPc' = "demand"
    /\ address' = address \cup {report.host}
    /\ UNCHANGED <<bandwidthMap, demand, guarantee, delta, mainVars, report, recvLoaded, sendVars>>

SetDemand ==
    /\ recvPc = "demand" /\ recvPc' = "load"
    /\ demand' = [demand EXCEPT ![report.host] = report.demand]
    /\ UNCHANGED <<bandwidthMap, address, guarantee, delta, mainVars, report, recvLoaded, sendVars>>

LoadGuarantee ==
    /\ recvPc = "load" /\ recvPc' = "delta"
    /\ recvLoaded' = guarantee[report.host]
    /\ UNCHANGED <<hostVars, mainVars, report, sendVars>>

\* calculateDelta, with the guarantee that was loaded, which may have changed since.
RecvDelta ==
    /\ recvPc = "delta" /\ recvPc' = "check"
    /\ delta' = [delta EXCEPT ![report.host] = Signed(Unsigned(recvLoaded - report.demand))]
    /\ recvLoaded' = 0
    /\ UNCHANGED <<bandwidthMap, address, demand, guarantee, mainVars, report, sendVars>>

Recv == CheckIncoming \/ SetAddress \/ SetDemand \/ LoadGuarantee \/ RecvDelta

-----------------------------------------------------------------------------
(* The send thread goes from phase to phase; within one it visits the hosts *)
(* in todo, in the order of the map.                                        *)

host == Min(todo)

\* setGuarantee and calculateDelta, with the demand that was loaded.
LoadDemand ==
    /\ sendPc = "load" /\ sendPc' = "delta"
    /\ sendLoaded' = demand[host]
    /\ UNCHANGED <<hostVars, mainVars, recvVars, phase, todo, roundVars, told>>

SendDelta ==
    /\ sendPc = "delta"
    /\ delta' = [delta EXCEPT ![host] = Signed(Unsigned(guarantee[host] - sendLoaded))]
    /\ IF phase = "share" THEN sendPc' = "send" /\ todo' = todo
                          ELSE sendPc' = "next" /\ todo' = todo \ {host}
    /\ sendLoaded' = 0
    /\ UNCHANGED <<bandwidthMap, address, demand, guarantee, mainVars, recvVars, phase,
                   roundVars, told>>

SetGuarantee(g) ==
    /\ guarantee' = [guarantee EXCEPT ![host] = Unsigned(g)]
    /\ sendPc' = "load"
    /\ UNCHANGED <<bandwidthMap, address, demand, delta, mainVars, recvVars, sendLoaded, phase,
                   todo, roundVars, told>>

\* sendto, which misses a host whose address is not set yet.
SendTo ==
    /\ sendPc = "send" \/ (sendPc = "next" /\ phase = "send" /\ todo # {})
    /\ told' = IF host \in address THEN [told EXCEPT ![host] = guarantee[host]] ELSE told
    /\ todo' = todo \ {host}
    /\ sendPc' = "next"
    /\ UNCHANGED <<hostVars, mainVars, recvVars, sendLoaded, phase, roundVars>>

Goto(p, hosts) ==
    /\ phase' = p /\ todo' = hosts
    /\ UNCHANGED <<hostVars, mainVars, recvVars, sendPc, sendLoaded, told>>

\* Faulty: the host of the adaptor is waited for, too.
OneHostTooMany == Cardinality(bandwidthMap) = NumberOfHosts + 1

\* Faulty: some hosts are enough.
GotHosts == bandwidthMap # {}

GotAllHosts == Cardinality(bandwidthMap) = NumberOfHosts

Wait ==
    /\ sendPc = "next" /\ phase = "wait"
    /\ GotAllHosts
    /\ Goto("share", bandwidthMap)
    /\ UNCHANGED roundVars

\* Faulty: rounded up.
RoundedUp == (TotalBandwidth \div Cardinality(bandwidthMap)) + 1

Share == TotalBandwidth \div Cardinality(bandwidthMap)

CalculateHostBandwidth ==
    /\ sendPc = "next" /\ phase = "share" /\ todo # {}
    /\ SetGuarantee(Share)

\* The thread exits unless allocation is dynamic, or once its flag is down.
CheckOutgoing ==
    /\ sendPc = "next"
    /\ (phase = "share" /\ todo = {}) \/ phase = "check"
    /\ IF (phase = "share" => DynamicAllocation) /\ outgoingRunning
       THEN Goto("collect", bandwidthMap) ELSE Goto("exited", {})
    /\ donors' = {} /\ receivers' = {} /\ contribution' = 0
    /\ UNCHANGED <<perHostDonation, rounds>>

IsDonor(h) == delta[h] > SafetyFactor

\* totalBandwidthContribution is an int.
Collect ==
    /\ sendPc = "next" /\ phase = "collect" /\ todo # {}
    /\ receivers' = IF delta[host] < 0 THEN receivers \cup {host} ELSE receivers
    /\ IF IsDonor(host)
       THEN /\ donors' = donors \cup {host}
            /\ contribution' = Signed(Unsigned(contribution + delta[host]))
       ELSE UNCHANGED <<donors, contribution>>
    /\ Goto(phase, todo \ {host})
    /\ UNCHANGED <<perHostDonation, rounds>>

CanMove == donors # {} /\ receivers # {} /\ contribution > 0

NothingToMove ==
    /\ sendPc = "next" /\ phase = "collect" /\ todo = {}
    /\ ~CanMove
    /\ Goto("check", {})
    /\ donors' = {} /\ receivers' = {}
    /\ UNCHANGED <<contribution, perHostDonation, rounds>>

\* There are at least as many donors as receivers.
Even == Cardinality(donors) >= Cardinality(receivers)

\* Faulty: what each receiver gets is taken from each donor.
TakenPerReceiver == contribution \div Cardinality(receivers)

TakenPerDonor == contribution \div Cardinality(donors)

BeginRound ==
    /\ sendPc = "next" /\ phase = "collect" /\ todo = {}
    /\ CanMove /\ rounds < MaxRounds
    /\ Goto(IF Even THEN "take" ELSE "limit", donors)
    /\ perHostDonation' = IF Even THEN TakenPerDonor ELSE perHostDonation
    /\ rounds' = rounds + 1
    /\ UNCHANGED <<donors, receivers, contribution>>

Take ==
    /\ sendPc = "next" /\ phase = "take" /\ todo # {}
    /\ SetGuarantee(guarantee[host] - perHostDonation)

\* With more receivers than donors a donor is left with what it demands by now.
LimitLoad ==
    /\ sendPc = "next" /\ phase = "limit" /\ todo # {}
    /\ sendPc' = "limit"
    /\ sendLoaded' = demand[host]
    /\ UNCHANGED <<hostVars, mainVars, recvVars, phase, todo, roundVars, told>>

Limit == sendPc = "limit" /\ SetGuarantee(sendLoaded)

TakeDone ==
    /\ sendPc = "next" /\ phase \in {"take", "limit"} /\ todo = {}
    /\ Goto("give", receivers)
    /\ perHostDonation' = contribution \div Cardinality(receivers)
    /\ UNCHANGED <<donors, receivers, contribution, rounds>>

Give ==
    /\ sendPc = "next" /\ phase = "give" /\ todo # {}
    /\ SetGuarantee(guarantee[host] + perHostDonation)

\* Faulty: the donors are not told.
OnlyReceivers == receivers

HostsToTell == bandwidthMap

GiveDone ==
    /\ sendPc = "next" /\ phase = "give" /\ todo = {}
    /\ Goto("send", HostsToTell)
    /\ UNCHANGED roundVars

SendDone ==
    /\ sendPc = "next" /\ phase = "send" /\ todo = {}
    /\ Goto("check", {})
    /\ donors' = {} /\ receivers' = {}
    /\ UNCHANGED <<contribution, perHostDonation, rounds>>

Send ==
    \/ Wait \/ CalculateHostBandwidth \/ LoadDemand \/ SendDelta \/ SendTo \/ CheckOutgoing
    \/ Collect \/ NothingToMove \/ BeginRound \/ Take \/ LimitLoad \/ Limit \/ TakeDone
    \/ Give \/ GiveDone \/ SendDone

Next == Main \/ Recv \/ Send \/ \E h \in Hosts : Receive(h)

Spec == Init /\ [][Next]_vars

-----------------------------------------------------------------------------
(* Properties.                                                              *)

TypeOK ==
    /\ bandwidthMap \subseteq Hosts /\ address \subseteq bandwidthMap
    /\ demand \in [Hosts -> {0} \cup Demands] /\ guarantee \in [Hosts -> 0 .. Word - 1]
    /\ delta \in [Hosts -> -(Word \div 2) .. (Word \div 2) - 1]
    /\ incomingRunning \in BOOLEAN /\ outgoingRunning \in BOOLEAN
    /\ mainPc \in {"createReceive", "flagReceive", "createSend", "flagSend", "done"}
    /\ recvPc \in {"none", "check", "receive", "address", "demand", "load", "delta", "exited"}
    /\ report \in [host : Hosts, demand : {0} \cup Demands]
    /\ recvLoaded \in 0 .. Word - 1
    /\ sendPc \in {"none", "next", "limit", "load", "delta", "send"}
    /\ phase \in {"wait", "share", "check", "collect", "take", "limit", "give", "send", "exited"}
    /\ todo \subseteq bandwidthMap
    /\ sendLoaded \in {0} \cup Demands
    /\ donors \subseteq bandwidthMap /\ receivers \subseteq bandwidthMap
    /\ donors \cap receivers = {}
    /\ contribution \in -(Word \div 2) .. (Word \div 2) - 1
    /\ perHostDonation \in 0 .. (Word \div 2) - 1
    /\ rounds \in 0 .. MaxRounds
    /\ told \in [Hosts -> {Nothing} \cup 0 .. Word - 1]

AllAreTold == \A h \in Hosts : told[h] # Nothing

\* What hosts are about to be told over what they were told before.
Change(hosts) == SumFunction([h \in hosts |-> guarantee[h] - told[h]])

\* Equal modulo a word, but for what the divisions of a round drop.
Near(i, j) == \E e \in 1 - NumberOfHosts .. NumberOfHosts - 1 : Unsigned(i - j - e) = 0

\* A round moves bandwidth: the other hosts get what its donors were found to have to spare,
\* and if there are at least as many donors as receivers the donors lose it.  It does so
\* though demands and deltas change while the round is under way, and whatever hosts report.
\* (With more receivers than donors the donors are left with what they demand by then, and
\* nothing can be said of the sum.)
RoundsMoveBandwidth ==
    phase = "send" /\ todo = Hosts /\ AllAreTold =>
        /\ Near(Change(Hosts \ donors), contribution)
        /\ Even => Near(Change(Hosts), 0)

\* Between two rounds every host that is told anything has been told its guarantee: nothing
\* of an allocation is kept back, though a round changes the guarantees of several hosts.
ToldIsCurrent ==
    phase = "check" => \A h \in Hosts : told[h] \in {Nothing, guarantee[h]}

\* The adaptor's view of the hosts is well formed, and theirs is its own between two rounds.
AllocationIsKnown == TypeOK /\ ToldIsCurrent

\* No host is guaranteed more than the tenant has in total.
GuaranteesFitTheTenant == \A h \in Hosts : guarantee[h] <= TotalBandwidth

=============================================================================
