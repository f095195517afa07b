-------------------- MODULE WorkConservationFlowHandler --------------------
(***************************************************************************)
(* The update thread of src/WCEnabler/WorkConservationFlowHandler.cpp,      *)
(* which lets a host use more than its guarantee: it turns multipath on for *)
(* its link, so that TCP flows get a work conserving subflow, and off.  It  *)
(* reads what the other threads of the WCEnabler store in BandwidthValues:  *)
(* the measured rates, the ECN flag and the guarantee.                      *)
(***************************************************************************)
EXTENDS Integers

CONSTANTS
    Rates,          \* the rates that are measured
    Guarantees,     \* the guarantees that the BGAdaptor sends
    InverseFactor   \* of the two factors of 0.05: 20

FlowState == {"ExistingFlowWithoutWorkConservation", "ExistingFlowWithWorkConservation",
              "GuaranteedBandwidthSufficient", "NewWCFlow"}

ASSUME FlowAssumption ==
    /\ Rates \subseteq Nat /\ 0 \in Rates
    /\ Guarantees \subseteq Nat \ {0}
    /\ InverseFactor \in Nat \ {0}

VARIABLES
    pc,
    currentState,
    multipath,                      \* whether it is on for the link
    switched,                       \* history: whether the handler has switched it yet
    bandwidthGuarantee, bandwidthGuaranteeRate, workConservingRate,
    ecnValue,
    bandwidthGuaranteeAverage,      \* of both calculators: the value they were last given,
    workConservingAverage           \* and the rate they made of it

threadVars == <<pc, currentState, multipath, switched>>
rateVars == <<bandwidthGuarantee, bandwidthGuaranteeRate, workConservingRate>>
averageVars == <<bandwidthGuaranteeAverage, workConservingAverage>>
vars == <<threadVars, rateVars, ecnValue, averageVars>>

Calculator == [lastValue : Rates, rate : Nat]

\* The kernel has multipath on until told otherwise.  A flow handler is not zeroed: its
\* state may be any, and one that is none of the four is to setState like any but the first.
Init ==
    /\ pc = "construct"
    /\ currentState \in FlowState
    /\ multipath = TRUE /\ switched = FALSE
    /\ bandwidthGuarantee = 0 /\ bandwidthGuaranteeRate = 0 /\ workConservingRate = 0
    /\ ecnValue = FALSE
    /\ bandwidthGuaranteeAverage = [lastValue |-> 0, rate |-> 0]
    /\ workConservingAverage = [lastValue |-> 0, rate |-> 0]

\* Faulty: the new state is kept, which has no way out.
StaysNew(flowState) == flowState

Entered(flowState) ==
    IF flowState = "NewWCFlow" THEN "ExistingFlowWithoutWorkConservation" ELSE flowState

\* setState: nothing, if that is the current state; else a new state is entered by
\* clearing the ECN and switching multipath, as it demands.  Entering NewWCFlow leads on at
\* once, so that the thread never sees it.
SetState(flowState, next) ==
    IF flowState = currentState THEN pc' = next /\ UNCHANGED <<currentState, ecnValue>>
    ELSE /\ currentState' = Entered(flowState)
         /\ ecnValue' = (ecnValue /\ flowState # "GuaranteedBandwidthSufficient")
         /\ pc' = IF flowState = "NewWCFlow" THEN next
                  ELSE IF next = "start" THEN "firstSwitch" ELSE "switch"

Construct ==
    /\ pc = "construct"
    /\ SetState("GuaranteedBandwidthSufficient", "start")
    /\ UNCHANGED <<multipath, switched, rateVars, averageVars>>

\* Faulty: multipath is never switched off.
StaysOn == TRUE

SwitchesOn == currentState = "ExistingFlowWithWorkConservation"

\* setWCSubFlowEnabled
Switch ==
    /\ \/ pc = "firstSwitch" /\ pc' = "start"
       \/ pc = "switch" /\ pc' = "update"
    /\ multipath' = SwitchesOn /\ switched' = TRUE
    /\ UNCHANGED <<currentState, rateVars, ecnValue, averageVars>>

\* The thread exits if it looks at its flag before the constructor has raised it.
Start ==
    /\ pc = "start" /\ pc' \in {"look", "exited"}
    /\ UNCHANGED <<currentState, multipath, switched, rateVars, ecnValue, averageVars>>

-----------------------------------------------------------------------------
(* A pass of the update thread.                                             *)

VmLevelCheck ==
    InverseFactor * (bandwidthGuaranteeAverage.rate + workConservingAverage.rate)
        < bandwidthGuarantee

Look ==
    /\ pc = "look"
    /\ UNCHANGED <<multipath, switched, rateVars, averageVars>>

\* Faulty: an ECN does not keep the work conserving flow from being started.
IgnoresEcn == "ExistingFlowWithWorkConservation"

AfterWaiting == IF ecnValue THEN "GuaranteedBandwidthSufficient"
                            ELSE "ExistingFlowWithWorkConservation"

LookWithout ==
    /\ Look
    /\ currentState = "ExistingFlowWithoutWorkConservation"
    /\ SetState(AfterWaiting, "update")

LookWith ==
    /\ Look
    /\ currentState = "ExistingFlowWithWorkConservation"
    /\ SetState(IF bandwidthGuaranteeAverage.rate > InverseFactor * workConservingAverage.rate
                THEN "GuaranteedBandwidthSufficient" ELSE currentState, "update")

LookSufficient ==
    /\ Look
    /\ currentState = "GuaranteedBandwidthSufficient"
    /\ SetState(IF VmLevelCheck THEN currentState ELSE "NewWCFlow", "update")

\* ExponentialSmoothing::calculate with an alpha of 1, dt seconds after the last time: what
\* is divided is the difference from the value that was given last.
Smoothed(average, value, dt) ==
    LET difference == value - average.lastValue
    IN  [lastValue |-> value, rate |-> (IF difference < 0 THEN -difference ELSE difference) \div dt]

UpdateAverages ==
    /\ pc = "update" /\ pc' = "look"
    /\ \E dt \in {1, 2} :
          bandwidthGuaranteeAverage' = Smoothed(bandwidthGuaranteeAverage, bandwidthGuaranteeRate, dt)
    /\ \E dt \in {1, 2} :
          workConservingAverage' = Smoothed(workConservingAverage, workConservingRate, dt)
    /\ UNCHANGED <<currentState, multipath, switched, rateVars, ecnValue>>

UpdateWorkConservation ==
    Construct \/ Switch \/ Start \/ LookWithout \/ LookWith \/ LookSufficient \/ UpdateAverages

-----------------------------------------------------------------------------
(* The other threads of the WCEnabler.                                      *)

\* MainObject creates the BandwidthCalculator after the flow handler, and the
\* BandwidthCommunicator before it.
HandlerIsConstructed == pc \notin {"construct", "firstSwitch"}

\* parseTCFile stores one rate after the other.
Measure ==
    /\ HandlerIsConstructed
    /\ \/ bandwidthGuaranteeRate' \in Rates /\ UNCHANGED workConservingRate
       \/ workConservingRate' \in Rates /\ UNCHANGED bandwidthGuaranteeRate
    /\ UNCHANGED <<threadVars, bandwidthGuarantee, ecnValue, averageVars>>

ReceiveGuarantee ==
    /\ bandwidthGuarantee' \in Guarantees
    /\ UNCHANGED <<threadVars, bandwidthGuaranteeRate, workConservingRate, ecnValue, averageVars>>

\* The thread sniffs packets as long as there is no ECN.
SniffEcn ==
    /\ HandlerIsConstructed
    /\ ~ecnValue /\ ecnValue' = TRUE
    /\ UNCHANGED <<threadVars, rateVars, averageVars>>

Next == UpdateWorkConservation \/ Measure \/ ReceiveGuarantee \/ SniffEcn

Spec == Init /\ [][Next]_vars

FairSpec == Spec /\ WF_vars(UpdateWorkConservation)

-----------------------------------------------------------------------------
(* Properties.                                                              *)

TypeOK ==
    /\ pc \in {"construct", "firstSwitch", "start", "look", "switch", "update", "exited"}
    /\ currentState \in FlowState
    /\ multipath \in BOOLEAN /\ switched \in BOOLEAN /\ ecnValue \in BOOLEAN
    /\ bandwidthGuarantee \in Guarantees \cup {0}
    /\ bandwidthGuaranteeRate \in Rates /\ workConservingRate \in Rates
    /\ bandwidthGuaranteeAverage \in Calculator /\ workConservingAverage \in Calculator

\* Whenever the thread looks, multipath is on exactly in the state with work conservation,
\* once the handler has switched it.  If the memory of the state happens to hold the first
\* one, the constructor does not switch it off: it is still on then, with a state of a
\* sufficient guarantee or of a new flow, until the new flow is decided.
MultipathFollowsState ==
    pc \in {"look", "update"} =>
       IF switched THEN multipath <=> currentState = "ExistingFlowWithWorkConservation"
       ELSE multipath /\ currentState \in {"GuaranteedBandwidthSufficient",
                                           "ExistingFlowWithoutWorkConservation"}

\* The flow is well formed and the kernel does what its state says, from the first switch on.
FlowIsSound == TypeOK /\ MultipathFollowsState

\* A host whose packets meet congestion in every slot never comes to conserve work, whatever
\* its rates and its guarantee do: once switched, multipath is off for good.
CongestionKeepsItOff ==
    [](pc = "look" => ecnValue) => [](pc = "look" /\ switched => ~multipath)

\* A new flow is not kept waiting: the thread decides for or against work conservation and
\* tells the kernel, also if the constructor did not.
NewFlowsAreDecided ==
    currentState \in {"NewWCFlow", "ExistingFlowWithoutWorkConservation"}
        ~> \/ /\ currentState \in {"ExistingFlowWithWorkConservation",
                                   "GuaranteedBandwidthSufficient"}
              /\ switched /\ pc = "update"
           \/ pc = "exited"

\* A host whose rates are, from some time on, too high for its guarantee to be sufficient
\* does not stay in the state of a sufficient guarantee for ever.
BusyHostsAreNotSufficient ==
    <>[](InverseFactor * (bandwidthGuaranteeRate + workConservingRate) >= bandwidthGuarantee)
        => []<>(currentState # "GuaranteedBandwidthSufficient" \/ pc = "exited")

=============================================================================
