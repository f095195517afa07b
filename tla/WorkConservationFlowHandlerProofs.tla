----------------- MODULE WorkConservationFlowHandlerProofs -----------------
(***************************************************************************)
(* Proofs about WorkConservationFlowHandler, for any rates and guarantees:  *)
(* the flow's state and what the kernel was told agree whenever the thread  *)
(* looks, from the first switch on, whatever the memory of the state held.  *)
(***************************************************************************)
EXTENDS WorkConservationFlowHandler, TLAPS

\* The states that are entered without a switch, if the memory held the first one.
Unswitched == {"GuaranteedBandwidthSufficient", "ExistingFlowWithoutWorkConservation"}

\* Multipath is as the state says except between a change of the state and the switch, and
\* before the first switch, which the constructor skips only in the state that it sets.
AgreementOK ==
    /\ pc \in {"construct", "firstSwitch"} => ~switched
    /\ ~switched => multipath
    /\ pc = "start" => currentState = "GuaranteedBandwidthSufficient"
    /\ pc \in {"start", "look", "update"} =>
          IF switched THEN multipath <=> SwitchesOn ELSE currentState \in Unswitched
    /\ pc = "firstSwitch" => currentState = "GuaranteedBandwidthSufficient"

FlowInv == TypeOK /\ AgreementOK

\* The quotient that the smoothing makes is a rate again: its sign is dropped.
LEMMA SmoothedType ==
    ASSUME NEW average \in Calculator, NEW value \in Rates, NEW dt \in {1, 2}
    PROVE  Smoothed(average, value, dt) \in Calculator
<1>. DEFINE difference == value - average.lastValue
            size == IF difference < 0 THEN -difference ELSE difference
<1>1. difference \in Int
  <2>1. average.lastValue \in Nat /\ value \in Nat
    BY FlowAssumption DEF FlowAssumption, Calculator
  <2>. QED
    BY <2>1
<1>2. size \in Nat
  BY <1>1
<1>3. size \div dt \in Nat
  <2>. HIDE DEF size
  <2>1. CASE dt = 1
    BY <1>2, <2>1
  <2>2. CASE dt = 2
    BY <1>2, <2>2
  <2>. QED
    BY <2>1, <2>2
<1>. QED
  BY <1>3 DEF Smoothed, Calculator

LEMMA InitFlowInv ==
    ASSUME Init
    PROVE  FlowInv
BY FlowAssumption
   DEF FlowAssumption, Init, FlowInv, TypeOK, AgreementOK, Calculator, FlowState, SwitchesOn,
       Unswitched

\* Entering a state leaves the thread before the switch, but for NewWCFlow, which is entered
\* with multipath off and leads to a state that has it off.
LEMMA LookFlowInv ==
    ASSUME FlowInv, LookWithout \/ LookWith \/ LookSufficient
    PROVE  FlowInv'
<1>1. /\ TypeOK /\ pc = "look"
      /\ IF switched THEN multipath <=> SwitchesOn ELSE multipath /\ currentState \in Unswitched
  BY DEF FlowInv, AgreementOK, LookWithout, LookWith, LookSufficient, Look
<1>2. CASE LookWithout
  BY <1>1, <1>2 DEF LookWithout, Look, AfterWaiting, SetState, Entered, rateVars, averageVars,
     FlowInv, TypeOK, AgreementOK, SwitchesOn, Unswitched, FlowState
<1>3. CASE LookWith
  BY <1>1, <1>3 DEF LookWith, Look, SetState, Entered, rateVars, averageVars,
     FlowInv, TypeOK, AgreementOK, SwitchesOn, Unswitched, FlowState
<1>4. CASE LookSufficient
  <2>1. CASE VmLevelCheck
    BY <1>1, <1>4, <2>1 DEF LookSufficient, Look, SetState, rateVars, averageVars,
       FlowInv, TypeOK, AgreementOK, SwitchesOn, Unswitched
  <2>2. CASE ~VmLevelCheck
    BY <1>1, <1>4, <2>2 DEF LookSufficient, Look, SetState, Entered, rateVars, averageVars,
       FlowInv, TypeOK, AgreementOK, SwitchesOn, Unswitched, FlowState
  <2>. QED
    BY <2>1, <2>2
<1>. QED
  BY <1>2, <1>3, <1>4

LEMMA ThreadFlowInv ==
    ASSUME FlowInv, UpdateWorkConservation
    PROVE  FlowInv'
<1>1. CASE Construct
  BY <1>1 DEF Construct, SetState, Entered, rateVars, averageVars, FlowInv, TypeOK, AgreementOK,
     FlowState, SwitchesOn, Unswitched
<1>2. CASE Switch
  BY <1>2 DEF Switch, SwitchesOn, Unswitched, rateVars, averageVars, FlowInv, TypeOK, AgreementOK
<1>3. CASE Start
  BY <1>3 DEF Start, SwitchesOn, Unswitched, rateVars, averageVars, FlowInv, TypeOK, AgreementOK
<1>4. CASE LookWithout \/ LookWith \/ LookSufficient
  BY <1>4, LookFlowInv
<1>5. CASE UpdateAverages
  <2>1. bandwidthGuaranteeAverage' \in Calculator /\ workConservingAverage' \in Calculator
    BY <1>5, SmoothedType DEF UpdateAverages, FlowInv, TypeOK
  <2>. QED
    BY <1>5, <2>1 DEF UpdateAverages, rateVars, FlowInv, TypeOK, AgreementOK, SwitchesOn, Unswitched
<1>. QED
  BY <1>1, <1>2, <1>3, <1>4, <1>5 DEF UpdateWorkConservation

LEMMA StepFlowInv ==
    ASSUME FlowInv, [Next]_vars
    PROVE  FlowInv'
<1>1. CASE UpdateWorkConservation
  BY <1>1, ThreadFlowInv
<1>2. CASE Measure
  BY <1>2 DEF Measure, threadVars, averageVars, FlowInv, TypeOK, AgreementOK, SwitchesOn, Unswitched
<1>3. CASE ReceiveGuarantee
  BY <1>3 DEF ReceiveGuarantee, threadVars, averageVars, FlowInv, TypeOK, AgreementOK, SwitchesOn,
     Unswitched
<1>4. CASE SniffEcn
  BY <1>4 DEF SniffEcn, threadVars, rateVars, averageVars, FlowInv, TypeOK, AgreementOK,
     SwitchesOn, Unswitched
<1>5. CASE UNCHANGED vars
  BY <1>5 DEF vars, threadVars, rateVars, averageVars, FlowInv, TypeOK, AgreementOK, SwitchesOn,
     Unswitched
<1>. QED
  BY <1>1, <1>2, <1>3, <1>4, <1>5 DEF Next

-----------------------------------------------------------------------------

\* Whenever the thread looks or updates, multipath is on exactly in the state with work
\* conservation, whatever the other threads measure, receive and sniff: setState has told the
\* kernel of every state that it entered.  Only a handler whose state held the first one by
\* accident (WorkConservationFlowHandler.cpp:114) has not told it yet, and multipath is on.
THEOREM FlowIsAlwaysSound == Spec => []FlowIsSound
<1>1. Init => FlowInv
  BY InitFlowInv
<1>2. FlowInv /\ [Next]_vars => FlowInv'
  BY StepFlowInv
<1>3. FlowInv => FlowIsSound
  BY DEF FlowInv, AgreementOK, SwitchesOn, Unswitched, FlowIsSound, MultipathFollowsState
<1>. QED
  BY <1>1, <1>2, <1>3, PTL DEF Spec

=============================================================================
