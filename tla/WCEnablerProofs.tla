-------------------------- MODULE WCEnablerProofs --------------------------
(* Proofs about WCEnabler, for any number of hosts, guarantees and values.  *)
EXTENDS WCEnabler, TLAPS

USE AgentAssumption

\* A rate is an unsigned integer.
LEMMA RatesAreWords ==
    ASSUME TypeOK, NEW a \in Agents, NEW c \in Classes, NEW dt \in {1, 2}
    PROVE  Rates(a, c, dt) \subseteq 0 .. Word - 1
<1>1. counters[a][c] \in 0 .. MaxBytes /\ last[a][c] \in 0 .. MaxBytes
  BY DEF TypeOK
<1>2. DataDelta(a, c) \in 0 .. Word - 1
  BY <1>1 DEF DataDelta
<1>3. DataDelta(a, c) \div dt \in 0 .. Word - 1
  <2>1. CASE dt = 1 BY <1>2, <2>1
  <2>2. CASE dt = 2 BY <1>2, <2>2
  <2>. QED BY <2>1, <2>2
<1>. QED BY <1>3 DEF Rates

LEMMA TypeInit == Init => TypeOK
BY DEF Init, TypeOK, NoBytes, Classes

LEMMA TypeStart == ASSUME TypeOK, NEW a \in Agents, Start(a) PROVE TypeOK'
<1>1. UNCHANGED <<bandwidthGuarantee, parts, ceil, sent, counters, last, bandwidthGuaranteeRate,
                  workConservingRate, totalRate, reported>>
  BY DEF Start, queueVars, calcVars, rateVars, outgoingVars, incomingVars
<1>2. incomingPc' \in [Agents -> {"start", "receive", "clear", "exited"} \cup Parts]
  BY DEF TypeOK, Start, incomingVars
<1>3. calcPc' \in [Agents -> {"start", "show", "guaranteed", "conserving", "total", "exited"}]
  BY DEF TypeOK, Start, calcVars
<1>4. outgoingPc' \in [Agents -> {"start", "send", "exited"}]
  BY DEF TypeOK, Start, outgoingVars
<1>. QED BY <1>1, <1>2, <1>3, <1>4 DEF TypeOK

LEMMA TypeReceive ==
    ASSUME TypeOK, NEW a \in Agents, NEW g \in Guarantees, Receive(a, g) PROVE TypeOK'
BY DEF TypeOK, Receive, queueVars, calcVars, rateVars, outgoingVars

LEMMA TypeClear == ASSUME TypeOK, NEW a \in Agents, Clear(a) PROVE TypeOK'
BY DEF TypeOK, Clear, Cleared, Parts, calcVars, rateVars, outgoingVars

LEMMA TypeAdd == ASSUME TypeOK, NEW a \in Agents, Add(a) PROVE TypeOK'
<1>. DEFINE part == incomingPc[a]
<1>1. /\ part \in Parts /\ incomingPc' = [incomingPc EXCEPT ![a] = After[part]]
      /\ UNCHANGED <<bandwidthGuarantee, calcPc, counters, last, bandwidthGuaranteeRate,
                     workConservingRate, totalRate, outgoingPc, reported>>
  BY DEF Add, calcVars, rateVars, outgoingVars
<1>2. After[part] \in Parts \cup {"receive"}
  BY <1>1 DEF After, Parts, Classes
<1>3. incomingPc' \in [Agents -> {"start", "receive", "clear", "exited"} \cup Parts]
  BY <1>1, <1>2 DEF TypeOK
<1>4. /\ parts' \in [Agents -> SUBSET Parts] /\ ceil' \in [Agents -> Guarantees \cup {0}]
      /\ sent' \in [Agents -> [Classes -> 0 .. MaxBytes]]
  <2>1. CASE TcAdds(a, part)
    <3>1. /\ parts' = [parts EXCEPT ![a] = @ \cup {part}]
          /\ ceil' = [ceil EXCEPT ![a] = IF part = "1:11" THEN bandwidthGuarantee[a] ELSE @]
          /\ sent' = [sent EXCEPT ![a] = [c \in Classes |-> IF c = part THEN 0 ELSE @[c]]]
      BY <2>1 DEF Add
    <3>2. [c \in Classes |-> IF c = part THEN 0 ELSE sent[a][c]] \in [Classes -> 0 .. MaxBytes]
      BY DEF TypeOK
    <3>. QED BY <1>1, <3>1, <3>2 DEF TypeOK
  <2>2. CASE ~TcAdds(a, part) BY <2>2 DEF Add, TypeOK, queueVars
  <2>. QED BY <2>1, <2>2
<1>. QED BY <1>1, <1>3, <1>4 DEF TypeOK

LEMMA TypeTransmit == ASSUME TypeOK, NEW a \in Agents, Transmit(a) PROVE TypeOK'
<1>1. PICK c \in Classes : sent[a][c] < MaxBytes /\ sent' = [sent EXCEPT ![a][c] = @ + 1]
  BY DEF Transmit
<1>2. sent[a] \in [Classes -> 0 .. MaxBytes] /\ sent[a][c] + 1 \in 0 .. MaxBytes
  BY <1>1 DEF TypeOK
<1>3. sent' \in [Agents -> [Classes -> 0 .. MaxBytes]]
  BY <1>1, <1>2 DEF TypeOK
<1>. QED BY <1>3 DEF TypeOK, Transmit, incomingVars, calcVars, rateVars, outgoingVars

LEMMA TypeShow == ASSUME TypeOK, NEW a \in Agents, Show(a) PROVE TypeOK'
BY DEF TypeOK, Show, incomingVars, queueVars, rateVars, outgoingVars

LEMMA TypeCalculate == ASSUME TypeOK, NEW a \in Agents, Calculate(a) PROVE TypeOK'
<1>1. UNCHANGED <<incomingPc, bandwidthGuarantee, parts, ceil, sent, counters, outgoingPc, reported>>
  BY DEF Calculate, incomingVars, queueVars, outgoingVars
<1>2. calcPc' \in [Agents -> {"start", "show", "guaranteed", "conserving", "total", "exited"}]
  BY DEF TypeOK, Calculate
<1>3. last' \in [Agents -> [Classes -> 0 .. MaxBytes]]
  <2>1. \/ last' = last
        \/ last' = [last EXCEPT ![a]["1:11"] = LastValue(a, "1:11")]
        \/ last' = [last EXCEPT ![a]["1:12"] = LastValue(a, "1:12")]
    BY DEF Calculate
  <2>2. \A c \in Classes : LastValue(a, c) \in 0 .. MaxBytes
    BY DEF TypeOK, LastValue
  <2>3. \A c \in Classes, v \in 0 .. MaxBytes :
           [last EXCEPT ![a][c] = v] \in [Agents -> [Classes -> 0 .. MaxBytes]]
    BY DEF TypeOK
  <2>4. "1:11" \in Classes /\ "1:12" \in Classes
    BY DEF Classes
  <2>5. last \in [Agents -> [Classes -> 0 .. MaxBytes]]
    BY DEF TypeOK
  <2>6. CASE last' = last BY <2>5, <2>6
  <2>7. CASE last' = [last EXCEPT ![a]["1:11"] = LastValue(a, "1:11")] BY <2>2, <2>3, <2>4, <2>7
  <2>8. CASE last' = [last EXCEPT ![a]["1:12"] = LastValue(a, "1:12")] BY <2>2, <2>3, <2>4, <2>8
  <2>. QED BY <2>1, <2>6, <2>7, <2>8
<1>4. bandwidthGuaranteeRate' \in [Agents -> 0 .. Word - 1]
  <2>1. \/ bandwidthGuaranteeRate' = bandwidthGuaranteeRate
        \/ \E dt \in {1, 2} : \E rate \in Rates(a, "1:11", dt) :
              bandwidthGuaranteeRate' = [bandwidthGuaranteeRate EXCEPT ![a] = rate]
    BY DEF Calculate
  <2>2. \A dt \in {1, 2} : Rates(a, "1:11", dt) \subseteq 0 .. Word - 1
    BY RatesAreWords DEF Classes
  <2>. QED BY <2>1, <2>2 DEF TypeOK
<1>5. workConservingRate' \in [Agents -> 0 .. Word - 1]
  <2>1. \/ workConservingRate' = workConservingRate
        \/ \E dt \in {1, 2} : \E rate \in Rates(a, "1:12", dt) :
              workConservingRate' = [workConservingRate EXCEPT ![a] = rate]
    BY DEF Calculate
  <2>2. \A dt \in {1, 2} : Rates(a, "1:12", dt) \subseteq 0 .. Word - 1
    BY RatesAreWords DEF Classes
  <2>. QED BY <2>1, <2>2 DEF TypeOK
<1>6. (bandwidthGuaranteeRate[a] + workConservingRate[a]) % Word \in 0 .. Word - 1
  <2>1. bandwidthGuaranteeRate[a] + workConservingRate[a] \in Nat
    BY DEF TypeOK
  <2>2. Word \in Nat /\ Word > 0
    OBVIOUS
  <2>. QED BY <2>1, <2>2
<1>7. totalRate' \in [Agents -> 0 .. Word - 1]
  BY <1>6 DEF TypeOK, Calculate
<1>. QED BY <1>1, <1>2, <1>3, <1>4, <1>5, <1>7 DEF TypeOK

LEMMA TypeSend == ASSUME TypeOK, NEW a \in Agents, Send(a) PROVE TypeOK'
BY DEF TypeOK, Send, incomingVars, queueVars, calcVars, rateVars

LEMMA TypeStep == TypeOK /\ [Next]_vars => TypeOK'
<1>. SUFFICES ASSUME TypeOK, [Next]_vars PROVE TypeOK'
  OBVIOUS
<1>1. CASE Next
  BY <1>1, TypeStart, TypeReceive, TypeClear, TypeAdd, TypeTransmit, TypeShow, TypeCalculate,
     TypeSend DEF Next, Queues, Calculator
<1>2. CASE UNCHANGED vars
  BY <1>2 DEF TypeOK, vars, incomingVars, queueVars, calcVars, rateVars, outgoingVars
<1>. QED BY <1>1, <1>2

\* The WCEnabler is type correct, whatever the hosts and the guarantees are: what goes out as
\* the rate of a host is an unsigned integer, though counters start again at any time.
THEOREM WCTypeCorrect == Spec => []TypeOK
BY TypeInit, TypeStep, PTL DEF Spec

-----------------------------------------------------------------------------
(* The queues enforce the guarantee.  What there is of them follows the     *)
(* receiving thread from command to command; before the first guarantee     *)
(* and for a guarantee of 0 nothing is promised.                            *)

Enforces(a, there) == parts[a] = there /\ ceil[a] = bandwidthGuarantee[a]

Ladder(a) ==
    /\ incomingPc[a] = "start" => bandwidthGuarantee[a] = 0
    /\ incomingPc[a] = "root" => parts[a] = {}
    /\ incomingPc[a] = "1:1" => parts[a] = {"root"}
    /\ incomingPc[a] = "1:11" => parts[a] = {"root", "1:1"}
    /\ bandwidthGuarantee[a] # 0 =>
          /\ incomingPc[a] = "1:12" => Enforces(a, {"root", "1:1", "1:11"})
          /\ incomingPc[a] = "filters" => Enforces(a, {"root", "1:1", "1:11", "1:12"})
          /\ incomingPc[a] = "receive" => Enforces(a, Parts)

LaddersHold == \A a \in Agents : Ladder(a)

LEMMA LadderInit == Init => LaddersHold
BY DEF Init, LaddersHold, Ladder, Enforces

\* Steps that leave the queues and the receiving thread of a host alone.
LEMMA LadderFrame ==
    ASSUME NEW a \in Agents, Ladder(a),
           incomingPc'[a] = incomingPc[a], bandwidthGuarantee'[a] = bandwidthGuarantee[a],
           parts'[a] = parts[a], ceil'[a] = ceil[a]
    PROVE  Ladder(a)'
BY DEF Ladder, Enforces

LEMMA LadderAdd == ASSUME TypeOK, NEW a \in Agents, Ladder(a), Add(a) PROVE Ladder(a)'
<1>. DEFINE part == incomingPc[a]
<1>1. /\ part \in {"root", "1:1", "1:11", "1:12", "filters"}
      /\ incomingPc'[a] = After[part] /\ bandwidthGuarantee' = bandwidthGuarantee
  BY DEF Add, TypeOK, Parts, Classes
<1>2. /\ TcAdds(a, part) => /\ parts'[a] = parts[a] \cup {part}
                            /\ ceil'[a] = IF part = "1:11" THEN bandwidthGuarantee[a] ELSE ceil[a]
      /\ ~TcAdds(a, part) => parts'[a] = parts[a] /\ ceil'[a] = ceil[a]
  BY DEF Add, TypeOK, queueVars
<1>3. CASE part = "root"
  <2>1. After[part] = "1:1" BY <1>3 DEF After, Parts
  <2>2. TcAdds(a, part) BY <1>3 DEF TcAdds, ParentsOf, Parts, Classes, Ladder
  <2>. QED BY <1>1, <1>2, <1>3, <2>1, <2>2 DEF Ladder
<1>4. CASE part = "1:1"
  <2>1. After[part] = "1:11" BY <1>4 DEF After, Parts
  <2>2. TcAdds(a, part) BY <1>4 DEF TcAdds, ParentsOf, Parts, Classes, Ladder
  <2>. QED BY <1>1, <1>2, <1>4, <2>1, <2>2 DEF Ladder
<1>5. CASE part = "1:11"
  <2>1. After[part] = "1:12" BY <1>5 DEF After, Parts, Classes
  <2>2. bandwidthGuarantee[a] # 0 => TcAdds(a, part)
    BY <1>5 DEF TcAdds, ParentsOf, Parts, Classes, Ladder
  <2>. QED BY <1>1, <1>2, <1>5, <2>1, <2>2 DEF Ladder, Enforces
<1>6. CASE part = "1:12"
  <2>1. After[part] = "filters" BY <1>6 DEF After, Parts, Classes
  <2>2. bandwidthGuarantee[a] # 0 => TcAdds(a, part)
    BY <1>6 DEF TcAdds, ParentsOf, Parts, Classes, Ladder, Enforces
  <2>. QED BY <1>1, <1>2, <1>6, <2>1, <2>2 DEF Ladder, Enforces
<1>7. CASE part = "filters"
  <2>1. After[part] = "receive" BY <1>7 DEF After, Parts
  <2>2. bandwidthGuarantee[a] # 0 => TcAdds(a, part)
    BY <1>7 DEF TcAdds, ParentsOf, Parts, Ladder, Enforces
  <2>. QED BY <1>1, <1>2, <1>7, <2>1, <2>2 DEF Ladder, Enforces, Parts, Classes
<1>. QED BY <1>1, <1>3, <1>4, <1>5, <1>6, <1>7

\* A step of one host leaves the others alone.
LEMMA LadderOther ==
    ASSUME TypeOK, NEW a \in Agents, NEW b \in Agents, a # b,
           \/ Start(b) \/ Queues(b) \/ Transmit(b) \/ Calculator(b) \/ Send(b)
           \/ \E g \in Guarantees : Receive(b, g)
    PROVE  /\ incomingPc'[a] = incomingPc[a] /\ bandwidthGuarantee'[a] = bandwidthGuarantee[a]
           /\ parts'[a] = parts[a] /\ ceil'[a] = ceil[a]
BY DEF TypeOK, Start, Queues, Clear, Add, Transmit, Calculator, Show, Calculate, Send, Receive,
       incomingVars, queueVars, calcVars, rateVars, outgoingVars

LEMMA LadderOwn ==
    ASSUME TypeOK, NEW a \in Agents, Ladder(a),
           \/ Start(a) \/ Queues(a) \/ Transmit(a) \/ Calculator(a) \/ Send(a)
           \/ \E g \in Guarantees : Receive(a, g)
    PROVE  Ladder(a)'
<1>1. CASE Start(a)
  BY <1>1 DEF Start, Ladder, Enforces, TypeOK, incomingVars, queueVars
<1>2. CASE Clear(a)
  BY <1>2 DEF Clear, Cleared, Ladder, TypeOK
<1>3. CASE Add(a)
  BY <1>3, LadderAdd
<1>4. CASE Transmit(a) \/ Calculator(a) \/ Send(a)
  <2>1. UNCHANGED <<incomingPc, bandwidthGuarantee, parts, ceil>>
    BY <1>4 DEF Transmit, Calculator, Show, Calculate, Send, incomingVars, queueVars
  <2>. QED BY <2>1, LadderFrame
<1>5. ASSUME NEW g \in Guarantees, Receive(a, g) PROVE Ladder(a)'
  <2>1. /\ incomingPc[a] = "receive" /\ bandwidthGuarantee'[a] = g
        /\ incomingPc'[a] = IF g = bandwidthGuarantee[a] THEN "receive" ELSE "clear"
        /\ parts' = parts /\ ceil' = ceil
    BY <1>5 DEF Receive, TypeOK, queueVars
  <2>. QED BY <2>1 DEF Ladder, Enforces
<1>. QED BY <1>1, <1>2, <1>3, <1>4, <1>5 DEF Queues

LEMMA LadderStep == TypeOK /\ LaddersHold /\ [Next]_vars => LaddersHold'
<1>. SUFFICES ASSUME TypeOK, LaddersHold, [Next]_vars, NEW a \in Agents PROVE Ladder(a)'
  BY DEF LaddersHold
<1>0. Ladder(a) BY DEF LaddersHold
<1>1. CASE Next
  <2>1. PICK b \in Agents :
          \/ Start(b) \/ Queues(b) \/ Transmit(b) \/ Calculator(b) \/ Send(b)
          \/ \E g \in Guarantees : Receive(b, g)
    BY <1>1 DEF Next
  <2>2. CASE a = b BY <1>0, <2>1, <2>2, LadderOwn
  <2>3. CASE a # b
    <3>1. /\ incomingPc'[a] = incomingPc[a] /\ bandwidthGuarantee'[a] = bandwidthGuarantee[a]
          /\ parts'[a] = parts[a] /\ ceil'[a] = ceil[a]
      BY <2>1, <2>3, LadderOther
    <3>. QED BY <1>0, <3>1, LadderFrame
  <2>. QED BY <2>2, <2>3
<1>2. CASE UNCHANGED vars
  <2>1. UNCHANGED <<incomingPc, bandwidthGuarantee, parts, ceil>>
    BY <1>2 DEF vars, incomingVars, queueVars
  <2>. QED BY <1>0, <2>1, LadderFrame
<1>. QED BY <1>1, <1>2

\* Whenever the receiving thread waits for the next guarantee, the queues of the host are
\* complete and enforce the last one, for any number of hosts and any guarantees.
THEOREM GuaranteeIsEnforced == Spec => []QueuesEnforceTheGuarantee
<1>1. LaddersHold => QueuesEnforceTheGuarantee
  BY DEF LaddersHold, Ladder, Enforces, QueuesEnforceTheGuarantee
<1>. QED BY <1>1, LadderInit, LadderStep, WCTypeCorrect, PTL DEF Spec

=============================================================================
