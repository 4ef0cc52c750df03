-------------------------- MODULE LifecycleProofs --------------------------
(***************************************************************************)
(* Proofs about the restbus writer and the process it runs in, for every   *)
(* set of namespaces and any number of faults: what the writer promises by *)
(* itself (Restbus); the process does to it what Restbus allows, so that   *)
(* the promise holds there too; and the process only ends when it is asked *)
(* to, with every worker over.                                             *)
(***************************************************************************)
EXTENDS Lifecycle, TLAPS

-----------------------------------------------------------------------------
(* The restbus writer by itself.                                           *)

\* Inductive with the safety properties: what an answer in flight stands for.
InFlightAdds ==
    /\ pc = "added" => frames \subseteq added
    /\ pc \in {"added", "writing"} /\ conn => frames \subseteq cycling

IInv ==
    /\ TypeOK
    /\ AddsAreTracked
    /\ SilentUnlessBackingOff
    /\ InFlightAdds

LEMMA InitType == Init => TypeOK
  <1> SUFFICES ASSUME Init PROVE TypeOK
    OBVIOUS
  <1>1. conn \in BOOLEAN /\ gaveUp \in BOOLEAN
    BY Zenon DEF Init
  <1> QED
    BY <1>1 DEF Init, TypeOK, PCs, Running

LEMMA NextType == TypeOK /\ [Next]_vars => TypeOK'
  <1> SUFFICES ASSUME TypeOK, [Next]_vars PROVE TypeOK'
    OBVIOUS
  <1> USE DEF TypeOK, PCs, Running, Fault
  <1>1. CASE Connect
    BY <1>1 DEF Connect
  <1>2. CASE ConnectFails
    BY <1>2 DEF ConnectFails
  <1>3. CASE BrokerAdds
    BY <1>3 DEF BrokerAdds
  <1>4. CASE Added
    BY <1>4 DEF Added
  <1>5. CASE RequestFails
    <2>1. conn' \in BOOLEAN
      BY <1>5, Zenon DEF RequestFails
    <2> QED
      BY <1>5, <2>1 DEF RequestFails
  <1>6. CASE Retry
    BY <1>6 DEF Retry
  <1>7. CASE BrokerRestarts
    <2>1. conn' \in BOOLEAN
      BY <1>7, Zenon DEF BrokerRestarts
    <2> QED
      BY <1>7, <2>1 DEF BrokerRestarts
  <1>8. CASE Signal
    BY <1>8 DEF Signal
  <1>9. CASE Cancel
    BY <1>9 DEF Cancel
  <1>10. CASE Close
    BY <1>10 DEF Close
  <1>11. CASE CloseFails
    BY <1>11 DEF CloseFails
  <1>12. CASE CancelSwallowed
    <2>1. conn' \in BOOLEAN
      BY <1>12, Zenon DEF CancelSwallowed
    <2> QED
      BY <1>12, <2>1 DEF CancelSwallowed
  <1>13. CASE Crash
    <2>1. conn' \in BOOLEAN
      BY <1>13, Zenon DEF Crash
    <2> QED
      BY <1>13, <2>1 DEF Crash
  <1>14. CASE Restart
    <2>1. gaveUp' \in BOOLEAN
      BY <1>14, Zenon DEF Restart
    <2> QED
      BY <1>14, <2>1 DEF Restart
  <1>15. CASE UNCHANGED vars
    BY <1>15 DEF vars
  <1> QED
    BY <1>1, <1>2, <1>3, <1>4, <1>5, <1>6, <1>7, <1>8, <1>9, <1>10, <1>11, <1>12, <1>13,
       <1>14, <1>15 DEF Next

LEMMA InitInv == Init => IInv
  <1> SUFFICES ASSUME Init PROVE IInv
    OBVIOUS
  <1>1. AddsAreTracked
    BY DEF Init, AddsAreTracked
  <1>2. SilentUnlessBackingOff /\ InFlightAdds
    BY DEF Init, SilentUnlessBackingOff, InFlightAdds
  <1> QED
    BY <1>1, <1>2, InitType DEF IInv

\* Every step of the worker, the broker and the operator keeps the invariant.
LEMMA NextInv == IInv /\ [Next]_vars => IInv'
  <1> SUFFICES ASSUME IInv, [Next]_vars
               PROVE  AddsAreTracked' /\ SilentUnlessBackingOff'
                      /\ InFlightAdds'
    BY NextType DEF IInv
  <1> USE DEF IInv, AddsAreTracked, SilentUnlessBackingOff, InFlightAdds
  <1>1. CASE Connect
    BY <1>1 DEF Connect
  <1>2. CASE ConnectFails
    BY <1>2 DEF ConnectFails
  <1>3. CASE BrokerAdds
    BY <1>3 DEF BrokerAdds
  <1>4. CASE Added
    BY <1>4 DEF Added
  <1>5. CASE RequestFails
    BY <1>5 DEF RequestFails
  <1>6. CASE Retry
    BY <1>6 DEF Retry
  <1>7. CASE BrokerRestarts
    BY <1>7 DEF BrokerRestarts
  <1>8. CASE Signal
    BY <1>8 DEF Signal
  <1>9. CASE Cancel
    BY <1>9 DEF Cancel, Running
  <1>10. CASE Close
    BY <1>10 DEF Close
  <1>11. CASE CloseFails
    BY <1>11 DEF CloseFails
  <1>12. CASE CancelSwallowed
    BY <1>12 DEF CancelSwallowed
  <1>13. CASE Crash
    BY <1>13 DEF Crash
  <1>14. CASE Restart
    BY <1>14 DEF Restart
  <1>15. CASE UNCHANGED vars
    BY <1>15 DEF vars
  <1> QED
    BY <1>1, <1>2, <1>3, <1>4, <1>5, <1>6, <1>7, <1>8, <1>9, <1>10, <1>11, <1>12, <1>13,
       <1>14, <1>15 DEF Next

THEOREM InvariantHolds == Spec => []IInv
  BY InitInv, NextInv, PTL DEF Spec

\* Type correctness of the worker, the broker and the shutdown.
THEOREM TypeCorrect == Spec => []TypeOK
  <1>1. IInv => TypeOK
    BY DEF IInv
  <1> QED
    BY <1>1, InvariantHolds, PTL

\* Whatever cycles is in started_namespaces, but for lost adds, and nothing
\* is in it that the bridge did not add.
THEOREM AddsStayTracked == Spec => []AddsAreTracked
  <1>1. IInv => AddsAreTracked
    BY DEF IInv
  <1> QED
    BY <1>1, InvariantHolds, PTL

\* Updates are only sent for frames the broker holds.
THEOREM AddComesFirst == Spec => []AddedBeforeWriting
  <1>1. IInv => AddedBeforeWriting
    BY DEF IInv, InFlightAdds, AddedBeforeWriting
  <1> QED
    BY <1>1, InvariantHolds, PTL

\* A cancellation inside the try leaves a silent bus.
THEOREM ShutdownSilences == Spec => []SilentUnlessBackingOff
  <1>1. IInv => SilentUnlessBackingOff
    BY DEF IInv
  <1> QED
    BY <1>1, InvariantHolds, PTL

-----------------------------------------------------------------------------
(* The process.                                                            *)

\* Cancelling a part is a Signal, or nothing, to the restbus writer.
LEMMA CancelPartStep == ASSUME NEW p \in Parts, CancelPart(p) PROVE [Next]_vars
  <1>1. CASE signal' = signal
    BY <1>1 DEF CancelPart, vars
  <1>2. CASE signal' # signal
    <2>1. signal = "none" /\ pc \in Running /\ signal' = "sent"
      BY <1>2 DEF CancelPart
    <2> QED
      BY <2>1 DEF CancelPart, Signal, Next
  <1> QED
    BY <1>1, <1>2

\* So is the failure of a worker.
LEMMA FailsStep == ASSUME NEW w \in Workers, Fails(w) PROVE [Next]_vars
  <1>1. CASE signal' = signal
    BY <1>1 DEF Fails, vars
  <1>2. CASE signal' # signal
    <2>1. signal = "none" /\ pc \in Running /\ signal' = "sent"
      BY <1>2 DEF Fails
    <2> QED
      BY <2>1 DEF Fails, Signal, Next
  <1> QED
    BY <1>1, <1>2

LEMMA StepRefines == [LifeNext]_allVars => [Next]_vars
  <1> SUFFICES ASSUME [LifeNext]_allVars PROVE [Next]_vars
    OBVIOUS
  <1>1. CASE Start \/ StartFails \/ OperatorSignals \/ Stop \/ Exit
    BY <1>1 DEF Start, StartFails, OperatorSignals, Stop, Exit
  <1>2. CASE RestbusRuns
    BY <1>2 DEF RestbusRuns, Next
  <1>3. CASE RestbusCrashes
    BY <1>3 DEF RestbusCrashes, Next
  <1>4. CASE BrokerRestarts /\ UNCHANGED lifeVars
    BY <1>4 DEF Next
  <1>5. ASSUME NEW w \in Workers,
               Break(w) \/ Reconnect(w) \/ Fails(w) \/ Cancelled(w) \/ Swallows(w)
        PROVE  [Next]_vars
    BY <1>5, FailsStep DEF Break, Reconnect, Cancelled, Swallows
  <1>6. ASSUME NEW p \in Parts, CancelPart(p) \/ PartEnds(p) \/ PartRestarts(p)
        PROVE  [Next]_vars
    BY <1>6, CancelPartStep DEF PartEnds, PartRestarts, Next
  <1>7. CASE UNCHANGED allVars
    BY <1>7 DEF allVars
  <1> QED
    BY <1>1, <1>2, <1>3, <1>4, <1>5, <1>6, <1>7 DEF LifeNext, LifeStep

\* The process implements the restbus writer's specification: signals,
\* crashes, restarts of its part and the other workers included.
THEOREM ImplementsRestbus == LifeSpec => Spec
  <1>1. LifeInit => Init
    BY DEF LifeInit
  <1> QED
    BY <1>1, StepRefines, PTL DEF LifeSpec, Spec

\* What still cycles is tracked, in the process.
THEOREM ProcessTracksAdds == LifeSpec => []AddsAreTracked
  BY ImplementsRestbus, AddsStayTracked, PTL

\* Frames are added before they are written, in the process.
THEOREM ProcessAddsFirst == LifeSpec => []AddedBeforeWriting
  BY ImplementsRestbus, AddComesFirst, PTL

\* A cancellation inside the try leaves a silent bus, in the process.
THEOREM ProcessSilences == LifeSpec => []SilentUnlessBackingOff
  BY ImplementsRestbus, ShutdownSilences, PTL

-----------------------------------------------------------------------------
(* The end of the process.                                                 *)

\* What the exit rests on: only a request cancels a part, a part that sleeps
\* or is over has no worker left, and nothing runs before the start.
Rest ==
    /\ main \in {"starting", "refused"} => part = [p \in Parts |-> "off"]
    /\ main = "starting" => \A w \in Workers : task[w] = "over"
    /\ \A p \in Parts : partCancel[p] # "none" => asked
    /\ \A p \in Parts : part[p] = "over" => partCancel[p] # "none"
    /\ \A p \in Parts : part[p] \in {"sleeping", "over"} => MembersOver(p)
    /\ main = "exited" => asked
    /\ main = "exited" => \A p \in Parts : part[p] \in {"off", "over"}
    /\ main = "exited" => \A w \in Workers : task[w] = "over"

LifeInv == LifeTypeOK /\ Rest

LEMMA LifeInitInv == LifeInit => LifeInv
  <1> SUFFICES ASSUME LifeInit PROVE LifeInv
    OBVIOUS
  <1>1. TypeOK
    BY InitType DEF LifeInit
  <1>2. asked \in BOOLEAN
    BY Zenon DEF LifeInit
  <1> QED
    BY <1>1, <1>2 DEF LifeInit, LifeInv, Rest, LifeTypeOK, OwnTypes, Workers, Parts, Alive

LEMMA LifeNextType == LifeTypeOK /\ [LifeNext]_allVars => LifeTypeOK'
  <1> SUFFICES ASSUME LifeTypeOK, [LifeNext]_allVars PROVE OwnTypes'
    BY StepRefines, NextType DEF LifeTypeOK, OwnTypes
  <1> USE DEF LifeTypeOK, OwnTypes
  <1>1. CASE Start
    BY <1>1 DEF Start, Alive
  <1>2. CASE StartFails
    BY <1>2 DEF StartFails
  <1>3. CASE OperatorSignals
    <2>1. asked' \in BOOLEAN
      BY <1>3, Zenon DEF OperatorSignals
    <2> QED
      BY <1>3, <2>1 DEF OperatorSignals
  <1>4. CASE Stop
    BY <1>4 DEF Stop
  <1>5. CASE Exit
    BY <1>5 DEF Exit
  <1>6. CASE RestbusRuns \/ (BrokerRestarts /\ UNCHANGED lifeVars)
    BY <1>6 DEF RestbusRuns, lifeVars
  <1>7. CASE RestbusCrashes
    BY <1>7 DEF RestbusCrashes, CancelWorkers, Parts
  <1>8. ASSUME NEW w \in Workers,
               Break(w) \/ Reconnect(w) \/ Fails(w) \/ Cancelled(w) \/ Swallows(w)
        PROVE  OwnTypes'
    <2> PartOf(w) \in Parts
      BY DEF PartOf, Parts, Workers
    <2>1. CASE Break(w)
      BY <2>1 DEF Break, Failure, Alive
    <2>2. CASE Reconnect(w)
      BY <2>2 DEF Reconnect, Alive
    <2>3. CASE Fails(w)
      BY <2>3 DEF Fails, Failure
    <2>4. CASE Cancelled(w)
      BY <2>4 DEF Cancelled
    <2>5. CASE Swallows(w)
      <3>1. CASE w = "health"
        <4>1. task' = [task EXCEPT ![w] = "over"] /\ crashed' = crashed \cup {w}
              /\ failures' = failures + 1
          BY <2>5, <3>1 DEF Swallows, Failure
        <4>2. w \in Parts
          BY <3>1 DEF Parts
        <4> QED
          BY <2>5, <4>1, <4>2 DEF Swallows
      <3>2. CASE w # "health"
        BY <2>5, <3>2 DEF Swallows, Failure, Alive
      <3> QED
        BY <3>1, <3>2
    <2> QED
      BY <1>8, <2>1, <2>2, <2>3, <2>4, <2>5
  <1>9. ASSUME NEW p \in Parts, CancelPart(p) \/ PartEnds(p) \/ PartRestarts(p)
        PROVE  OwnTypes'
    <2>1. CASE CancelPart(p)
      BY <2>1 DEF CancelPart, CancelWorkers
    <2>2. CASE PartEnds(p)
      BY <2>2 DEF PartEnds
    <2>3. CASE PartRestarts(p)
      BY <2>3 DEF PartRestarts, Alive
    <2> QED
      BY <1>9, <2>1, <2>2, <2>3
  <1>10. CASE UNCHANGED allVars
    BY <1>10 DEF allVars, lifeVars
  <1> QED
    BY <1>1, <1>2, <1>3, <1>4, <1>5, <1>6, <1>7, <1>8, <1>9, <1>10 DEF LifeNext, LifeStep

\* Every step of the process keeps what the exit rests on.
LEMMA LifeNextInv == LifeInv /\ [LifeNext]_allVars => LifeInv'
  <1> SUFFICES ASSUME LifeInv, [LifeNext]_allVars PROVE Rest'
    BY LifeNextType DEF LifeInv
  <1> USE DEF LifeInv, LifeTypeOK, OwnTypes, Rest, MembersOver
  <1>1. CASE Start
    BY <1>1 DEF Start
  <1>2. CASE StartFails
    BY <1>2 DEF StartFails, vars
  <1>3. CASE OperatorSignals
    BY <1>3 DEF OperatorSignals, vars
  <1>4. CASE Stop
    BY <1>4 DEF Stop, vars
  <1>5. CASE Exit
    <2>1. \A p \in Parts : part[p] = "over" /\ partCancel[p] # "none" /\ MembersOver(p)
      BY <1>5 DEF Exit
    <2>2. \A w \in Workers : PartOf(w) \in Parts
      BY DEF PartOf, Parts, Workers
    <2>3. \A w \in Workers : task[w] = "over"
      BY <2>1, <2>2
    <2>4. asked
      BY <2>1 DEF Parts
    <2> QED
      BY <1>5, <2>1, <2>3, <2>4 DEF Exit, vars
  <1>6. CASE RestbusRuns
    BY <1>6 DEF RestbusRuns, lifeVars
  <1>7. CASE BrokerRestarts /\ UNCHANGED lifeVars
    BY <1>7 DEF BrokerRestarts, lifeVars
  <1>8. CASE RestbusCrashes
    BY <1>8 DEF RestbusCrashes, Crash
  <1>9. ASSUME NEW w \in Workers,
               Break(w) \/ Reconnect(w) \/ Fails(w) \/ Cancelled(w) \/ Swallows(w)
        PROVE  Rest'
    <2>1. task[w] # "over" /\ pc' = pc
      BY <1>9 DEF Break, Reconnect, Fails, Cancelled, Swallows, Alive, vars
    <2>2. UNCHANGED <<main, asked, part, partCancel>>
      BY <1>9 DEF Break, Reconnect, Fails, Cancelled, Swallows
    <2>3. \A v \in Workers \ {w} : task'[v] = task[v]
      BY <1>9 DEF Break, Reconnect, Fails, Cancelled, Swallows
    <2> QED
      BY <2>1, <2>2, <2>3
  <1>10. ASSUME NEW p \in Parts, CancelPart(p) \/ PartEnds(p) \/ PartRestarts(p)
         PROVE  Rest'
    <2>1. CASE CancelPart(p)
      BY <2>1 DEF CancelPart
    <2>2. CASE PartEnds(p)
      BY <2>2 DEF PartEnds, vars
    <2>3. CASE PartRestarts(p)
      BY <2>3 DEF PartRestarts, Restart, vars
    <2> QED
      BY <1>10, <2>1, <2>2, <2>3
  <1>11. CASE UNCHANGED allVars
    BY <1>11 DEF allVars, lifeVars, vars
  <1> QED
    BY <1>1, <1>2, <1>3, <1>4, <1>5, <1>6, <1>7, <1>8, <1>9, <1>10, <1>11
       DEF LifeNext, LifeStep

THEOREM LifeInvariantHolds == LifeSpec => []LifeInv
  BY LifeInitInv, LifeNextInv, PTL DEF LifeSpec

\* Type correctness of the process.
THEOREM LifeTypeCorrect == LifeSpec => []LifeTypeOK
  <1>1. LifeInv => LifeTypeOK
    BY DEF LifeInv
  <1> QED
    BY <1>1, LifeInvariantHolds, PTL

\* Nothing but a signal ends the process, and it leaves no worker behind.
THEOREM ProcessExitsCleanly == LifeSpec => []ExitIsClean
  <1>1. LifeInv => ExitIsClean
    BY DEF LifeInv, Rest, ExitIsClean, MembersOver, Parts
  <1> QED
    BY <1>1, LifeInvariantHolds, PTL
=============================================================================
