----------------------------- MODULE VCarProofs -----------------------------
(***************************************************************************)
(* Proofs about VCar for queues of any length and any number of faults:    *)
(* the outputs stay in step with the memories, a step of the scenario is   *)
(* settled within two exchanges, and the car is a CarBus.                  *)
(***************************************************************************)
EXTENDS VCar, TLAPS

\* What a handler waits to have written is what it remembers already.
InFlight ==
    /\ hazardTo # None => hazardTo = alerting
    /\ hmiTo # None => hmiTo = last

IInv == TypeOK /\ InFlight /\ OutputsInStep

\* VC's decision is one of four outputs.
LEMMA Decisions ==
    ASSUME NEW s
    PROVE  /\ decide(s) \in Hmis
           /\ decide(s).telltale \in {0, 1, 2}
  <1>1. decide(s) \in {Hmi(1, 1), Hmi(1, 0), Hmi(2, 0), Hmi(0, 0)}
    BY Zenon DEF decide, Silent, TELLTALE_NONE, TELLTALE_CHILD_PRESENCE, TELLTALE_HAZARD,
                 CHIME_NONE, CHIME_CHILD_PRESENCE_ALERT
  <1> QED
    BY <1>1 DEF Hmi, Hmis

LEMMA Frames ==
    /\ Zeros \in States /\ Silent \in Hmis
    /\ State(FALSE, LV_ON, FALSE) \in States
  <1>1. FALSE \in BOOLEAN
    OBVIOUS
  <1> QED
    BY <1>1 DEF Zeros, Silent, State, Hmi, States, Hmis, LvStates, LV_ON, TELLTALE_NONE,
                CHIME_NONE

\* Every step of the scenario is a pair of a Boolean and OFF or ON.
LEMMA Member ==
    ASSUME NEW S, NEW a \in S, NEW b \in S, NEW c \in S, NEW d \in S, NEW i \in 1..4
    PROVE  <<a, b, c, d>>[i] \in S
  OBVIOUS

LEMMA Steps ==
    ASSUME NEW i \in 1..4
    PROVE  /\ SCENARIO[i][1] \in BOOLEAN /\ SCENARIO[i][2] \in {2, 4}
           /\ (i % Len(SCENARIO)) + 1 \in 1..4
  <1>1. Len(SCENARIO) = 4
    BY DEF SCENARIO
  <1>2. (i % 4) + 1 \in 1..4
    OBVIOUS
  <1>3. /\ <<FALSE, LV_ON>> \in BOOLEAN \X {2, 4} /\ <<FALSE, LV_OFF>> \in BOOLEAN \X {2, 4}
        /\ <<TRUE, LV_OFF>> \in BOOLEAN \X {2, 4}
    BY DEF LV_ON, LV_OFF
  <1>4. SCENARIO[i] \in BOOLEAN \X {2, 4}
    BY <1>3, Member, Zenon DEF SCENARIO
  <1> QED
    BY <1>1, <1>2, <1>4

LEMMA InitType == Init => TypeOK
  <1> SUFFICES ASSUME Init PROVE TypeOK
    OBVIOUS
  <1>1. alerting \in BOOLEAN
    BY Zenon DEF Init
  <1>2. up \in [ECUs -> {"starting", "running"}] /\ broken \in [ECUs -> BOOLEAN]
    BY Zenon DEF Init
  <1>3. toVC \in Seq(States) /\ toBCM \in Seq(Hmis)
    BY DEF Init
  <1>4. /\ vehicle \in States /\ hmi \in Hmis
        /\ last = None /\ hazardTo = None /\ hmiTo = None
    BY Frames DEF Init
  <1>5. scenario \in 0..4 /\ exchanges \in 0..3 /\ drives \in 0..MaxDrives
        /\ faults \in 0..MaxFaults
    BY BoundsAssumption DEF Init
  <1> QED
    BY <1>1, <1>2, <1>3, <1>4, <1>5 DEF TypeOK

LEMMA InitInv == Init => IInv
  <1> SUFFICES ASSUME Init PROVE IInv
    OBVIOUS
  <1>1. TypeOK
    BY InitType
  <1>2. InFlight /\ OutputsInStep
    BY DEF Init, InFlight, OutputsInStep, ECUs
  <1> QED
    BY <1>1, <1>2 DEF IInv

LEMMA NextType == TypeOK /\ [Next]_vars => TypeOK'
  <1> SUFFICES ASSUME TypeOK, [Next]_vars PROVE TypeOK'
    OBVIOUS
  <1> USE DEF TypeOK
  <1>1. CASE BcmOnline
    <2>1. vehicle' \in States
      BY <1>1, Frames DEF BcmOnline
    <2>2. broken' \in [ECUs -> BOOLEAN]
      BY <1>1, Zenon DEF BcmOnline
    <2>3. up' \in [ECUs -> {"starting", "running"}]
      BY <1>1 DEF BcmOnline
    <2> QED
      BY <1>1, <2>1, <2>2, <2>3 DEF BcmOnline
  <1>2. CASE VcOnline
    <2>1. hmi' \in Hmis
      BY <1>2, Frames DEF VcOnline
    <2>2. broken' \in [ECUs -> BOOLEAN]
      BY <1>2, Zenon DEF VcOnline
    <2>3. up' \in [ECUs -> {"starting", "running"}]
      BY <1>2 DEF VcOnline
    <2> QED
      BY <1>2, <2>1, <2>2, <2>3 DEF VcOnline
  <1>3. CASE BcmHandles
    <2>1. Head(toBCM) \in Hmis /\ toBCM' \in Seq(Hmis)
      BY <1>3 DEF BcmHandles
    <2>2. alerting' \in BOOLEAN
      BY <1>3, Zenon DEF BcmHandles, Chimes
    <2>3. hazardTo' \in BOOLEAN \cup {None}
      BY <1>3, <2>2 DEF BcmHandles
    <2> QED
      BY <1>3, <2>1, <2>2, <2>3 DEF BcmHandles
  <1>4. CASE BcmUpdates
    <2>1. vehicle' \in States
      BY <1>4 DEF BcmUpdates, States
    <2>2. broken' \in [ECUs -> BOOLEAN]
      BY <1>4, Zenon DEF BcmUpdates
    <2> QED
      BY <1>4, <2>1, <2>2 DEF BcmUpdates
  <1>5. CASE VcHandles
    <2>1. last' \in Hmis /\ toVC' \in Seq(States)
      BY <1>5, Decisions DEF VcHandles
    <2>2. exchanges' \in 0..3
      BY <1>5 DEF VcHandles
    <2>3. hmiTo' \in Hmis \cup {None}
      BY <1>5, <2>1 DEF VcHandles
    <2> QED
      BY <1>5, <2>1, <2>2, <2>3 DEF VcHandles
  <1>6. CASE VcUpdates
    <2>1. broken' \in [ECUs -> BOOLEAN]
      BY <1>6, Zenon DEF VcUpdates
    <2> QED
      BY <1>6, <2>1 DEF VcUpdates
  <1>7. CASE BcmRestarts
    <2>1. vehicle' \in States
      BY <1>7, Frames DEF BcmRestarts
    <2>2. broken' \in [ECUs -> BOOLEAN] /\ alerting' \in BOOLEAN
      BY <1>7, Zenon DEF BcmRestarts
    <2>3. up' \in [ECUs -> {"starting", "running"}]
      BY <1>7 DEF BcmRestarts
    <2>4. faults' \in 0..MaxFaults
      <3>1. faults < MaxFaults /\ faults' = faults + 1
        BY <1>7 DEF BcmRestarts, Fault
      <3> QED
        BY <3>1, BoundsAssumption
    <2> QED
      BY <1>7, <2>1, <2>2, <2>3, <2>4 DEF BcmRestarts
  <1>8. CASE VcRestarts
    <2>1. hmi' \in Hmis
      BY <1>8, Frames DEF VcRestarts
    <2>2. broken' \in [ECUs -> BOOLEAN]
      BY <1>8, Zenon DEF VcRestarts
    <2>3. up' \in [ECUs -> {"starting", "running"}]
      BY <1>8 DEF VcRestarts
    <2>4. faults' \in 0..MaxFaults
      <3>1. faults < MaxFaults /\ faults' = faults + 1
        BY <1>8 DEF VcRestarts, Fault
      <3> QED
        BY <3>1, BoundsAssumption
    <2> QED
      BY <1>8, <2>1, <2>2, <2>3, <2>4 DEF VcRestarts
  <1>9. CASE BcmUpdateFails \/ VcUpdateFails
    <2>1. broken' \in [ECUs -> BOOLEAN]
      BY <1>9, Zenon DEF BcmUpdateFails, VcUpdateFails
    <2>2. faults' \in 0..MaxFaults
      BY <1>9, BoundsAssumption DEF BcmUpdateFails, VcUpdateFails, Fault
    <2> QED
      BY <1>9, <2>1, <2>2 DEF BcmUpdateFails, VcUpdateFails
  <1>10. CASE SendsState \/ SendsHmi
    <2>1. CASE SendsState
      BY <2>1 DEF SendsState
    <2>2. CASE SendsHmi
      BY <2>2 DEF SendsHmi
    <2> QED
      BY <1>10, <2>1, <2>2
  <1>11. CASE ScenarioStep
    <2>1. scenario \in 1..4
      BY <1>11 DEF ScenarioStep
    <2>2. vehicle' \in States
      <3>1. SCENARIO[scenario][1] \in BOOLEAN /\ SCENARIO[scenario][2] \in LvStates
        BY <2>1, Steps DEF LvStates
      <3> QED
        BY <1>11, <3>1 DEF ScenarioStep, States
    <2> QED
      BY <1>11, <2>1, <2>2, Steps DEF ScenarioStep
  <1>12. ASSUME NEW d \in Driven, Drive(d[1], d[2]) PROVE TypeOK'
    <2>1. d[1] \in BOOLEAN /\ d[2] \in LvStates
      BY DrivenAssumption
    <2>2. vehicle' \in States
      BY <1>12, <2>1 DEF Drive, States
    <2>3. drives' \in 0..MaxDrives
      BY <1>12, BoundsAssumption DEF Drive
    <2> QED
      BY <1>12, <2>2, <2>3 DEF Drive
  <1>13. CASE UNCHANGED vars
    BY <1>13 DEF vars
  <1> QED
    BY <1>1, <1>2, <1>3, <1>4, <1>5, <1>6, <1>7, <1>8, <1>9, <1>10, <1>11, <1>12, <1>13
       DEF Next, Ecus

\* What an ECU has been told to write is never lost on the way to its frame.
LEMMA NextInStep == IInv /\ [Next]_vars => InFlight' /\ OutputsInStep'
  <1> SUFFICES ASSUME IInv, [Next]_vars PROVE InFlight' /\ OutputsInStep'
    OBVIOUS
  <1>0. TypeOK'
    BY NextType DEF IInv
  <1> USE DEF IInv, TypeOK, InFlight, OutputsInStep, ECUs
  <1>1. CASE BcmOnline
    BY <1>1 DEF BcmOnline, State
  <1>2. CASE VcOnline
    BY <1>2 DEF VcOnline
  <1>3. CASE BcmHandles
    BY <1>0, <1>3, NoneAssumption DEF BcmHandles
  <1>4. CASE BcmUpdates
    BY <1>4 DEF BcmUpdates, States
  <1>5. CASE VcHandles
    BY <1>5, Decisions, NoneAssumption DEF VcHandles
  <1>6. CASE VcUpdates
    BY <1>6 DEF VcUpdates
  <1>7. CASE BcmRestarts
    BY <1>7 DEF BcmRestarts
  <1>8. CASE VcRestarts
    BY <1>8 DEF VcRestarts
  <1>9. CASE BcmUpdateFails
    BY <1>9 DEF BcmUpdateFails
  <1>10. CASE VcUpdateFails
    BY <1>10 DEF VcUpdateFails
  <1>11. CASE SendsState \/ SendsHmi
    BY <1>11 DEF SendsState, SendsHmi
  <1>12. CASE ScenarioStep
    BY <1>12 DEF ScenarioStep, States
  <1>13. ASSUME NEW d \in Driven, Drive(d[1], d[2]) PROVE InFlight' /\ OutputsInStep'
    BY <1>13 DEF Drive, States
  <1>14. CASE UNCHANGED vars
    BY <1>14 DEF vars
  <1> QED
    BY <1>1, <1>2, <1>3, <1>4, <1>5, <1>6, <1>7, <1>8, <1>9, <1>10, <1>11, <1>12, <1>13,
       <1>14 DEF Next, Ecus

THEOREM InvariantHolds == Spec => []IInv
  <1>1. IInv /\ [Next]_vars => IInv'
    BY NextType, NextInStep DEF IInv
  <1> QED
    BY <1>1, InitInv, PTL DEF Spec

\* Type correctness of the car.
THEOREM TypeCorrect == Spec => []TypeOK
  <1>1. IInv => TypeOK
    BY DEF IInv
  <1> QED
    BY <1>1, InvariantHolds, PTL

\* Each ECU sends what it remembers to have said.
THEOREM StaysInStep == Spec => []OutputsInStep
  <1>1. IInv => OutputsInStep
    BY DEF IInv
  <1> QED
    BY <1>1, InvariantHolds, PTL

-----------------------------------------------------------------------------
(* The refinement of CarBus.                                               *)

LEMMA InitBus == Init => Bus!BusInit
  BY DEF Init, Bus!BusInit, Zeros, Silent, State, Hmi, TELLTALE_NONE

\* VC only ever remembers, and so only ever writes, a decision.
Decided == last # None => last.telltale \in {0, 1, 2}

LEMMA NextBus == IInv /\ Decided /\ [Next]_vars => Decided' /\ [Bus!BusNext]_Bus!busVars
  <1> SUFFICES ASSUME IInv, Decided, [Next]_vars
               PROVE  Decided' /\ [Bus!BusNext]_Bus!busVars
    OBVIOUS
  <1> DEFINE Goal == Decided' /\ [Bus!BusNext]_Bus!busVars
  <1> USE DEF IInv, TypeOK, Decided, Bus!BusNext, Bus!BcmWrites, Bus!VcWrites, Bus!OthersWrite,
              Bus!busVars, Bus!BcmStates, Bus!VcTelltales, Bus!TELLTALE_HAZARD
  <1>1. CASE BcmOnline
    BY <1>1 DEF BcmOnline, State, LV_ON
  <1>2. CASE VcOnline
    BY <1>2 DEF VcOnline, Silent, Hmi, TELLTALE_NONE
  <1>3. CASE BcmHandles
    BY <1>3 DEF BcmHandles
  <1>4. CASE BcmUpdates
    BY <1>4 DEF BcmUpdates, States
  <1>5. CASE VcHandles
    BY <1>5, Decisions DEF VcHandles
  <1>6. CASE VcUpdates
    BY <1>6 DEF VcUpdates, InFlight
  <1>7. CASE BcmRestarts
    BY <1>7 DEF BcmRestarts, Zeros, State
  <1>8. CASE VcRestarts
    BY <1>8 DEF VcRestarts, Silent, Hmi, TELLTALE_NONE
  <1>9. CASE BcmUpdateFails \/ VcUpdateFails
    BY <1>9 DEF BcmUpdateFails, VcUpdateFails
  <1>10. CASE SendsState \/ SendsHmi
    BY <1>10 DEF SendsState, SendsHmi
  <1>11. CASE ScenarioStep
    <2>1. scenario \in 1..4
      BY <1>11 DEF ScenarioStep
    <2>2. vehicle'.lv \in {2, 4}
      BY <1>11, <2>1, Steps DEF ScenarioStep, States
    <2> QED
      BY <1>11, <2>2 DEF ScenarioStep
  <1>12. ASSUME NEW d \in Driven, Drive(d[1], d[2]) PROVE Goal
    <2>1. vehicle'.lv = d[2]
      BY <1>12 DEF Drive, States
    <2>2. UNCHANGED <<hmi, last>>
      BY <1>12 DEF Drive
    <2>3. vehicle'.lv \in {e[2] : e \in Driven}
      BY <2>1
    <2> QED
      BY <2>2, <2>3
  <1>13. CASE UNCHANGED vars
    BY <1>13 DEF vars
  <1> QED
    BY <1>1, <1>2, <1>3, <1>4, <1>5, <1>6, <1>7, <1>8, <1>9, <1>10, <1>11, <1>12, <1>13
       DEF Next, Ecus

\* Everything the two ECUs and the other writers do is what CarBus allows, so
\* that what VerifyBridge assumes of the car holds for it.
THEOREM CarImplementsBus == Spec => ImplementsBus
  <1>1. Init => Decided
    BY DEF Init, Decided
  <1> QED
    BY <1>1, InitBus, NextBus, InvariantHolds, PTL DEF Spec, ImplementsBus, Bus!BusSpec

-----------------------------------------------------------------------------
(* A step of the scenario settles within two exchanges.                    *)

\* What VC says of a state frame, ordered as it changes when nobody is left
\* in the car: the alert, then the hazard lights it had turned on, then
\* nothing.  A frame never calls for less than the ones sent before it.
Alert == Hmi(TELLTALE_CHILD_PRESENCE, CHIME_CHILD_PRESENCE_ALERT)
Hazard == Hmi(TELLTALE_HAZARD, CHIME_NONE)
Calm(s) == IF s.child THEN 0 ELSE IF s.hazard THEN 1 ELSE 2
Said(h) == IF h = Alert THEN 0 ELSE IF h = Hazard THEN 1 ELSE 2

Undisturbed == scenario # 0 /\ drives = 0 /\ faults = 0

\* No child: VC's output, the frames on their way to it and BCM's frame are
\* in the order of Calm, and every exchange so far moved the output along it.
FallingStates ==
    /\ last \in {None, Alert, Hazard, Silent}
    /\ ~vehicle.child
    /\ Said(last) <= Calm(vehicle)
    /\ \A i \in DOMAIN toVC :
          /\ toVC[i].child => toVC[i].lv \in LV_PARKED
          /\ Said(last) <= Calm(toVC[i]) /\ Calm(toVC[i]) <= Calm(vehicle)
    /\ \A i, j \in DOMAIN toVC : i < j => Calm(toVC[i]) <= Calm(toVC[j])
    /\ exchanges <= IF last = None THEN 0 ELSE Said(last)

\* The chime ends in VC's memory, in its frame, in the frames on their way to
\* BCM and in BCM's memory, in this order, and begins nowhere.
FallingAlerts ==
    /\ hazardTo # TRUE
    /\ ~alerting => ~Chimes(hmi) /\ \A i \in DOMAIN toBCM : ~Chimes(toBCM[i])
    /\ \A i \in DOMAIN toBCM : ~Chimes(toBCM[i]) => ~Chimes(hmi)
    /\ \A i, j \in DOMAIN toBCM : i < j /\ ~Chimes(toBCM[i]) => ~Chimes(toBCM[j])
    /\ ~Chimes(hmi) => last # Alert

\* A child in the parked car: once VC has seen it, it says nothing else.
Rising ==
    /\ vehicle.child /\ vehicle.lv = LV_OFF
    /\ \A i \in DOMAIN toVC : IF toVC[i].child THEN toVC[i].lv = LV_OFF ELSE ~toVC[i].hazard
    /\ \A i, j \in DOMAIN toVC : i < j /\ toVC[i].child => toVC[j].child
    /\ \/ last = Silent /\ exchanges = 0
       \/ last = Alert /\ exchanges <= 1 /\ \A i \in DOMAIN toVC : toVC[i].child

\* Until both ECUs have started, nothing has been said.
Starting ==
    \/ up["BCM"] = "running" /\ up["VC"] = "running"
    \/ scenario = 1 /\ last \in {None, Silent} /\ ~alerting

Course ==
    Undisturbed =>
        /\ ~broken["BCM"] /\ ~broken["VC"] /\ Starting
        /\ scenario = 4 => Rising
        /\ scenario # 4 => FallingStates /\ FallingAlerts

LEMMA Outputs ==
    /\ None \notin {Alert, Hazard, Silent} /\ None # TRUE
    /\ Alert # Hazard /\ Alert # Silent /\ Hazard # Silent
    /\ Chimes(Alert) /\ ~Chimes(Hazard) /\ ~Chimes(Silent)
    /\ Said(Alert) = 0 /\ Said(Hazard) = 1 /\ Said(Silent) = 2 /\ Said(None) = 2
  <1> USE DEF Alert, Hazard, Silent, Hmi, TELLTALE_NONE, TELLTALE_CHILD_PRESENCE,
              TELLTALE_HAZARD, CHIME_NONE, CHIME_CHILD_PRESENCE_ALERT
  <1>1. Alert \in Hmis /\ Hazard \in Hmis /\ Silent \in Hmis
    BY DEF Hmis
  <1>2. None \notin {Alert, Hazard, Silent}
    BY <1>1, NoneAssumption
  <1>5. None # TRUE
    BY NoneAssumption, Zenon
  <1>3. Alert # Hazard /\ Alert # Silent /\ Hazard # Silent
    OBVIOUS
  <1>4. Chimes(Alert) /\ ~Chimes(Hazard) /\ ~Chimes(Silent)
    BY DEF Chimes
  <1> QED
    BY <1>2, <1>3, <1>4, <1>5 DEF Said

\* In a parked car VC says exactly what the frame calls for.
LEMMA SaysWhatIsCalledFor ==
    ASSUME NEW s \in States, s.child => s.lv \in LV_PARKED
    PROVE  /\ decide(s) = IF s.child THEN Alert ELSE IF s.hazard THEN Hazard ELSE Silent
           /\ decide(s) \in {Alert, Hazard, Silent}
           /\ Said(decide(s)) = Calm(s)
  <1>1. decide(s) = IF s.child THEN Alert ELSE IF s.hazard THEN Hazard ELSE Silent
    BY Zenon DEF decide, Alert, Hazard
  <1> QED
    BY <1>1, Outputs DEF Calm

LEMMA InitCourse == Init => Course
  <1> SUFFICES ASSUME Init PROVE Course
    OBVIOUS
  <1>1. ~broken["BCM"] /\ ~broken["VC"] /\ ~alerting /\ last = None /\ hmi = Silent
        /\ toVC = <<>> /\ toBCM = <<>> /\ scenario \in {0, 1} /\ hazardTo = None /\ exchanges = 0
    BY DEF Init, ECUs
  <1>2. ~vehicle.child /\ Calm(vehicle) = 2
    BY DEF Init, Zeros, State, Calm
  <1>3. FallingStates
    BY <1>1, <1>2, Outputs DEF FallingStates
  <1>4. FallingAlerts
    <2>1. hazardTo # TRUE
      BY <1>1, Outputs, Zenon
    <2>2. \A i \in DOMAIN toBCM : FALSE
      BY <1>1
    <2>3. ~Chimes(hmi) /\ last # Alert
      BY <1>1, Outputs
    <2> QED
      BY <2>1, <2>2, <2>3, Zenon DEF FallingAlerts
  <1> QED
    BY <1>1, <1>3, <1>4 DEF Course, Starting, Undisturbed

\* A frame behind the first is one of the frames.
LEMMA TailFrames ==
    ASSUME NEW S, NEW q \in Seq(S), q # <<>>
    PROVE  /\ Head(q) \in S /\ Head(q) = q[1] /\ 1 \in DOMAIN q
           /\ \A i \in DOMAIN Tail(q) : i + 1 \in DOMAIN q /\ Tail(q)[i] = q[i + 1]
           /\ \A i \in DOMAIN Tail(q) : i \in Nat /\ 1 < i + 1
  OBVIOUS

\* A frame of a longer queue is the new one or one of the old ones.
LEMMA AppendFrames ==
    ASSUME NEW S, NEW q \in Seq(S), NEW x \in S, NEW i \in DOMAIN Append(q, x)
    PROVE  /\ i \in DOMAIN q => Append(q, x)[i] = q[i]
           /\ i \notin DOMAIN q => Append(q, x)[i] = x /\ \A j \in DOMAIN Append(q, x) : ~(i < j)
  OBVIOUS

LEMMA OnlineCourse == IInv /\ Course /\ Undisturbed /\ (BcmOnline \/ VcOnline) => Course'
  <1> SUFFICES ASSUME IInv, Course, Undisturbed, BcmOnline \/ VcOnline PROVE Course'
    OBVIOUS
  <1>1. /\ scenario = 1 /\ last \in {None, Silent} /\ ~alerting
        /\ FallingStates /\ FallingAlerts /\ ~broken["BCM"] /\ ~broken["VC"]
    <2>1. up["BCM"] = "starting" \/ up["VC"] = "starting"
      BY DEF BcmOnline, VcOnline
    <2>2. Starting /\ ~broken["BCM"] /\ ~broken["VC"]
      BY Zenon DEF Course
    <2>3. scenario = 1 /\ last \in {None, Silent} /\ ~alerting
      BY <2>1, <2>2 DEF Starting
    <2>4. scenario # 4
      BY <2>3
    <2>5. FallingStates /\ FallingAlerts
      BY <2>4, Zenon DEF Course
    <2> QED
      BY <2>2, <2>3, <2>5, Zenon
  <1>2. TypeOK
    BY DEF IInv
  <1>3. CASE BcmOnline
    <2>1. ~vehicle'.child /\ Calm(vehicle') = 2
      BY <1>3 DEF BcmOnline, State, Calm
    <2>2. Said(last) = 2 /\ \A i \in DOMAIN toVC : Calm(toVC[i]) \in 0..2
      BY <1>1, Outputs DEF Calm
    <2>6. UNCHANGED <<last, toVC, exchanges>>
      BY <1>3 DEF BcmOnline
    <2>7. Said(last) <= Calm(vehicle') /\ \A i \in DOMAIN toVC : Calm(toVC[i]) <= Calm(vehicle')
      BY <2>1, <2>2
    <2>5. FallingStates'
      BY <1>1, <2>1, <2>6, <2>7 DEF FallingStates
    <2>3. FallingAlerts'
      BY <1>1, <1>3 DEF FallingAlerts, BcmOnline
    <2>4. ~broken'["BCM"] /\ ~broken'["VC"]
      BY <1>1, <1>2, <1>3 DEF BcmOnline, TypeOK, ECUs
    <2> QED
      BY <1>1, <1>3, <2>3, <2>4, <2>5 DEF Course, Starting, BcmOnline
  <1>4. CASE VcOnline
    <2>1. FallingStates'
      BY <1>1, <1>4 DEF FallingStates, VcOnline
    <2>2. FallingAlerts'
      BY <1>1, <1>4, Outputs DEF FallingAlerts, VcOnline
    <2>3. ~broken'["BCM"] /\ ~broken'["VC"]
      BY <1>1, <1>2, <1>4 DEF VcOnline, TypeOK, ECUs
    <2> QED
      BY <1>1, <1>4, <2>1, <2>2, <2>3 DEF Course, Starting, VcOnline
  <1> QED
    BY <1>3, <1>4

LEMMA BcmHandlesCourse == IInv /\ Course /\ Undisturbed /\ BcmHandles => Course'
  <1> SUFFICES ASSUME IInv, Course, Undisturbed, BcmHandles PROVE Course'
    OBVIOUS
  <1> USE DEF BcmHandles
  <1>1. toBCM \in Seq(Hmis) /\ toBCM # <<>> /\ alerting \in BOOLEAN
    BY DEF IInv, TypeOK
  <1>2. ASSUME FallingAlerts PROVE FallingAlerts' /\ (alerting' => alerting)
    <2>1. alerting' => alerting
      BY <1>1, <1>2, TailFrames, Zenon DEF FallingAlerts
    <2>2. hazardTo' # TRUE
      BY <1>1, <2>1, NoneAssumption
    <2>3. \A i \in DOMAIN toBCM' : \E k \in DOMAIN toBCM : toBCM'[i] = toBCM[k] /\ 1 < k
      BY <1>1, TailFrames
    <2>4. \A i, j \in DOMAIN toBCM' : i < j =>
              \E k, m \in DOMAIN toBCM : k < m /\ toBCM'[i] = toBCM[k] /\ toBCM'[j] = toBCM[m]
      <3> TAKE i, j \in DOMAIN toBCM'
      <3>1. /\ i + 1 \in DOMAIN toBCM /\ toBCM'[i] = toBCM[i + 1] /\ i \in Nat
            /\ j + 1 \in DOMAIN toBCM /\ toBCM'[j] = toBCM[j + 1] /\ j \in Nat
        BY <1>1, TailFrames
      <3>2. i < j => i + 1 < j + 1
        BY <3>1
      <3> QED
        BY <3>1, <3>2
    <2>5. ~alerting' => ~Chimes(hmi) /\ \A i \in DOMAIN toBCM' : ~Chimes(toBCM'[i])
      <3> SUFFICES ASSUME ~alerting' PROVE ~Chimes(hmi) /\ \A i \in DOMAIN toBCM' : ~Chimes(toBCM'[i])
        OBVIOUS
      <3>1. ~Chimes(toBCM[1]) /\ 1 \in DOMAIN toBCM
        BY <1>1, TailFrames
      <3> QED
        BY <1>2, <2>3, <3>1 DEF FallingAlerts
    <2>6. /\ \A i \in DOMAIN toBCM' : ~Chimes(toBCM'[i]) => ~Chimes(hmi)
          /\ ~Chimes(hmi) => last # Alert
      BY <1>2, <2>3 DEF FallingAlerts
    <2>7. \A i, j \in DOMAIN toBCM' : i < j /\ ~Chimes(toBCM'[i]) => ~Chimes(toBCM'[j])
      BY <1>2, <2>4 DEF FallingAlerts
    <2> QED
      BY <2>1, <2>2, <2>5, <2>6, <2>7 DEF FallingAlerts
  <1>3. FallingStates => FallingStates'
    BY DEF FallingStates
  <1>4. Rising => Rising'
    BY DEF Rising
  <1>5. FallingAlerts /\ Starting => Starting'
    BY <1>2 DEF Starting
  <1>6. scenario = 4 /\ Starting => Starting'
    BY DEF Starting
  <1> QED
    BY <1>2, <1>3, <1>4, <1>5, <1>6 DEF Course, Undisturbed

LEMMA BcmUpdatesCourse == IInv /\ Course /\ Undisturbed /\ BcmUpdates => Course'
  <1> SUFFICES ASSUME IInv, Course, Undisturbed, BcmUpdates PROVE Course'
    OBVIOUS
  <1> USE DEF BcmUpdates
  <1>1. /\ vehicle' = [vehicle EXCEPT !.hazard = hazardTo]
        /\ vehicle \in States /\ hazardTo \in BOOLEAN
        /\ ~broken'["BCM"] /\ (broken["VC"] <=> broken'["VC"])
    BY DEF IInv, TypeOK, ECUs
  <1>2. vehicle'.child = vehicle.child /\ vehicle'.lv = vehicle.lv /\ vehicle'.hazard = hazardTo
    BY <1>1 DEF States
  <1>3. ASSUME FallingAlerts, FallingStates PROVE FallingAlerts' /\ FallingStates'
    <2>1. hazardTo = FALSE /\ ~vehicle.child
      BY <1>1, <1>3 DEF FallingAlerts, FallingStates
    <2>2. Calm(vehicle') = 2 /\ Calm(vehicle) \in 0..2 /\ \A h : Said(h) \in 0..2
      BY <1>2, <2>1 DEF Calm, Said
    <2>3. \A i \in DOMAIN toVC : Calm(toVC[i]) \in 0..2
      BY DEF Calm
    <2>4. FallingStates'
      BY <1>2, <1>3, <2>1, <2>2, <2>3 DEF FallingStates
    <2>5. FallingAlerts'
      BY <1>3, NoneAssumption DEF FallingAlerts
    <2> QED
      BY <2>4, <2>5
  <1>4. Rising => Rising'
    BY <1>2 DEF Rising
  <1>5. Starting => Starting'
    BY DEF Starting
  <1> QED
    BY <1>1, <1>3, <1>4, <1>5 DEF Course, Undisturbed

LEMMA VcHandlesCourse == IInv /\ Course /\ Undisturbed /\ VcHandles => Course'
  <1> SUFFICES ASSUME IInv, Course, Undisturbed, VcHandles PROVE Course'
    OBVIOUS
  <1> DEFINE first == Head(toVC)
  <1>1. /\ toVC \in Seq(States) /\ toVC # <<>> /\ exchanges \in 0..3
        /\ toVC' = Tail(toVC) /\ last' = decide(first)
        /\ exchanges' = IF last' # last /\ exchanges < 3 THEN exchanges + 1 ELSE exchanges
        /\ UNCHANGED <<up, vehicle, hmi, alerting, hazardTo, toBCM, scenario, broken>>
    BY DEF IInv, TypeOK, VcHandles
  <1>2. first \in States /\ first = toVC[1] /\ 1 \in DOMAIN toVC
    BY <1>1, TailFrames
  <1>3. \A i, j \in DOMAIN toVC' : \E k, m \in DOMAIN toVC :
            (i < j => k < m) /\ 1 < k /\ toVC'[i] = toVC[k] /\ toVC'[j] = toVC[m]
    <2> TAKE i, j \in DOMAIN toVC'
    <2>1. /\ i + 1 \in DOMAIN toVC /\ toVC'[i] = toVC[i + 1] /\ i \in Nat
          /\ j + 1 \in DOMAIN toVC /\ toVC'[j] = toVC[j + 1] /\ j \in Nat
          /\ 1 < i + 1
      BY <1>1, TailFrames
    <2>2. i < j => i + 1 < j + 1
      BY <2>1
    <2> QED
      BY <2>1, <2>2
  <1>4. \A s : Calm(s) \in 0..2
    BY DEF Calm
  <1>5. Starting /\ ~broken["BCM"] /\ ~broken["VC"]
    BY DEF Course
  <1>6. ASSUME FallingStates, FallingAlerts PROVE FallingStates' /\ FallingAlerts' /\ Starting'
    <2>1. first.child => first.lv \in LV_PARKED
      BY <1>2, <1>6 DEF FallingStates
    <2>2. last' \in {Alert, Hazard, Silent} /\ Said(last') = Calm(first)
      BY <1>1, <1>2, <2>1, SaysWhatIsCalledFor
    <2>3. Said(last) <= Said(last') /\ Said(last') <= Calm(vehicle)
      BY <1>2, <1>6, <2>2 DEF FallingStates
    <2>4. \A i \in DOMAIN toVC' :
              /\ toVC'[i].child => toVC'[i].lv \in LV_PARKED
              /\ Said(last') <= Calm(toVC'[i]) /\ Calm(toVC'[i]) <= Calm(vehicle)
      BY <1>2, <1>3, <1>6, <2>2 DEF FallingStates
    <2>5. \A i, j \in DOMAIN toVC' : i < j => Calm(toVC'[i]) <= Calm(toVC'[j])
      BY <1>3, <1>6 DEF FallingStates
    <2>6. exchanges' <= Said(last')
      <3>1. CASE last = None
        <4>1. exchanges = 0 /\ Said(last') = 2
          BY <1>1, <1>4, <1>6, <2>2, <2>3, <3>1, Outputs DEF FallingStates
        <4> QED
          BY <1>1, <4>1
      <3>2. CASE last # None /\ last' = last
        BY <1>1, <1>6, <3>2 DEF FallingStates
      <3>3. CASE last # None /\ last' # last
        <4>1. exchanges <= Said(last) /\ last \in {Alert, Hazard, Silent}
          BY <1>6, <3>3 DEF FallingStates
        <4>2. Said(last) + 1 <= Said(last')
          BY <2>2, <2>3, <3>3, <4>1, Outputs
        <4>3. Said(last) \in 0..2 /\ Said(last') \in 0..2
          BY DEF Said
        <4> QED
          BY <1>1, <3>3, <4>1, <4>2, <4>3
      <3> QED
        BY <3>1, <3>2, <3>3
    <2>7. last' # None
      BY <2>2, Outputs
    <2>8. FallingStates'
      BY <1>1, <1>6, <2>2, <2>3, <2>4, <2>5, <2>6, <2>7 DEF FallingStates
    <2>9. ~Chimes(hmi) => last' # Alert
      <3> SUFFICES ASSUME ~Chimes(hmi), last' = Alert PROVE FALSE
        OBVIOUS
      <3>1. last # Alert /\ last \in {None, Alert, Hazard, Silent}
        BY <1>6 DEF FallingAlerts, FallingStates
      <3> QED
        BY <2>3, <3>1, Outputs
    <2>10. FallingAlerts'
      BY <1>1, <1>6, <2>9, Zenon DEF FallingAlerts
    <2>11. Starting'
      <3>1. CASE up["BCM"] = "running" /\ up["VC"] = "running"
        BY <1>1, <3>1 DEF Starting
      <3>2. CASE scenario = 1 /\ last \in {None, Silent} /\ ~alerting
        <4>1. Said(last) = 2
          BY <3>2, Outputs
        <4>2. last' = Silent
          BY <2>2, <2>3, <4>1, Outputs
        <4> QED
          BY <1>1, <3>2, <4>2 DEF Starting
      <3> QED
        BY <1>5, <3>1, <3>2 DEF Starting
    <2> QED
      BY <2>8, <2>10, <2>11
  <1>7. ASSUME scenario = 4, Rising PROVE Rising' /\ Starting'
    <2>1. first.child => first.lv \in LV_PARKED
      BY <1>2, <1>7 DEF Rising, LV_PARKED
    <2>2. last' = IF first.child THEN Alert ELSE Silent
      <3>1. last' = IF first.child THEN Alert ELSE IF first.hazard THEN Hazard ELSE Silent
        BY <1>1, <1>2, <2>1, SaysWhatIsCalledFor
      <3> QED
        BY <1>2, <1>7, <3>1 DEF Rising
    <2>3. \A i \in DOMAIN toVC' :
              IF toVC'[i].child THEN toVC'[i].lv = LV_OFF ELSE ~toVC'[i].hazard
      BY <1>3, <1>7 DEF Rising
    <2>4. \A i, j \in DOMAIN toVC' : i < j /\ toVC'[i].child => toVC'[j].child
      BY <1>3, <1>7 DEF Rising
    <2>5. first.child => \A i \in DOMAIN toVC' : toVC'[i].child
      BY <1>2, <1>3, <1>7 DEF Rising
    <2>6. CASE first.child
      <3>1. exchanges' <= 1
        BY <1>1, <1>7, <2>2, <2>6, Outputs DEF Rising
      <3> QED
        BY <1>1, <1>5, <1>7, <2>2, <2>3, <2>4, <2>5, <2>6, <3>1 DEF Rising, Starting
    <2>7. CASE ~first.child
      <3>1. last = Silent /\ exchanges = 0
        BY <1>2, <1>7, <2>7 DEF Rising
      <3>2. last' = Silent /\ exchanges' = 0
        BY <1>1, <2>2, <2>7, <3>1
      <3> QED
        BY <1>1, <1>5, <1>7, <2>3, <2>4, <3>2 DEF Rising, Starting
    <2> QED
      BY <2>6, <2>7
  <1> QED
    BY <1>1, <1>5, <1>6, <1>7 DEF Course

LEMMA VcUpdatesCourse == IInv /\ Course /\ Undisturbed /\ VcUpdates => Course'
  <1> SUFFICES ASSUME IInv, Course, Undisturbed, VcUpdates PROVE Course'
    OBVIOUS
  <1>1. /\ hmi' = last /\ last \in Hmis
        /\ (broken["BCM"] <=> broken'["BCM"]) /\ ~broken'["VC"]
        /\ UNCHANGED <<up, vehicle, alerting, last, hazardTo, toVC, toBCM, scenario, exchanges>>
    BY DEF IInv, TypeOK, InFlight, VcUpdates, ECUs
  <1>2. ASSUME FallingStates, FallingAlerts PROVE FallingStates' /\ FallingAlerts'
    <2>1. last \in {Alert, Hazard, Silent}
      BY <1>1, <1>2, NoneAssumption DEF FallingStates
    <2>2. Chimes(hmi') <=> last = Alert
      BY <1>1, <2>1, Outputs
    <2>3. ~Chimes(hmi) => ~Chimes(hmi')
      BY <1>2, <2>2 DEF FallingAlerts
    <2>4. FallingAlerts'
      BY <1>1, <1>2, <2>2, <2>3, Zenon DEF FallingAlerts
    <2> QED
      BY <1>1, <1>2, <2>4 DEF FallingStates
  <1>3. Rising => Rising'
    BY <1>1 DEF Rising
  <1>4. Starting => Starting'
    BY <1>1 DEF Starting
  <1> QED
    BY <1>1, <1>2, <1>3, <1>4 DEF Course

LEMMA SendsCourse == IInv /\ Course /\ Undisturbed /\ (SendsState \/ SendsHmi) => Course'
  <1> SUFFICES ASSUME IInv, Course, Undisturbed, SendsState \/ SendsHmi PROVE Course'
    OBVIOUS
  <1>1. /\ toVC \in Seq(States) /\ toBCM \in Seq(Hmis) /\ vehicle \in States /\ hmi \in Hmis
        /\ UNCHANGED <<up, vehicle, hmi, alerting, last, hazardTo, hmiTo, scenario, broken,
                       exchanges>>
    BY DEF IInv, TypeOK, SendsState, SendsHmi
  <1>2. CASE SendsState
    <2>1. toVC' = Append(toVC, vehicle) /\ toBCM' = toBCM
      BY <1>2 DEF SendsState
    <2>2. \A i \in DOMAIN toVC' :
              /\ i \in DOMAIN toVC => toVC'[i] = toVC[i]
              /\ i \notin DOMAIN toVC => toVC'[i] = vehicle /\ \A j \in DOMAIN toVC' : ~(i < j)
      BY <1>1, <2>1, AppendFrames
    <2>3. \A s : Calm(s) \in 0..2
      BY DEF Calm
    <2>4. FallingStates => FallingStates'
      <3> SUFFICES ASSUME FallingStates PROVE FallingStates'
        OBVIOUS
      <3>1. \A i \in DOMAIN toVC' :
                /\ toVC'[i].child => toVC'[i].lv \in LV_PARKED
                /\ Said(last) <= Calm(toVC'[i]) /\ Calm(toVC'[i]) <= Calm(vehicle)
        BY <2>2, <2>3 DEF FallingStates
      <3>2. \A i, j \in DOMAIN toVC' : i < j => Calm(toVC'[i]) <= Calm(toVC'[j])
        BY <2>2, <2>3 DEF FallingStates
      <3> QED
        BY <1>1, <3>1, <3>2 DEF FallingStates
    <2>5. FallingAlerts => FallingAlerts'
      BY <1>1, <2>1, Zenon DEF FallingAlerts
    <2>6. Rising => Rising'
      BY <1>1, <2>2 DEF Rising
    <2>7. Starting => Starting'
      BY <1>1 DEF Starting
    <2> QED
      BY <1>1, <2>4, <2>5, <2>6, <2>7 DEF Course
  <1>3. CASE SendsHmi
    <2>1. toBCM' = Append(toBCM, hmi) /\ toVC' = toVC
      BY <1>3 DEF SendsHmi
    <2>2. \A i \in DOMAIN toBCM' :
              /\ i \in DOMAIN toBCM => toBCM'[i] = toBCM[i]
              /\ i \notin DOMAIN toBCM => toBCM'[i] = hmi /\ \A j \in DOMAIN toBCM' : ~(i < j)
      BY <1>1, <2>1, AppendFrames
    <2>3. FallingAlerts => FallingAlerts'
      <3> SUFFICES ASSUME FallingAlerts PROVE FallingAlerts'
        OBVIOUS
      <3>1. \A i \in DOMAIN toBCM' : ~Chimes(toBCM'[i]) => ~Chimes(hmi)
        BY <2>2, Zenon DEF FallingAlerts
      <3>2. ~alerting => \A i \in DOMAIN toBCM' : ~Chimes(toBCM'[i])
        BY <2>2, Zenon DEF FallingAlerts
      <3>3. \A i, j \in DOMAIN toBCM' : i < j /\ ~Chimes(toBCM'[i]) => ~Chimes(toBCM'[j])
        BY <2>2, <3>1, Zenon DEF FallingAlerts
      <3> QED
        BY <1>1, <3>1, <3>2, <3>3, Zenon DEF FallingAlerts
    <2>4. FallingStates => FallingStates'
      BY <1>1, <2>1, Zenon DEF FallingStates
    <2>5. Rising => Rising'
      BY <1>1, <2>1 DEF Rising
    <2>6. Starting => Starting'
      BY <1>1 DEF Starting
    <2> QED
      BY <1>1, <2>3, <2>4, <2>5, <2>6 DEF Course
  <1> QED
    BY <1>2, <1>3

\* Every step of the scenario starts from rest: what was in its course is over.
LEMMA ScenarioCourse == IInv /\ Course /\ Undisturbed /\ ScenarioStep => Course'
  <1> SUFFICES ASSUME IInv, Course, Undisturbed, ScenarioStep PROVE Course'
    OBVIOUS
  <1>1. /\ scenario \in 1..4 /\ vehicle \in States /\ exchanges' = 0
        /\ scenario' = (scenario % 4) + 1
        /\ vehicle' = [vehicle EXCEPT !.child = SCENARIO[scenario][1], !.lv = SCENARIO[scenario][2]]
        /\ UNCHANGED <<up, hmi, alerting, last, hazardTo, hmiTo, toVC, toBCM, broken>>
    BY DEF IInv, TypeOK, Undisturbed, ScenarioStep, SCENARIO
  <1>2. /\ up["BCM"] = "running" /\ up["VC"] = "running" /\ hazardTo = None /\ hmiTo = None
        /\ \A i \in DOMAIN toVC : toVC[i] = vehicle
        /\ \A i \in DOMAIN toBCM : toBCM[i] = hmi
        /\ (alerting <=> Chimes(hmi)) /\ last = decide(vehicle)
    BY DEF ScenarioStep, Quiet, ECUs
  <1>3. ~broken["BCM"] /\ ~broken["VC"]
    BY DEF Course
  <1>4. (vehicle.hazard <=> alerting) /\ hmi = last
    <2>1. vehicle.hazard <=> alerting
      BY <1>2, <1>3, Zenon DEF IInv, OutputsInStep
    <2>2. last # None
      BY <1>2, Decisions, NoneAssumption
    <2> QED
      BY <1>2, <1>3, <2>1, <2>2, Zenon DEF IInv, OutputsInStep
  <1>5. /\ vehicle'.hazard = vehicle.hazard
        /\ vehicle'.child = SCENARIO[scenario][1] /\ vehicle'.lv = SCENARIO[scenario][2]
    BY <1>1 DEF States
  <1>6. Starting'
    BY <1>1, <1>2 DEF Starting
  <1>7. CASE scenario = 4
    <2>1. Rising /\ scenario' = 1
      BY <1>1, <1>7 DEF Course
    <2>2. vehicle.child /\ vehicle.lv \in LV_PARKED
      BY <2>1 DEF Rising, LV_PARKED
    <2>3. last = Alert /\ Calm(vehicle) = 0
      BY <1>1, <1>2, <2>2, SaysWhatIsCalledFor DEF Calm
    <2>4. Chimes(hmi) /\ vehicle.hazard /\ alerting
      BY <1>2, <1>4, <2>3, Outputs
    <2>5. ~vehicle'.child /\ vehicle'.hazard /\ Calm(vehicle') = 1
      BY <1>5, <1>7, <2>4 DEF SCENARIO, Calm
    <2>6. FallingStates'
      BY <1>1, <1>2, <2>2, <2>3, <2>5, Outputs DEF FallingStates
    <2>7. hazardTo' # TRUE
      BY <1>1, <1>2, Outputs, Zenon
    <2>8. FallingAlerts'
      BY <1>1, <1>2, <2>4, <2>7, Zenon DEF FallingAlerts
    <2> QED
      BY <1>1, <1>3, <1>6, <2>1, <2>6, <2>8 DEF Course
  <1>8. CASE scenario # 4
    <2>1. FallingStates /\ FallingAlerts
      BY <1>8 DEF Course
    <2>2. ~vehicle.child /\ last \in {Alert, Hazard, Silent} /\ Said(last) = Calm(vehicle)
      BY <1>1, <1>2, <2>1, SaysWhatIsCalledFor DEF FallingStates
    <2>3. ~alerting /\ ~vehicle.hazard /\ last = Silent /\ ~Chimes(hmi)
      <3>1. last # Alert
        BY <2>2, Outputs DEF Calm
      <3>2. ~Chimes(hmi)
        BY <1>4, <2>2, <3>1, Outputs
      <3>3. ~alerting /\ ~vehicle.hazard
        BY <1>2, <1>4, <3>2, Zenon
      <3> QED
        BY <2>2, <3>2, <3>3, Outputs DEF Calm
    <2>4. CASE scenario = 3
      <3>1. scenario' = 4 /\ vehicle'.child /\ vehicle'.lv = LV_OFF
        BY <1>1, <1>5, <2>4 DEF SCENARIO
      <3>2. Rising'
        BY <1>1, <1>2, <2>2, <2>3, <3>1 DEF Rising
      <3> QED
        BY <1>1, <1>3, <1>6, <3>1, <3>2 DEF Course
    <2>5. CASE scenario \in {1, 2}
      <3>1. scenario' # 4 /\ ~vehicle'.child
        <4>1. CASE scenario = 1
          BY <1>1, <1>5, <4>1 DEF SCENARIO
        <4>2. CASE scenario = 2
          BY <1>1, <1>5, <4>2 DEF SCENARIO
        <4> QED
          BY <2>5, <4>1, <4>2
      <3>2. Calm(vehicle') = 2 /\ Calm(vehicle) = 2
        BY <1>5, <2>2, <2>3, <3>1 DEF Calm
      <3>3. FallingStates'
        BY <1>1, <1>2, <2>2, <2>3, <3>1, <3>2, Outputs DEF FallingStates
      <3>4. FallingAlerts'
        BY <1>1, <2>1, Zenon DEF FallingAlerts
      <3> QED
        BY <1>1, <1>3, <1>6, <3>1, <3>3, <3>4 DEF Course
    <2> QED
      BY <1>1, <1>8, <2>4, <2>5
  <1> QED
    BY <1>7, <1>8

LEMMA NextCourse == IInv /\ Course /\ [Next]_vars => Course'
  <1> SUFFICES ASSUME IInv, Course, [Next]_vars, Undisturbed' PROVE Course'
    BY DEF Course
  <1>1. TypeOK
    BY DEF IInv
  <1>2. CASE BcmRestarts \/ VcRestarts \/ BcmUpdateFails \/ VcUpdateFails
    <2>1. faults \in Nat /\ faults' = faults + 1
      BY <1>1, <1>2, BoundsAssumption
         DEF TypeOK, BcmRestarts, VcRestarts, BcmUpdateFails, VcUpdateFails, Fault
    <2> QED
      BY <2>1 DEF Undisturbed
  <1>3. ASSUME NEW d \in Driven, Drive(d[1], d[2]) PROVE Course'
    <2>1. drives \in Nat /\ drives' = drives + 1
      BY <1>1, <1>3, BoundsAssumption DEF TypeOK, Drive
    <2> QED
      BY <2>1 DEF Undisturbed
  <1>4. CASE Ecus
    <2>1. Undisturbed
      BY <1>4 DEF Undisturbed, Ecus, BcmOnline, VcOnline, BcmHandles, BcmUpdates, VcHandles,
                  VcUpdates
    <2> QED
      BY <1>4, <2>1, OnlineCourse, BcmHandlesCourse, BcmUpdatesCourse, VcHandlesCourse,
         VcUpdatesCourse, Zenon DEF Ecus
  <1>5. CASE SendsState \/ SendsHmi
    <2>1. Undisturbed
      BY <1>5 DEF Undisturbed, SendsState, SendsHmi
    <2> QED
      BY <1>5, <2>1, SendsCourse, Zenon
  <1>6. CASE ScenarioStep
    <2>1. Undisturbed
      BY <1>6 DEF Undisturbed, ScenarioStep
    <2> QED
      BY <1>6, <2>1, ScenarioCourse
  <1>7. CASE UNCHANGED vars
    BY <1>7 DEF vars, Course, Undisturbed, Starting, Rising, FallingStates, FallingAlerts
  <1> QED
    BY <1>2, <1>3, <1>4, <1>5, <1>6, <1>7, Zenon DEF Next

\* However many frames wait and however long they do, a step of the scenario
\* makes VC change its output at most twice (control.py 58-60).
THEOREM SettlesWithinTwo == Spec => []WithinTwoExchanges
  <1>1. IInv /\ Course => WithinTwoExchanges
    <2> SUFFICES ASSUME IInv, Course, Undisturbed PROVE exchanges <= 2
      BY DEF WithinTwoExchanges, Undisturbed
    <2>1. exchanges \in 0..3 /\ scenario \in 0..4
      BY DEF IInv, TypeOK
    <2>2. \A h : Said(h) \in 0..2
      BY DEF Said
    <2>3. CASE scenario = 4
      BY <2>1, <2>3 DEF Course, Rising
    <2>4. CASE scenario # 4
      BY <2>1, <2>2, <2>4 DEF Course, FallingStates
    <2> QED
      BY <2>3, <2>4
  <1> QED
    BY <1>1, InitCourse, NextCourse, InvariantHolds, PTL DEF Spec
=============================================================================
