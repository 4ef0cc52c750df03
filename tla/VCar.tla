-------------------------------- MODULE VCar --------------------------------
(***************************************************************************)
(* The two ECUs of the virtual car (vss-vcar/models): BCM provides the     *)
(* frame VSS_VehicleState, VC answers with VC_To_HMI, and each reacts to   *)
(* the cyclic frame of the other.  An ECU writes its frame by              *)
(* update_signals, a request to the broker, which sends the frame with its *)
(* latest values every 100 ms; a handler sets its own memory (_alerting,   *)
(* _last) before it awaits that request.                                   *)
(*                                                                         *)
(* Hazard and horn are always written together: hazard stands for both.    *)
(* Only VC transmits VC_To_HMI here: with the bridge as a second one the   *)
(* alert follows whichever frame came last (finding F9).                   *)
(***************************************************************************)
EXTENDS Naturals, Sequences

CONSTANTS
    None,       \* no frame, no update
    Driven,     \* pairs of child and lv state that are written from outside
    MaxQueue,   \* bound: frames waiting in a subscription
    MaxDrives,  \* bound: writes from outside
    MaxFaults   \* bound: failed updates and restarts of an ECU

VARIABLES
    up,        \* per ECU: "starting" (in __aenter__) or "running"
    vehicle,   \* VSS_VehicleState in BCM's restbus
    hmi,       \* VC_To_HMI in VC's restbus
    alerting,  \* BCM._alerting
    last,      \* VC._last
    hazardTo,  \* what BCM's handler awaits to be written, or None
    hmiTo,     \* what VC's handler awaits to be written, or None
    toVC,      \* frames in VC's subscription
    toBCM,     \* frames in BCM's subscription
    scenario,  \* next step of SCENARIO; 0 when BCM_SCENARIO=0
    broken,    \* history: per ECU, its last update failed or was written over
    exchanges, \* history: outputs of VC since the last step of the scenario
    drives, faults

vars == <<up, vehicle, hmi, alerting, last, hazardTo, hmiTo, toVC, toBCM, scenario,
          broken, exchanges, drives, faults>>

ECUs == {"BCM", "VC"}
LvStates == 0..5
LV_LOCK == 1
LV_OFF == 2
LV_ON == 4
LV_PARKED == {LV_LOCK, LV_OFF}
TELLTALE_NONE == 0
TELLTALE_CHILD_PRESENCE == 1
TELLTALE_HAZARD == 2
CHIME_NONE == 0
CHIME_CHILD_PRESENCE_ALERT == 1

State(child, lv, hazard) == [child |-> child, lv |-> lv, hazard |-> hazard]
Hmi(telltale, chime) == [telltale |-> telltale, chime |-> chime]
States == [child : BOOLEAN, lv : LvStates, hazard : BOOLEAN]
Hmis == [telltale : Nat, chime : Nat]

ASSUME NoneAssumption == None \notin BOOLEAN \cup Hmis
ASSUME DrivenAssumption == Driven \subseteq BOOLEAN \X LvStates
ASSUME BoundsAssumption == MaxQueue \in Nat /\ MaxDrives \in Nat /\ MaxFaults \in Nat

\* A bug: the first state is the sentinel of verify_bridge.py.
StartsCranking == << <<FALSE, 5>>, <<FALSE, LV_OFF>>, <<TRUE, LV_OFF>>, <<FALSE, LV_OFF>> >>

\* (child_detected, low_voltage_system_state), held for 5 or 10 seconds.
SCENARIO == << <<FALSE, LV_ON>>, <<FALSE, LV_OFF>>, <<TRUE, LV_OFF>>, <<FALSE, LV_OFF>> >>

TypeOK ==
    /\ up \in [ECUs -> {"starting", "running"}]
    /\ vehicle \in States /\ hmi \in Hmis
    /\ alerting \in BOOLEAN /\ last \in Hmis \cup {None}
    /\ hazardTo \in BOOLEAN \cup {None} /\ hmiTo \in Hmis \cup {None}
    /\ toVC \in Seq(States) /\ toBCM \in Seq(Hmis)
    /\ scenario \in 0..4
    /\ broken \in [ECUs -> BOOLEAN]
    /\ exchanges \in 0..3
    /\ drives \in 0..MaxDrives /\ faults \in 0..MaxFaults

\* A restbus holds zeros until its ECU has written the defaults.
Zeros == State(FALSE, 0, FALSE)
Silent == Hmi(TELLTALE_NONE, CHIME_NONE)

Init ==
    /\ up = [e \in ECUs |-> "starting"]
    /\ vehicle = Zeros /\ hmi = Silent
    /\ alerting = FALSE /\ last = None
    /\ hazardTo = None /\ hmiTo = None
    /\ toVC = <<>> /\ toBCM = <<>>
    /\ scenario \in {0, 1}
    /\ broken = [e \in ECUs |-> FALSE]
    /\ exchanges = 0 /\ drives = 0 /\ faults = 0

Fault == faults < MaxFaults /\ faults' = faults + 1

-----------------------------------------------------------------------------
(* VC's decision, and what each ECU's output should be.                    *)

\* A bug: the reflected hazard outranks the child.
HazardFirst(s) ==
    CASE s.hazard -> Hmi(TELLTALE_HAZARD, CHIME_NONE)
      [] ~s.hazard /\ s.child /\ s.lv \in LV_PARKED
            -> Hmi(TELLTALE_CHILD_PRESENCE, CHIME_CHILD_PRESENCE_ALERT)
      [] ~s.hazard /\ s.child /\ s.lv \notin LV_PARKED
            -> Hmi(TELLTALE_CHILD_PRESENCE, CHIME_NONE)
      [] OTHER -> Silent

decide(s) ==
    CASE s.child /\ s.lv \in LV_PARKED
            -> Hmi(TELLTALE_CHILD_PRESENCE, CHIME_CHILD_PRESENCE_ALERT)
      [] s.child /\ s.lv \notin LV_PARKED -> Hmi(TELLTALE_CHILD_PRESENCE, CHIME_NONE)
      [] ~s.child /\ s.hazard -> Hmi(TELLTALE_HAZARD, CHIME_NONE)
      [] OTHER -> Silent

Chimes(frame) == frame.chime = CHIME_CHILD_PRESENCE_ALERT

\* The frames on the bus would make neither handler do anything.
Quiet ==
    /\ up = [e \in ECUs |-> "running"] /\ hazardTo = None /\ hmiTo = None
    /\ \A i \in DOMAIN toVC : toVC[i] = vehicle
    /\ \A i \in DOMAIN toBCM : toBCM[i] = hmi
    /\ alerting = Chimes(hmi) /\ last = decide(vehicle)

-----------------------------------------------------------------------------
(* Start and restart.                                                      *)

\* The defaults written by __aenter__.  bm.start() before them has opened the
\* subscriptions, so a frame may have been handled already, and what its
\* handler wrote is written over.
BcmOnline ==
    /\ up["BCM"] = "starting"
    /\ vehicle' = State(FALSE, LV_ON, FALSE)
    /\ up' = [up EXCEPT !["BCM"] = "running"]
    /\ broken' = [broken EXCEPT !["BCM"] = alerting /\ hazardTo = None]
    /\ UNCHANGED <<hmi, alerting, last, hazardTo, hmiTo, toVC, toBCM, scenario,
                   exchanges, drives, faults>>

VcOnline ==
    /\ up["VC"] = "starting"
    /\ hmi' = Silent
    /\ up' = [up EXCEPT !["VC"] = "running"]
    /\ broken' = [broken EXCEPT !["VC"] = last \notin {None, Silent} /\ hmiTo = None]
    /\ UNCHANGED <<vehicle, alerting, last, hazardTo, hmiTo, toVC, toBCM,
                   scenario, exchanges, drives, faults>>

\* The process ends and is started again.  The broker goes on sending its
\* frame, until the new restbus may have reset it.
BcmRestarts ==
    /\ Fault
    /\ up' = [up EXCEPT !["BCM"] = "starting"]
    /\ vehicle' \in {vehicle, Zeros}
    /\ alerting' = FALSE /\ toBCM' = <<>>
    /\ hazardTo' = None
    /\ broken' = [broken EXCEPT !["BCM"] = FALSE]
    /\ scenario' = IF scenario = 0 THEN 0 ELSE 1
    /\ UNCHANGED <<hmi, last, hmiTo, toVC, exchanges, drives>>

VcRestarts ==
    /\ Fault
    /\ up' = [up EXCEPT !["VC"] = "starting"]
    /\ hmi' \in {hmi, Silent}
    /\ last' = None /\ toVC' = <<>>
    /\ hmiTo' = None
    /\ broken' = [broken EXCEPT !["VC"] = FALSE]
    /\ UNCHANGED <<vehicle, alerting, hazardTo, toBCM, scenario, exchanges,
                   drives>>

-----------------------------------------------------------------------------
(* The handlers, each up to its await and after it.                        *)

\* on_hmi: nothing to do unless the alert begins or ends.
BcmHandles ==
    /\ hazardTo = None /\ toBCM # <<>>
    /\ toBCM' = Tail(toBCM)
    /\ alerting' = Chimes(Head(toBCM))
    /\ hazardTo' = IF alerting' = alerting THEN None ELSE alerting'
    /\ UNCHANGED <<up, vehicle, hmi, last, hmiTo, toVC, scenario, broken,
                   exchanges, drives, faults>>

BcmUpdates ==
    /\ hazardTo # None
    /\ vehicle' = [vehicle EXCEPT !.hazard = hazardTo]
    /\ hazardTo' = None
    /\ broken' = [broken EXCEPT !["BCM"] = FALSE]
    /\ UNCHANGED <<up, hmi, alerting, last, hmiTo, toVC, toBCM, scenario,
                   exchanges, drives, faults>>

\* A bug: only a new telltale counts as a new decision.
VcComparesTelltales ==
    /\ hmiTo = None /\ toVC # <<>>
    /\ toVC' = Tail(toVC)
    /\ LET decided == decide(Head(toVC))
           same == last # None /\ last.telltale = decided.telltale
       IN  /\ last' = IF same THEN last ELSE decided
           /\ hmiTo' = IF same THEN None ELSE decided
    /\ UNCHANGED <<up, vehicle, hmi, alerting, hazardTo, toBCM, scenario, broken,
                   exchanges, drives, faults>>

\* on_vehicle_state: nothing to do unless the decision changes.
VcHandles ==
    /\ hmiTo = None /\ toVC # <<>>
    /\ toVC' = Tail(toVC)
    /\ last' = decide(Head(toVC))
    /\ hmiTo' = IF last' = last THEN None ELSE last'
    /\ exchanges' = IF last' # last /\ exchanges < 3 THEN exchanges + 1 ELSE exchanges
    /\ UNCHANGED <<up, vehicle, hmi, alerting, hazardTo, toBCM, scenario, broken,
                   drives, faults>>

VcUpdates ==
    /\ hmiTo # None
    /\ hmi' = hmiTo
    /\ hmiTo' = None
    /\ broken' = [broken EXCEPT !["VC"] = FALSE]
    /\ UNCHANGED <<up, vehicle, alerting, last, hazardTo, toVC, toBCM, scenario,
                   exchanges, drives, faults>>

\* The request fails; the handler's exception ends with the frame.
BcmUpdateFails ==
    /\ hazardTo # None /\ Fault
    /\ hazardTo' = None
    /\ broken' = [broken EXCEPT !["BCM"] = TRUE]
    /\ UNCHANGED <<up, vehicle, hmi, alerting, last, hmiTo, toVC, toBCM, scenario,
                   exchanges, drives>>

VcUpdateFails ==
    /\ hmiTo # None /\ Fault
    /\ hmiTo' = None
    /\ broken' = [broken EXCEPT !["VC"] = TRUE]
    /\ UNCHANGED <<up, vehicle, hmi, alerting, last, hazardTo, toVC, toBCM,
                   scenario, exchanges, drives>>

-----------------------------------------------------------------------------
(* The bus and the world.                                                  *)

SendsState ==
    /\ Len(toVC) < MaxQueue
    /\ toVC' = Append(toVC, vehicle)
    /\ UNCHANGED <<up, vehicle, hmi, alerting, last, hazardTo, hmiTo, toBCM,
                   scenario, broken, exchanges, drives, faults>>

SendsHmi ==
    /\ Len(toBCM) < MaxQueue
    /\ toBCM' = Append(toBCM, hmi)
    /\ UNCHANGED <<up, vehicle, hmi, alerting, last, hazardTo, hmiTo, toVC,
                   scenario, broken, exchanges, drives, faults>>

\* Bugs: a step writes all signals, as the start does; no step is the last.
ScenarioResets ==
    /\ scenario # 0 /\ up["BCM"] = "running" /\ Quiet
    /\ vehicle' = State(SCENARIO[scenario][1], SCENARIO[scenario][2], FALSE)
    /\ scenario' = (scenario % Len(SCENARIO)) + 1
    /\ exchanges' = 0
    /\ UNCHANGED <<up, hmi, alerting, last, hazardTo, hmiTo, toVC, toBCM, broken,
                   drives, faults>>

ScenarioRunsOut ==
    /\ scenario # 0 /\ up["BCM"] = "running" /\ Quiet
    /\ vehicle' = State(SCENARIO[scenario][1], SCENARIO[scenario][2], vehicle.hazard)
    /\ scenario' = scenario + 1
    /\ exchanges' = 0
    /\ UNCHANGED <<up, hmi, alerting, last, hazardTo, hmiTo, toVC, toBCM, broken,
                   drives, faults>>

\* run_scenario.  A step is held for at least 50 cycles of a frame, time for
\* two ECUs to come to rest.
ScenarioStep ==
    /\ scenario # 0 /\ up["BCM"] = "running"
    /\ Quiet
    /\ vehicle' = [vehicle EXCEPT !.child = SCENARIO[scenario][1],
                                  !.lv = SCENARIO[scenario][2]]
    /\ scenario' = (scenario % Len(SCENARIO)) + 1
    /\ exchanges' = 0
    /\ UNCHANGED <<up, hmi, alerting, last, hazardTo, hmiTo, toVC, toBCM, broken,
                   drives, faults>>

\* Someone else writes the signals of BCM's frame, at any time.
Drive(child, lv) ==
    /\ drives < MaxDrives
    /\ vehicle' = [vehicle EXCEPT !.child = child, !.lv = lv]
    /\ drives' = drives + 1
    /\ UNCHANGED <<up, hmi, alerting, last, hazardTo, hmiTo, toVC, toBCM,
                   scenario, broken, exchanges, faults>>

Ecus == BcmOnline \/ VcOnline \/ BcmHandles \/ BcmUpdates \/ VcHandles \/ VcUpdates

Next ==
    \/ Ecus \/ BcmRestarts \/ VcRestarts
    \/ BcmUpdateFails \/ VcUpdateFails
    \/ SendsState \/ SendsHmi
    \/ ScenarioStep
    \/ \E d \in Driven : Drive(d[1], d[2])

\* The broker sends every frame in every cycle; an ECU handles what arrives
\* and its requests are answered.
Fairness ==
    /\ WF_vars(BcmOnline) /\ WF_vars(VcOnline)
    /\ WF_vars(BcmHandles) /\ WF_vars(BcmUpdates)
    /\ WF_vars(VcHandles) /\ WF_vars(VcUpdates)
    /\ WF_vars(SendsState) /\ WF_vars(SendsHmi)

Spec == Init /\ [][Next]_vars
FairSpec == Spec /\ Fairness

-----------------------------------------------------------------------------
(* Properties.                                                             *)

\* An ECU that has started sends what it remembers, although it remembers
\* before it writes: only a failed update, or one that the start's defaults
\* overtook, leaves it silent about what it believes to have said (bcm
\* 93-103, vc 84-93).
OutputsInStep ==
    /\ up["BCM"] = "running" /\ hazardTo = None /\ ~broken["BCM"]
          => vehicle.hazard = alerting
    /\ up["VC"] = "running" /\ hmiTo = None /\ ~broken["VC"]
          => hmi = IF last = None THEN Silent ELSE last

\* "must settle ... within two exchanges" (control.py 58-60): a step of the
\* scenario makes VC change its output at most twice, whatever delay the
\* frames have, when nobody else writes and nothing fails.
WithinTwoExchanges ==
    scenario # 0 /\ drives = 0 /\ faults = 0 => exchanges <= 2

\* The outputs follow from child and ignition: no alert is left over.
Right ==
    LET unattended == vehicle.child /\ vehicle.lv \in LV_PARKED
    IN  vehicle.hazard = unattended /\ hmi = decide(vehicle)

\* "rather than oscillate" (control.py 59): however stale the frames were,
\* the feedback comes to rest again and again, with the right outputs unless
\* an ECU's update failed or was overtaken.
Settles == []<>(Quiet /\ (Right \/ \E e \in ECUs : broken[e]))

\* To the bridge and to verify_bridge.py the two ECUs are the signals of
\* CarBus: BCM never produces another ignition state, VC no other telltale.
Bus == INSTANCE CarBus WITH lv <- vehicle.lv, telltale <- hmi.telltale,
                            Written <- {d[2] : d \in Driven}
ImplementsBus == Bus!BusSpec
=============================================================================
