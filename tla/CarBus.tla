------------------------------- MODULE CarBus -------------------------------
(***************************************************************************)
(* What the virtual car puts on VehicleCAN, as the bridge and              *)
(* scripts/verify_bridge.py see it: the ignition state in BCM's frame and  *)
(* the telltale in VC's.  Which values the ECUs produce by themselves      *)
(* decides what a sighting proves.  VCar implements this.                  *)
(***************************************************************************)
EXTENDS Naturals

CONSTANT Written   \* ignition states that others write to BCM's frame

VARIABLES lv, telltale

busVars == <<lv, telltale>>

LvStates == 0..5
LV_SENTINEL_RAW == 5
TELLTALE_HAZARD == 2

\* BCM: zeros before the defaults, then OFF and ON.
BcmStates == {0, 2, 4}
\* VC: what decide returns.
VcTelltales == {0, 1, TELLTALE_HAZARD}

ASSUME WrittenAssumption == Written \subseteq LvStates

BusInit == lv = 0 /\ telltale = 0

BcmWrites == lv' \in BcmStates /\ UNCHANGED telltale
VcWrites == telltale' \in VcTelltales /\ UNCHANGED lv
OthersWrite == lv' \in Written /\ UNCHANGED telltale

BusNext == BcmWrites \/ VcWrites \/ OthersWrite
BusSpec == BusInit /\ [][BusNext]_busVars
=============================================================================
