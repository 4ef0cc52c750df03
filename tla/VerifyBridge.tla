---------------------------- MODULE VerifyBridge ----------------------------
(***************************************************************************)
(* What the two checks of scripts/verify_bridge.py have in common: they    *)
(* run one after the other against a running virtual car, a bridge of      *)
(* which any part may be dead, and what earlier runs have left behind, and *)
(* share neither a signal nor a variable.  VerifyToVss and VerifyToCan are *)
(* the checks.                                                             *)
(***************************************************************************)
EXTENDS CarBus

CONSTANTS
    None,       \* no frame; nothing in a buffer; no value in KUKSA
    MaxFaults   \* bound: parts of the bridge that die or come back

ASSUME NoneAssumption == None \notin Nat
ASSUME BoundAssumption == MaxFaults \in Nat

TELLTALE_SENTINELS == <<2, 3, 4, 5>>
Telltales == VcTelltales \cup {TELLTALE_SENTINELS[i] : i \in DOMAIN TELLTALE_SENTINELS}

Verdicts == {"open", "pass", "fail"}

\* The scenario goes on while the script runs.
CarMoves == BcmWrites \/ VcWrites
=============================================================================
