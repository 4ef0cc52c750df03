--------------------------- MODULE MCVerifyBridge ---------------------------
(* VerifyToVss and VerifyToCan for TLC: only the script writes to BCM's      *)
(* frame.  The two checks share nothing but the car, and each begins in any  *)
(* state of its part of the bridge, so a behaviour runs one of them.         *)
EXTENDS VerifyToVss, VerifyToCan

MCWritten == {LV_SENTINEL_RAW}

VARIABLE running   \* the check that the script is at

MCInit ==
    \/ /\ running = "toVss"
       /\ ToVssInit
       /\ bridge = {} /\ extra = None /\ target = None
       /\ pc = "baseline" /\ seen = {} /\ sentinel = 0 /\ verdict = "open"
       /\ carried = FALSE /\ late = FALSE /\ faults = 0
    \/ /\ running = "toCan"
       /\ ToCanInit
       /\ reader = "down" /\ vss = None /\ coming = None
       /\ step = "start" /\ landed = "open"
       /\ chance = {} /\ moved = FALSE /\ tardy = FALSE /\ outages = 0

MCNext ==
    /\ UNCHANGED running
    /\ \/ running = "toVss" /\ ToVssNext /\ UNCHANGED <<bridgeVars, scriptVars>>
       \/ running = "toCan" /\ ToCanNext /\ UNCHANGED <<loopVars, checkVars>>

MCSpec == MCInit /\ [][MCNext]_<<running, toVssVars, toCanVars>>
=============================================================================
