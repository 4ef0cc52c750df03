---------------------------- MODULE VerifyToCan ----------------------------
(***************************************************************************)
(* check_vss_to_remotive (verify_bridge.py 123-223): the script actuates a *)
(* telltale that is not on the bus and looks for it there.  Of the bridge  *)
(* there is the registration as the provider of targets, the hand-off and  *)
(* the restbus writer, whose add() makes it the second transmitter of      *)
(* VC_To_HMI (finding F9).                                                 *)
(***************************************************************************)
EXTENDS VerifyBridge

VARIABLES
    bridge,    \* the parts of Loop B that work
    target,    \* telltale in the bridge's to_can buffer, or None
    extra,     \* telltale in the bridge's VC_To_HMI, None if not transmitted
    pc,        \* where the script is
    seen,      \* telltales observed since the last clear()
    sentinel,  \* the telltale the script actuates
    verdict,
    carried,   \* history: the bridge has written the sentinel
    late,      \* history: the script ended before the bridge had done its part
    faults

bridgeVars == <<bridge, target, extra, carried, faults>>
scriptVars == <<pc, seen, sentinel, verdict, late>>
toCanVars == <<busVars, bridgeVars, scriptVars>>

Parts == {"provider", "restbus"}

ToCanTypeOK ==
    /\ lv \in LvStates /\ telltale \in VcTelltales
    /\ bridge \subseteq Parts
    /\ {target, extra} \subseteq Telltales \cup {None}
    /\ pc \in {"baseline", "actuating", "watching", "done"}
    /\ seen \subseteq Telltales /\ sentinel \in Telltales
    /\ verdict \in Verdicts
    /\ {carried, late} \subseteq BOOLEAN
    /\ faults \in 0..MaxFaults

\* The car runs already.  Whoever used the bridge before may have left any
\* telltale in the restbus.
ToCanInit ==
    /\ lv \in LvStates /\ telltale \in VcTelltales
    /\ bridge \in SUBSET Parts
    /\ extra \in Telltales \cup {None} /\ target = None
    /\ pc = "baseline" /\ seen = {} /\ sentinel = 0 /\ verdict = "open"
    /\ carried = FALSE /\ late = FALSE
    /\ faults = 0

-----------------------------------------------------------------------------
(* The script.                                                             *)

OnBus == {telltale, extra} \ {None}

\* observe(): a frame of either transmitter.
Observes ==
    /\ pc \in {"baseline", "watching"}
    /\ \E frame \in OnBus : seen' = seen \cup {frame}
    /\ UNCHANGED <<busVars, bridgeVars, pc, sentinel, verdict, late>>

SawEveryFrame == OnBus \subseteq seen

\* A bug: one sentinel, whatever the bus carries.
FixedChoice(baseline) == {TELLTALE_SENTINELS[2]}

\* The first sentinel that is not on the bus already.
Choice(baseline) ==
    LET free == {i \in DOMAIN TELLTALE_SENTINELS : TELLTALE_SENTINELS[i] \notin baseline}
    IN  {TELLTALE_SENTINELS[i] : i \in {j \in free : \A k \in free : j <= k}}

\* Two seconds are many cycles of every frame.
BaselineEnds ==
    /\ pc = "baseline" /\ SawEveryFrame
    /\ \/ /\ sentinel' \in Choice(seen)
          /\ pc' = "actuating"
          /\ UNCHANGED verdict
       \/ /\ Choice(seen) = {}
          /\ verdict' = "fail"
          /\ pc' = "done"
          /\ UNCHANGED sentinel
    /\ seen' = {}
    /\ UNCHANGED <<busVars, bridgeVars, late>>

\* Actuate reaches a provider or is refused.
Actuates ==
    /\ pc = "actuating" /\ "provider" \in bridge
    /\ target' = sentinel
    /\ pc' = "watching"
    /\ UNCHANGED <<busVars, bridge, extra, carried, faults, seen, sentinel, verdict, late>>

ActuateRefused ==
    /\ pc = "actuating" /\ "provider" \notin bridge
    /\ verdict' = "fail"
    /\ pc' = "done"
    /\ UNCHANGED <<busVars, bridgeVars, seen, sentinel, late>>

\* The target has been written, and every frame seen.
WatchedEnough == target = None /\ extra # None /\ SawEveryFrame

\* A bug: demand every frame.
WatchEndsStrictly ==
    /\ pc = "watching"
    /\ verdict' = IF seen = {sentinel} THEN "pass" ELSE "fail"
    /\ late' = ~WatchedEnough
    /\ pc' = "done"
    /\ UNCHANGED <<busVars, bridgeVars, seen, sentinel>>

\* The time is over.  One sighting is a pass.
WatchEnds ==
    /\ pc = "watching"
    /\ verdict' = IF sentinel \in seen THEN "pass" ELSE "fail"
    /\ late' = ~WatchedEnough
    /\ pc' = "done"
    /\ UNCHANGED <<busVars, bridgeVars, seen, sentinel>>

Script == Observes \/ BaselineEnds \/ Actuates \/ ActuateRefused \/ WatchEnds

-----------------------------------------------------------------------------
(* The bridge and the car.                                                 *)

\* add(start=True): the broker transmits the frame, at first with zeros.
AddsFrame ==
    /\ "restbus" \in bridge /\ extra = None
    /\ extra' = 0
    /\ UNCHANGED <<busVars, bridge, target, carried, faults, scriptVars>>

WritesTarget ==
    /\ "restbus" \in bridge /\ extra # None /\ target # None
    /\ extra' = target
    /\ target' = None
    /\ carried' = TRUE
    /\ UNCHANGED <<busVars, bridge, faults, scriptVars>>

\* A part dies or comes back.  A graceful end takes its frame with it, any
\* end the target that was not written yet.
BridgeChanges(part) ==
    /\ faults < MaxFaults /\ faults' = faults + 1
    /\ bridge' = IF part \in bridge THEN bridge \ {part} ELSE bridge \cup {part}
    /\ extra' \in IF part = "restbus" THEN {extra, None} ELSE {extra}
    /\ target' \in {target, None}
    /\ UNCHANGED <<busVars, carried, scriptVars>>

Bridge == AddsFrame \/ WritesTarget \/ \E part \in Parts : BridgeChanges(part)

Car == CarMoves /\ UNCHANGED <<bridgeVars, scriptVars>>

ToCanNext == Car \/ Script \/ Bridge

ToCanSpec == ToCanInit /\ [][ToCanNext]_toCanVars

-----------------------------------------------------------------------------
(* Properties.                                                             *)

\* "a PASS means the *deployed* bridge moved a value" (verify_bridge.py 3-5),
\* whatever was on the bus before: it is the bridge that put the sentinel there,
\* unless the sentinel is telltale 2, which VC emits itself.
PassIsEarnedToCan == verdict = "pass" => carried \/ sentinel = TELLTALE_HAZARD

\* A bridge that worked throughout is reported as broken only if it was late:
\* a sentinel is always free, and that VC's frames alternate with those of the
\* bridge is no failure (verify_bridge.py 21-25: "demanding every frame would
\* fail a working bridge").
FailIsEarnedToCan == bridge = Parts /\ faults = 0 /\ verdict = "fail" => late
=============================================================================
