---------------------------- MODULE VerifyToVss ----------------------------
(***************************************************************************)
(* check_remotive_to_vss (verify_bridge.py 78-120): the script writes a    *)
(* sentinel to BCM's frame and waits for it in KUKSA.  Of the bridge there *)
(* is Loop A, with the seed and the change stream of CanReader and, for    *)
(* what it hands over, the register of HandOff.                            *)
(***************************************************************************)
EXTENDS VerifyBridge

VARIABLES
    reader,   \* where Loop A reads: in the seed, in the stream, between them; or down
    coming,   \* ignition state on its way to KUKSA, or None
    vss,      \* KUKSA: value of Vehicle.LowVoltageSystemState, or None
    step,     \* where the script is
    landed,   \* its verdict
    moved,    \* history: the bridge has moved the sentinel since the write
    chance,   \* history: what may mislead the script
    tardy,    \* history: something was under way when the script looked last
    outages

loopVars == <<reader, coming, vss, moved, outages>>
checkVars == <<step, landed, chance, tardy>>
toVssVars == <<busVars, loopVars, checkVars>>

Up == {"seeding", "subscribing", "streaming"}

ToVssTypeOK ==
    /\ lv \in LvStates /\ telltale \in VcTelltales
    /\ reader \in Up \cup {"down"}
    /\ {coming, vss} \subseteq LvStates \cup {None}
    /\ step \in {"start", "polling", "sleeping", "done"}
    /\ landed \in Verdicts
    /\ chance \subseteq {"stale", "latched", "missed", "overwritten"}
    /\ {moved, tardy} \subseteq BOOLEAN
    /\ outages \in 0..MaxFaults

\* The car runs already and the bridge is anywhere.  Earlier runs and others
\* may have left any value in BCM's frame and in KUKSA, a restart of KUKSA none.
ToVssInit ==
    /\ lv \in BcmStates \cup Written /\ telltale \in VcTelltales
    /\ reader \in Up \cup {"down"}
    /\ vss \in LvStates \cup {None} /\ coming = None
    /\ step = "start" /\ landed = "open"
    /\ chance = {} /\ moved = FALSE /\ tardy = FALSE
    /\ outages = 0

-----------------------------------------------------------------------------
(* Loop A.                                                                 *)

\* The change stream tells of a value that differs from the one before, and of
\* nothing else.
StreamTells ==
    coming' = IF reader = "streaming" /\ lv' # lv THEN lv' ELSE coming

\* What has been handed over last.
Handed == IF coming # None THEN coming ELSE vss

Awaited == step \in {"polling", "sleeping"}

\* A cyclic frame on the seed stream.
SeedTells ==
    /\ reader = "seeding" /\ Handed # lv
    /\ coming' = lv
    /\ UNCHANGED <<busVars, reader, vss, moved, outages, checkVars>>

\* seed_seconds are over; a frame that was not handled yet is lost.
SeedEnds ==
    /\ reader = "seeding"
    /\ reader' = "subscribing"
    /\ coming' \in {coming, None}
    /\ UNCHANGED <<busVars, vss, moved, outages, checkVars>>

StreamOpens ==
    /\ reader = "subscribing"
    /\ reader' = "streaming"
    /\ chance' = IF Awaited /\ Handed # lv THEN chance \cup {"missed"} ELSE chance
    /\ UNCHANGED <<busVars, coming, vss, moved, outages, step, landed, tardy>>

\* A bug: acknowledge before the write, which then fails.
DeliversNothing ==
    /\ reader # "down" /\ coming # None
    /\ coming' = None
    /\ UNCHANGED <<busVars, reader, vss, moved, outages, checkVars>>

\* run_kuksa_current_writer
Delivers ==
    /\ reader # "down" /\ coming # None
    /\ vss' = coming /\ coming' = None
    /\ moved' = (moved \/ (Awaited /\ coming = LV_SENTINEL_RAW))
    /\ UNCHANGED <<busVars, reader, outages, checkVars>>

\* Loop A dies, perhaps with what it had to deliver, or starts again.
LoopChanges ==
    /\ outages < MaxFaults /\ outages' = outages + 1
    /\ reader' = IF reader = "down" THEN "seeding" ELSE "down"
    /\ coming' \in {coming, None}
    /\ UNCHANGED <<busVars, vss, moved, checkVars>>

Loop == SeedTells \/ SeedEnds \/ StreamOpens \/ Delivers \/ LoopChanges

-----------------------------------------------------------------------------
(* The script.                                                             *)

\* update_signals as an independent client.
WritesSentinel ==
    /\ step = "start"
    /\ OthersWrite /\ lv' = LV_SENTINEL_RAW
    /\ StreamTells
    /\ chance' = {c \in {"stale", "latched"} :
                     (c = "stale" /\ vss = LV_SENTINEL_RAW)
                         \/ (c = "latched" /\ lv = LV_SENTINEL_RAW)}
    /\ step' = "polling"
    /\ UNCHANGED <<reader, vss, moved, outages, landed, tardy>>

\* A bug: any value will do.
FindsAnything ==
    /\ step = "polling" /\ vss # None
    /\ landed' = "pass" /\ step' = "done"
    /\ UNCHANGED <<busVars, loopVars, chance, tardy>>

\* _await_vss: look for the sentinel every 0.25 s until 8 s are over.
Finds ==
    /\ step = "polling" /\ vss = LV_SENTINEL_RAW
    /\ landed' = "pass" /\ step' = "done"
    /\ UNCHANGED <<busVars, loopVars, chance, tardy>>

FindsNot ==
    /\ step = "polling" /\ vss # LV_SENTINEL_RAW
    /\ tardy' = (coming # None \/ reader # "streaming")
    /\ step' = "sleeping"
    /\ UNCHANGED <<busVars, loopVars, landed, chance>>

LooksAgain ==
    /\ step = "sleeping"
    /\ step' = "polling"
    /\ UNCHANGED <<busVars, loopVars, landed, chance, tardy>>

\* The deadline passes, even if the sentinel has come since the last look.
TimesOut ==
    /\ step = "sleeping"
    /\ landed' = "fail" /\ step' = "done"
    /\ UNCHANGED <<busVars, loopVars, chance, tardy>>

Check == WritesSentinel \/ Finds \/ FindsNot \/ LooksAgain \/ TimesOut

Traffic ==
    /\ CarMoves
    /\ StreamTells
    /\ chance' = IF Awaited /\ lv' # lv THEN chance \cup {"overwritten"} ELSE chance
    /\ UNCHANGED <<reader, vss, moved, outages, step, landed, tardy>>

ToVssNext == Traffic \/ Loop \/ Check

ToVssSpec == ToVssInit /\ [][ToVssNext]_toVssVars

-----------------------------------------------------------------------------
(* Properties.                                                             *)

\* "a PASS means the *deployed* bridge moved a value" (verify_bridge.py 3-5): it
\* has moved the sentinel since the script wrote it, unless KUKSA held the
\* sentinel before, which the script reads (101) and does not use.
PassIsEarnedToVss == landed = "pass" => moved \/ "stale" \in chance

\* A bridge that was up throughout is reported as broken only for a reason that
\* the script cannot see: something was still under way at its last look, BCM's
\* scenario wrote over the sentinel, or the stream never told of it, because
\* BCM's frame carried it before or the write fell between the seed and the
\* stream (remotive_to_vss.py 140-155).
FailIsEarnedToVss ==
    landed = "fail" /\ outages = 0 /\ reader # "down" =>
        tardy \/ chance \cap {"latched", "missed", "overwritten"} # {}
=============================================================================
