------------------------- MODULE VerifyBridgeProofs -------------------------
(***************************************************************************)
(* Proofs about the two checks of verify_bridge.py, for any values that    *)
(* others write to BCM's frame or have left on the bus, and any number of  *)
(* faults: what a PASS proves of the bridge, and what a FAIL does.         *)
(***************************************************************************)
EXTENDS VerifyToVss, VerifyToCan, TLAPS

LEMMA Values ==
    /\ None \notin Nat
    /\ LV_SENTINEL_RAW = 5 /\ LvStates = 0..5 /\ BcmStates = {0, 2, 4}
    /\ VcTelltales = {0, 1, 2} /\ TELLTALE_HAZARD = 2
    /\ DOMAIN TELLTALE_SENTINELS = 1..4
    /\ TELLTALE_SENTINELS[1] = 2 /\ TELLTALE_SENTINELS[2] = 3
    /\ TELLTALE_SENTINELS[3] = 4 /\ TELLTALE_SENTINELS[4] = 5
  BY NoneAssumption DEF LV_SENTINEL_RAW, LvStates, BcmStates, VcTelltales, TELLTALE_HAZARD,
                        TELLTALE_SENTINELS

-----------------------------------------------------------------------------
(* Direction A.                                                            *)

\* What the script cannot see.
Excused == chance \cap {"latched", "missed", "overwritten"} # {}

\* While the script waits: the sentinel in KUKSA was there before or was moved;
\* it is in BCM's frame unless the scenario wrote over it; an open stream has
\* handed it over; and a look in vain came before the bridge was done.
Waiting ==
    Awaited =>
        /\ landed = "open"
        /\ vss = LV_SENTINEL_RAW => moved \/ "stale" \in chance
        /\ lv = LV_SENTINEL_RAW \/ "overwritten" \in chance
        /\ outages = 0 /\ reader = "streaming" => Handed = LV_SENTINEL_RAW \/ Excused
        /\ step = "sleeping" /\ outages = 0 /\ reader # "down" => tardy \/ Excused

ToVssInv ==
    /\ ToVssTypeOK
    /\ step = "start" => landed = "open"
    /\ Waiting
    /\ PassIsEarnedToVss /\ FailIsEarnedToVss

LEMMA ToVssInitInv == ToVssInit => ToVssInv
  <1> SUFFICES ASSUME ToVssInit PROVE ToVssInv
    OBVIOUS
  <1>1. lv \in LvStates
    BY Values, WrittenAssumption DEF ToVssInit
  <1>2. /\ telltale \in VcTelltales /\ reader \in Up \cup {"down"}
        /\ {coming, vss} \subseteq LvStates \cup {None}
        /\ step \in {"start", "polling", "sleeping", "done"} /\ landed \in Verdicts
        /\ chance \subseteq {"stale", "latched", "missed", "overwritten"}
        /\ outages \in 0..MaxFaults
    BY BoundAssumption DEF ToVssInit, Verdicts
  <1>3. {moved, tardy} \subseteq BOOLEAN
    BY DEF ToVssInit
  <1>4. ToVssTypeOK
    BY <1>1, <1>2, <1>3 DEF ToVssTypeOK
  <1> QED
    BY <1>4 DEF ToVssInit, ToVssInv, Waiting, Awaited, PassIsEarnedToVss, FailIsEarnedToVss

LEMMA ToVssNextType == ToVssTypeOK /\ [ToVssNext]_toVssVars => ToVssTypeOK'
  <1> SUFFICES ASSUME ToVssTypeOK, [ToVssNext]_toVssVars PROVE ToVssTypeOK'
    OBVIOUS
  <1> USE DEF ToVssTypeOK, loopVars, checkVars, busVars, Verdicts, Up
  <1>1. CASE Traffic
    <2>1. lv' \in LvStates /\ telltale' \in VcTelltales
      BY <1>1, Values DEF Traffic, CarMoves, BcmWrites, VcWrites
    <2> QED
      BY <1>1, <2>1 DEF Traffic, StreamTells
  <1>2. CASE SeedTells \/ SeedEnds \/ StreamOpens \/ Delivers
    BY <1>2 DEF SeedTells, SeedEnds, StreamOpens, Delivers
  <1>3. CASE LoopChanges
    <2>1. outages' \in 0..MaxFaults
      BY <1>3, BoundAssumption DEF LoopChanges
    <2> QED
      BY <1>3, <2>1 DEF LoopChanges
  <1>4. CASE WritesSentinel
    BY <1>4, Values DEF WritesSentinel, OthersWrite, StreamTells
  <1>5. CASE Finds \/ FindsNot \/ LooksAgain \/ TimesOut
    BY <1>5 DEF Finds, FindsNot, LooksAgain, TimesOut
  <1>6. CASE UNCHANGED toVssVars
    BY <1>6 DEF toVssVars
  <1> QED
    BY <1>1, <1>2, <1>3, <1>4, <1>5, <1>6 DEF ToVssNext, Loop, Check

\* The script: what it concludes follows from what it saw.
LEMMA CheckInv == ToVssInv /\ Check => ToVssInv'
  <1> SUFFICES ASSUME ToVssInv, Check PROVE ToVssInv'
    OBVIOUS
  <1>0. ToVssTypeOK'
    BY ToVssNextType DEF ToVssInv, ToVssNext
  <1>1. ToVssTypeOK /\ 5 # None
    BY Values DEF ToVssInv
  <1> USE DEF ToVssInv, loopVars, checkVars, busVars, Awaited
  <1>2. CASE WritesSentinel
    <2>1. /\ step = "start" /\ step' = "polling" /\ lv' = 5
          /\ coming' = IF reader = "streaming" /\ lv' # lv THEN lv' ELSE coming
          /\ vss = 5 => "stale" \in chance'
          /\ lv = 5 => "latched" \in chance'
          /\ UNCHANGED <<reader, vss, moved, outages, landed, tardy>>
      BY <1>2, Values DEF WritesSentinel, StreamTells
    <2>2. reader = "streaming" => Handed' = 5 \/ Excused'
      BY <1>1, <2>1 DEF Handed, Excused
    <2>3. Waiting'
      BY <2>1, <2>2, Values DEF Waiting
    <2> QED
      BY <1>0, <2>1, <2>3 DEF PassIsEarnedToVss, FailIsEarnedToVss
  <1>3. CASE Finds
    BY <1>0, <1>3 DEF Finds, Waiting, PassIsEarnedToVss, FailIsEarnedToVss
  <1>4. CASE FindsNot
    <2>1. /\ step = "polling" /\ step' = "sleeping" /\ vss # 5
          /\ tardy' = (coming # None \/ reader # "streaming")
          /\ UNCHANGED <<lv, reader, coming, vss, moved, outages, landed, chance>>
      BY <1>4, Values DEF FindsNot
    <2>2. outages = 0 => tardy' \/ Excused
      BY <2>1, Values DEF Waiting, Handed
    <2>3. Waiting'
      BY <2>1, <2>2 DEF Waiting, Handed, Excused
    <2> QED
      BY <1>0, <2>1, <2>3 DEF PassIsEarnedToVss, FailIsEarnedToVss, Waiting
  <1>5. CASE LooksAgain
    BY <1>0, <1>5 DEF LooksAgain, Waiting, PassIsEarnedToVss, FailIsEarnedToVss, Handed, Excused
  <1>6. CASE TimesOut
    <2>1. /\ step = "sleeping" /\ step' = "done" /\ landed' = "fail"
          /\ UNCHANGED <<lv, reader, coming, vss, moved, outages, chance, tardy>>
      BY <1>6 DEF TimesOut
    <2>2. FailIsEarnedToVss'
      BY <2>1 DEF Waiting, FailIsEarnedToVss, Excused
    <2> QED
      BY <1>0, <2>1, <2>2 DEF Waiting, PassIsEarnedToVss
  <1> QED
    BY <1>2, <1>3, <1>4, <1>5, <1>6 DEF Check

\* Loop A: what it hands over is what BCM's frame carries, and what it delivers
\* is what it has handed over.
LEMMA LoopInv == ToVssInv /\ Loop => ToVssInv'
  <1> SUFFICES ASSUME ToVssInv, Loop PROVE ToVssInv'
    OBVIOUS
  <1>0. ToVssTypeOK'
    BY ToVssNextType DEF ToVssInv, ToVssNext
  <1>1. ToVssTypeOK /\ 5 # None
    BY Values DEF ToVssInv
  <1> USE DEF ToVssInv, loopVars, checkVars, busVars, Awaited
  <1>2. CASE SeedTells
    <2>1. /\ reader = "seeding"
          /\ UNCHANGED <<lv, reader, vss, moved, outages, step, landed, chance, tardy>>
      BY <1>2 DEF SeedTells
    <2> QED
      BY <1>0, <2>1 DEF Waiting, PassIsEarnedToVss, FailIsEarnedToVss, Excused
  <1>3. CASE SeedEnds
    <2>1. /\ reader = "seeding" /\ reader' = "subscribing"
          /\ UNCHANGED <<lv, vss, moved, outages, step, landed, chance, tardy>>
      BY <1>3 DEF SeedEnds
    <2> QED
      BY <1>0, <2>1 DEF Waiting, PassIsEarnedToVss, FailIsEarnedToVss, Excused
  <1>4. CASE StreamOpens
    <2>1. /\ reader = "subscribing" /\ reader' = "streaming"
          /\ chance' = IF Awaited /\ Handed # lv THEN chance \cup {"missed"} ELSE chance
          /\ UNCHANGED <<lv, coming, vss, moved, outages, step, landed, tardy>>
      BY <1>4 DEF StreamOpens
    <2>2. Handed' = Handed
      BY <2>1 DEF Handed
    <2>3. Excused => Excused'
      BY <2>1 DEF Excused
    <2>4. Awaited => Handed = 5 \/ Excused'
      BY <2>1, Values DEF Waiting, Excused
    <2>5. Waiting'
      BY <2>1, <2>2, <2>3, <2>4, Values DEF Waiting
    <2> QED
      BY <1>0, <2>1, <2>5 DEF PassIsEarnedToVss, FailIsEarnedToVss
  <1>5. CASE Delivers
    <2>1. /\ coming # None /\ vss' = coming /\ coming' = None
          /\ moved' = (moved \/ (Awaited /\ coming = 5))
          /\ UNCHANGED <<lv, reader, outages, step, landed, chance, tardy>>
      BY <1>5, Values DEF Delivers
    <2>2. Handed' = Handed
      BY <2>1 DEF Handed
    <2>3. Waiting'
      BY <2>1, <2>2, Values DEF Waiting, Excused
    <2> QED
      BY <1>0, <2>1, <2>3 DEF PassIsEarnedToVss, FailIsEarnedToVss
  <1>6. CASE LoopChanges
    <2>1. /\ outages' # 0
          /\ UNCHANGED <<lv, vss, moved, step, landed, chance, tardy>>
      BY <1>1, <1>6, BoundAssumption DEF LoopChanges, ToVssTypeOK
    <2> QED
      BY <1>0, <2>1 DEF Waiting, PassIsEarnedToVss, FailIsEarnedToVss
  <1> QED
    BY <1>2, <1>3, <1>4, <1>5, <1>6 DEF Loop

\* The car: BCM may write over the sentinel.
LEMMA TrafficInv == ToVssInv /\ Traffic => ToVssInv'
  <1> SUFFICES ASSUME ToVssInv, Traffic PROVE ToVssInv'
    OBVIOUS
  <1>0. ToVssTypeOK'
    BY ToVssNextType DEF ToVssInv, ToVssNext
  <1>1. /\ coming' = IF reader = "streaming" /\ lv' # lv THEN lv' ELSE coming
        /\ chance' = IF Awaited /\ lv' # lv THEN chance \cup {"overwritten"} ELSE chance
        /\ UNCHANGED <<reader, vss, moved, outages, step, landed, tardy>>
    BY DEF Traffic, StreamTells
  <1>2. CASE lv' = lv
    <2>1. coming' = coming /\ chance' = chance
      BY <1>1, <1>2
    <2> QED
      BY <1>0, <1>1, <1>2, <2>1
         DEF ToVssInv, Waiting, Awaited, Handed, Excused, PassIsEarnedToVss, FailIsEarnedToVss
  <1>3. CASE lv' # lv
    <2>1. Awaited => "overwritten" \in chance' /\ Excused'
      BY <1>1, <1>3 DEF Excused
    <2>2. chance \subseteq chance'
      BY <1>1
    <2>3. Waiting'
      BY <1>1, <2>1, <2>2 DEF ToVssInv, Waiting, Awaited
    <2> QED
      BY <1>0, <1>1, <2>2, <2>3 DEF ToVssInv, PassIsEarnedToVss, FailIsEarnedToVss
  <1> QED
    BY <1>2, <1>3

THEOREM ToVssInvariant == ToVssSpec => []ToVssInv
  <1>1. ToVssInv /\ UNCHANGED toVssVars => ToVssInv'
    BY DEF toVssVars, loopVars, checkVars, busVars, ToVssInv, ToVssTypeOK, Waiting, Awaited,
           Handed, Excused, PassIsEarnedToVss, FailIsEarnedToVss
  <1>2. ToVssInv /\ [ToVssNext]_toVssVars => ToVssInv'
    BY <1>1, CheckInv, LoopInv, TrafficInv, Zenon DEF ToVssNext
  <1> QED
    BY <1>2, ToVssInitInv, PTL DEF ToVssSpec

\* Whatever has been left in KUKSA and in BCM's frame, and whenever Loop A dies
\* or starts, a PASS means that it moved the sentinel (verify_bridge.py 3-5),
\* unless KUKSA held that before.
THEOREM PassProvesLoopA == ToVssSpec => []PassIsEarnedToVss
  <1>1. ToVssInv => PassIsEarnedToVss
    BY DEF ToVssInv
  <1> QED
    BY <1>1, ToVssInvariant, PTL

\* A Loop A that was up throughout, wherever in its seed and stream, is reported
\* as broken only for the reasons that FailIsEarnedToVss names.
THEOREM FailHasAReason == ToVssSpec => []FailIsEarnedToVss
  <1>1. ToVssInv => FailIsEarnedToVss
    BY DEF ToVssInv
  <1> QED
    BY <1>1, ToVssInvariant, PTL

-----------------------------------------------------------------------------
(* Direction B.                                                            *)

\* Before the command: besides VC's telltales the bus carries no more than the
\* one that was in the restbus at the start.
Before ==
    /\ target = None /\ verdict = "open"
    /\ \E left \in Telltales : extra \in {None, 0, left} /\ seen \subseteq VcTelltales \cup {left}

\* From the choice on: the sentinel was not on the bus, and what the bridge
\* transmits is the sentinel only if it has carried it there.
Chosen ==
    /\ sentinel \in {2, 3, 4} /\ verdict = "open"
    /\ target \in {None, sentinel}
    /\ extra = sentinel => carried
    /\ sentinel \in seen => carried \/ sentinel = TELLTALE_HAZARD

\* While nothing fails, the command is in the buffer or in the frame.
CommandKept == faults = 0 /\ pc = "watching" => sentinel \in {target, extra}

ToCanInv ==
    /\ ToCanTypeOK
    /\ pc = "baseline" => Before
    /\ pc \in {"actuating", "watching"} => Chosen
    /\ pc = "actuating" => target = None
    /\ CommandKept
    /\ PassIsEarnedToCan /\ FailIsEarnedToCan

LEMMA TelltaleValues == Telltales = 0..5
  <1>1. {TELLTALE_SENTINELS[i] : i \in 1..4} = {2, 3, 4, 5}
    <2>1. \A i \in 1..4 : i = 1 \/ i = 2 \/ i = 3 \/ i = 4
      OBVIOUS
    <2> QED
      BY <2>1, Values
  <1>2. Telltales = {0, 1, 2} \cup {2, 3, 4, 5}
    BY <1>1, Values DEF Telltales
  <1> QED
    BY <1>2

\* The choice of the script: a sentinel that is not on the bus, and there is one
\* as long as no more than one value was left there.
LEMMA ChoiceIsFree ==
    ASSUME NEW left, NEW S, S \subseteq {0, 1, 2, left}
    PROVE  /\ Choice(S) # {}
           /\ Choice(S) \subseteq {2, 3, 4}
           /\ \A v \in Choice(S) : v \notin S
  <1> DEFINE free == {i \in DOMAIN TELLTALE_SENTINELS : TELLTALE_SENTINELS[i] \notin S}
             least == {j \in free : \A k \in free : j <= k}
  <1>1. free \subseteq 1..4
    BY Values
  <1>2. /\ 1 \in free <=> 2 \notin S
        /\ 2 \in free <=> 3 \notin S
        /\ 3 \in free <=> 4 \notin S
    BY Values
  <1>3. 2 \in free \/ 3 \in free
    BY <1>2
  <1>4. least # {} /\ least \subseteq {1, 2, 3}
    <2>1. \E j \in {1, 2, 3} : j \in least
      <3> HIDE DEF free
      <3>1. CASE 1 \in free
        <4>1. 1 \in least
          BY <1>1, <3>1
        <4> QED
          BY <4>1
      <3>2. CASE 1 \notin free /\ 2 \in free
        <4>1. 2 \in least
          BY <1>1, <3>2
        <4> QED
          BY <4>1
      <3>3. CASE 1 \notin free /\ 2 \notin free
        <4>1. 3 \in least
          BY <1>1, <1>3, <3>3
        <4> QED
          BY <4>1
      <3> QED
        BY <3>1, <3>2, <3>3
    <2>2. \A j \in least : j <= 3 /\ j \in 1..4
      <3> HIDE DEF free
      <3> QED
        BY <1>1, <1>3
    <2> HIDE DEF free, least
    <2>3. \A j \in least : j \in {1, 2, 3}
      BY <2>2
    <2> QED
      BY <2>1, <2>3
  <1>5. Choice(S) = {TELLTALE_SENTINELS[i] : i \in least}
    BY DEF Choice
  <1>6. \A i \in least : TELLTALE_SENTINELS[i] \notin S
    OBVIOUS
  <1>7. \A i \in {1, 2, 3} : TELLTALE_SENTINELS[i] \in {2, 3, 4}
    BY Values
  <1> HIDE DEF free, least
  <1> QED
    BY <1>4, <1>5, <1>6, <1>7

LEMMA ToCanInitInv == ToCanInit => ToCanInv
  <1> SUFFICES ASSUME ToCanInit PROVE ToCanInv
    OBVIOUS
  <1>1. /\ bridge \subseteq Parts /\ {target, extra} \subseteq Telltales \cup {None}
        /\ pc \in {"baseline", "actuating", "watching", "done"}
        /\ seen \subseteq Telltales /\ sentinel \in Telltales /\ verdict \in Verdicts
        /\ faults \in 0..MaxFaults /\ lv \in LvStates /\ telltale \in VcTelltales
    BY TelltaleValues, BoundAssumption DEF ToCanInit, Verdicts
  <1>2. {carried, late} \subseteq BOOLEAN
    BY DEF ToCanInit
  <1>3. ToCanTypeOK
    BY <1>1, <1>2 DEF ToCanTypeOK
  <1>4. \E left \in Telltales : extra \in {None, 0, left}
    <2>1. CASE extra = None
      BY <2>1, TelltaleValues
    <2>2. CASE extra # None
      BY <1>1, <2>2
    <2> QED
      BY <2>1, <2>2
  <1>5. Before
    BY <1>4 DEF ToCanInit, Before
  <1> QED
    BY <1>3, <1>5 DEF ToCanInit, ToCanInv, CommandKept, PassIsEarnedToCan, FailIsEarnedToCan

LEMMA ToCanNextType == ToCanTypeOK /\ [ToCanNext]_toCanVars => ToCanTypeOK'
  <1> SUFFICES ASSUME ToCanTypeOK, [ToCanNext]_toCanVars PROVE ToCanTypeOK'
    OBVIOUS
  <1> USE DEF ToCanTypeOK, bridgeVars, scriptVars, busVars, Verdicts
  <1>1. CASE Observes
    <2>1. OnBus \subseteq Telltales
      BY DEF OnBus, Telltales
    <2> QED
      BY <1>1, <2>1 DEF Observes
  <1>2. CASE BaselineEnds
    <2>1. Choice(seen) \subseteq Telltales
      BY DEF Choice, Telltales
    <2> QED
      BY <1>2, <2>1 DEF BaselineEnds
  <1>3. CASE Actuates \/ ActuateRefused
    BY <1>3 DEF Actuates, ActuateRefused
  <1>4. CASE WatchEnds
    <2>1. late' \in BOOLEAN
      BY <1>4, Zenon DEF WatchEnds
    <2> QED
      BY <1>4, <2>1 DEF WatchEnds
  <1>5. CASE AddsFrame
    BY <1>5, TelltaleValues DEF AddsFrame
  <1>6. CASE WritesTarget
    BY <1>6 DEF WritesTarget
  <1>7. ASSUME NEW part \in Parts, BridgeChanges(part) PROVE ToCanTypeOK'
    <2>1. faults' \in 0..MaxFaults
      BY <1>7, BoundAssumption DEF BridgeChanges
    <2> QED
      BY <1>7, <2>1 DEF BridgeChanges
  <1>8. CASE Car
    BY <1>8, Values DEF Car, CarMoves, BcmWrites, VcWrites
  <1>9. CASE UNCHANGED toCanVars
    BY <1>9 DEF toCanVars
  <1> QED
    BY <1>1, <1>2, <1>3, <1>4, <1>5, <1>6, <1>7, <1>8, <1>9 DEF ToCanNext, Script, Bridge

\* The script: what it concludes follows from what it saw in its place.
LEMMA ScriptInv == ToCanInv /\ Script => ToCanInv'
  <1> SUFFICES ASSUME ToCanInv, Script PROVE ToCanInv'
    OBVIOUS
  <1>0. ToCanTypeOK'
    BY ToCanNextType DEF ToCanInv, ToCanNext
  <1>1. ToCanTypeOK
    BY DEF ToCanInv
  <1> USE DEF bridgeVars, scriptVars, busVars
  <1>2. CASE Observes
    <2>1. /\ pc \in {"baseline", "watching"} /\ pc' = pc
          /\ UNCHANGED <<telltale, bridge, target, extra, carried, faults, sentinel, verdict,
                         late>>
      BY <1>2 DEF Observes
    <2>2. PICK frame \in OnBus : seen' = seen \cup {frame}
      BY <1>2 DEF Observes
    <2>3. telltale \in {0, 1, 2} /\ (frame = telltale \/ frame = extra) /\ frame # None
      BY <1>1, <2>2, Values DEF ToCanTypeOK, OnBus
    <2>4. pc = "baseline" => Before'
      BY <2>1, <2>2, <2>3, Values DEF ToCanInv, Before
    <2>5. pc = "watching" => Chosen'
      BY <2>1, <2>2, <2>3, Values DEF ToCanInv, Chosen
    <2>6. CommandKept' /\ PassIsEarnedToCan' /\ FailIsEarnedToCan'
      BY <2>1 DEF ToCanInv, CommandKept, PassIsEarnedToCan, FailIsEarnedToCan
    <2> QED
      BY <1>0, <2>1, <2>4, <2>5, <2>6 DEF ToCanInv
  <1>3. CASE BaselineEnds
    <2>1. /\ pc = "baseline" /\ SawEveryFrame /\ seen' = {}
          /\ UNCHANGED <<telltale, bridge, target, extra, carried, faults, late>>
      BY <1>3 DEF BaselineEnds
    <2>2. PICK left \in Telltales : seen \subseteq {0, 1, 2, left}
      BY <2>1, Values DEF ToCanInv, Before
    <2>3. target = None /\ verdict = "open"
      BY <2>1 DEF ToCanInv, Before
    <2>4. /\ Choice(seen) # {} /\ Choice(seen) \subseteq {2, 3, 4}
          /\ \A v \in Choice(seen) : v \notin seen
      BY <2>2, ChoiceIsFree
    <2>5. sentinel' \in Choice(seen) /\ pc' = "actuating" /\ verdict' = verdict
      BY <1>3, <2>4 DEF BaselineEnds
    <2>6. sentinel' \in {2, 3, 4} /\ sentinel' \notin seen
      BY <2>4, <2>5
    <2>7. extra # sentinel'
      BY <2>1, <2>6, Values DEF SawEveryFrame, OnBus
    <2>8. Chosen'
      BY <2>1, <2>3, <2>5, <2>6, <2>7 DEF Chosen
    <2>9. CommandKept' /\ PassIsEarnedToCan' /\ FailIsEarnedToCan'
      BY <2>3, <2>5 DEF CommandKept, PassIsEarnedToCan, FailIsEarnedToCan
    <2> QED
      BY <1>0, <2>1, <2>3, <2>5, <2>8, <2>9 DEF ToCanInv
  <1>4. CASE Actuates
    <2>1. /\ pc = "actuating" /\ pc' = "watching" /\ target' = sentinel
          /\ UNCHANGED <<telltale, bridge, extra, carried, faults, seen, sentinel, verdict, late>>
      BY <1>4 DEF Actuates
    <2>2. Chosen'
      BY <2>1 DEF ToCanInv, Chosen
    <2>3. CommandKept' /\ PassIsEarnedToCan' /\ FailIsEarnedToCan'
      BY <2>1 DEF ToCanInv, CommandKept, PassIsEarnedToCan, FailIsEarnedToCan
    <2> QED
      BY <1>0, <2>1, <2>2, <2>3 DEF ToCanInv
  <1>5. CASE ActuateRefused
    <2>1. pc' = "done" /\ "provider" \notin bridge' /\ verdict' = "fail"
      BY <1>5 DEF ActuateRefused
    <2>2. CommandKept' /\ PassIsEarnedToCan' /\ FailIsEarnedToCan'
      BY <2>1 DEF CommandKept, PassIsEarnedToCan, FailIsEarnedToCan, Parts
    <2> QED
      BY <1>0, <2>1, <2>2 DEF ToCanInv
  <1>6. CASE WatchEnds
    <2>1. /\ pc = "watching" /\ pc' = "done"
          /\ verdict' = IF sentinel \in seen THEN "pass" ELSE "fail"
          /\ UNCHANGED <<bridge, carried, faults, sentinel>>
      BY <1>6 DEF WatchEnds
    <2>2. Chosen
      BY <2>1 DEF ToCanInv
    <2>3. verdict' = "pass" => carried \/ sentinel = TELLTALE_HAZARD
      BY <2>1, <2>2 DEF Chosen
    <2>4. faults = 0 /\ WatchedEnough => sentinel \in seen
      <3> SUFFICES ASSUME faults = 0, WatchedEnough PROVE sentinel \in seen
        OBVIOUS
      <3>1. sentinel \in {target, extra} /\ sentinel # None
        BY <2>1, <2>2, Values DEF ToCanInv, CommandKept, Chosen
      <3> QED
        BY <3>1 DEF WatchedEnough, SawEveryFrame, OnBus
    <2>5. late' = ~WatchedEnough
      BY <1>6 DEF WatchEnds
    <2>6. faults' = 0 /\ verdict' = "fail" => late'
      <3>1. faults' = 0 /\ verdict' = "fail" => ~WatchedEnough
        BY <2>1, <2>4
      <3> QED
        BY <3>1, <2>5, Zenon
    <2>7. PassIsEarnedToCan' /\ FailIsEarnedToCan'
      BY <2>1, <2>3, <2>6 DEF PassIsEarnedToCan, FailIsEarnedToCan
    <2>8. CommandKept'
      BY <2>1 DEF CommandKept
    <2> QED
      BY <1>0, <2>1, <2>7, <2>8 DEF ToCanInv
  <1> QED
    BY <1>2, <1>3, <1>4, <1>5, <1>6 DEF Script

\* The bridge: only what the script commanded reaches the frame.
LEMMA BridgeInv == ToCanInv /\ Bridge => ToCanInv'
  <1> SUFFICES ASSUME ToCanInv, Bridge PROVE ToCanInv'
    OBVIOUS
  <1>0. ToCanTypeOK'
    BY ToCanNextType DEF ToCanInv, ToCanNext
  <1>1. ToCanTypeOK
    BY DEF ToCanInv
  <1> USE DEF scriptVars, busVars
  <1>2. CASE AddsFrame
    <2>1. /\ extra = None /\ extra' = 0
          /\ UNCHANGED <<telltale, bridge, target, carried, faults, scriptVars>>
      BY <1>2 DEF AddsFrame
    <2>2. Before => Before'
      BY <2>1 DEF Before
    <2>3. Chosen => Chosen' /\ sentinel # extra
      BY <2>1, Values DEF Chosen
    <2>4. CommandKept'
      BY <2>1, <2>3 DEF ToCanInv, CommandKept
    <2>5. PassIsEarnedToCan' /\ FailIsEarnedToCan'
      BY <2>1 DEF ToCanInv, PassIsEarnedToCan, FailIsEarnedToCan
    <2> QED
      BY <1>0, <2>1, <2>2, <2>3, <2>4, <2>5 DEF ToCanInv
  <1>3. CASE WritesTarget
    <2>1. /\ target # None /\ extra' = target /\ target' = None /\ carried' = TRUE
          /\ UNCHANGED <<telltale, bridge, faults, scriptVars>>
      BY <1>3 DEF WritesTarget
    <2>2. pc \notin {"baseline", "actuating"}
      BY <2>1 DEF ToCanInv, Before
    <2>3. Chosen => Chosen' /\ extra' = sentinel
      BY <2>1 DEF Chosen
    <2>4. CommandKept' /\ PassIsEarnedToCan' /\ FailIsEarnedToCan'
      BY <2>1, <2>3 DEF ToCanInv, CommandKept, PassIsEarnedToCan, FailIsEarnedToCan
    <2> QED
      BY <1>0, <2>1, <2>2, <2>3, <2>4 DEF ToCanInv
  <1>4. ASSUME NEW part \in Parts, BridgeChanges(part) PROVE ToCanInv'
    <2>1. /\ faults' = faults + 1 /\ extra' \in {extra, None} /\ target' \in {target, None}
          /\ UNCHANGED <<telltale, carried, scriptVars>>
      BY <1>4 DEF BridgeChanges
    <2>2. faults' # 0
      BY <1>1, <2>1, BoundAssumption DEF ToCanTypeOK
    <2>3. Before => Before'
      BY <2>1 DEF Before
    <2>4. Chosen => Chosen'
      BY <2>1, Values DEF Chosen
    <2>5. CommandKept' /\ PassIsEarnedToCan' /\ FailIsEarnedToCan'
      BY <2>1, <2>2 DEF ToCanInv, CommandKept, PassIsEarnedToCan, FailIsEarnedToCan
    <2>6. pc = "actuating" => target' = None
      BY <2>1 DEF ToCanInv
    <2> QED
      BY <1>0, <2>1, <2>3, <2>4, <2>5, <2>6 DEF ToCanInv
  <1> QED
    BY <1>2, <1>3, <1>4 DEF Bridge

\* The car: VC emits 0, 1 and 2.
LEMMA CarInv == ToCanInv /\ Car => ToCanInv'
  <1> SUFFICES ASSUME ToCanInv, Car PROVE ToCanInv'
    OBVIOUS
  <1>0. ToCanTypeOK'
    BY ToCanNextType DEF ToCanInv, ToCanNext
  <1>1. UNCHANGED <<bridgeVars, scriptVars>>
    BY DEF Car
  <1> QED
    BY <1>0, <1>1 DEF ToCanInv, bridgeVars, scriptVars, Before, Chosen, CommandKept,
                      PassIsEarnedToCan, FailIsEarnedToCan

THEOREM ToCanInvariant == ToCanSpec => []ToCanInv
  <1>1. ToCanInv /\ UNCHANGED toCanVars => ToCanInv'
    BY DEF toCanVars, bridgeVars, scriptVars, busVars, ToCanInv, ToCanTypeOK, Before, Chosen,
           CommandKept, PassIsEarnedToCan, FailIsEarnedToCan
  <1>2. ToCanInv /\ [ToCanNext]_toCanVars => ToCanInv'
    BY <1>1, ScriptInv, BridgeInv, CarInv, Zenon DEF ToCanNext
  <1> QED
    BY <1>2, ToCanInitInv, PTL DEF ToCanSpec

\* Whatever telltale is in the restbus and whatever part of Loop B is dead or
\* dies, a PASS means that the bridge put the sentinel on the bus
\* (verify_bridge.py 3-5), unless the sentinel is the hazard telltale.
THEOREM PassProvesLoopB == ToCanSpec => []PassIsEarnedToCan
  <1>1. ToCanInv => PassIsEarnedToCan
    BY DEF ToCanInv
  <1> QED
    BY <1>1, ToCanInvariant, PTL

\* A Loop B whose parts worked throughout passes, if it was done in time:
\* whatever is on the bus a sentinel is free, and VC's frames do no harm.
THEOREM WorkingLoopBPasses == ToCanSpec => []FailIsEarnedToCan
  <1>1. ToCanInv => FailIsEarnedToCan
    BY DEF ToCanInv
  <1> QED
    BY <1>1, ToCanInvariant, PTL
=============================================================================
