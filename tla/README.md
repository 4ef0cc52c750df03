# A model of the KUKSA - RemotiveLabs bridge

TLA+ specifications of `kx_vss_bridge` (`src/src/kx_vss_bridge/`), the TLC runs
that check them on small instances, and proofs that TLAPS checks for every value
of the constants. Paths below are relative to the directory that holds `src/` and `tla/`;
`state.py` and the like stand for `src/src/kx_vss_bridge/state.py`.

## 1. The system

The bridge is one asyncio process that carries values between a RemotiveLabs
broker (the CAN side of a virtual vehicle) and a KUKSA databroker (VSS).

| component | state | operations | talks to |
|---|---|---|---|
| hand-off buffers (`state.py`) | per direction: `_values`, `_versions`, `_version`, `writes`, `drops`; one lock and one Condition for both | `put_latest`, `pending_snapshot`, `acknowledge`, `wait_for_pending`, `record_write` | called by the four workers |
| Loop A, CAN to VSS (`remotive_to_vss.py`) | reader: connection, valid mappings, seed or change stream; writer: connection, snapshot in flight | reader: validate, seed, stream, back off; writer: flush, back off | broker, KUKSA, buffers |
| Loop B, targets to restbus (`vss_to_remotive.py`) | reader: connection, two target streams; writer: connection, `started_namespaces`, snapshot in flight | reader: seed, two streams, back off; writer: validate, add, flush, back off, close on cancellation | KUKSA, broker, buffers |
| lifecycle (`__main__.py`) | three supervised tasks, a stop event | start, restart a crashed task, cancel on a signal | all workers |
| observability (`state.py`, `health.py`) | per peer: connected, phase, reconnects, errors; skipped entries, warnings, active counts, drops | `set_peer`, `record_*`, `replace_validation`, `snapshot` | written by all workers, read over HTTP |
| validation (`validation.py`) | none | `validate_mapping` of the mapping against both peers | broker, KUKSA |
| configuration (`config.py`) | none | parse, refuse or skip entries, de-duplicate | start-up |
| transforms (`transform.py`) | none | `can_to_vss`, `vss_to_can` | both readers |
| vCar ECUs (`src/vss-vcar/models`) | last decision, alert flag | BCM scenario and feedback, VC decision | each other, by cyclic frames |
| operator scripts (`src/scripts`) | `verify_bridge.py`: what it saw on the bus and in KUKSA | write a sentinel, poll, actuate, observe | the car, the bridge, KUKSA |

What is hard here: four workers interleave at every await over two shared
buffers and one Condition; a request may be applied and its answer lost; peers
restart and forget; a seed and a change stream leave a gap between them; two
target streams feed one slot; the broker keeps transmitting after the bridge has
gone; a signal may strike at any await; and several workers share the
`connected` flag of a peer. `PROJECT.json` lists each hazard at its line with
the properties that would notice it going wrong.

## 2. How the project was built

The order follows what matters most to a user of the bridge: that no value is
lost or goes back (`HandOff`), that the restbus is left clean (`Restbus`), that
both readers see everything (`CanReader`, `TargetReader`), that what is shown is
true (`BridgeHealth`), that the right entries carry the right values
(`Transform`, `MappingFile`, `Mapping`), that the process as a whole runs and
ends (`Lifecycle`, which takes over the restbus writer), and last the car the
bridge is tried on (`VCar`) and the two checks of the script that tries it
(`VerifyToVss`, `VerifyToCan`).
Every module is written without `RECURSIVE`, so that it can be proved about. What
is left is in sections 6 and 8.

## 3. Modules

An action is everything the event loop runs between two suspension points. The
lock of `BridgeState` is never held across one, so taking it never suspends a
worker: a run of calls to `BridgeState` is a single step. Cancellation, a
timeout and a peer's answer act only at suspension points.

A value is its ordinal: the n-th value put for a path, the n-th change of a
signal, the n-th command to an actuator. The workers compare values nowhere, so
the ordinal is all that their properties can tell apart. Only `Transform` looks
into values. In `VCar` and the checks of `verify_bridge.py` a signal has the few values
the code names. Which targets a conversion refuses or raises on are constants of
`TargetReader`.

| module | models | how its state corresponds |
|---|---|---|
| `HandOffBuffer` | `_Buffer` | `value`, `at`, `version` are `_values`, `_versions`, `_version`; 0 is "no entry" |
| `HandOff` | `BridgeState`'s buffers and Condition, the flush loops of both writers | `pc` is the await a writer is in, `taken` the snapshot it sends, `routes` the index of its connection; `newest`, `accepted`, `discarded` are history |
| `LatestRegister` | what a direction promises: one register per path that peers never see go back | abstract |
| `HandOffProofs` | theorems about `HandOff` | |
| `CanReader` | the vehicle, `run_remotive_reader`, KUKSA, and the hand-off as a register | `pc` is the phase, `mapped` the validated signals, `inbox` what the open stream holds, `drops` and `tracked` the total and the list of `record_drop`; `missed`, `lost` and `refused` are history |
| `CanReaderProofs` | theorems about `CanReader` | |
| `TargetReader` | `run_kuksa_target_reader`, `_subscribe_both_protocols` and a databroker that serves v1, v2, both or none | `branch` is the state of the two tasks, `inbox` the two streams; `source`, `handed`, `dropped`, `unseen` are history |
| `TargetReaderProofs` | theorems about `TargetReader` | |
| `Restbus` | `run_remotive_restbus_writer` without what it flushes, its cancellation, crash and restart, the broker's cyclic frames | `started` is `started_namespaces`, `cycling` what the broker transmits, `conn` whether it knows the connection |
| `Lifecycle` | `_run_until_signalled`, `run`, `_supervise`, `run_vss_to_remotive`, `serve_health`, over `Restbus` | `main` is the main task, `part` each `_supervise`, `task` each worker; `partCancel`, `cancel` and `signal` are the cancellation on its way down; `crashed` is the exception a TaskGroup holds |
| `LifecycleProofs` | theorems about `Restbus` and `Lifecycle` | |
| `BridgeHealth` | `_PeerState`, `replace_validation`, `snapshot` and the four workers between their calls of them | `peers` is the flag and phase of each peer, `active` and `skipped` what /stats lists, `own` the index of the restbus writer, `pc` and `branch` the workers; `catalog` is what the peers support, `severed` the connections that a restart has cut; `changed` and `behind` are history |
| `BridgeHealthProofs` | theorems about `BridgeHealth` | |
| `Transform` | `transform.py` | a value is a record of kind, number and word; "dropped" is a `TransformError`, "raised" any other exception |
| `MappingFile` | `_parse_entry` and its helpers | an entry has a shape and the fields of `Mapping`; a verdict is a mapping, an `_EntryError` or another exception |
| `Mapping` | `_parse_section`, `load_config_text`, `validate_mapping`, a use of each conversion | `read`, `kept`, `rejected`, `seenCan`, `seenVss` are the loop of `_parse_section`; `index`, `known`, `unprobed` the answers of the queries; `unchecked`, `survivors`, `dropped`, `warnings` the loop of `validate_mapping`; `carried`, `missed`, `current` are history |
| `MappingProofs` | theorems about `Mapping` | |
| `CarBus` | which ignition states and telltales the car puts on the bus | abstract |
| `VCar` | `BCM`, `VC`, `decide` and the broker's cyclic frames | `vehicle` and `hmi` are the two restbuses, `toVC` and `toBCM` the subscriptions, `alerting` and `last` the memory of the handlers, `hazardTo` and `hmiTo` the updates they await; `broken` and `exchanges` are history |
| `VCarProofs` | theorems about `VCar` | |
| `VerifyBridge` | what the two checks of `scripts/verify_bridge.py` share | constants of the script, over `CarBus` |
| `VerifyToVss` | `check_remotive_to_vss` against Loop A in any state | `step` and `landed` are the script; `reader` is the phase of the CAN reader, `coming` what it has handed over, `vss` the value in KUKSA; `moved`, `chance` and `tardy` are history |
| `VerifyToCan` | `check_vss_to_remotive` against Loop B in any state | `pc`, `seen`, `sentinel`, `verdict` are the script; `target` and `extra` what the provider and the restbus writer hold; `carried` and `late` are history |
| `VerifyBridgeProofs` | theorems about `VerifyToVss` and `VerifyToCan` | |

The modules meet in several places. `HandOff` is shown to implement
`LatestRegister`; `CanReader` uses a register for the KUKSA writer and is itself
shown to implement `LatestRegister`, with what the reader handed over as what
was produced. `HandOff` lets a connection be valid for a subset of the paths and
`Restbus` says which frames such a connection adds. `Mapping` says which mappings
those are: the nondeterministic validation of `CanReader`, `HandOff`, `Restbus`
and `BridgeHealth` covers every `survivors` that it computes. `Lifecycle` extends
`Restbus` and is proved to implement it, so that each theorem about the writer
is one about the process. `VerifyToVss` and `VerifyToCan` run on `CarBus`, which `VCar` is
proved to implement: the values the ECUs produce by themselves decide what a
sighting proves. The two checks run one after the other and share no signal, so
each is a module of its own. `VerifyToVss` keeps of `CanReader` the seed, the
change stream and the gap between them, and of `HandOff` the register.

Loading and the loop of a validation have no suspension point, and `Mapping`
still takes a step for each entry: nothing runs beside the loading, and nothing
that the loop reads can change beside it. So the order of the loop is in the
model, and an invariant of the loop can be proved.

Assumptions about the peers, none of them code under `src/`: a request that
failed is not applied after the writer's next request; a databroker may or may
not store a v2 actuation as a target; `add` replaces what the same client added,
and a new connection may or may not be the same client; a seed stream carries
cyclic frames and a change stream only changes; a databroker refuses a metadata
query that names a path it does not know; frame names are unique in a namespace.
In `VCar` the broker sends a frame with the latest values and a subscription
keeps the order; a step of the scenario is held for 5 seconds or more, fifty
cycles of a frame, so a step comes when both ECUs are at rest, while writes from
outside come at any time. In `VerifyToCan` the 2 seconds of the baseline show every
frame on the bus at least once; the deadlines of both checks pass at any time.
`Lifecycle` follows Python 3.12, the image of the Dockerfile: a TaskGroup that
holds an exception raises it in place of the cancellation.
In `BridgeHealth` a databroker serves at least one of the two target protocols
(with neither, the KUKSA flag flips for ever).

## 4. Runs

| run | bounds | shows |
|---|---|---|
| `hand_off` | 2 directions, 2 paths, 2 puts per direction, 3 faults | no value is lost, no wake-up is missed, no retry is counted twice, no peer goes back, and every value is applied, superseded or given up |
| `can_reader` | 2 signals in one frame, 3 changes each, 1 bad value of each, a list of 1 drop, 1 seed batch, 2 faults | KUKSA catches up with the vehicle, but for what changed between the seed and the stream and what a restart of KUKSA erased; an outage of KUKSA does not stop an open stream; the list of drops is exact at its cap |
| `target_reader` | 2 paths, up to 3 commands each and 4 in all (`MCFewCommands`), of which one is refused and one raises, 2 faults, all four databrokers | where each stored target is at any moment; it is buffered or counted as a drop in the end, but for a stranded one and for seeds that always raise; only another source brings an older one |
| `lifecycle` | 2 namespaces, 3 parts, 4 workers, 2 faults | adds are tracked, cleaned up, and precede every write; a signal ends the process and a crashed worker comes back, unless a cancellation got lost; no worker outlives the process |
| `restbus_shutdown` (violation) | as above | a signal during the backoff sleep leaves the frames cycling |
| `bridge_health` | 1 entry in each section, 1 malformed, 2 catalogs, 2 faults | a worker backs each phase and flag, `ok` is not claimed of what peers lack, /stats lists what the restbus writer writes, a restarted broker leads to a validation, flags recover |
| `bridge_health_skipped` (violation) | as above | a malformed entry disappears from /stats and the status becomes `ok` |
| `bridge_health_restart` (violation) | as above, 1 fault suffices | a restart of KUKSA alone leads to no validation |
| `mapping` | 42 files of up to 3 entries in a section for the rules, 31 single entries for the conversions, 3 vehicles, 2 catalogs, 12 values, 1 change, 1 failed query | which entries survive and why, which warnings are given, that what is sent fits, and that nothing comes back as another value |
| `mapping_malformed` (violation) | as above | an unknown key that is no text, or a list in a boolean enum, ends the start |
| `vcar` | 1 frame waiting per subscription, 2 writes from outside, 1 failed update or restart, scenario on or off | the feedback between BCM and VC settles with the right outputs, within two exchanges in a scenario without faults; each ECU sends what it remembers; the bus is `CarBus` |
| `verify_bridge` | either check, any phase and any working parts of the bridge, any leftover in KUKSA, BCM's frame and the restbus, 2 deaths and starts | a PASS comes from the bridge unless KUKSA held the sentinel before, or the sentinel is telltale 2; a bridge that is up FAILs only by lateness or for one of three reasons |

Why the bounds are enough. Two directions are all there are. Two paths
distinguish "this slot" from "another slot"; two puts let a value be overwritten
while the first is in flight, and three faults let a request fail, its retry
fail and the next connection be slow to come. Three changes let a
good value follow a bad one that follows the seed; a list of one drop is full when
the second bad value comes; one waiting batch is enough to be dropped by
the seed timeout. Three commands put a refused one
between two that convert, and the fourth is for the other path. A part of the bridge
that dies and comes back has changed twice. A behaviour of `verify_bridge`
runs one of the two checks, as each begins in any state of its part of the bridge,
also in those that the other leaves behind.
Two namespaces distinguish one that stays mapped from one that goes. In
`lifecycle` and `bridge_health` the second fault strikes while the first is being recovered
from. In `mapping`, three entries are the fewest in which one that was
rejected could shut out a third, the conversions have every type and
operation, and one change or failure falls into each phase of a validation. In `vcar` one waiting frame is already stale by a whole exchange, and two
writes from outside can reverse each other while the feedback runs. The
proofs of section 6 are for any number of each.

`CHECK_DEADLOCK FALSE` is set because the bounds let a model come to rest: all
puts, changes or commands are made, or the worker has stopped on a signal. The
checks of `verify_bridge.py` leave the car running, and their run checks for
deadlock.

## 5. Fairness

The event loop runs every ready task, so the workers' own steps are weakly fair,
and so are the answers of a peer that is up and the timers (`seed_seconds`,
`retry_delay`). Nothing obliges a producer to produce, a
connection to fail, a stream to end or an operator to send a signal. In
`CanReader` nothing obliges KUKSA to come back either: `CatchesUp` assumes it in
its premise. In `Lifecycle` the ready tasks are scheduled: the main task goes on
when the signal or the parts allow, a cancellation is delivered, a part ends
when its workers have and starts again after `retry_delay`, and the answer to
`close` comes or fails. Nothing obliges a peer to answer anything else, nor a
worker to crash. In `VCar` the broker sends each frame in every cycle, the ECUs
handle what arrives, and their updates are answered; nobody is obliged to write
from outside, and the scenario not to go on. In `BridgeHealth` every
worker whose connection a restart has cut notices it, except a writer with
nothing to write: it waits on the Condition and makes no call that could fail.
`Mapping`, `VerifyToVss` and `VerifyToCan` have safety properties only. In
`TargetReader` both tasks go on and the seed is answered.

## 6. Proofs

`HandOffProofs` proves, for any finite set of paths, any set of directions, any
routes and any bounds: type correctness, `NoLostUpdate`, `SlotsAgree`,
`NoMissedWakeup`, `NeverGoesBack`, `WritesCountOnce`, and that `HandOff`
implements `LatestRegister`. The assumptions are the three ASSUMEs of `HandOff`.

`NoLostUpdate` is not inductive. Suppose a snapshot is in flight and its
acknowledgement clears a slot: the slot must hold what was sent. That needs
`FlightMatches`: what is in flight is still in its slot, at a version no later
than the snapshot's, or has been overwritten at a later version. That, in turn,
needs `SlotsHoldNewest`. For `NeverGoesBack` the same conjunct says that what is
in flight is no older than what was applied or given up before. The third part,
`NothingInvented`, gives the refinement its upper bound. `IInv` is their
conjunction per direction, with `NoMissedWakeup` and, for a request whose answer
is awaited, that it has been applied. One lemma per action shows that it
preserves `DirectionInv`, over lemmas about `FlushLoop` and the operators of
`HandOffBuffer`; a direction that does not step only changes by being notified.

`WritesCountOnce` needs the same look at the snapshot in flight: the writes
counted, the signals it will count and the slots written later than it fit in the
version (`CountInv`). A put adds one to the version and at most one slot; an
acknowledgement turns signals in flight into writes, and leaves unsent only the
slots written later (`StillCounted`), so a retry counts nothing twice.

`LifecycleProofs` proves of the restbus writer by itself, for any set of
namespaces and any number of faults, type
correctness, `AddsAreTracked`, `AddedBeforeWriting` and
`SilentUnlessBackingOff`. Their conjunction is not inductive either: the cleanup
needs to know that a worker which closes was not interrupted in its backoff and
has had its outstanding add moved to `lost`.

It then shows that every step of the process is a step of
`Restbus` or leaves it alone (`ImplementsRestbus`); the three properties above
then hold of the process. `ExitIsClean` is proved from an invariant of
the tree of tasks: a part that is over or asleep has no worker left, and the
main task exits when every part is over.

`CanReaderProofs` proves, for any finite set of signals, any frames, any
untransformable values and any bounds, type correctness, `StreamIsComplete`,
`OnlyForward` and `DropsAreDigested`. The first two need `InOrder`: along the
stream, what waits is no older than what was handed over nor than what waits
before it. `OnlyForward` is a refinement of `LatestRegister`. The total of
`DropsAreDigested` is stated as the size of the set of all refusals, each with its
number, so that it needs no sum: the refusals of a batch are as many as its bad
values and none of them is in the set already (`DropsKeepTotal`). The list needs
that it never outgrows its cap (`ListInv`).

`TargetReaderProofs` proves, for any finite set of paths, any bounds, and any
targets that a conversion refuses or raises on, type
correctness, `TargetsAccountedFor` and `OneSourceNeverGoesBack`. The latter needs
that each stream is in the order of the commands and goes on where the
target in the buffer came from, and that what v1 and the seed tell is no newer
than the store.

`VCarProofs` proves, for any writes from outside and any bounds, type
correctness, `OutputsInStep`, `WithinTwoExchanges` and that the two ECUs
implement `CarBus`. The first strengthening is that the update a handler awaits is
what it remembers. For `CarBus`, a lemma says that `decide` has four outputs.

`WithinTwoExchanges` bounds a count along a run, so its invariant (`Course`) says
how far that run has come. While no child is in the car the frames
call for the alert, then for the hazard telltale, then for nothing, and `Calm`
ranks them so: VC's output, the frames on their way to it and BCM's own frame are
in that order (`FallingStates`), and as every exchange moves the output up a rank,
there are at most as many exchanges as its rank. For BCM's frame never
to fall back, the alert has to end everywhere in one order, and `FallingAlerts` says
which. With a child in the parked car (`Rising`), VC says the alert from the first
frame that shows it. The theorem needs from the scenario what the model says of
it: a step begins when the car has come to rest.

`VerifyBridgeProofs` proves, for any number of faults and any values that others
write, type correctness of both checks and their four properties:
`PassIsEarnedToVss`, `FailIsEarnedToVss`, `PassIsEarnedToCan` and
`FailIsEarnedToCan`. A verdict is about
what was true several steps before, so the invariants follow the script from
place to place. While the first check waits (`Waiting`), KUKSA
holds the sentinel only if it did before or the bridge moved it; BCM's frame holds it
unless it was written over; and a reader that streams on a bridge that was never
down has handed it over, unless one of the reasons (`Excused`) applies. In the second, the bus carries before the command
no more than VC's telltales and the one an earlier run left, which is
why a sentinel is free (`Before`, `ChoiceIsFree`). After the choice, the bridge transmits the
sentinel only if it carried it (`Chosen`), and while nothing fails the command is
in the buffer or in the frame (`CommandKept`).

`BridgeHealthProofs` proves, for any sections, catalogs and number of faults,
type correctness, `PhaseIsTrue`, `OkMeansSupported` and `StatsMatchWriter`.
`PhaseIsTrue` is inductive with the types, because only the two workers of a
peer touch its flag and each clears it when it leaves. `OkMeansSupported` needs
`ReaderUpToDate`: while the reader is past its validation, no peer has restarted
and nothing is skipped, the peers support every entry. `StatsMatchWriter` compares
two workers that never meet; it follows from what each knows of the peers
(`ReaderKnows`, `WriterKnows`), which a restart of the broker takes from both, by
cutting their connections, and one of KUKSA by putting both behind.

`MappingProofs` proves, for any files, vehicles, catalogs and values, type
correctness, `KeptAreUnambiguous`, `RejectedForAReason`, `ResultIsExact`,
`WritesAreWarnedOf`, `OutputFits` and `NothingIsAltered`. `FilesAssumption` is what
the parser demands of the fields of a sound entry, and what a dict of Python is:
no list is a key, and no key is there twice (`IsDict`). `VehiclesAssumption` is about the broker: in a
namespace a frame has a name of its own, and it lists its signals qualified by
that name or bare. `ValuesAssumption` says that a peer sends values, whose
fields fit their kind, and no exceptions. `RoundingAssumption` keeps the rounding of
floats out: each linear entry of the file makes whole quarters of the values at
hand, so that `Quotient` comes out even. The scales and the values are otherwise
free, and the entries of the run satisfy it with scales of 2, 1/2, 1 and -2.
`SectionInv` says what the loop of the parser has done: the keys seen are those
of the entries kept, and the entries kept or rejected are those read.
`QueriesInv` says what the queries have told while the peers stood still, and
`LoopInv` that the survivors so far are the entries checked without a reason to
drop them; `ListedIsCarried` connects the index with the vehicle. For the warnings,
`FrameInv` says of each frame that what has been said follows from the entries seen
so far that write to it; as a frame is known by its name, a warning about one is
none about another. `OutputFits` holds of any single conversion (`ForwardFits`,
`BackwardFits`), and `CarriedInv` says that what is carried is one.

`NothingIsAltered` is proved operation by operation. A coercion is the identity on
what it gives (`CoercionKeeps`); a division that comes out even is undone by the
other one (`QuotientExact`, `LinearReturns`), and a text or an int that it was put
into has the same number (`NumberCoerced`). An enum on its way back finds a pair
whose value converts to what was sent (`EqualCoerces`); where the enum is not
ambiguous that is the pair of the way there, and as no two keys are equal the other
way round needs no such condition (`EnumReturns`). That the parser takes no scale of
zero, and no text into an enum of numbers, comes from the verdict that `SectionInv`
keeps of each kept entry (`VerdictOfSound`).

Every safety invariant that a run checks is stated by a theorem. The type
invariants are left to the proofs, but for that of `Mapping`, whose values have the
most forms. Only model-checked
are the liveness properties, as TLAPS has no rule for fairness that is usable here.

## 7. What disagrees with the documentation

* `restbus_shutdown`: `src/README.md:184` promises a cleanup on SIGTERM or
  SIGINT; the backoff sleep is outside the `try` whose handler does it.
* `bridge_health_skipped`: `src/README.md:556` says `ok` means that nothing was
  skipped, and `config.py:10` that a malformed entry is surfaced on /stats; the
  first validation of the reader replaces it (`remotive_to_vss.py:107`).
* `bridge_health_restart`: `src/README.md:567` says that a restart of either
  peer leads to a validation; KUKSA's workers validate nothing
  (`remotive_to_vss.py:184`).
* `mapping_malformed`: `src/README.md:478` says a malformed entry is dropped and
  the rest run; `config.py:400` joins unknown keys as texts, which fails on the
  boolean that YAML 1.1 makes of a bare `on` or `y`, and nothing catches that.

Five more follow from the models without a run of their own. `src/README.md:563`
and `state.py:3` promise that a dead KUKSA does not stop the reading of CAN; it
does for a reader that has to connect, as each connection validates against
KUKSA first (`remotive_to_vss.py:91`, the action `ValidationFails`).
`vss_to_remotive.py:248` says that a taken actuator leads to the backoff; the
guard of the two streams catches it before (line 193, `Stranded` in
`TargetReader`). `verify_bridge.py:11-12` says that seeing
the sentinel in KUKSA cannot be a coincidence; KUKSA keeps it from an earlier run, the value
read before the write (101) is only printed, and a bridge that is down passes, so
`PassIsEarnedToVss` has to except it ("stale"). `verify_bridge.py:57` says that BCM
emits only 2 and 4, and 59-60 that VC emits only 0 and 1; VC emits 2 while BCM's
hazards reflect back, and 2 is the first sentinel, so `PassIsEarnedToCan` has to
except it. And a signal does not
always end the process: where the exception of a closing connection or of a
crashed worker takes the place of the cancellation, the part is started again and
nobody cancels it a second time (`CancellationLost` in `Lifecycle`).

The properties of the passing runs leave out some cases, each named where it is
stated. In `SilentUnlessBackingOff`: adds whose answer was lost, and a writer
that crashed. In `Settles`: after a failed update, or one that the defaults of
the start overtook, an ECU stays silent about what it believes to have said until
its decision changes. In `FailIsEarnedToVss`: something was under way at the
last look, the scenario wrote over the sentinel, BCM's frame carried it before,
so that the change stream has nothing to tell, or the write fell between the seed
and the stream. In `FailIsEarnedToCan`: the watch was over before the
target was written or every frame seen. In `TargetsAccountedFor` and
`TargetsArrive`: a target that one stream will not tell of, for as long as the
other stays open; and, for every path, while a stored target raises something
other than a `TransformError`, as each seed then ends there. In
`StatsMatchWriter`: a metadata probe that failed in one of the two validations,
a restart of KUKSA since the earlier of them, and a connection that is cut
already. In `FlagsRecover`: a connected flag stays down for a failed target stream
while the other is open, and for a restbus writer that failed and then has
nothing to write. In `WritesAreWarnedOf`: a frame may be called inert although
another entry lets the bridge add it. In `OutputFits`: an entry without a
range whose own offset, level or CAN value is NaN sends NaN to CAN; and a `TypeError`
comes from a list looked up in an enum, and from a null or a list as level or CAN
value of an entry with a range. In `NothingIsAltered`: the parser takes an enum of
type boolean in which the text "true" and the boolean are two values, and its
inverse picks one.

## 8. Not modelled

In the parser, the type checks of single fields are one verdict, "malformed",
and the peer and option sections, which end the start with one error, are left
out. In the transforms, numbers are exact and finite or NaN: rounding and
overflow of floats are left out, and so are scales and
values that are infinite. In the
health, `reconnects`, `errors`,
`last_error` and the counts of batches and signals are left out, as they only
count calls. `Lifecycle` keeps one of the two workers of Loop A, whose group behaves
like that of Loop B, and assumes that the file has to_can entries. `VCar` has one
transmitter of each frame: with the bridge as a second one of VC_To_HMI, BCM
follows whichever frame came last (finding F9 of the repository); `VerifyToCan`
has both transmitters. During a check of `verify_bridge.py` nobody else commands the telltale, and a
restart of KUKSA, which ends the script with an exception, is left out. A restart of the broker loses the
commanded values, as one of KUKSA loses the current ones (`lost` in
`CanReader`); nothing in the bridge keeps acknowledged values, and `Restbus` does not
look into frames. Of the operator scripts, `actuate.py`,
`discover_mapping.py` and `spike_restbus.py` send a request or print what they
receive and reach no verdict. Logging and the HTTP routes only render a snapshot,
and the build and topology files have no behaviour of their own.
