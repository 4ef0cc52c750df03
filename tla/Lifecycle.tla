----------------------------- MODULE Lifecycle -----------------------------
(***************************************************************************)
(* The process (__main__.py 208-347): run starts three supervised parts    *)
(* in a TaskGroup, _supervise starts a part again when it ends, and a      *)
(* signal cancels everything.  The part to_can is itself a TaskGroup of    *)
(* the restbus writer, which is Restbus, and the target reader.  The part  *)
(* to_vss is a group as well, of which one worker is kept here; the part   *)
(* health is serve_health.  The mapping file has to_can entries: with none *)
(* the target reader returns at once.                                      *)
(*                                                                         *)
(* A cancellation goes down this tree and the parts end upwards.  It gets  *)
(* lost where an except Exception takes what replaced the CancelledError,  *)
(* and, in the TaskGroup of Python 3.12, where a worker has crashed when   *)
(* the group is cancelled; Python 3.13 cancels the part once more.         *)
(***************************************************************************)
EXTENDS Restbus

VARIABLES
    main,       \* "starting", "running", "stopping", "exited", or "refused"
    asked,      \* SIGTERM or SIGINT has arrived
    task,       \* per worker but the restbus writer: where it is
    cancel,     \* per such worker: "none", "sent" or "swallowed"
    part,       \* per part: what its _supervise does
    partCancel, \* per part: "none", "sent", "delivered" or "lost"
    crashed,    \* parts in which a worker ended by an exception
    failures    \* faults that are not the restbus writer's

lifeVars == <<main, asked, task, cancel, part, partCancel, crashed, failures>>
allVars == <<vars, lifeVars>>

Workers == {"to_vss", "target_reader", "health"}
Parts == {"to_vss", "to_can", "health"}
PartOf(w) == IF w = "target_reader" THEN "to_can" ELSE w
\* connected or connecting, or listening; or in the loop's own sleep
Alive == {"open", "backoff"}

OwnTypes ==
    /\ main \in {"starting", "running", "stopping", "exited", "refused"}
    /\ asked \in BOOLEAN
    /\ task \in [Workers -> Alive \cup {"over"}]
    /\ cancel \in [Workers -> {"none", "sent", "swallowed"}]
    /\ part \in [Parts -> {"off", "running", "sleeping", "over"}]
    /\ partCancel \in [Parts -> {"none", "sent", "delivered", "lost"}]
    /\ crashed \subseteq Parts
    /\ failures \in Nat

LifeTypeOK == TypeOK /\ OwnTypes

LifeInit ==
    /\ Init
    /\ main = "starting" /\ asked = FALSE
    /\ task = [w \in Workers |-> "over"] /\ cancel = [w \in Workers |-> "none"]
    /\ part = [p \in Parts |-> "off"] /\ partCancel = [p \in Parts |-> "none"]
    /\ crashed = {} /\ failures = 0

Failure == failures' = failures + 1

-----------------------------------------------------------------------------
(* Main: _run_until_signalled and run.                                     *)

Start ==
    /\ main = "starting" /\ ~asked
    /\ main' = "running"
    /\ part' = [p \in Parts |-> "running"]
    /\ task' = [w \in Workers |-> "open"]
    /\ UNCHANGED <<vars, asked, cancel, partCancel, crashed, failures>>

\* A ConfigError (exit code 2), or a token that cannot be read.
StartFails ==
    /\ main = "starting"
    /\ main' = "refused"
    /\ UNCHANGED <<vars, asked, task, cancel, part, partCancel, crashed, failures>>

OperatorSignals ==
    /\ main \in {"starting", "running"}
    /\ asked' = TRUE
    /\ UNCHANGED <<vars, main, task, cancel, part, partCancel, crashed, failures>>

\* worker.cancel(), which the TaskGroup of run hands to every part.
Stop ==
    /\ asked
    /\ \/ /\ main = "starting" /\ main' = "exited"
          /\ UNCHANGED partCancel
       \/ /\ main = "running" /\ main' = "stopping"
          /\ partCancel' = [p \in Parts |-> "sent"]
    /\ UNCHANGED <<vars, asked, task, cancel, part, crashed, failures>>

\* A bug: wait for the two directions only.
ExitsWithoutHealth ==
    /\ main \in {"running", "stopping"} /\ \A p \in Parts \ {"health"} : part[p] = "over"
    /\ main' = "exited"
    /\ UNCHANGED <<vars, asked, task, cancel, part, partCancel, crashed, failures>>

\* The TaskGroup of run has ended, and await worker with it.
Exit ==
    /\ main \in {"running", "stopping"} /\ \A p \in Parts : part[p] = "over"
    /\ main' = "exited"
    /\ UNCHANGED <<vars, asked, task, cancel, part, partCancel, crashed, failures>>

-----------------------------------------------------------------------------
(* The workers.                                                            *)

\* A peer fails; the worker's own loop takes the exception.
Break(w) ==
    /\ w # "health" /\ task[w] = "open" /\ Failure
    /\ task' = [task EXCEPT ![w] = "backoff"]
    /\ UNCHANGED <<vars, main, asked, cancel, part, partCancel, crashed>>

Reconnect(w) ==
    /\ task[w] = "backoff"
    /\ task' = [task EXCEPT ![w] = "open"]
    /\ UNCHANGED <<vars, main, asked, cancel, part, partCancel, crashed, failures>>

\* The port is taken, or an exception no loop takes.  The TaskGroup of to_can
\* cancels the other worker.
Fails(w) ==
    /\ task[w] \in Alive /\ Failure
    /\ task' = [task EXCEPT ![w] = "over"]
    /\ crashed' = crashed \cup {PartOf(w)}
    /\ signal' = IF w = "target_reader" /\ signal = "none" /\ pc \in Running
                 THEN "sent" ELSE signal
    /\ UNCHANGED <<pc, frames, started, conn, cycling, interrupted, gaveUp, added, lost,
                   faults, main, asked, cancel, part, partCancel>>

CancelWorkers(ws) ==
    cancel' = [w \in Workers |->
                  IF w \in ws /\ cancel[w] = "none" /\ task[w] \in Alive THEN "sent"
                  ELSE cancel[w]]

RestbusCrashes ==
    /\ part["to_can"] = "running" /\ Crash
    /\ crashed' = crashed \cup {"to_can"}
    /\ CancelWorkers({"target_reader"})
    /\ UNCHANGED <<main, asked, task, part, partCancel, failures>>

\* CancelledError closes what the worker has open and ends it.
Cancelled(w) ==
    /\ cancel[w] = "sent" /\ task[w] \in Alive
    /\ task' = [task EXCEPT ![w] = "over"]
    /\ UNCHANGED <<vars, main, asked, cancel, part, partCancel, crashed, failures>>

\* The closing fails.  A worker takes that for one more failure of its peer;
\* out of serve_health it gets to _supervise, as a crash.
Swallows(w) ==
    /\ cancel[w] = "sent" /\ task[w] = "open" /\ Failure
    /\ \/ /\ w # "health"
          /\ task' = [task EXCEPT ![w] = "backoff"]
          /\ cancel' = [cancel EXCEPT ![w] = "swallowed"]
          /\ UNCHANGED crashed
       \/ /\ w = "health"
          /\ task' = [task EXCEPT ![w] = "over"]
          /\ crashed' = crashed \cup {w}
          /\ UNCHANGED cancel
    /\ UNCHANGED <<vars, main, asked, part, partCancel>>

\* The restbus writer and its broker by themselves.
RestbusRuns ==
    /\ part["to_can"] = "running"
    /\ \/ Connect \/ ConnectFails \/ BrokerAdds \/ Added \/ RequestFails \/ Retry
       \/ Cancel \/ CancelSwallowed \/ Close \/ CloseFails
    /\ UNCHANGED lifeVars

-----------------------------------------------------------------------------
(* _supervise.                                                             *)

MembersOver(p) ==
    /\ \A w \in Workers : PartOf(w) = p => task[w] = "over"
    /\ p = "to_can" => pc = "stopped"

\* The cancellation of a part strikes in its factory, where a group hands it
\* to every worker, or in the sleep of _supervise.
CancelPart(p) ==
    /\ partCancel[p] = "sent"
    /\ \/ /\ part[p] = "running" /\ (p = "health" => ~MembersOver(p))
          /\ partCancel' = [partCancel EXCEPT ![p] = "delivered"]
          /\ CancelWorkers({w \in Workers : PartOf(w) = p})
          /\ signal' = IF p = "to_can" /\ signal = "none" /\ pc \in Running
                       THEN "sent" ELSE signal
          /\ UNCHANGED part
       \/ /\ part[p] = "sleeping"
          /\ part' = [part EXCEPT ![p] = "over"]
          /\ UNCHANGED <<partCancel, cancel, signal>>
    /\ UNCHANGED <<pc, frames, started, conn, cycling, interrupted, gaveUp, added, lost,
                   faults, main, asked, task, crashed, failures>>

\* Bugs: an exception passes through, as the cancellation does; the
\* cancellation is slept on, as an exception is.
PartEndsForGood(p) ==
    /\ part[p] = "running" /\ MembersOver(p)
    /\ part' = [part EXCEPT ![p] = "over"]
    /\ UNCHANGED <<vars, main, asked, task, cancel, partCancel, crashed, failures>>

PartNeverEnds(p) ==
    /\ part[p] = "running" /\ MembersOver(p)
    /\ part' = [part EXCEPT ![p] = "sleeping"]
    /\ UNCHANGED <<vars, main, asked, task, cancel, partCancel, crashed, failures>>

\* The factory has ended: by the cancellation, or by an exception or a return,
\* which _supervise sleeps on.  Both at once: see the head of the module.
PartEnds(p) ==
    /\ part[p] = "running" /\ MembersOver(p)
    /\ \/ /\ partCancel[p] = "delivered" /\ (p \in crashed => p # "health")
          /\ part' = [part EXCEPT ![p] = "over"]
          /\ UNCHANGED partCancel
       \/ /\ partCancel[p] = "delivered" /\ p \in crashed
          /\ part' = [part EXCEPT ![p] = "sleeping"]
          /\ partCancel' = [partCancel EXCEPT ![p] = "lost"]
       \/ /\ partCancel[p] # "delivered"
          /\ part' = [part EXCEPT ![p] = "sleeping"]
          /\ UNCHANGED partCancel
    /\ UNCHANGED <<vars, main, asked, task, cancel, crashed, failures>>

\* After retry_delay.
PartRestarts(p) ==
    /\ part[p] = "sleeping" /\ partCancel[p] # "sent"
    /\ part' = [part EXCEPT ![p] = "running"]
    /\ task' = [w \in Workers |-> IF PartOf(w) = p THEN "open" ELSE task[w]]
    /\ cancel' = [w \in Workers |-> IF PartOf(w) = p THEN "none" ELSE cancel[w]]
    /\ crashed' = crashed \ {p}
    /\ IF p = "to_can" THEN Restart ELSE UNCHANGED vars
    /\ UNCHANGED <<main, asked, partCancel, failures>>

-----------------------------------------------------------------------------
LifeStep ==
    \/ Start \/ StartFails \/ OperatorSignals \/ Stop \/ Exit
    \/ RestbusRuns \/ RestbusCrashes
    \/ BrokerRestarts /\ UNCHANGED lifeVars
    \/ \E w \in Workers :
          Break(w) \/ Reconnect(w) \/ Fails(w) \/ Cancelled(w) \/ Swallows(w)
    \/ \E p \in Parts : CancelPart(p) \/ PartEnds(p) \/ PartRestarts(p)

\* Bound: MaxFaults for all faults together.
LifeNext == LifeStep /\ faults' + failures' <= MaxFaults

LifeSpec == LifeInit /\ [][LifeNext]_allVars

\* Tasks that are ready are scheduled, and a request to the broker ends.
LifeFairness ==
    /\ WF_allVars(Stop) /\ WF_allVars(Exit)
    /\ WF_allVars(Cancel /\ UNCHANGED lifeVars)
    /\ WF_allVars(Close /\ UNCHANGED lifeVars)
    /\ \A w \in Workers : WF_allVars(Cancelled(w))
    /\ \A p \in Parts :
          /\ WF_allVars(CancelPart(p)) /\ WF_allVars(PartEnds(p))
          /\ WF_allVars(PartRestarts(p))

FairLifeSpec == LifeSpec /\ LifeFairness

-----------------------------------------------------------------------------
(* Properties.                                                             *)

\* Where a cancellation got lost, somebody runs who will never be cancelled
\* again: main cancels once, and a second signal only sets the same Event.
CancellationLost ==
    \/ \E w \in Workers : cancel[w] = "swallowed"
    \/ signal = "delivered" /\ pc \in Running
    \/ \E p \in Parts : partCancel[p] = "lost"

\* "once running, nothing short of cancellation may take the process down"
\* (test_main.py 3-6), and a process that has ended has ended every worker,
\* so that no socket or connection is left to the operating system.
ExitIsClean ==
    main = "exited" =>
        /\ asked
        /\ \A w \in Workers : task[w] = "over"
        /\ part["to_can"] = "over" => pc = "stopped"

\* SIGTERM ends the process, whatever its workers are doing and however they
\* fail, unless closing a connection or the health socket fails at that very
\* moment, or a worker crashes: then the process goes on.
ProcessEnds == asked ~> main \in {"exited", "refused"} \/ CancellationLost

\* A worker that has ended, by its own crash or because the other one of its
\* group crashed, runs again: no direction stays half dead until a restart of
\* the process.
AllRun == pc \in Running /\ \A w \in Workers : task[w] \in Alive
WorkersComeBack == main = "running" ~> AllRun \/ asked \/ CancellationLost

\* README 184-187: on SIGTERM or SIGINT the bridge closes the restbus on every
\* namespace it added to.  Not counted: a cleanup that failed and said so, a
\* worker that crashed, and adds whose answer never came.
ClosesEveryNamespace ==
    main = "exited" /\ ~gaveUp /\ interrupted # "crash" => cycling \subseteq lost
=============================================================================
