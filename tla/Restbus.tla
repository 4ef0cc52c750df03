------------------------------ MODULE Restbus ------------------------------
(***************************************************************************)
(* The life of run_remotive_restbus_writer (vss_to_remotive.py 256-366)    *)
(* against a broker that keeps transmitting what it was told to: connect,  *)
(* validate, add the frames, flush, lose the connection, start over, stop  *)
(* when it is cancelled, and start again.  Who cancels and restarts it is  *)
(* in Lifecycle.  What the flush loop sends is in HandOff; here it only    *)
(* succeeds or fails.                                                      *)
(*                                                                         *)
(* An action runs from one await to the next.  A cancellation is thrown    *)
(* into whichever await the worker is in, even when the answer it waits    *)
(* for has already arrived.                                                *)
(***************************************************************************)
EXTENDS Naturals

CONSTANTS
    Namespaces,  \* CAN namespaces of the to_can mappings
    MaxFaults    \* bound: failed connections, requests and broker restarts

ASSUME MaxFaultsAssumption == MaxFaults \in Nat

VARIABLES
    pc,           \* where the worker is suspended
    frames,       \* namespaces of validated.restbus_frames on this connection
    started,      \* started_namespaces
    conn,         \* the broker still knows this connection
    cycling,      \* broker: namespaces where it transmits frames the bridge added
    signal,       \* cancellation: "none", "sent" or "delivered" to the worker
    interrupted,  \* history: where the cancellation struck
    gaveUp,       \* history: the cleanup failed, and said so in the log
    added,        \* history: namespaces the broker ever added for the bridge
    lost,         \* history: what no started_namespaces holds any more, as the
                  \* answer to the add was lost or the worker started again
    faults

vars == <<pc, frames, started, conn, cycling, signal, interrupted, gaveUp, added,
          lost, faults>>

Running == {"connecting", "idle", "adding", "added", "writing", "backoff"}
PCs == Running \cup {"closing", "stopped"}

TypeOK ==
    /\ pc \in PCs
    /\ frames \subseteq Namespaces
    /\ started \subseteq Namespaces
    /\ conn \in BOOLEAN
    /\ cycling \subseteq Namespaces
    /\ signal \in {"none", "sent", "delivered"}
    /\ interrupted \in Running \cup {"never", "crash"}
    /\ gaveUp \in BOOLEAN
    /\ added \subseteq Namespaces
    /\ lost \subseteq Namespaces
    /\ faults \in Nat

Init ==
    /\ pc = "connecting"
    /\ frames = {} /\ started = {} /\ cycling = {} /\ added = {} /\ lost = {}
    /\ conn = FALSE
    /\ signal = "none" /\ interrupted = "never" /\ gaveUp = FALSE
    /\ faults = 0

\* A fault is one more of those the bound allows.
Fault == faults < MaxFaults /\ faults' = faults + 1

-----------------------------------------------------------------------------
(* Plausible bugs, used as mutants of the actions that follow them.        *)
BrokerAddsOneByOne ==
    /\ pc = "adding" /\ conn
    /\ \E last \in frames : cycling' = {last}
    /\ added' = added \cup frames
    /\ pc' = "added"
    /\ UNCHANGED <<frames, started, conn, signal, interrupted, gaveUp, lost, faults>>
AddedForgetsEarlier ==
    /\ pc = "added"
    /\ started' = frames
    /\ lost' = lost \ frames
    /\ pc' = "writing"
    /\ UNCHANGED <<frames, conn, cycling, signal, interrupted, gaveUp, added, faults>>
CancelSkipsClose ==
    /\ signal = "sent" /\ pc \in Running
    /\ signal' = "delivered" /\ interrupted' = pc
    /\ pc' = IF pc = "writing" /\ started # {} THEN "closing" ELSE "stopped"
    /\ lost' = IF pc = "added" THEN lost \cup (frames \ started) ELSE lost
    /\ conn' = FALSE
    /\ UNCHANGED <<frames, started, cycling, gaveUp, added, faults>>
-----------------------------------------------------------------------------
(* The worker and its requests.                                            *)

\* Connected and validated.  No to_can mapping left: sleep inside the try
\* with the connection open.  None with allow_add: nothing to add.
Connect ==
    /\ pc = "connecting"
    /\ \E valid \in SUBSET Namespaces :
          /\ frames' = valid
          /\ pc' \in IF valid = {} THEN {"idle", "writing"} ELSE {"adding"}
    /\ conn' = TRUE
    /\ UNCHANGED <<started, cycling, signal, interrupted, gaveUp, added, lost, faults>>

\* The broker or KUKSA is down, or the validation fails.
ConnectFails ==
    /\ pc = "connecting" /\ Fault
    /\ pc' = "backoff"
    /\ UNCHANGED <<frames, started, conn, cycling, signal, interrupted, gaveUp, added, lost>>

\* The one add(start=True) of the connection, applied by the broker.  It
\* replaces what the same client added before; whether a new connection is the
\* same client is the broker's business, so both outcomes are possible.
BrokerAdds ==
    /\ pc = "adding" /\ conn
    /\ cycling' \in {frames, cycling \cup frames}
    /\ added' = added \cup frames
    /\ pc' = "added"
    /\ UNCHANGED <<frames, started, conn, signal, interrupted, gaveUp, lost, faults>>

\* The answer arrives: started_namespaces.update.
Added ==
    /\ pc = "added"
    /\ started' = started \cup frames
    /\ lost' = lost \ frames
    /\ pc' = "writing"
    /\ UNCHANGED <<frames, conn, cycling, signal, interrupted, gaveUp, added, faults>>

\* A request fails; the answer to an add may be lost after the broker did it.
RequestFails ==
    /\ pc \in {"adding", "added", "writing"} /\ Fault
    /\ lost' = IF pc = "added" THEN lost \cup (frames \ started) ELSE lost
    /\ pc' = "backoff"
    /\ conn' = FALSE
    /\ UNCHANGED <<frames, started, cycling, signal, interrupted, gaveUp, added>>

\* A sleep of retry_delay ends.
Retry ==
    /\ pc \in {"idle", "backoff"}
    /\ pc' = "connecting"
    /\ conn' = FALSE
    /\ UNCHANGED <<frames, started, cycling, signal, interrupted, gaveUp, added, lost, faults>>

\* The broker restarts: it forgets its frames and its connections.
BrokerRestarts ==
    /\ Fault
    /\ cycling' = {} /\ conn' = FALSE
    /\ UNCHANGED <<pc, frames, started, signal, interrupted, gaveUp, added, lost>>

-----------------------------------------------------------------------------
(* Shutdown.                                                               *)

\* The operator's signal, or the crash of the other worker in its TaskGroup,
\* cancels the worker.
Signal ==
    /\ signal = "none" /\ pc \in Running
    /\ signal' = "sent"
    /\ UNCHANGED <<pc, frames, started, conn, cycling, interrupted, gaveUp, added, lost, faults>>

\* CancelledError reaches the worker.  Only inside the try does it lead to
\* the cleanup; the backoff sleep is after it.
Cancel ==
    /\ signal = "sent" /\ pc \in Running
    /\ signal' = "delivered" /\ interrupted' = pc
    /\ pc' = IF pc # "backoff" /\ started # {} THEN "closing" ELSE "stopped"
    /\ lost' = IF pc = "added" THEN lost \cup (frames \ started) ELSE lost
    /\ conn' = FALSE
    /\ UNCHANGED <<frames, started, cycling, gaveUp, added, faults>>

\* On the way out the __aexit__ of a connection fails: its exception replaces
\* the CancelledError, except Exception takes it, and the loop goes on.
CancelSwallowed ==
    /\ signal = "sent" /\ pc \in Running \ {"backoff"} /\ Fault
    /\ signal' = "delivered"
    /\ pc' = "backoff"
    /\ lost' = IF pc = "added" THEN lost \cup (frames \ started) ELSE lost
    /\ conn' = FALSE
    /\ UNCHANGED <<frames, started, cycling, interrupted, gaveUp, added>>

\* restbus.close on a connection of its own, then the cancellation goes on.
Close ==
    /\ pc = "closing"
    /\ cycling' = cycling \ started
    /\ pc' = "stopped"
    /\ UNCHANGED <<frames, started, conn, signal, interrupted, gaveUp, added, lost, faults>>

CloseFails ==
    /\ pc = "closing" /\ Fault
    /\ gaveUp' = TRUE
    /\ pc' = "stopped"
    /\ UNCHANGED <<frames, started, conn, cycling, signal, interrupted, added, lost>>

\* An exception the loop does not catch ends the worker without a cleanup.
Crash ==
    /\ pc \in Running /\ Fault
    /\ interrupted' = "crash"
    /\ pc' = "stopped"
    /\ lost' = IF pc = "added" THEN lost \cup (frames \ started) ELSE lost
    /\ conn' = FALSE
    /\ UNCHANGED <<frames, started, cycling, signal, gaveUp, added>>

\* A new call of the function: started_namespaces is empty again.
Restart ==
    /\ pc = "stopped"
    /\ pc' = "connecting"
    /\ started' = {}
    /\ lost' = lost \cup cycling
    /\ signal' = "none" /\ interrupted' = "never" /\ gaveUp' = FALSE
    /\ UNCHANGED <<frames, conn, cycling, added, faults>>

Next ==
    \/ Connect \/ ConnectFails \/ BrokerAdds \/ Added \/ RequestFails \/ Retry
    \/ BrokerRestarts \/ Signal \/ Cancel \/ CancelSwallowed \/ Close \/ CloseFails
    \/ Crash \/ Restart

Spec == Init /\ [][Next]_vars

-----------------------------------------------------------------------------
(* Properties.                                                             *)

\* What still cycles at the broker is in started_namespaces, through every
\* reconnection, broker restart and changed validation, unless the answer to
\* the add is outstanding or was lost, or the worker itself started again.
\* The list holds "exactly what it did, and nothing else" (vss_to_remotive.py
\* 266-268): no namespace the broker did not add for the bridge.
AddsAreTracked ==
    /\ cycling \subseteq started \cup lost \cup (IF pc = "added" THEN frames ELSE {})
    /\ started \subseteq added

\* The flush loop only runs over frames the broker holds, as updates to any
\* other are silently ignored (F10): one add covers every namespace.
AddedBeforeWriting == pc = "writing" /\ conn => frames \subseteq cycling

\* A cancellation that strikes anywhere but in the backoff sleep leaves
\* nothing cycling, if the cleanup reached the broker, but for lost adds.
SilentUnlessBackingOff ==
    pc = "stopped" /\ interrupted \notin {"backoff", "crash"} /\ ~gaveUp
        => cycling \subseteq lost
=============================================================================
