------------------------------ MODULE AuditLog ------------------------------
(***************************************************************************)
(* What VellumAuditStore.append_event promises its callers, with nothing    *)
(* said of hashes, retries, locks or signatures: one shared log of events   *)
(* that only grows, to which a call adds its event at most once.  A call    *)
(* that returns has added it.  A call that raises may have added it or not, *)
(* because the commit can succeed and its acknowledgement be lost.          *)
(***************************************************************************)
EXTENDS Naturals, Sequences

CONSTANTS Callers, Events

VARIABLES log,      \* the events appended so far, oldest first
          state,    \* state[c]: where caller c's current call is
          event     \* event[c]: the event caller c appends

logVars == <<log, state, event>>

Resting == {"idle", "ok", "error"}

LogInit ==
    /\ log = <<>>
    /\ state = [c \in Callers |-> "idle"]
    /\ event \in [Callers -> Events]

\* A caller that has no call in progress starts one for some event.
Submit(c, e) ==
    /\ state[c] \in Resting
    /\ state' = [state EXCEPT ![c] = "pending"]
    /\ event' = [event EXCEPT ![c] = e]
    /\ UNCHANGED log

\* The only step that changes the log, taken at most once per call.
Apply(c) ==
    /\ state[c] = "pending"
    /\ state' = [state EXCEPT ![c] = "applied"]
    /\ log' = Append(log, event[c])
    /\ UNCHANGED event

Succeed(c) ==
    /\ state[c] = "applied"
    /\ state' = [state EXCEPT ![c] = "ok"]
    /\ UNCHANGED <<log, event>>

Fail(c) ==
    /\ state[c] \in {"pending", "applied"}
    /\ state' = [state EXCEPT ![c] = "error"]
    /\ UNCHANGED <<log, event>>

LogNext ==
    \E c \in Callers :
        \/ \E e \in Events : Submit(c, e)
        \/ Apply(c)
        \/ Succeed(c)
        \/ Fail(c)

LogSpec == LogInit /\ [][LogNext]_logVars

=============================================================================
