---------------------------- MODULE ConsumerGroup ----------------------------
(***************************************************************************)
(* How a request stream reaches the workers: a Redis consumer group read   *)
(* with XREADGROUP CLAIM (worker/src/messaging/claim.py, the subscribers   *)
(* of worker/src/main.py and worker/src/report/main.py).  A request is     *)
(* delivered once as new; while it is unacknowledged it stays in the       *)
(* pending list, and after claim_min_idle_ms another read takes it over.   *)
(*                                                                         *)
(* Two facts of that scheme make the workers hard to get right and are     *)
(* kept here.  A claim is only evidence that the previous consumer died:   *)
(* with SlowHandlers a request is claimed while its handler still runs.    *)
(* And an acknowledgement names the request, not the delivery, so a slow   *)
(* handler's XACK takes the request away from whoever claimed it.          *)
(*                                                                         *)
(* A delivery count is only ever compared with 1 and with GiveUpAt, so it  *)
(* saturates there.                                                        *)
(***************************************************************************)
EXTENDS Naturals

CONSTANTS
    Messages,        \* requests on the streams; two of them may be duplicates
    Consumers,       \* handlers that can run at the same time
    GiveUpAt,        \* settings.delivery_count_threshold
    SlowHandlers,    \* may a handler outlast claim_min_idle_ms?
    NoMessage

ASSUME GroupAssumption ==
    /\ GiveUpAt \in Nat /\ GiveUpAt > 1
    /\ SlowHandlers \in BOOLEAN
    /\ NoMessage \notin Messages

VARIABLES
    pel,          \* where a request is: "new", "pending" or "acked"
    deliveries,   \* how often it has been delivered, up to GiveUpAt
    handling      \* the request a consumer is working on, or NoMessage

groupVars == <<pel, deliveries, handling>>

GroupTypeOK ==
    /\ pel \in [Messages -> {"new", "pending", "acked"}]
    /\ deliveries \in [Messages -> 0 .. GiveUpAt]
    /\ handling \in [Consumers -> Messages \cup {NoMessage}]

GroupInit ==
    /\ pel = [m \in Messages |-> "new"]
    /\ deliveries = [m \in Messages |-> 0]
    /\ handling = [c \in Consumers |-> NoMessage]

Idle(c) == handling[c] = NoMessage

\* The idle time of a pending request has passed: nobody works on it any more,
\* or somebody does and is slow.
Claimable(m) ==
    /\ pel[m] = "pending"
    /\ SlowHandlers \/ \A c \in Consumers : handling[c] # m

Counted(n) == IF n < GiveUpAt THEN n + 1 ELSE n

\* What entry_of reports: this delivery included.
DeliveryCount(m) == Counted(deliveries[m])

Deliver(c, m) ==
    /\ Idle(c)
    /\ pel[m] = "new" \/ Claimable(m)
    /\ pel' = [pel EXCEPT ![m] = "pending"]
    /\ deliveries' = [deliveries EXCEPT ![m] = DeliveryCount(m)]
    /\ handling' = [handling EXCEPT ![c] = m]

\* XACK: the pipeline returned normally.
Acknowledge(c) ==
    /\ pel' = [pel EXCEPT ![handling[c]] = "acked"]
    /\ handling' = [handling EXCEPT ![c] = NoMessage]
    /\ UNCHANGED deliveries

\* An exception, or the death of the process: the request stays pending.
Abandon(c) ==
    /\ handling' = [handling EXCEPT ![c] = NoMessage]
    /\ UNCHANGED <<pel, deliveries>>

=============================================================================
