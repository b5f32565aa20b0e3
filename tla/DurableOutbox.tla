--------------------------- MODULE DurableOutbox ---------------------------
(***************************************************************************)
(* What the publish engine promises its host, without rows in memory,       *)
(* timers, attempts, sockets or restarts: an outbox of durable records.     *)
(* One step is one call of the engine and may move every record.            *)
(***************************************************************************)
CONSTANTS
    Handles,    \* publishes
    Relays      \* relays a publish may be addressed to

VARIABLES
    open,       \* is the outbox being worked on, or only lying on disk?
    targets,    \* handle -> the relays its record names; none: no record
    taken,      \* handle -> those of them that are known to have the event
    reached,    \* handle -> the relays the event was ever sent to
    said        \* handle -> the verdicts the last call reported on it

outbox_vars == <<open, targets, taken, reached, said>>

Init ==
    /\ open = FALSE
    /\ targets = [h \in Handles |-> {}]
    /\ taken = [h \in Handles |-> {}]
    /\ reached = [h \in Handles |-> {}]
    /\ said = [h \in Handles |-> {}]

\* A publish is only taken on afresh where there is no record, or before the
\* outbox was opened, when the new publish takes the place of the record.
Vacant(h) == targets[h] = {} \/ ~open

Accept(h) ==
    /\ Vacant(h)
    /\ targets'[h] # {} /\ taken'[h] = {} /\ said'[h] = {}

Refuse(h) ==
    /\ Vacant(h)
    /\ targets'[h] \in {{}, targets[h]}
    /\ taken'[h] \in {{}, taken[h]}
    /\ said'[h] = {"failed"}

\* A record stays, and forgets neither a relay nor an acceptance; what it
\* learns is true: a relay that has the event was sent it.
Carry(h) ==
    /\ targets[h] \subseteq targets'[h]
    /\ targets[h] = {} => targets'[h] = {}
    /\ taken[h] \subseteq taken'[h]
    /\ taken'[h] \subseteq taken[h] \cup (targets[h] \cap reached[h])
    /\ said'[h] = {}

\* A record leaves with one verdict, which is true of it.
Settle(h) ==
    /\ targets[h] # {}
    /\ targets'[h] = {} /\ taken'[h] = {}
    /\ \/ said'[h] = {"failed"} /\ taken[h] = {}
       \/ said'[h] = {"ok"} /\ taken[h] \cup (targets[h] \cap reached[h]) # {}

Withdraw(h) ==
    targets'[h] = {} /\ taken'[h] = {} /\ said'[h] = {"cancelled"}

\* Write-ahead: the event is sent only to relays its durable record names.
Send(h) ==
    /\ reached[h] \subseteq reached'[h]
    /\ reached'[h] \subseteq reached[h] \cup targets'[h]

Next ==
    \A h \in Handles :
        /\ Accept(h) \/ Refuse(h) \/ Carry(h) \/ Settle(h) \/ Withdraw(h)
        /\ Send(h)

Spec == Init /\ [][Next]_outbox_vars

=============================================================================
