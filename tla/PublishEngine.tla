--------------------------- MODULE PublishEngine ---------------------------
(***************************************************************************)
(* The publish engine of nmp-core (crates/nmp-core/src/publish) with the    *)
(* durable intent store it writes through and the relays it talks to.       *)
(*                                                                         *)
(* One action is one call of the engine, which the single actor thread      *)
(* makes to completion before it takes its next message.                    *)
(*                                                                         *)
(* Data abstraction.  A publish is known by its handle (the event id), a    *)
(* relay by its canonical URL.  The code keeps wall-clock instants and only *)
(* ever compares "now" with an instant plus a delay; an entry keeps the     *)
(* time LEFT to that moment instead (its timer), and TimePass lets one unit *)
(* elapse.  A retry instant that is absent from pending_retries and one     *)
(* that has passed are treated alike by every reader in the code, so both   *)
(* are timer 0.  Timers of durable records run too: the code stores         *)
(* absolute instants, which keep ageing while the process is down.          *)
(***************************************************************************)
EXTENDS Integers

CONSTANTS
    Handles,            \* publishes, one per signed event
    Relays,             \* canonical relay URLs
    PrivateHandles,     \* handles of private envelopes (kinds 1059 and 14)
    Cids,               \* dispatch correlation ids minted for the host
    NoCid,              \* correlation_id_override = None
    MaxAttempts,        \* RetryPolicy::transient_max_retries
    InflightDeadline,   \* RetryPolicy::inflight_deadline_ms
    BackoffBase,        \* RetryPolicy::backoff_base_ms
    BackoffFactor,      \* RetryPolicy::backoff_factor
    StoreMayFail,       \* may a store write or load fail?
    MayCrash,           \* may the process die and be launched again?
    MayStop             \* may the host send Stop and, later, Start again?

\* RetryPolicy::backoff_for: the wait after the n-th attempt failed.
BackoffFor(n) == BackoffBase * BackoffFactor ^ (n - 1)

ASSUME PrivateAssumption == PrivateHandles \subseteq Handles
ASSUME CidAssumption == NoCid \notin Cids
ASSUME AttemptsAssumption == MaxAttempts \in Nat \ {0}
ASSUME DeadlineAssumption == InflightDeadline \in Nat
ASSUME BackoffAssumption == \A n \in 1..MaxAttempts : BackoffFor(n) \in Nat
ASSUME FlagAssumption ==
    StoreMayFail \in BOOLEAN /\ MayCrash \in BOOLEAN /\ MayStop \in BOOLEAN

VARIABLES
    in_flight,          \* handle -> relay -> entry: the rows in memory
    override,           \* handle -> correlation_id_override of its row
    store,              \* handle -> relay -> entry: the durable records
    unavailable,        \* relay -> [mode, timer]: unavailable_relays
    frames,             \* handle -> relay -> how far the EVENT frame got
    pending_terminals,  \* the verdicts the last call recorded
    running             \* the actor's running flag

vars == <<in_flight, override, store, unavailable, frames,
          pending_terminals, running>>

-----------------------------------------------------------------------------
(* Per-relay entries: PerRelayState with its retry instant and with whether *)
(* the relay's selection reasons include the verified private inbox pin.    *)

Stages == {"Absent", "Pending", "InFlight", "Ok", "RelayError", "TimedOut",
           "FailedAfterRetries"}
Terminal == {"Ok", "FailedAfterRetries"}

Entry(stage, attempt, timer, pinned) ==
    [stage |-> stage, attempt |-> attempt, timer |-> timer, pinned |-> pinned]

Entries == [stage : Stages, attempt : 0..MaxAttempts, timer : Nat,
            pinned : BOOLEAN]

Absent == Entry("Absent", 0, 0, FALSE)     \* the relay is no key of the row
NoRow  == [r \in Relays |-> Absent]        \* the handle has no row at all
Rows   == [Handles -> [Relays -> Entries]]

IsTerminal(e) == e.stage \in Terminal
Open(e) == e.stage \notin Terminal \cup {"Absent"}

HasRow(row) == \E r \in Relays : row[r].stage # "Absent"
IsComplete(row) == \A r \in Relays : ~Open(row[r])
HasAnyAccepted(row) == \E r \in Relays : row[r].stage = "Ok"

\* PublishStore::load_pending returns the records with an unsettled relay.
LoadPending == {h \in Handles : ~IsComplete(store[h])}

Up   == [mode |-> "up", timer |-> 0]
Auth == [mode |-> "auth", timer |-> 0]     \* unavailable_relays[r] = None
Down == [mode |-> "down", timer |-> InflightDeadline]   \* ... = Some(now)
Modes == [mode : {"up", "auth", "down"}, timer : Nat]

-----------------------------------------------------------------------------
(* Emitting: dispatch_due, the one loop every emit path goes through.       *)

Ready(e) ==
    \/ e.stage = "Pending"
    \/ e.stage \in {"RelayError", "TimedOut"} /\ e.timer = 0

\* Wrong: the gate passes any relay the resolver selected.
SanctionedIfSelected(h, e) == TRUE

\* relay_emit_is_sanctioned: the fail-closed gate for private envelopes.
Sanctioned(h, e) == h \in PrivateHandles => e.pinned

\* The relays that this pass touches: filtered, available and due.
Due(row, filter, modes) ==
    {r \in filter : modes[r].mode = "up" /\ Ready(row[r])}

Dispatched(h, e) ==
    IF Sanctioned(h, e)
    THEN Entry("InFlight", e.attempt + 1, InflightDeadline, e.pinned)
    ELSE Entry("FailedAfterRetries", 0, 0, e.pinned)

DispatchDue(h, row, filter, modes) ==
    [r \in Relays |-> IF r \in Due(row, filter, modes)
                      THEN Dispatched(h, row[r])
                      ELSE row[r]]

\* The frames that pass leaves with the transport.
Emit(rows, picked, filter, modes) ==
    [h \in Handles |-> [r \in Relays |->
        IF /\ h \in picked
           /\ r \in Due(rows[h], filter, modes)
           /\ Sanctioned(h, rows[h][r])
        THEN "open"
        ELSE frames[h][r]]]

DispatchAll(rows, picked, filter, modes) ==
    [h \in Handles |-> IF h \in picked
                       THEN DispatchDue(h, rows[h], filter, modes)
                       ELSE rows[h]]

\* A socket is gone: what was sent on it can no longer be answered, though a
\* relay that stored the event may still serve it back on a later connection.
Hangup(gone) ==
    [h \in Handles |-> [r \in Relays |->
        IF r \in gone /\ frames[h][r] = "open" THEN "past" ELSE frames[h][r]]]

-----------------------------------------------------------------------------
(* Durable writes: upsert and delete are atomic, and either happen or fail. *)

\* Whether one write succeeds, and which of several writes do.
Outcomes == IF StoreMayFail THEN BOOLEAN ELSE {TRUE}
Commits == IF StoreMayFail THEN SUBSET Handles ELSE {Handles}

\* Wrong: the write-through is dropped.
UpsertNothing(h, row, ok) == store
DeleteNothing(h, ok) == store

Upsert(h, row, ok) == IF ok THEN [store EXCEPT ![h] = row] ELSE store
Delete(h, ok)      == IF ok THEN [store EXCEPT ![h] = NoRow] ELSE store

\* LastTerminal: the verdict of one publish, for the host (cid, status) and
\* for the publish queue (queue, and whether some relay did not take it).
LastTerminal(h, cid, status, queue, lossy) ==
    [handle |-> h, cid |-> cid, status |-> status, queue |-> queue,
     lossy |-> lossy]

\* Wrong: one refusal makes the publish a failure.
FromOutcomeAllOrNothing(h, cid, row) ==
    LET lossy == \E r \in Relays : row[r].stage = "FailedAfterRetries"
    IN  LastTerminal(h, cid, IF lossy THEN "failed" ELSE "ok", "settled", lossy)

\* LastTerminal::from_outcome: one acceptance makes the publish a success.
FromOutcome(h, cid, row) ==
    LastTerminal(h, cid, IF HasAnyAccepted(row) THEN "ok" ELSE "failed",
                 "settled",
                 \E r \in Relays : row[r].stage = "FailedAfterRetries")

Verdicts == [handle : Handles, cid : Cids \cup {NoCid},
             status : {"ok", "failed", "cancelled"},
             queue : {"settled", "cancelled", "none"}, lossy : BOOLEAN]

Completed(rows, picked) ==
    {h \in picked : HasRow(rows[h]) /\ IsComplete(rows[h])}

\* finalize_completed_rows: every picked row that is complete leaves with its
\* verdict, and its record is deleted (the error of a delete is ignored).
Finalize(rows, picked, cids, disk) ==
    LET done == Completed(rows, picked)
    IN  /\ in_flight' = [h \in Handles |->
                            IF h \in done THEN NoRow ELSE rows[h]]
        /\ override' = [h \in Handles |->
                            IF h \in done THEN NoCid ELSE cids[h]]
        /\ pending_terminals' = {FromOutcome(h, cids[h], rows[h]) : h \in done}
        /\ \E ok \in Commits :
              store' = [h \in Handles |->
                           IF h \in done \cap ok THEN NoRow ELSE disk[h]]

-----------------------------------------------------------------------------
(* start_publish.  The resolver (external: nmp-router) names the targets;   *)
(* for a private envelope it also says which of them are pinned inboxes.    *)

Planned(targets, pins) ==
    [r \in Relays |-> IF r \in targets
                      THEN Entry("Pending", 0, 0, r \in pins)
                      ELSE Absent]

Pins(h, targets) == IF h \in PrivateHandles THEN SUBSET targets ELSE {{}}

StartPublish(h, targets, pins, cid) ==
    /\ ~HasRow(in_flight[h])
    /\ targets # {}
    /\ LET row  == Planned(targets, pins)
           rows == [in_flight EXCEPT ![h] = row]
           cids == [override EXCEPT ![h] = cid]
       IN  /\ Finalize(DispatchAll(rows, {h}, Relays, unavailable), {h}, cids,
                       [store EXCEPT ![h] = row])
           /\ frames' = Emit(rows, {h}, Relays, unavailable)
    /\ UNCHANGED <<unavailable, running>>

\* persist failed: Err(Store), yet the row stays and the next tick sends it.
StartPublishStoreError(h, targets, pins, cid) ==
    /\ StoreMayFail
    /\ ~HasRow(in_flight[h])
    /\ targets # {}
    /\ in_flight' = [in_flight EXCEPT ![h] = Planned(targets, pins)]
    /\ override' = [override EXCEPT ![h] = cid]
    /\ pending_terminals' = {}
    /\ UNCHANGED <<store, unavailable, frames, running>>

\* The resolver found no relay: emit_no_targets, Err(NoTargets).
StartPublishNoTargets(h, cid) ==
    /\ ~HasRow(in_flight[h])
    /\ pending_terminals' = {LastTerminal(h, cid, "failed", "none", FALSE)}
    /\ UNCHANGED <<in_flight, override, store, unavailable, frames, running>>

-----------------------------------------------------------------------------
(* tick                                                                     *)

\* Wrong: one attempt too many, and a silent relay that never times out.
SweepOneAttemptLate(row) ==
    [r \in Relays |->
        IF row[r].stage = "InFlight" /\ row[r].timer = 0
        THEN IF row[r].attempt > MaxAttempts
             THEN Entry("FailedAfterRetries", 0, 0, row[r].pinned)
             ELSE Entry("TimedOut", row[r].attempt, 0, row[r].pinned)
        ELSE row[r]]
SweepNoInflight(row) == row

SweepInflightTimeouts(row) ==
    [r \in Relays |->
        IF row[r].stage = "InFlight" /\ row[r].timer = 0
        THEN IF row[r].attempt >= MaxAttempts
             THEN Entry("FailedAfterRetries", 0, 0, row[r].pinned)
             ELSE Entry("TimedOut", row[r].attempt, 0, row[r].pinned)
        ELSE row[r]]

\* Wrong: the state of the code before #3020 and before #2967.
SweepUndelivered(row) ==
    [r \in Relays |->
        IF Open(row[r]) /\ unavailable[r].mode = "down"
                        /\ unavailable[r].timer = 0
        THEN Entry("FailedAfterRetries", 0, 0, row[r].pinned)
        ELSE row[r]]
SweepNoUnavailable(row) == row

SweepUnavailableTimeouts(row) ==
    [r \in Relays |->
        IF /\ HasAnyAccepted(row)
           /\ Open(row[r])
           /\ unavailable[r].mode = "down"
           /\ unavailable[r].timer = 0
        THEN Entry("FailedAfterRetries", 0, 0, row[r].pinned)
        ELSE row[r]]

Swept == [h \in Handles |->
             SweepUnavailableTimeouts(SweepInflightTimeouts(in_flight[h]))]

Ticked == DispatchAll(Swept, Handles, Relays, unavailable)

\* Wrong: a tick that settles the last relay forgets to evict the row.
TickWithoutFinalize ==
    /\ running
    /\ in_flight' = Ticked
    /\ pending_terminals' = {}
    /\ frames' = Emit(Swept, Handles, Relays, unavailable)
    /\ UNCHANGED <<override, store, unavailable, running>>

Tick ==
    /\ running
    /\ Finalize(Ticked, Handles, override, store)
    /\ frames' = Emit(Swept, Handles, Relays, unavailable)
    /\ UNCHANGED <<unavailable, running>>

\* Wrong: wakes for a dead relay although the sweep will not act (#3020).
DeadlinesUngated(row) ==
    {unavailable[r].timer : r \in {q \in Relays :
        unavailable[q].mode = "down" /\ Open(row[q])}}
    \cup
    {row[r].timer : r \in {q \in Relays :
        unavailable[q].mode = "up" /\ Open(row[q])}}

\* next_deadline_ms: the waits after which a tick has work for this row.
Deadlines(row) ==
    {unavailable[r].timer : r \in {q \in Relays :
        /\ unavailable[q].mode = "down"
        /\ Open(row[q])
        /\ HasAnyAccepted(row)}}
    \cup
    {row[r].timer : r \in {q \in Relays :
        unavailable[q].mode = "up" /\ Open(row[q])}}

-----------------------------------------------------------------------------
(* Relay availability                                                       *)

\* demote_inflight_to_pending: a send that can no longer be answered is
\* walked back, and the rows it changed are persisted one by one, in handle
\* order, until a write fails: with that order left open, any subset of them.
Demoted(rows, relay) ==
    [h \in Handles |-> [r \in Relays |->
        IF r = relay /\ rows[h][r].stage = "InFlight"
        THEN Entry("Pending", 0, 0, rows[h][r].pinned)
        ELSE rows[h][r]]]

Demote(relay) ==
    /\ in_flight' = Demoted(in_flight, relay)
    /\ \E ok \in Commits :
          store' = [h \in Handles |->
              IF h \in ok /\ in_flight[h][relay].stage = "InFlight"
              THEN Demoted(in_flight, relay)[h]
              ELSE store[h]]

\* Failed, Closed or idle eviction of the relay's socket.  There is no socket
\* while the actor is stopped.
MarkRelayUnavailable(relay) ==
    /\ running
    /\ unavailable' = [unavailable EXCEPT ![relay] =
                          IF @.mode = "down" THEN @ ELSE Down]
    /\ Demote(relay)
    /\ frames' = Hangup({relay})
    /\ pending_terminals' = {}
    /\ UNCHANGED <<override, running>>

\* Wrong: a relay the row already knows is targeted afresh.
RetargetedAll(row, targets, pins) ==
    [r \in Relays |-> IF r \in targets
                      THEN Entry("Pending", 0, 0, r \in pins)
                      ELSE row[r]]

\* retarget_row: relays the resolver selects now and the row never knew.
Retargeted(row, targets, pins) ==
    [r \in Relays |-> IF r \in targets /\ row[r].stage = "Absent"
                      THEN Entry("Pending", 0, 0, r \in pins)
                      ELSE row[r]]

\* Wrong: the relays a row gained are only in memory.
PersistRetargetedNever(rows, ok) == store

\* A row that gained relays is persisted; the error of that write is ignored.
PersistRetargeted(rows, ok) ==
    [h \in Handles |-> IF h \in ok /\ rows[h] # in_flight[h]
                       THEN rows[h] ELSE store[h]]

\* Opened, or the AUTH handshake completed.
MarkRelayAvailable(relay) ==
    /\ running
    /\ unavailable' = [unavailable EXCEPT ![relay] = Up]
    /\ \E found \in [Handles -> SUBSET Relays] :
       \E pins \in [Handles -> SUBSET Relays] :
       \E ok \in Commits :
          /\ \A h \in Handles : /\ IsComplete(in_flight[h]) => found[h] = {}
                                /\ pins[h] \in Pins(h, found[h])
          /\ LET rows == [h \in Handles |->
                             Retargeted(in_flight[h], found[h], pins[h])]
             IN  /\ Finalize(DispatchAll(rows, Handles, {relay}, unavailable'),
                             Handles, override, PersistRetargeted(rows, ok))
                 /\ frames' = Emit(rows, Handles, {relay}, unavailable')
    /\ UNCHANGED running

-----------------------------------------------------------------------------
(* on_ack.  A frame on an open connection may be answered at any time, more *)
(* than once, or never; an acceptance may also be an echo of the event.     *)

Answers == {"ok", "auth-required", "permanent", "transient"}

CanAnswer(h, r, answer) ==
    IF answer = "ok" THEN frames[h][r] # "none" ELSE frames[h][r] = "open"

\* apply_ack: only an InFlight entry consumes an answer.
ApplyAck(e, answer) ==
    IF e.stage # "InFlight" THEN e
    ELSE IF answer = "ok" THEN Entry("Ok", 0, 0, e.pinned)
    ELSE IF answer = "permanent" \/ e.attempt >= MaxAttempts
         THEN Entry("FailedAfterRetries", 0, 0, e.pinned)
         ELSE Entry("RelayError", e.attempt, BackoffFor(e.attempt), e.pinned)

\* An auth-required refusal parks the relay for every publish, unbounded.
ParkAwaitingAuth(h, r) ==
    /\ in_flight[h][r].stage = "InFlight"
    /\ unavailable' = [unavailable EXCEPT ![r] =
                          IF @.mode = "up" THEN Auth ELSE @]
    /\ Demote(r)
    /\ pending_terminals' = {}
    /\ UNCHANGED override

FoldAnswer(h, r, answer) ==
    /\ answer = "auth-required" => in_flight[h][r].stage # "InFlight"
    /\ LET row  == [in_flight[h] EXCEPT ![r] = ApplyAck(@, answer)]
           rows == [in_flight EXCEPT ![h] = row]
       IN  IF IsComplete(row)
           THEN Finalize(rows, {h}, override, store)
           ELSE /\ in_flight' = rows
                /\ \E ok \in Outcomes : store' = Upsert(h, row, ok)
                /\ pending_terminals' = {}
                /\ UNCHANGED override
    /\ UNCHANGED unavailable

OnAck(h, r, answer) ==
    /\ running
    /\ CanAnswer(h, r, answer)
    /\ in_flight[h][r].stage # "Absent"
    /\ \/ answer = "auth-required" /\ ParkAwaitingAuth(h, r)
       \/ FoldAnswer(h, r, answer)
    /\ UNCHANGED <<frames, running>>

-----------------------------------------------------------------------------
(* The user's two verbs                                                     *)

\* retry_now: clear every backoff, persist, dispatch what is available.
Unhurried(row) ==
    [r \in Relays |-> IF row[r].stage = "RelayError"
                      THEN [row[r] EXCEPT !.timer = 0] ELSE row[r]]

RetryNow(h) ==
    /\ HasRow(in_flight[h])
    /\ LET row  == Unhurried(in_flight[h])
           rows == [in_flight EXCEPT ![h] = row]
       IN  \/ /\ Finalize(DispatchAll(rows, {h}, Relays, unavailable), {h},
                          override, [store EXCEPT ![h] = row])
              /\ frames' = Emit(rows, {h}, Relays, unavailable)
           \/ /\ StoreMayFail         \* persist failed: Err, nothing is sent
              /\ in_flight' = rows
              /\ pending_terminals' = {}
              /\ UNCHANGED <<override, store, frames>>
    /\ UNCHANGED <<unavailable, running>>

\* cancel_by_handle: drop the row, report, and delete the record best-effort.
CancelByHandle(h, cid) ==
    /\ in_flight' = [in_flight EXCEPT ![h] = NoRow]
    /\ override' = [override EXCEPT ![h] = NoCid]
    /\ pending_terminals' = {LastTerminal(h, cid, "cancelled", "cancelled", FALSE)}
    /\ \E ok \in Outcomes : store' = Delete(h, ok)
    /\ UNCHANGED <<unavailable, frames, running>>

-----------------------------------------------------------------------------
(* The process: every Start resumes from the store, also one the host sends *)
(* while the actor runs; Stop closes the sockets; a crash loses whatever is  *)
(* only in memory.                                                           *)

ResumeFromStore ==
    LET pend == LoadPending
        rows == [h \in Handles |-> IF h \in pend THEN store[h]
                                                 ELSE in_flight[h]]
        cids == [h \in Handles |-> IF h \in pend THEN NoCid ELSE override[h]]
    IN  /\ Finalize(DispatchAll(rows, pend, Relays, unavailable), pend, cids,
                    store)
        /\ frames' = Emit(rows, pend, Relays, unavailable)

Start ==
    /\ running' = TRUE
    /\ \/ ResumeFromStore
       \/ /\ StoreMayFail        \* load_pending failed: nothing is resumed
          /\ pending_terminals' = {}
          /\ UNCHANGED <<in_flight, override, store, frames>>
    /\ UNCHANGED unavailable

Stop ==
    /\ MayStop
    /\ running
    /\ running' = FALSE
    /\ frames' = Hangup(Relays)
    /\ pending_terminals' = {}
    /\ UNCHANGED <<in_flight, override, store, unavailable>>

Crash ==
    /\ MayCrash
    /\ running' = FALSE
    /\ in_flight' = [h \in Handles |-> NoRow]
    /\ override' = [h \in Handles |-> NoCid]
    /\ unavailable' = [r \in Relays |-> Up]
    /\ frames' = Hangup(Relays)
    /\ pending_terminals' = {}
    /\ UNCHANGED store

-----------------------------------------------------------------------------
(* Time                                                                     *)

Elapsed(t) == IF t = 0 THEN 0 ELSE t - 1

Aged(rows) ==
    [h \in Handles |-> [r \in Relays |->
        [rows[h][r] EXCEPT !.timer = Elapsed(@)]]]

TimePass ==
    /\ in_flight' = Aged(in_flight)
    /\ store' = Aged(store)
    /\ unavailable' = [r \in Relays |->
                          [unavailable[r] EXCEPT !.timer = Elapsed(@)]]
    /\ pending_terminals' = {}
    /\ UNCHANGED <<override, frames, running>>

-----------------------------------------------------------------------------
Init ==
    /\ in_flight = [h \in Handles |-> NoRow]
    /\ override = [h \in Handles |-> NoCid]
    /\ store = [h \in Handles |-> NoRow]
    /\ unavailable = [r \in Relays |-> Up]
    /\ frames = [h \in Handles |-> [r \in Relays |-> "none"]]
    /\ pending_terminals = {}
    /\ running = FALSE

Next ==
    \/ \E h \in Handles, cid \in Cids \cup {NoCid}, targets \in SUBSET Relays :
          \E pins \in Pins(h, targets) :
             \/ StartPublish(h, targets, pins, cid)
             \/ StartPublishStoreError(h, targets, pins, cid)
    \/ \E h \in Handles, cid \in Cids \cup {NoCid} :
          StartPublishNoTargets(h, cid)
    \/ \E h \in Handles, r \in Relays, answer \in Answers : OnAck(h, r, answer)
    \/ \E h \in Handles : RetryNow(h)
    \/ \E h \in Handles : CancelByHandle(h, override[h])
    \/ \E r \in Relays : MarkRelayAvailable(r)
    \/ \E r \in Relays : MarkRelayUnavailable(r)
    \/ Tick
    \/ Start
    \/ Stop
    \/ Crash
    \/ TimePass

Spec == Init /\ [][Next]_vars

\* The actor ticks the engine on every pass of its idle loop while it runs,
\* and the clock does not stop.
FairSpec == Spec /\ WF_vars(Tick) /\ WF_vars(TimePass)

-----------------------------------------------------------------------------
(* Properties                                                               *)

\* Every variable keeps its shape; in particular no entry ever counts more
\* than MaxAttempts attempts (RetryPolicy::transient_max_retries).
TypeOK ==
    /\ in_flight \in Rows
    /\ override \in [Handles -> Cids \cup {NoCid}]
    /\ store \in Rows
    /\ unavailable \in [Relays -> Modes]
    /\ frames \in [Handles -> [Relays -> {"none", "open", "past"}]]
    /\ pending_terminals \subseteq Verdicts
    /\ running \in BOOLEAN

\* Whatever path settles a row's last relay (answer, timeout, refusal on
\* start, retry, reconnect or resume), no completed row is left behind
\* between two calls: finalize_completed_rows and on_ack remove it at once.
NoCompletedRowLingers ==
    \A h \in Handles : HasRow(in_flight[h]) => ~IsComplete(in_flight[h])

\* Crash safety of the write-through.  As long as store writes succeed, a
\* publish that is in memory has a durable record that load_pending will
\* return, with the same target relays: whenever the process dies, no intent
\* the engine took on is lost, retargeted relays included.
IntentIsDurable ==
    \A h \in Handles : HasRow(in_flight[h]) =>
          /\ h \in LoadPending
          /\ \A r \in Relays : (store[h][r].stage = "Absent")
                                  <=> (in_flight[h][r].stage = "Absent")

\* An acceptance is durable before anything else happens, and a record never
\* claims a settled relay that memory does not: a restart neither forgets
\* that a relay has the event nor gives up on one that is still owed.
SettlementAgrees ==
    \A h \in Handles, r \in Relays : HasRow(in_flight[h]) =>
          /\ in_flight[h][r].stage = "Ok" <=> store[h][r].stage = "Ok"
          /\ IsTerminal(store[h][r])
                => store[h][r].stage = in_flight[h][r].stage

\* As long as store writes succeed, a running engine has no record of a
\* publish that was settled or cancelled: nothing is sent again after the
\* next restart that the host was told is over.
NoGhostRecord ==
    \A h \in Handles :
          running /\ store[h] # NoRow => HasRow(in_flight[h])

\* What may separate a row from its record: the same relays, nothing settled
\* in the record that memory sees differently, no acceptance only in memory.
Agrees(record, row) ==
    \A r \in Relays :
        /\ record[r].stage = "Absent" <=> row[r].stage = "Absent"
        /\ IsTerminal(record[r]) => row[r].stage = record[r].stage
        /\ row[r].stage = "Ok" => record[r].stage = "Ok"

\* The inductive invariant behind the three properties above: every row agrees
\* with its record, a record is never of a completed publish, and while the
\* actor runs every record has its row.
WriteThrough ==
    \A h \in Handles :
        /\ HasRow(in_flight[h]) => Agrees(store[h], in_flight[h])
        /\ store[h] # NoRow => h \in LoadPending
        /\ running /\ store[h] # NoRow => HasRow(in_flight[h])

\* An entry that counts as sent although its relay cannot answer: no answer
\* comes, and next_deadline_ms does not look at it.
Stranded(h, r) ==
    in_flight[h][r].stage = "InFlight" /\ unavailable[r].mode # "up"

\* next_deadline_ms is honest in both directions: when a row reports that its
\* deadline has been reached, a tick changes it (the scheduler never wakes for
\* nothing), and when a tick would change a row, the row reports it (the
\* scheduler never sleeps through work), unless the row has a stranded entry.
DeadlineIsHonest ==
    \A h \in Handles : HasRow(in_flight[h]) =>
        /\ 0 \in Deadlines(in_flight[h]) => Ticked[h] # in_flight[h]
        /\ Ticked[h] # in_flight[h] => \/ 0 \in Deadlines(in_flight[h])
                                       \/ \E r \in Relays : Stranded(h, r)

\* A private envelope has only ever been sent to relays pinned as a verified
\* private inbox, on the first send, on a retry and after a restart (D10).
PrivateStaysPinned ==
    \A h \in PrivateHandles, r \in Relays :
        in_flight[h][r].stage \in {"InFlight", "Ok", "RelayError", "TimedOut"}
            => in_flight[h][r].pinned

\* As long as store writes succeed, a relay that accepted the event is never
\* sent it again by the same publish, not even by the Start after a Stop.
AcceptedNeverResent ==
    [][\A h \in Handles, r \in Relays :
          in_flight[h][r].stage = "Ok" /\ HasRow(in_flight'[h])
             => in_flight'[h][r].stage = "Ok"]_vars

\* Offline first.  Only a Start strands an entry, by reloading a record that
\* says in flight; a relay that drops or asks for AUTH has its sends walked
\* back.  And a publish that no relay has accepted is not reported as failed
\* while one of its relays is owed, not stranded, and cannot be reached.
UnreachableIsNotFailure ==
    [][\A h \in Handles, r \in Relays :
          /\ Stranded(h, r)' => \/ Stranded(h, r)
                                \/ Start /\ store[h][r].stage = "InFlight"
          /\ (/\ ~HasAnyAccepted(in_flight[h])
              /\ Open(in_flight[h][r])
              /\ ~Stranded(h, r)
              /\ unavailable[r].mode # "up"
              /\ unavailable'[r].mode # "up")
             => \A v \in pending_terminals' :
                   v.handle = h => v.status # "failed"]_vars

\* A publish the engine took on and has not settled, in memory or on disk.
Owed(h) == HasRow(in_flight[h]) \/ h \in LoadPending

\* If from some point on the actor runs, the host sends no further Start and
\* every relay stays available, every publish settles, whatever crashes, stops
\* and starts came before: answers, timeouts and the attempt budget leave no
\* row open, and no record unresumed, forever.
SettlesWhenAvailable ==
    (/\ <>[](running /\ \A r \in Relays : unavailable[r].mode = "up")
     /\ <>[][~Start]_vars)
        => \A h \in Handles : Owed(h) ~> ~Owed(h)

\* If from some point on the actor runs, the host sends no further Start and
\* every relay is either always available or always down, a publish that some
\* relay accepted settles: a dead relay does not keep a delivered publish open.
DeadRelayDoesNotBlock ==
    (/\ <>[]running
     /\ <>[][~Start]_vars
     /\ \A r \in Relays : \/ <>[](unavailable[r].mode = "up")
                          \/ <>[](unavailable[r].mode = "down"))
        => \A h \in Handles :
              HasAnyAccepted(in_flight[h]) ~> ~HasRow(in_flight[h])

-----------------------------------------------------------------------------
(* The promise to the host: the records on disk are a durable outbox.       *)

Outbox == INSTANCE DurableOutbox WITH
    open    <- running,
    targets <- [h \in Handles |-> {r \in Relays : store[h][r].stage # "Absent"}],
    taken   <- [h \in Handles |-> {r \in Relays : store[h][r].stage = "Ok"}],
    reached <- [h \in Handles |-> {r \in Relays : frames[h][r] # "none"}],
    said    <- [h \in Handles |->
                   {v.status : v \in {w \in pending_terminals : w.handle = h}}]

\* As long as store writes succeed, the engine implements the durable outbox,
\* and crashes, restarts, timeouts, demotions and retries are invisible in it:
\* no record leaves without its verdict, no verdict contradicts the record, no
\* record forgets a relay or an acceptance, and nothing is sent to a relay
\* that the record does not name yet.
ImplementsOutbox == Outbox!Spec

=============================================================================
