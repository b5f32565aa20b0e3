--------------------------- MODULE PublishKernel ---------------------------
(***************************************************************************)
(* The kernel around the publish engine (crates/nmp-core/src/kernel): the   *)
(* commands the actor dispatches to it, and the three views it keeps of a   *)
(* publish beside the engine's own row:                                     *)
(*   - index, the handle <-> correlation id index a cancel resolves through; *)
(*   - queue, the bounded window of publish-queue rows the shell renders;   *)
(*   - the verdicts it reports to the host per correlation id.              *)
(* Every command calls the engine and then drains the terminals the engine  *)
(* recorded into these views (drain_engine_terminals_into_ledger), within   *)
(* the same turn of the actor: one action models both.                      *)
(***************************************************************************)
EXTENDS PublishEngine, SequencesExt

CONSTANTS
    IndexCap,       \* MAX_HANDLE_CORRELATION_ENTRIES
    QueueCap,       \* MAX_PUBLISH_WINDOW
    EarlyPublish    \* may the host publish while the actor is stopped?

ASSUME CapAssumption == IndexCap \in Nat \ {0} /\ QueueCap \in Nat \ {0}
ASSUME EarlyAssumption == EarlyPublish \in BOOLEAN
\* An event id has 64 hex digits, a minted dispatch id 32.
ASSUME IdAssumption == Handles \cap (Cids \cup {NoCid}) = {}

VARIABLES
    index,      \* HandleCorrelationIndex, oldest pair first
    queue,      \* publish_queue, oldest row first
    host,       \* what the host knows of each correlation id it dispatched
    withdrawn   \* handles the user cancelled and nobody published since

kernel_vars == <<index, queue, host, withdrawn>>
all_vars == <<vars, kernel_vars>>

engine_vars == <<in_flight, override, store, unavailable, frames, running>>

\* A command that does not reach the engine.
EngineUntouched == pending_terminals' = {} /\ UNCHANGED engine_vars

-----------------------------------------------------------------------------
(* HandleCorrelationIndex.  A pair whose cid is NoCid maps a handle to       *)
(* itself (an internal publish without a dispatch id).                       *)

\* remove, for each of the handles; the others keep their order.
Kept(ix, pair, gone) == IF pair.handle \in gone THEN ix ELSE Append(ix, pair)
Forget(ix, gone) ==
    LET kept[n \in 0..Len(ix)] ==
            IF n = 0 THEN <<>> ELSE Kept(kept[n - 1], ix[n], gone)
    IN  kept[Len(ix)]

\* record: a known handle is refreshed in place; a new one may evict the
\* oldest pair.
Record(ix, h, cid) ==
    LET pair == [handle |-> h, cid |-> cid]
        at   == SelectInSeq(ix, LAMBDA p : p.handle = h)
    IN  IF at # 0 THEN ReplaceAt(ix, at, pair)
        ELSE IF Len(ix) >= IndexCap THEN Append(Tail(ix), pair)
        ELSE Append(ix, pair)

\* Wrong: only the handle is looked up, not the dispatch id.
ResolveByHandle(id) == SelectInSeq(index, LAMBDA p : p.handle = id)

\* resolve: 0 when the id, a handle or a correlation id, is unknown.
Resolve(id) == SelectInSeq(index, LAMBDA p : p.handle = id \/ p.cid = id)

-----------------------------------------------------------------------------
(* publish_queue.  Every row carries the signed event, hence a retry payload. *)

QueueEntry(h, status, can_retry) ==
    [handle |-> h, status |-> status, can_retry |-> can_retry]

\* Wrong: the window is not trimmed.
PushUnbounded(q, entry) == Append(q, entry)

\* push_publish_entry: a bounded recent window.
Push(q, entry) ==
    LET longer == Append(q, entry)
    IN  IF Len(longer) > QueueCap THEN Tail(longer) ELSE longer

\* rposition: the most recent row of a handle, 0 when there is none.
LastRow(q, h) == SelectLastInSeq(q, LAMBDA e : e.handle = h)

\* remove_publish_entry
Dropped(q, h) == RemoveAt(q, LastRow(q, h))

\* set_publish_entry_terminal, for each terminal that carries a queue payload.
QueueStatus(v) == IF v.queue = "settled" THEN v.status ELSE "cancelled"

Refined(q, verdicts) ==
    [i \in DOMAIN q |->
        LET about == {v \in verdicts : /\ v.queue # "none"
                                       /\ v.handle = q[i].handle
                                       /\ i = LastRow(q, v.handle)}
        IN  IF about = {} THEN q[i]
            ELSE LET v == CHOOSE w \in about : TRUE
                 IN  QueueEntry(v.handle, QueueStatus(v),
                                QueueStatus(v) = "failed" \/ v.lossy)]

-----------------------------------------------------------------------------
(* action_results, as the host hears them.                                  *)

Wire(status) == IF status = "ok" THEN "published" ELSE status

Hear(known, c, statuses) ==
    IF statuses = {} THEN known[c]
    ELSE [phase |-> "answered", told |-> known[c].told \cup statuses]

Heard(known, verdicts) ==
    [c \in Cids |->
        Hear(known, c, {Wire(v.status) : v \in {w \in verdicts : w.cid = c}})]

\* record_action_failure; a publish without a dispatch id has nobody waiting.
Failed(known, cid) ==
    [c \in Cids |-> Hear(known, c, IF c = cid THEN {"failed"} ELSE {})]

Asked(cid) ==
    [c \in Cids |-> IF c = cid THEN [host[c] EXCEPT !.phase = "waiting"]
                    ELSE host[c]]

\* drain_engine_terminals_into_ledger: queue row, index, then the ledger.
Drain(q, ix, known) ==
    /\ queue' = Refined(q, pending_terminals')
    /\ index' = Forget(ix, {v.handle : v \in {w \in pending_terminals' :
                                                 w.queue = "settled"}})
    /\ host' = Heard(known, pending_terminals')

-----------------------------------------------------------------------------
(* run_publish_engine_at.  A row of the queue is pushed for the frames that  *)
(* went out at once, or for the error.                                       *)

Frames(h, row) ==
    {r \in Due(row, Relays, unavailable) : Sanctioned(h, row[r])}

\* Wrong: no frame at once is taken for a failure.
PublishOkOnlyOnline(h, cid, q, known) ==
    \E targets \in SUBSET Relays : \E pins \in Pins(h, targets) :
        /\ StartPublish(h, targets, pins, cid)
        /\ IF Frames(h, Planned(targets, pins)) = {}
           THEN Drain(q, Record(index, h, cid), Failed(known, cid))
           ELSE Drain(Push(q, QueueEntry(h, "accepted_locally", FALSE)),
                      Record(index, h, cid), known)

PublishOk(h, cid, q, known) ==
    \E targets \in SUBSET Relays : \E pins \in Pins(h, targets) :
        /\ StartPublish(h, targets, pins, cid)
        /\ Drain(IF Frames(h, Planned(targets, pins)) = {} THEN q
                 ELSE Push(q, QueueEntry(h, "accepted_locally", FALSE)),
                 Record(index, h, cid), known)

PublishError(h, cid, q, known, status) ==
    /\ queue' = Push(q, QueueEntry(h, status,
                                   status = "pending_relays_unknown"))
    /\ host' = Failed(known, cid)
    /\ UNCHANGED index

RunPublishEngine(h, cid, q, known) ==
    /\ \/ PublishOk(h, cid, q, known)
       \/ /\ StartPublishNoTargets(h, cid)
          /\ PublishError(h, cid, q, Heard(known, pending_terminals'),
                          "pending_relays_unknown")
       \/ /\ \E targets \in SUBSET Relays : \E pins \in Pins(h, targets) :
                StartPublishStoreError(h, targets, pins, cid)
          /\ PublishError(h, cid, q, known, "store_error")
       \/ /\ HasRow(in_flight[h])
          /\ EngineUntouched
          /\ PublishError(h, cid, q, known, "duplicate")
    /\ withdrawn' = withdrawn \ {h}

\* A publish command, with a fresh dispatch id or without one.
Publish(h, cid) ==
    /\ running \/ EarlyPublish
    /\ cid # NoCid => host[cid].phase = "unused"
    /\ RunPublishEngine(h, cid, queue, Asked(cid))

\* validate_publish_routing: a private envelope without a verified inbox pin
\* is refused before it reaches the engine.
PublishRefused(h, cid) ==
    /\ h \in PrivateHandles
    /\ running \/ EarlyPublish
    /\ cid # NoCid => host[cid].phase = "unused"
    /\ EngineUntouched
    /\ host' = Failed(Asked(cid), cid)
    /\ UNCHANGED <<index, queue, withdrawn>>

-----------------------------------------------------------------------------
(* retry_publish_now and cancel_publish                                      *)

RetryPublishNow(h) ==
    \/ /\ RetryNow(h)
       /\ Drain(queue, index, host)
       /\ UNCHANGED withdrawn
    \/ /\ ~HasRow(in_flight[h])
       /\ \E i \in DOMAIN queue : queue[i].handle = h /\ queue[i].can_retry
       /\ RunPublishEngine(h, NoCid, Dropped(queue, h), host)

\* The publish is over and only its queue row is left: clear the row.
ClearSettled(h) ==
    /\ ~HasRow(in_flight[h])
    /\ LastRow(queue, h) # 0
    /\ EngineUntouched
    /\ queue' = Dropped(queue, h)
    /\ index' = Forget(index, {h})
    /\ UNCHANGED <<host, withdrawn>>

\* Wrong: the verdict is reported under the handle (PD-036).
CancelLiveByHandle(h, cid) ==
    /\ HasRow(in_flight[h]) \/ LastRow(queue, h) = 0
    /\ CancelByHandle(h, NoCid)
    /\ Drain(queue, Forget(index, {h}), host)
    /\ withdrawn' = withdrawn \cup {h}

CancelLive(h, cid) ==
    /\ HasRow(in_flight[h]) \/ LastRow(queue, h) = 0
    /\ CancelByHandle(h, cid)
    /\ Drain(queue, Forget(index, {h}), host)
    /\ withdrawn' = withdrawn \cup {h}

\* The id, a handle or a correlation id, is resolved through the index.  An
\* unknown one stands for both, and a correlation id then names no row.
CancelUnknown(c) ==
    /\ EngineUntouched
    /\ host' = [host EXCEPT ![c] = Hear(host, c, {"cancelled"})]
    /\ UNCHANGED <<index, queue, withdrawn>>

CancelPublish(id) ==
    LET at  == Resolve(id)
        h   == IF at # 0 THEN index[at].handle ELSE id
        cid == IF at # 0 THEN index[at].cid ELSE NoCid
    IN  \/ h \in Handles /\ ClearSettled(h)
        \/ h \in Handles /\ CancelLive(h, cid)
        \/ h \in Cids /\ CancelUnknown(h)

-----------------------------------------------------------------------------
(* The engine's own events, each drained at once, and the process.           *)

EngineEvent ==
    /\ \/ \E h \in Handles, r \in Relays, answer \in Answers :
             OnAck(h, r, answer)
       \/ \E r \in Relays : MarkRelayAvailable(r)
       \/ \E r \in Relays : MarkRelayUnavailable(r)
       \/ Start
       \/ Stop
       \/ TimePass
    /\ Drain(queue, index, host)
    /\ UNCHANGED withdrawn

KernelTick == Tick /\ Drain(queue, index, host) /\ UNCHANGED withdrawn

\* The kernel's views live in memory, and the host goes down with it.
KernelCrash ==
    /\ Crash
    /\ index' = <<>>
    /\ queue' = <<>>
    /\ host' = [c \in Cids |-> IF host[c].phase = "unused" THEN host[c]
                               ELSE [phase |-> "gone", told |-> {}]]
    /\ UNCHANGED withdrawn

KernelInit ==
    /\ Init
    /\ index = <<>>
    /\ queue = <<>>
    /\ host = [c \in Cids |-> [phase |-> "unused", told |-> {}]]
    /\ withdrawn = {}

\* The ids the host can name: a handle from the outbox, or a correlation id it
\* was given by this process.
HeldIds == Handles \cup {c \in Cids : host[c].phase \in {"waiting", "answered"}}

KernelNext ==
    \/ \E h \in Handles, cid \in Cids \cup {NoCid} : Publish(h, cid)
    \/ \E h \in Handles, cid \in Cids \cup {NoCid} : PublishRefused(h, cid)
    \/ \E h \in Handles : RetryPublishNow(h)
    \/ \E id \in HeldIds : CancelPublish(id)
    \/ EngineEvent
    \/ KernelTick
    \/ KernelCrash

KernelSpec == KernelInit /\ [][KernelNext]_all_vars

FairKernelSpec ==
    /\ KernelSpec
    /\ WF_all_vars(KernelTick)
    /\ WF_all_vars(TimePass /\ UNCHANGED kernel_vars)

-----------------------------------------------------------------------------
(* Properties                                                               *)

\* The kernel's views keep their shape and their bounds.
KernelTypeOK ==
    /\ TypeOK
    /\ index \in Seq([handle : Handles, cid : Cids \cup {NoCid}])
    /\ Len(index) <= IndexCap
    /\ queue \in Seq([handle : Handles, can_retry : BOOLEAN,
                      status : {"accepted_locally", "ok", "failed", "cancelled",
                                "pending_relays_unknown", "duplicate",
                                "store_error"}])
    /\ Len(queue) <= QueueCap
    /\ host \in [Cids -> [phase : {"unused", "waiting", "answered", "gone"},
                          told : SUBSET {"published", "failed", "cancelled"}]]
    /\ withdrawn \subseteq Handles

\* A live row of the engine carries the id: its terminal will answer it.
Backed(c) == \E h \in Handles : HasRow(in_flight[h]) /\ override[h] = c

\* A correlation id the host is waiting on is carried by a live row of the
\* engine: no error path, settlement, cancel or Start leaves a spinner that
\* nothing will ever resolve (the broken-promise fix, and the comment on
\* resume_from_store that the host which issued a dispatch is gone).
EveryPromiseIsBacked ==
    \A c \in Cids : host[c].phase = "waiting" => Backed(c)

\* Only a Start breaks a promise, by reloading the record of its row.  Every
\* other step, failed writes, cancels and Stop included, leaves the host with
\* an answer or with a live row that carries its correlation id.
OnlyStartBreaksPromises ==
    [][\A c \in Cids :
          (/\ host'[c].phase = "waiting"
           /\ host[c].phase = "waiting" => Backed(c))
             => \/ Backed(c)'
                \/ Start /\ \E h \in LoadPending : override[h] = c]_all_vars

\* The host is never told both that a dispatch was published and that it
\* failed.
NoContradictoryVerdict ==
    \A c \in Cids : ~({"published", "failed"} \subseteq host[c].told)

\* Once the host was told a dispatch is cancelled, the engine has nothing more
\* to say about it: the cancel removed the row the id stood for.
CancelledIsFinal ==
    [][\A c \in Cids :
          "cancelled" \in host[c].told
             => host'[c].told = host[c].told \/ host'[c].phase = "gone"]_all_vars

\* A cancelled publish is not taken up again, not by a late answer, a
\* reconnect, a tick, a Start after a Stop or a relaunch after a crash.
WithdrawnStaysWithdrawn ==
    \A h \in withdrawn : ~HasRow(in_flight[h])

\* If from some point on the actor runs, the host sends no further Start and
\* every relay stays available, no dispatch that a live row carries is left
\* waiting: the row settles, and the verdict reaches the host under the id it
\* waits on (OnlyStartBreaksPromises says how an id can lose its row).
HostHearsBack ==
    (/\ <>[](running /\ \A r \in Relays : unavailable[r].mode = "up")
     /\ <>[][~Start]_all_vars)
        => \A c \in Cids : <>[](host[c].phase = "waiting" => ~Backed(c))

=============================================================================
