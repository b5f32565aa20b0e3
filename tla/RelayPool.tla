------------------------------ MODULE RelayPool ------------------------------
(***************************************************************************)
(* One relay URL seen through the four threads that carry it: the actor    *)
(* (its relay controls and the subscriptions the planner has routed to     *)
(* this URL), the pool's slot under the PoolInner mutex, the translator    *)
(* that turns worker events into pool events, and the worker threads, one  *)
(* per slot generation, that own the socket.                               *)
(*                                                                         *)
(* Everything the pool and the actor keep is keyed by URL, so one URL and  *)
(* several generations of it show every interleaving of the code.  The     *)
(* relay is the far end of the socket: it starts every connection with no  *)
(* subscription.  A write the socket buffers and then loses is the same as *)
(* one delivered on a connection that dies, so the socket has no buffer.   *)
(***************************************************************************)
EXTENDS Naturals, FiniteSets, Sequences, SequencesExt

CONSTANTS
    Subs,       \* the tailing subscriptions the planner may route here
    MaxGen,     \* bound on slot generations
    MaxEvents,  \* bound on host commands and socket faults together
    MayDeny,    \* the relay may answer 401/403 (a permanent failure)
    MayFlood    \* other traffic may fill the actor's inbox and its backlog

ASSUME PoolAssumption ==
    /\ IsFiniteSet(Subs)
    /\ MaxGen \in Nat \ {0} /\ MaxEvents \in Nat
    /\ MayDeny \in BOOLEAN /\ MayFlood \in BOOLEAN

VARIABLES
    slot,         \* SlotState: generation, command_tx present, health
    worker,       \* the worker thread of each generation
    relayEvents,  \* worker -> translator channel
    poolEvents,   \* translator -> actor: relay_backlog, then the inbox
    staged,       \* how many of poolEvents are in relay_backlog
    garbled,      \* history: generations whose newest event was shed, or was
                  \* served to the actor ahead of an older one
    control,      \* generation of RelayControl.handle, 0 when there is none
    connected,    \* url \in RelayRuntime.connected_urls
    running,      \* the actor is between Start and Stop
    configured,   \* url \in Kernel.configured_relays
    queued,       \* queued_actor_outbound
    plan,         \* sub shapes of current_plan on this URL
    rows,         \* Kernel.wire.subs on this URL
    spent,        \* how much of MaxEvents is used
    lost          \* history: the actor heard of a failure of a connection it
                  \* had seen open, an Opened was shed, or a worker ended with
                  \* its frames

toActor == <<poolEvents, staged, garbled>>
transport == <<slot, worker, relayEvents, toActor>>
actor == <<control, connected, running, configured, queued>>
kernel == <<plan, rows>>
vars == <<transport, actor, kernel, spent, lost>>

Generations == 1..MaxGen
Req(s) == [verb |-> "REQ", sub |-> s]
Close(s) == [verb |-> "CLOSE", sub |-> s]
Preamble == [verb |-> "PREAMBLE", sub |-> "none"]
Frames == {Req(s) : s \in Subs} \cup {Close(s) : s \in Subs} \cup {Preamble}

Send(f) == [op |-> "Send", frame |-> f]
SetReconnectPreamble == [op |-> "SetReconnectPreamble", frame |-> Preamble]
Shutdown == [op |-> "Shutdown", frame |-> Preamble]
Commands == {Send(f) : f \in Frames} \cup {SetReconnectPreamble, Shutdown}

Event(kind, g, denied) == [kind |-> kind, gen |-> g, denied |-> denied]
Events == {Event(k, g, d) : k \in {"Connected", "Failed", "Closed"},
                            g \in Generations, d \in BOOLEAN}

NoWorker ==
    [phase |-> "unborn", inbox |-> <<>>, pending |-> <<>>,
     preamble |-> <<>>, owed |-> <<>>, wire |-> <<>>]

-----------------------------------------------------------------------------
(* The pool, under its mutex.                                              *)

LiveByHealth(sl) == sl.health # "Closed"

\* A slot whose worker can still be talked to.
Live(sl) == sl.tx /\ sl.health # "Closed"

\* ensure_open: the live handle, or a fresh generation of the slot.
EnsureOpen(sl) ==
    IF Live(sl) THEN sl
    ELSE [gen |-> sl.gen + 1, tx |-> TRUE, health |-> "Connecting"]

CanOpen == Live(slot) \/ slot.gen < MaxGen

SpawnedNever(wk, sl) == wk

Spawned(wk, sl) ==
    IF wk[sl.gen].phase = "unborn"
    THEN [wk EXCEPT ![sl.gen].phase = "dialing"] ELSE wk

\* Pool::send and its siblings: a stale handle, a closed slot or a worker
\* that has returned leave the commands undelivered.
Posted(wk, sl, h, cmds) ==
    IF sl.gen = h /\ sl.tx /\ wk[h].phase # "done"
    THEN [wk EXCEPT ![h].inbox = @ \o cmds] ELSE wk

\* Pool::close.
Closed(sl, h) ==
    IF sl.gen = h THEN [sl EXCEPT !.tx = FALSE, !.health = "Closed"] ELSE sl

\* apply_prepared: what an event of the slot's own generation does to health.
Health(sl, e) ==
    CASE e.kind = "Connected" -> "Connected"
      [] e.kind = "Closed" -> "Closed"
      [] e.kind = "Failed" ->
           IF e.denied THEN "Closed"
           ELSE IF sl.health = "Connected" THEN "Reconnecting" ELSE sl.health

\* What the inbox makes of an event it is offered: RelayMailSink queues it, or
\* its try_send meets a full inbox and sheds it without a word.
Offered(e) ==
    \/ /\ poolEvents' = Append(poolEvents, e)
       /\ garbled' = garbled \ {e.gen}
       /\ UNCHANGED lost
    \/ /\ MayFlood
       /\ garbled' = garbled \cup {e.gen}
       /\ lost' = (lost \/ e.kind = "Connected")
       /\ UNCHANGED poolEvents

\* One turn of translator_loop: an event of another generation is dropped.
Translate ==
    /\ relayEvents # <<>>
    /\ relayEvents' = Tail(relayEvents)
    /\ LET e == Head(relayEvents) IN
         IF e.gen = slot.gen
         THEN slot' = [slot EXCEPT !.health = Health(slot, e)] /\ Offered(e)
         ELSE UNCHANGED <<slot, poolEvents, garbled, lost>>
    /\ UNCHANGED <<worker, staged, actor, kernel, spent>>

-----------------------------------------------------------------------------
(* The worker thread of generation g.                                      *)

\* The frames among the commands, in their order.
WithFrame(sent, c) == IF c.op = "Send" THEN Append(sent, c.frame) ELSE sent
SentFrames(cmds) ==
    LET sent[n \in 0..Len(cmds)] ==
            IF n = 0 THEN <<>> ELSE WithFrame(sent[n - 1], cmds[n])
    IN  sent[Len(cmds)]

Told(w, op) == \E i \in DOMAIN w.inbox : w.inbox[i].op = op

\* drain_pending, when no Shutdown is waiting.
Drained(w) ==
    [w EXCEPT !.pending = @ \o SentFrames(w.inbox),
              !.preamble = IF Told(w, "SetReconnectPreamble")
                           THEN <<Preamble>> ELSE @,
              !.inbox = <<>>]

PreambledLast(w) ==
    [w EXCEPT !.phase = "connected", !.pending = @ \o w.preamble,
              !.owed = w.preamble, !.wire = <<>>]

\* The preamble goes in front of what is waiting.
Preambled(w) ==
    [w EXCEPT !.phase = "connected", !.pending = w.preamble \o @,
              !.owed = w.preamble, !.wire = <<>>]

Waiting(w) == [w EXCEPT !.phase = "waiting", !.wire = <<>>, !.owed = <<>>]

Done(w) == [NoWorker EXCEPT !.phase = "done"]

UnwrittenLast(pending, k) ==
    Append(SubSeq(pending, k + 1, Len(pending)), pending[k])

\* The frames a failed write leaves: the one it choked on and those behind it.
Unwritten(pending, k) == SubSeq(pending, k, Len(pending))

Emit(kind, g, denied) ==
    relayEvents' = Append(relayEvents, Event(kind, g, denied))

\* One host command or socket fault.
Spend == spent < MaxEvents /\ spent' = spent + 1

\* What a failure does to the worker: back off, or return when denied.
Failing(g, w, denied) ==
    /\ worker' = [worker EXCEPT ![g] = IF denied THEN Done(w) ELSE Waiting(w)]
    /\ lost' = (lost \/ denied)
    /\ Emit("Failed", g, denied)

Dial(g) ==
    /\ worker[g].phase = "dialing"
    /\ worker' = [worker EXCEPT ![g] = Preambled(@)]
    /\ Emit("Connected", g, FALSE)
    /\ UNCHANGED <<slot, toActor, actor, kernel, spent, lost>>

DialFails(g, denied) ==
    /\ worker[g].phase = "dialing"
    /\ denied => MayDeny
    /\ Spend
    /\ Failing(g, worker[g], denied)
    /\ UNCHANGED <<slot, toActor, actor, kernel>>

\* run_connected_relay drains its commands and meets a Shutdown: it returns
\* without writing what it has drained.
ObeyShutdown(g) ==
    /\ worker[g].phase = "connected"
    /\ Told(worker[g], "Shutdown")
    /\ worker' = [worker EXCEPT ![g] = Done(@)]
    /\ lost' = TRUE
    /\ Emit("Closed", g, FALSE)
    /\ UNCHANGED <<slot, toActor, actor, kernel, spent>>

\* One loop of run_connected_relay: drain the commands, write and flush.
Flush(g) ==
    /\ worker[g].phase = "connected"
    /\ ~Told(worker[g], "Shutdown")
    /\ worker[g].inbox # <<>> \/ worker[g].pending # <<>>
    /\ LET w == Drained(worker[g]) IN
         worker' = [worker EXCEPT ![g] =
                      [w EXCEPT !.wire = @ \o w.pending, !.pending = <<>>]]
    /\ UNCHANGED <<slot, relayEvents, toActor, actor, kernel, spent, lost>>

\* flush_relay_writes: socket.write fails at the k-th waiting frame.
WriteFails(g) ==
    /\ worker[g].phase = "connected"
    /\ ~Told(worker[g], "Shutdown")
    /\ Spend
    /\ LET w == Drained(worker[g]) IN
         \E k \in DOMAIN w.pending :
            Failing(g, [w EXCEPT !.pending = Unwritten(w.pending, k)], FALSE)
    /\ UNCHANGED <<slot, toActor, actor, kernel>>

\* flush_socket fails: the worker backs off and tells nobody.
FlushFails(g) ==
    /\ worker[g].phase = "connected"
    /\ ~Told(worker[g], "Shutdown")
    /\ Spend
    /\ worker' = [worker EXCEPT ![g] =
                    Waiting([Drained(@) EXCEPT !.pending = <<>>])]
    /\ UNCHANGED <<slot, relayEvents, toActor, actor, kernel, lost>>

\* A failed read, a failed ping, a missing pong or a failed poll.
ReadFails(g, denied) ==
    /\ worker[g].phase = "connected"
    /\ denied => MayDeny
    /\ Spend
    /\ Failing(g, worker[g], denied)
    /\ UNCHANGED <<slot, toActor, actor, kernel>>

AbsorbedNoShutdown(w, c) ==
    CASE c.op = "Shutdown" -> [w EXCEPT !.inbox = Tail(@)]
      [] c.op = "Send" ->
           [w EXCEPT !.inbox = Tail(@), !.pending = Append(@, c.frame)]
      [] OTHER -> [w EXCEPT !.inbox = Tail(@), !.preamble = <<Preamble>>]

\* wait_before_reconnect takes one command.
Absorbed(w, c) ==
    CASE c.op = "Shutdown" -> Done(w)
      [] c.op = "Send" ->
           [w EXCEPT !.inbox = Tail(@), !.pending = Append(@, c.frame)]
      [] OTHER -> [w EXCEPT !.inbox = Tail(@), !.preamble = <<Preamble>>]

AbsorbWhileWaiting(g) ==
    /\ worker[g].phase = "waiting"
    /\ worker[g].inbox # <<>>
    /\ worker' = [worker EXCEPT ![g] = Absorbed(@, Head(@.inbox))]
    /\ lost' = (lost \/ worker'[g].phase = "done")
    /\ UNCHANGED <<slot, relayEvents, toActor, actor, kernel, spent>>

\* The backoff delay elapses.
Redial(g) ==
    /\ worker[g].phase = "waiting"
    /\ worker' = [worker EXCEPT ![g].phase = "dialing"]
    /\ UNCHANGED <<slot, relayEvents, toActor, actor, kernel, spent, lost>>

-----------------------------------------------------------------------------
(* The actor thread.                                                       *)

Sends(frames) == [i \in DOMAIN frames |-> Send(frames[i])]

\* send_all_outbound: spawn the worker on demand, then post to its handle.
Route(frames) ==
    LET sl == IF control = 0 THEN EnsureOpen(slot) ELSE slot
        h == IF control = 0 THEN sl.gen ELSE control
    IN  /\ control = 0 => CanOpen
        /\ slot' = sl
        /\ control' = h
        /\ worker' = Posted(Spawned(worker, sl), sl, h, Sends(frames))

\* ensure_relay_worker alone.
EnsureWorker == Route(<<>>)

\* Pool::close of the control's handle, after the given frames.
Shut(frames) ==
    /\ slot' = Closed(slot, control)
    /\ worker' = Posted(worker, slot, control,
                        Append(Sends(frames), Shutdown))
    /\ control' = 0

\* route_dispatch_outbound: frames wait in queued_actor_outbound until Start.
Dispatch(frames) ==
    IF running
    THEN Route(queued \o frames) /\ queued' = <<>>
    ELSE queued' = queued \o frames /\ UNCHANGED <<slot, worker, control>>

\* open_interest: the planner's diff is one REQ, registered as a wire row.
OpenInterest(s) ==
    /\ s \notin plan
    /\ Spend
    /\ plan' = plan \cup {s}
    /\ rows' = rows \cup {s}
    /\ Dispatch(<<Req(s)>>)
    /\ UNCHANGED <<relayEvents, toActor, connected, running, configured,
                   lost>>

\* close_interest: the diff is one CLOSE, which also evicts the wire row.
CloseInterest(s) ==
    /\ s \in plan
    /\ Spend
    /\ plan' = plan \ {s}
    /\ rows' = rows \ {s}
    /\ Dispatch(<<Close(s)>>)
    /\ UNCHANGED <<relayEvents, toActor, connected, running, configured,
                   lost>>

\* start: spawn_missing_relays, then the queued frames go out.  A Start that
\* ends a Stop, or the first one, needs no bound of its own.
Start ==
    /\ IF running THEN Spend ELSE UNCHANGED spent
    /\ running' = TRUE
    /\ queued' = <<>>
    /\ IF configured \/ queued # <<>> THEN Route(queued)
       ELSE UNCHANGED <<slot, worker, control>>
    /\ UNCHANGED <<relayEvents, toActor, connected, configured, kernel,
                   lost>>

\* stop: close_relays asks for a CLOSE of every row, closes the slot and
\* evicts every row of the lane.
Stop ==
    /\ Spend
    /\ running' = FALSE
    /\ connected' = FALSE
    /\ rows' = {}
    /\ IF control = 0 THEN UNCHANGED <<slot, worker, control>>
       ELSE Shut(LET rs == SetToSeq(rows)
                 IN [i \in DOMAIN rs |-> Close(rs[i])])
    /\ UNCHANGED <<relayEvents, toActor, configured, queued, plan, lost>>

AddRelay ==
    /\ Spend
    /\ configured' = TRUE
    /\ EnsureWorker
    /\ UNCHANGED <<relayEvents, toActor, connected, running, queued,
                   kernel, lost>>

\* remove_relay evicts the wire rows of the URL and shuts its worker down; it
\* leaves connected_urls alone.  The recompilation it asks for changes the plan
\* by a CloseInterest or an OpenInterest of its own.
RemoveRelay ==
    /\ Spend
    /\ configured' = FALSE
    /\ rows' = {}
    /\ IF control = 0 THEN UNCHANGED <<slot, worker, control>> ELSE Shut(<<>>)
    /\ UNCHANGED <<relayEvents, toActor, connected, running, queued, plan,
                   lost>>

AdoptedNever(sl) == control

\* reconnect_relays: adopt the handle of a slot that had to be reopened.
Adopted(sl) == sl.gen

ReconnectRelays ==
    /\ running
    /\ control # 0
    /\ CanOpen
    /\ Spend
    /\ slot' = EnsureOpen(slot)
    /\ worker' = Spawned(worker, slot')
    /\ control' = Adopted(slot')
    /\ UNCHANGED <<relayEvents, toActor, connected, running, configured,
                   queued, kernel, lost>>

\* set_reconnect_preamble, for a NIP-46 subscription that must precede the
\* events it waits for.
RegisterPreamble ==
    /\ control # 0
    /\ Spend
    /\ worker' = Posted(worker, slot, control, <<SetReconnectPreamble>>)
    /\ UNCHANGED <<slot, relayEvents, toActor, actor, kernel, lost>>

\* sweep_temporary_idle_relays: a socket nobody configured and no wire row
\* needs is closed once its grace period is over, while the actor runs.
SweepIdle ==
    /\ running
    /\ control # 0
    /\ ~configured
    /\ rows = {}
    /\ connected' = FALSE
    /\ Shut(<<>>)
    /\ UNCHANGED <<relayEvents, toActor, running, configured, queued,
                   kernel, spent, lost>>

-----------------------------------------------------------------------------
(* The actor's inbox, and handle_relay_event, one action per arm.  An      *)
(* event whose generation is not the control's is dropped.                 *)

\* drain_command_lane moves relay mail out of the inbox into relay_backlog.
\* Only a flood leaves any of it there beyond the turn of the loop.
Stage ==
    /\ MayFlood
    /\ staged < Len(poolEvents)
    /\ staged' = staged + 1
    /\ UNCHANGED <<slot, worker, relayEvents, poolEvents, garbled, actor,
                   kernel, spent, lost>>

\* What the loop may serve next: the oldest event of relay_backlog, or, after a
\* batch that left some of them behind, the oldest one still in the inbox.
Serveable == {1, staged + 1} \cap DOMAIN poolEvents

\* The i-th event is the newest of its worker and an older one is still behind.
Overtakes(i) ==
    /\ \E j \in 1..(i - 1) : poolEvents[j].gen = poolEvents[i].gen
    /\ \A j \in (i + 1)..Len(poolEvents) : poolEvents[j].gen # poolEvents[i].gen

\* drain_backlog_batch or next_after_drain takes the i-th event.
Serve(i, kind) ==
    /\ i \in Serveable
    /\ poolEvents[i].kind = kind
    /\ poolEvents' = RemoveAt(poolEvents, i)
    /\ staged' = IF i <= staged THEN staged - 1 ELSE staged
    /\ garbled' = IF Overtakes(i) THEN garbled \cup {poolEvents[i].gen}
                  ELSE garbled

Current(e) == control # 0 /\ control = e.gen

ReplayedNever(isReconnect) == <<>>

\* Opened: a URL already marked connected is a reconnect and has the plan's
\* subscriptions replayed; any other is a first dial, and is not.
Replayed(isReconnect) ==
    IF isReconnect /\ running
    THEN LET ps == SetToSeq(plan) IN [i \in DOMAIN ps |-> Req(ps[i])]
    ELSE <<>>

HandleOpened(i) ==
    /\ Serve(i, "Connected")
    /\ IF Current(poolEvents[i])
       THEN /\ connected' = TRUE
            /\ worker' = Posted(worker, slot, control,
                                Sends(Replayed(connected)))
            /\ rows' = IF Replayed(connected) = <<>> THEN rows
                       ELSE rows \cup plan
       ELSE UNCHANGED <<connected, worker, rows>>
    /\ UNCHANGED <<slot, relayEvents, control, running, configured, queued,
                   plan, spent, lost>>

HandleFailed(i) ==
    /\ Serve(i, "Failed")
    /\ LET here == Current(poolEvents[i]) IN
         /\ connected' = (connected /\ ~here)
         /\ lost' = (lost \/ (here /\ connected))
    /\ UNCHANGED <<slot, worker, relayEvents, control, running, configured,
                   queued, kernel, spent>>

HandleClosed(i) ==
    /\ Serve(i, "Closed")
    /\ LET here == Current(poolEvents[i]) IN
         /\ connected' = (connected /\ ~here)
         /\ rows' = IF here THEN {} ELSE rows
    /\ UNCHANGED <<slot, worker, relayEvents, control, running, configured,
                   queued, plan, spent, lost>>

-----------------------------------------------------------------------------
Init ==
    /\ slot = [gen |-> 0, tx |-> FALSE, health |-> "Closed"]
    /\ worker = [g \in Generations |-> NoWorker]
    /\ relayEvents = <<>> /\ poolEvents = <<>>
    /\ staged = 0 /\ garbled = {}
    /\ control = 0 /\ connected = FALSE /\ running = FALSE
    /\ configured = FALSE /\ queued = <<>>
    /\ plan = {} /\ rows = {}
    /\ spent = 0 /\ lost = FALSE

WorkerStep(g) ==
    \/ Dial(g) \/ ObeyShutdown(g) \/ Flush(g)
    \/ AbsorbWhileWaiting(g) \/ Redial(g)

SocketFault(g) ==
    \/ WriteFails(g) \/ FlushFails(g)
    \/ \E denied \in BOOLEAN : DialFails(g, denied) \/ ReadFails(g, denied)

HandleRelayEvent ==
    \E i \in Serveable : HandleOpened(i) \/ HandleFailed(i) \/ HandleClosed(i)

HostCommand ==
    \/ \E s \in Subs : OpenInterest(s) \/ CloseInterest(s)
    \/ Start \/ Stop \/ AddRelay \/ RemoveRelay
    \/ ReconnectRelays \/ RegisterPreamble

Next ==
    \/ \E g \in Generations : WorkerStep(g) \/ SocketFault(g)
    \/ Translate \/ Stage \/ HandleRelayEvent \/ SweepIdle \/ HostCommand

Spec == Init /\ [][Next]_vars

\* Every thread keeps running: the translator and the actor block on their
\* channels, a worker's poll wakes on commands, and a backoff delay ends.
\* Faults are finite, so a relay that can be dialled eventually is.
Fairness ==
    /\ WF_vars(Translate)
    /\ WF_vars(HandleRelayEvent)
    /\ \A g \in Generations : WF_vars(WorkerStep(g))

FairSpec == Spec /\ Fairness

-----------------------------------------------------------------------------
(* Properties                                                              *)

Workers ==
    [phase : {"unborn", "dialing", "connected", "waiting", "done"},
     inbox : Seq(Commands), pending : Seq(Frames),
     preamble : {<<>>, <<Preamble>>}, owed : {<<>>, <<Preamble>>},
     wire : Seq(Frames)]

\* Types, and the shape of the handle: the actor never holds a generation
\* the pool has not reached, and every generation the pool has handed out
\* has had a worker (pool/inner.rs open_new_slot, reopen_slot).
PoolTypeOK ==
    /\ slot \in [gen : 0..MaxGen, tx : BOOLEAN,
                 health : {"Connecting", "Connected", "Reconnecting", "Closed"}]
    /\ worker \in [Generations -> Workers]
    /\ relayEvents \in Seq(Events) /\ poolEvents \in Seq(Events)
    /\ staged \in 0..Len(poolEvents) /\ garbled \subseteq Generations
    /\ control \in 0..slot.gen
    /\ connected \in BOOLEAN /\ running \in BOOLEAN /\ configured \in BOOLEAN
    /\ queued \in Seq(Frames)
    /\ plan \subseteq Subs /\ rows \subseteq Subs
    /\ spent \in 0..MaxEvents /\ lost \in BOOLEAN
    /\ \A g \in Generations : worker[g].phase = "unborn" <=> g > slot.gen

InFlight(events, g) == \E i \in DOMAIN events : events[i].gen = g

\* A slot whose worker thread has returned can be reopened: once the pool has
\* heard the thread's last word, ensure_open does not hand its handle out
\* again.  A late event must not make a dead slot look alive, and a leftover
\* sender must not either (pool/inner.rs ensure_open).
DeadWorkerIsReplaceable ==
    \A g \in Generations :
        (slot.gen = g /\ worker[g].phase = "done" /\ ~InFlight(relayEvents, g))
            => ~Live(slot)

\* The actor knows of every open socket of the pool's slot while it has a
\* control for the URL: with no event of that worker on its way, the control
\* holds the slot's own generation and the URL is in connected_urls, so a
\* reopened slot never leaves the actor talking to the previous worker
\* (relay_reconnect.rs, dispatch/relay_events.rs).  What the bounded inbox does
\* to older events costs nothing: only a newest event that was itself shed, or
\* that the backlog let past an older one, leaves the actor wrong.
ConnectedIsKnown ==
    \A g \in Generations :
        (/\ control # 0 /\ slot.gen = g /\ worker[g].phase = "connected"
         /\ ~InFlight(relayEvents, g) /\ ~InFlight(poolEvents, g)
         /\ g \notin garbled)
            => control = g /\ connected

\* A connection opened with a registered preamble carries it before anything
\* else, however many frames earlier connections left behind
\* (relay_worker/mod.rs, the REQ-before-EVENT guarantee).
PreambleFirst ==
    \A g \in Generations :
        (worker[g].owed # <<>> /\ worker[g].wire # <<>>)
            => worker[g].wire[1] = Preamble

OpenAt(wire) ==
    {s \in Subs : \E i \in DOMAIN wire :
        /\ wire[i] = Req(s)
        /\ \A j \in DOMAIN wire : j > i => wire[j] # Close(s)}

\* The subscriptions the relay serves on the actor's own connection.
LiveSubs ==
    IF control # 0 /\ worker[control].phase = "connected"
    THEN OpenAt(worker[control].wire) ELSE {}

\* A subscription the host has closed is not left open at the relay once the
\* frames on their way have been written, through retried writes, replays and
\* commands given while stopped (socket_io.rs flush_relay_writes).
NoOrphanSubscription ==
    \A g \in Generations :
        (/\ control = g /\ worker[g].phase = "connected" /\ queued = <<>>
         /\ worker[g].inbox = <<>> /\ worker[g].pending = <<>>)
            => LiveSubs \subseteq plan

\* A planned subscription is served again after any reconnect the actor was
\* not told about, and its REQ survives every failed dial before the first
\* connection (relay_events.rs Opened arm, wait_before_reconnect).
SilentReconnectReplays ==
    \A s \in Subs :
        <>[](s \in plan /\ running /\ ~lost) => <>[](s \in LiveSubs)

\* A worker whose slot is closed or has moved on ends: no thread or socket is
\* leaked by a close that finds it dialling or backing off
\* (relay_worker/mod.rs wait_before_reconnect, drain_pending).
ClosedWorkersEnd ==
    \A g \in Generations :
        (slot.gen > g \/ (slot.gen = g /\ ~slot.tx))
            ~> (worker[g].phase = "done")

\* What relay_events.rs says of every Opened after a Failed or Closed, that
\* the active sub-shapes are emitted again: a subscription that stays planned
\* while the relay stays connected ends up served.
ReconnectRestoresSubs ==
    \A s \in Subs :
        <>[](/\ s \in plan /\ running /\ control # 0
             /\ control # 0 => worker[control].phase = "connected")
          => <>[](s \in LiveSubs)
=============================================================================
