------------------------ MODULE PublishEngineProofs ------------------------
(***************************************************************************)
(* Theorems about the publish engine, for any publishes, relays, attempt    *)
(* budget, deadline and backoff.                                            *)
(***************************************************************************)
EXTENDS PublishEngine, TLAPS

USE PrivateAssumption, CidAssumption, AttemptsAssumption, DeadlineAssumption

-----------------------------------------------------------------------------
(* Type correctness.  TypeOK alone is not inductive: that an attempt never   *)
(* exceeds the budget rests on what each stage says about the attempts.      *)

GoodEntries ==
    {e \in Entries :
        /\ e.stage = "Absent" => e = Absent
        /\ e.stage = "Pending" => e.attempt = 0
        /\ e.stage = "InFlight" => e.attempt > 0
        /\ e.stage \in {"RelayError", "TimedOut"} => e.attempt < MaxAttempts}

GoodRows == [Relays -> GoodEntries]
GoodTable == [Handles -> GoodRows]
FrameTable == [Handles -> [Relays -> {"none", "open", "past"}]]
CidTable == [Handles -> Cids \cup {NoCid}]

TypeInv ==
    /\ in_flight \in GoodTable
    /\ override \in CidTable
    /\ store \in GoodTable
    /\ unavailable \in [Relays -> Modes]
    /\ frames \in FrameTable
    /\ pending_terminals \subseteq Verdicts
    /\ running \in BOOLEAN

\* Entries are good for exactly the stages the code builds them with.
LEMMA EntryGood ==
    ASSUME NEW p \in BOOLEAN
    PROVE  /\ Absent \in GoodEntries
           /\ Entry("Pending", 0, 0, p) \in GoodEntries
           /\ Entry("Ok", 0, 0, p) \in GoodEntries
           /\ Entry("FailedAfterRetries", 0, 0, p) \in GoodEntries
           /\ \A n \in 1..MaxAttempts :
                 Entry("InFlight", n, InflightDeadline, p) \in GoodEntries
           /\ \A n \in 1..MaxAttempts, t \in Nat : n < MaxAttempts =>
                 /\ Entry("TimedOut", n, t, p) \in GoodEntries
                 /\ Entry("RelayError", n, t, p) \in GoodEntries
  BY DEF GoodEntries, Entries, Entry, Absent, Stages

\* No row is a well-formed row.
LEMMA NoRowGood == NoRow \in GoodRows
  BY EntryGood DEF NoRow, GoodRows

\* What a good entry is made of.
LEMMA GoodFields ==
    ASSUME NEW e \in GoodEntries
    PROVE  /\ e.stage \in Stages
           /\ e.attempt \in 0..MaxAttempts
           /\ e.timer \in Nat
           /\ e.pinned \in BOOLEAN
           /\ e = [stage |-> e.stage, attempt |-> e.attempt,
                   timer |-> e.timer, pinned |-> e.pinned]
  BY DEF GoodEntries, Entries

\* A due entry is sent as its next attempt, within the budget, or refused.
LEMMA DispatchedGood ==
    ASSUME NEW h \in Handles, NEW e \in GoodEntries, Ready(e)
    PROVE  Dispatched(h, e) \in GoodEntries
  <1>1. e.attempt + 1 \in 1..MaxAttempts
    BY GoodFields DEF Ready, GoodEntries
  <1>2. e.pinned \in BOOLEAN
    BY GoodFields
  <1> QED
    BY <1>1, <1>2, EntryGood DEF Dispatched

\* Dispatching keeps rows good.
LEMMA DispatchAllGood ==
    ASSUME NEW rows \in GoodTable, NEW picked, NEW filter, NEW modes
    PROVE  DispatchAll(rows, picked, filter, modes) \in GoodTable
  <1> SUFFICES ASSUME NEW h \in Handles
               PROVE  DispatchDue(h, rows[h], filter, modes) \in GoodRows
    BY DEF DispatchAll, GoodTable
  <1> SUFFICES ASSUME NEW r \in Relays
               PROVE  (IF r \in Due(rows[h], filter, modes)
                       THEN Dispatched(h, rows[h][r]) ELSE rows[h][r])
                          \in GoodEntries
    BY DEF DispatchDue, GoodRows
  <1>1. rows[h][r] \in GoodEntries
    BY DEF GoodTable, GoodRows
  <1> QED
    BY <1>1, DispatchedGood DEF Due

\* A fresh target is good, pinned or not.
LEMMA FreshGood ==
    ASSUME NEW r, NEW pins
    PROVE  Entry("Pending", 0, 0, r \in pins) \in GoodEntries
  <1>1. CASE r \in pins
    <2>1. (r \in pins) = TRUE
      BY <1>1
    <2> QED
      BY <2>1, EntryGood
  <1>2. CASE r \notin pins
    <2>1. (r \in pins) = FALSE
      BY <1>2
    <2> QED
      BY <2>1, EntryGood
  <1> QED
    BY <1>1, <1>2

\* The other operators that build rows keep them good.
LEMMA PlannedGood ==
    ASSUME NEW targets, NEW pins
    PROVE  Planned(targets, pins) \in GoodRows
  BY EntryGood, FreshGood DEF Planned, GoodRows

\* retarget_row keeps a row well-formed.
LEMMA RetargetedGood ==
    ASSUME NEW row \in GoodRows, NEW targets, NEW pins
    PROVE  Retargeted(row, targets, pins) \in GoodRows
  BY FreshGood DEF Retargeted, GoodRows

\* The in-flight sweep keeps a row well-formed.
LEMMA SweepInflightGood ==
    ASSUME NEW row \in GoodRows
    PROVE  SweepInflightTimeouts(row) \in GoodRows
  <1> SUFFICES ASSUME NEW r \in Relays
               PROVE  SweepInflightTimeouts(row)[r] \in GoodEntries
    BY DEF SweepInflightTimeouts, GoodRows
  <1>1. row[r] \in GoodEntries
    BY DEF GoodRows
  <1>2. CASE ~(row[r].stage = "InFlight" /\ row[r].timer = 0)
    BY <1>1, <1>2 DEF SweepInflightTimeouts
  <1>3. CASE row[r].stage = "InFlight" /\ row[r].timer = 0
    <2>1. row[r].attempt \in 1..MaxAttempts
      BY <1>1, <1>3, GoodFields DEF GoodEntries
    <2>2. row[r].pinned \in BOOLEAN
      BY <1>1, GoodFields
    <2>3. /\ Entry("FailedAfterRetries", 0, 0, row[r].pinned) \in GoodEntries
          /\ row[r].attempt < MaxAttempts =>
                Entry("TimedOut", row[r].attempt, 0, row[r].pinned)
                    \in GoodEntries
      BY <2>1, <2>2, EntryGood
    <2> QED
      BY <1>3, <2>1, <2>3 DEF SweepInflightTimeouts
  <1> QED
    BY <1>2, <1>3

\* The give-up sweep keeps a row well-formed.
LEMMA SweepUnavailableGood ==
    ASSUME NEW row \in GoodRows
    PROVE  SweepUnavailableTimeouts(row) \in GoodRows
  <1>1. \A r \in Relays :
            Entry("FailedAfterRetries", 0, 0, row[r].pinned) \in GoodEntries
    BY GoodFields, EntryGood DEF GoodRows
  <1> QED
    BY <1>1 DEF SweepUnavailableTimeouts, GoodRows

\* Both sweeps keep every row well-formed.
LEMMA SweptGood ==
    ASSUME in_flight \in GoodTable
    PROVE  Swept \in GoodTable
  BY SweepInflightGood, SweepUnavailableGood DEF Swept, GoodTable

\* Demotion keeps every row well-formed.
LEMMA DemotedGood ==
    ASSUME NEW rows \in GoodTable, NEW relay
    PROVE  Demoted(rows, relay) \in GoodTable
  <1>1. \A h \in Handles, r \in Relays :
            Entry("Pending", 0, 0, rows[h][r].pinned) \in GoodEntries
    BY GoodFields, EntryGood DEF GoodRows, GoodTable
  <1> QED
    BY <1>1 DEF Demoted, GoodTable, GoodRows

\* Letting a timer run, or clearing it, leaves the rest of an entry alone.
LEMMA TimerGood ==
    ASSUME NEW e \in GoodEntries, NEW t \in Nat,
           e.stage = "Absent" => t = 0
    PROVE  [e EXCEPT !.timer = t] \in GoodEntries
  <1> DEFINE f == [e EXCEPT !.timer = t]
  <1>1. f = [stage |-> e.stage, attempt |-> e.attempt, timer |-> t,
             pinned |-> e.pinned]
    BY GoodFields
  <1>2. f \in Entries
    BY <1>1, GoodFields DEF Entries
  <1>3. ASSUME e.stage = "Absent"
        PROVE  f = Absent
    <2>1. e = Absent
      BY <1>3 DEF GoodEntries
    <2>2. e.attempt = 0 /\ e.pinned = FALSE /\ t = 0
      BY <1>3, <2>1 DEF Absent, Entry
    <2> QED
      BY <1>1, <1>3, <2>2 DEF Absent, Entry
  <1> QED
    BY <1>1, <1>2, <1>3 DEF GoodEntries

\* A timer stays a natural number, and a timer at 0 stays there.
LEMMA ElapsedNat ==
    ASSUME NEW t \in Nat
    PROVE  Elapsed(t) \in Nat /\ (t = 0 => Elapsed(t) = 0)
  BY DEF Elapsed

\* The passing of time keeps every row well-formed.
LEMMA AgedGood ==
    ASSUME NEW rows \in GoodTable
    PROVE  Aged(rows) \in GoodTable
  <1> SUFFICES ASSUME NEW h \in Handles, NEW r \in Relays
               PROVE  [rows[h][r] EXCEPT !.timer = Elapsed(@)] \in GoodEntries
    BY DEF Aged, GoodTable, GoodRows
  <1>1. rows[h][r] \in GoodEntries
    BY DEF GoodTable, GoodRows
  <1>2. rows[h][r].stage = "Absent" => rows[h][r].timer = 0
    BY <1>1 DEF GoodEntries, Absent, Entry
  <1> QED
    BY <1>1, <1>2, GoodFields, ElapsedNat, TimerGood

\* Clearing the backoffs keeps a row well-formed.
LEMMA UnhurriedGood ==
    ASSUME NEW row \in GoodRows
    PROVE  Unhurried(row) \in GoodRows
  <1> SUFFICES ASSUME NEW r \in Relays, row[r].stage = "RelayError"
               PROVE  [row[r] EXCEPT !.timer = 0] \in GoodEntries
    BY DEF Unhurried, GoodRows
  <1> QED
    BY TimerGood DEF GoodRows

\* An answer keeps an entry well-formed.
LEMMA ApplyAckGood ==
    ASSUME NEW e \in GoodEntries, NEW answer
    PROVE  ApplyAck(e, answer) \in GoodEntries
  <1>1. CASE e.stage # "InFlight"
    BY <1>1 DEF ApplyAck
  <1>2. CASE e.stage = "InFlight"
    <2>1. e.attempt \in 1..MaxAttempts /\ e.pinned \in BOOLEAN
      BY <1>2, GoodFields DEF GoodEntries
    <2>2. BackoffFor(e.attempt) \in Nat
      BY <2>1, BackoffAssumption
    <2>3. e.attempt < MaxAttempts =>
             Entry("RelayError", e.attempt, BackoffFor(e.attempt), e.pinned)
                 \in GoodEntries
      BY <2>1, <2>2, EntryGood
    <2>4. /\ Entry("Ok", 0, 0, e.pinned) \in GoodEntries
          /\ Entry("FailedAfterRetries", 0, 0, e.pinned) \in GoodEntries
      BY <2>1, EntryGood
    <2> QED
      BY <1>2, <2>1, <2>3, <2>4 DEF ApplyAck
  <1> QED
    BY <1>1, <1>2

\* Sending keeps the shape of the frames.
LEMMA EmitType ==
    ASSUME frames \in FrameTable, NEW rows, NEW picked, NEW filter, NEW modes
    PROVE  Emit(rows, picked, filter, modes) \in FrameTable
  BY DEF Emit, FrameTable

\* Losing sockets keeps the shape of the frames.
LEMMA HangupType ==
    ASSUME frames \in FrameTable, NEW gone
    PROVE  Hangup(gone) \in FrameTable
  BY DEF Hangup, FrameTable

\* finalize_completed_rows returns to well-typed state whatever it is given.
LEMMA FinalizeType ==
    ASSUME NEW rows \in GoodTable, NEW cids \in CidTable,
           NEW disk \in GoodTable, NEW picked \in SUBSET Handles,
           Finalize(rows, picked, cids, disk)
    PROVE  /\ in_flight' \in GoodTable
           /\ override' \in CidTable
           /\ store' \in GoodTable
           /\ pending_terminals' \subseteq Verdicts
  <1> DEFINE done == Completed(rows, picked)
  <1>1. in_flight' \in GoodTable /\ override' \in CidTable
    BY NoRowGood DEF Finalize, GoodTable, CidTable
  <1>2. store' \in GoodTable
    BY NoRowGood DEF Finalize, GoodTable
  <1>3. \A h \in done : FromOutcome(h, cids[h], rows[h]) \in Verdicts
    BY DEF FromOutcome, LastTerminal, Verdicts, Completed, CidTable
  <1> QED
    BY <1>1, <1>2, <1>3 DEF Finalize

\* Demotion with its writes keeps memory and store well typed.
LEMMA DemoteType ==
    ASSUME TypeInv, NEW relay, Demote(relay)
    PROVE  in_flight' \in GoodTable /\ store' \in GoodTable
  <1>1. in_flight \in GoodTable /\ store \in GoodTable
    BY DEF TypeInv
  <1>2. Demoted(in_flight, relay) \in GoodTable
    BY <1>1, DemotedGood
  <1> QED
    BY <1>1, <1>2 DEF Demote, GoodTable

\* One step per action of the engine.
LEMMA TypeInvStep == TypeInv /\ [Next]_vars => TypeInv'
  <1> SUFFICES ASSUME TypeInv, [Next]_vars
               PROVE  TypeInv'
    OBVIOUS
  <1>0. /\ in_flight \in GoodTable
        /\ override \in CidTable
        /\ store \in GoodTable
        /\ unavailable \in [Relays -> Modes]
        /\ frames \in FrameTable
        /\ pending_terminals \subseteq Verdicts
        /\ running \in BOOLEAN
    BY DEF TypeInv
  <1>1. ASSUME NEW h \in Handles, NEW cid \in Cids \cup {NoCid},
               NEW targets, NEW pins,
               StartPublish(h, targets, pins, cid)
        PROVE  TypeInv'
    <2> DEFINE row  == Planned(targets, pins)
               rows == [in_flight EXCEPT ![h] = row]
               cids == [override EXCEPT ![h] = cid]
               disk == [store EXCEPT ![h] = row]
    <2>1. rows \in GoodTable /\ disk \in GoodTable
      BY <1>0, PlannedGood DEF GoodTable
    <2>2. cids \in CidTable
      BY <1>0 DEF CidTable
    <2>3. DispatchAll(rows, {h}, Relays, unavailable) \in GoodTable
      BY <2>1, DispatchAllGood
    <2>4. Finalize(DispatchAll(rows, {h}, Relays, unavailable), {h}, cids, disk)
      BY <1>1 DEF StartPublish
    <2>5. /\ frames' = Emit(rows, {h}, Relays, unavailable)
          /\ unavailable' = unavailable
          /\ running' = running
      BY <1>1 DEF StartPublish
    <2>6. /\ in_flight' \in GoodTable
          /\ override' \in CidTable
          /\ store' \in GoodTable
          /\ pending_terminals' \subseteq Verdicts
      <3> HIDE DEF rows, cids, disk
      <3> QED BY <2>1, <2>2, <2>3, <2>4, FinalizeType
    <2> QED
      BY <1>0, <2>5, <2>6, EmitType DEF TypeInv
  <1>2. ASSUME NEW h \in Handles, NEW cid \in Cids \cup {NoCid},
               NEW targets, NEW pins,
               StartPublishStoreError(h, targets, pins, cid)
        PROVE  TypeInv'
    BY <1>0, <1>2, PlannedGood
       DEF TypeInv, StartPublishStoreError, GoodTable, CidTable
  <1>3. ASSUME NEW h \in Handles, NEW cid \in Cids \cup {NoCid},
               StartPublishNoTargets(h, cid)
        PROVE  TypeInv'
    BY <1>0, <1>3 DEF TypeInv, StartPublishNoTargets, LastTerminal, Verdicts
  <1>4. ASSUME NEW h \in Handles, NEW r \in Relays, NEW answer \in Answers,
               OnAck(h, r, answer)
        PROVE  TypeInv'
    <2>1. frames' = frames /\ running' = running
      BY <1>4 DEF OnAck
    <2>2. CASE ParkAwaitingAuth(h, r)
      <3>1. in_flight' \in GoodTable /\ store' \in GoodTable
        BY <2>2, DemoteType DEF ParkAwaitingAuth
      <3>2. unavailable' \in [Relays -> Modes]
        BY <1>0, <2>2 DEF ParkAwaitingAuth, Auth, Modes
      <3> QED
        BY <1>0, <2>1, <2>2, <3>1, <3>2 DEF ParkAwaitingAuth, TypeInv
    <2>3. CASE FoldAnswer(h, r, answer)
      <3> DEFINE row  == [in_flight[h] EXCEPT ![r] = ApplyAck(@, answer)]
                 rows == [in_flight EXCEPT ![h] = row]
      <3>1. row \in GoodRows
        BY <1>0, ApplyAckGood DEF GoodTable, GoodRows
      <3>2. rows \in GoodTable
        BY <1>0, <3>1 DEF GoodTable
      <3>3. CASE IsComplete(row)
        <4>1. Finalize(rows, {h}, override, store)
          BY <2>3, <3>3 DEF FoldAnswer
        <4>2. /\ in_flight' \in GoodTable
              /\ override' \in CidTable
              /\ store' \in GoodTable
              /\ pending_terminals' \subseteq Verdicts
          <5> HIDE DEF rows
          <5> QED BY <1>0, <3>2, <4>1, FinalizeType
        <4> QED
          BY <1>0, <2>1, <2>3, <4>2 DEF FoldAnswer, TypeInv
      <3>4. CASE ~IsComplete(row)
        <4>1. /\ in_flight' = rows
              /\ store' \in {store, [store EXCEPT ![h] = row]}
              /\ pending_terminals' = {}
              /\ override' = override
              /\ unavailable' = unavailable
          BY <2>3, <3>4 DEF FoldAnswer, Upsert
        <4>2. store' \in GoodTable
          BY <1>0, <3>1, <4>1 DEF GoodTable
        <4> QED
          BY <1>0, <2>1, <3>2, <4>1, <4>2 DEF TypeInv
      <3> QED
        BY <3>3, <3>4
    <2> QED
      BY <1>4, <2>2, <2>3 DEF OnAck
  <1>5. ASSUME NEW h \in Handles, RetryNow(h)
        PROVE  TypeInv'
    <2> DEFINE row  == Unhurried(in_flight[h])
               rows == [in_flight EXCEPT ![h] = row]
               disk == [store EXCEPT ![h] = row]
    <2>1. rows \in GoodTable /\ disk \in GoodTable
      BY <1>0, UnhurriedGood DEF GoodTable
    <2>2. DispatchAll(rows, {h}, Relays, unavailable) \in GoodTable
      BY <2>1, DispatchAllGood
    <2>3. unavailable' = unavailable /\ running' = running
      BY <1>5 DEF RetryNow
    <2>4. CASE /\ Finalize(DispatchAll(rows, {h}, Relays, unavailable), {h},
                           override, disk)
               /\ frames' = Emit(rows, {h}, Relays, unavailable)
      <3>1. /\ in_flight' \in GoodTable
            /\ override' \in CidTable
            /\ store' \in GoodTable
            /\ pending_terminals' \subseteq Verdicts
        <4> HIDE DEF rows, disk
        <4> QED BY <1>0, <2>1, <2>2, <2>4, FinalizeType
      <3> QED
        BY <1>0, <2>3, <2>4, <3>1, EmitType DEF TypeInv
    <2>5. CASE /\ in_flight' = rows
               /\ pending_terminals' = {}
               /\ UNCHANGED <<override, store, frames>>
      BY <1>0, <2>1, <2>3, <2>5 DEF TypeInv
    <2> QED
      BY <1>5, <2>4, <2>5 DEF RetryNow
  <1>6. ASSUME NEW h \in Handles, CancelByHandle(h, override[h])
        PROVE  TypeInv'
    <2>1. store' \in {store, [store EXCEPT ![h] = NoRow]}
      BY <1>6 DEF CancelByHandle, Delete
    <2>2. store' \in GoodTable /\ [in_flight EXCEPT ![h] = NoRow] \in GoodTable
      BY <1>0, <2>1, NoRowGood DEF GoodTable
    <2>3. [override EXCEPT ![h] = NoCid] \in CidTable /\ override[h] \in Cids \cup {NoCid}
      BY <1>0 DEF CidTable
    <2>4. LastTerminal(h, override[h], "cancelled", "cancelled", FALSE) \in Verdicts
      BY <2>3 DEF LastTerminal, Verdicts
    <2> QED
      BY <1>0, <1>6, <2>2, <2>3, <2>4 DEF CancelByHandle, TypeInv
  <1>7. ASSUME NEW r \in Relays, MarkRelayAvailable(r)
        PROVE  TypeInv'
    <2>1. PICK found \in [Handles -> SUBSET Relays],
               pins \in [Handles -> SUBSET Relays], ok \in Commits :
            LET rows == [h \in Handles |->
                            Retargeted(in_flight[h], found[h], pins[h])]
            IN  /\ Finalize(DispatchAll(rows, Handles, {r}, unavailable'),
                            Handles, override, PersistRetargeted(rows, ok))
                /\ frames' = Emit(rows, Handles, {r}, unavailable')
      BY <1>7 DEF MarkRelayAvailable
    <2> DEFINE rows == [h \in Handles |->
                           Retargeted(in_flight[h], found[h], pins[h])]
               disk == PersistRetargeted(rows, ok)
    <2>2. rows \in GoodTable
      BY <1>0, RetargetedGood DEF GoodTable
    <2>3. disk \in GoodTable
      BY <1>0, <2>2 DEF PersistRetargeted, GoodTable
    <2>4. /\ Finalize(DispatchAll(rows, Handles, {r}, unavailable'), Handles,
                      override, disk)
          /\ frames' = Emit(rows, Handles, {r}, unavailable')
      BY <2>1
    <2>5. unavailable' \in [Relays -> Modes] /\ running' = running
      BY <1>0, <1>7 DEF MarkRelayAvailable, Up, Modes
    <2>6. /\ in_flight' \in GoodTable
          /\ override' \in CidTable
          /\ store' \in GoodTable
          /\ pending_terminals' \subseteq Verdicts
      <3> HIDE DEF rows, disk
      <3>1. DispatchAll(rows, Handles, {r}, unavailable') \in GoodTable
        BY <2>2, DispatchAllGood
      <3> QED BY <1>0, <2>3, <2>4, <3>1, FinalizeType
    <2> QED
      BY <1>0, <2>4, <2>5, <2>6, EmitType DEF TypeInv
  <1>8. ASSUME NEW r \in Relays, MarkRelayUnavailable(r)
        PROVE  TypeInv'
    <2>1. in_flight' \in GoodTable /\ store' \in GoodTable
      BY <1>8, DemoteType DEF MarkRelayUnavailable
    <2>2. unavailable' \in [Relays -> Modes]
      BY <1>0, <1>8 DEF MarkRelayUnavailable, Down, Modes
    <2> QED
      BY <1>0, <1>8, <2>1, <2>2, HangupType DEF MarkRelayUnavailable, TypeInv
  <1>9. CASE Tick
    <2>1. Swept \in GoodTable
      BY <1>0, SweptGood
    <2>2. Ticked \in GoodTable
      BY <2>1, DispatchAllGood DEF Ticked
    <2>3. /\ in_flight' \in GoodTable
          /\ override' \in CidTable
          /\ store' \in GoodTable
          /\ pending_terminals' \subseteq Verdicts
      BY <1>0, <1>9, <2>2, FinalizeType DEF Tick
    <2> QED
      BY <1>0, <1>9, <2>3, EmitType DEF Tick, TypeInv
  <1>10. CASE Start
    <2>1. unavailable' = unavailable /\ running' = TRUE
      BY <1>10 DEF Start
    <2>2. CASE ResumeFromStore
      <3> DEFINE pend == LoadPending
                 rows == [h \in Handles |-> IF h \in pend THEN store[h]
                                                         ELSE in_flight[h]]
                 cids == [h \in Handles |-> IF h \in pend THEN NoCid
                                                         ELSE override[h]]
      <3>1. rows \in GoodTable
        BY <1>0 DEF GoodTable
      <3>2. cids \in CidTable
        BY <1>0 DEF CidTable
      <3>3. pend \in SUBSET Handles
        BY DEF LoadPending
      <3>4. /\ Finalize(DispatchAll(rows, pend, Relays, unavailable), pend,
                        cids, store)
            /\ frames' = Emit(rows, pend, Relays, unavailable)
        BY <2>2 DEF ResumeFromStore
      <3>5. /\ in_flight' \in GoodTable
            /\ override' \in CidTable
            /\ store' \in GoodTable
            /\ pending_terminals' \subseteq Verdicts
        <4> HIDE DEF rows, cids, pend
        <4>1. DispatchAll(rows, pend, Relays, unavailable) \in GoodTable
          BY <3>1, DispatchAllGood
        <4> QED BY <1>0, <3>2, <3>3, <3>4, <4>1, FinalizeType
      <3> QED
        BY <1>0, <2>1, <3>4, <3>5, EmitType DEF TypeInv
    <2>3. CASE /\ pending_terminals' = {}
               /\ UNCHANGED <<in_flight, override, store, frames>>
      BY <1>0, <2>1, <2>3 DEF TypeInv
    <2> QED
      BY <1>10, <2>2, <2>3 DEF Start
  <1>11. CASE Stop
    BY <1>0, <1>11, HangupType DEF Stop, TypeInv
  <1>12. CASE Crash
    <2>1. [h \in Handles |-> NoRow] \in GoodTable
      BY NoRowGood DEF GoodTable
    <2>2. [h \in Handles |-> NoCid] \in CidTable
      BY DEF CidTable
    <2>3. [r \in Relays |-> Up] \in [Relays -> Modes]
      BY DEF Up, Modes
    <2> QED
      BY <1>0, <1>12, <2>1, <2>2, <2>3, HangupType DEF Crash, TypeInv
  <1>13. CASE TimePass
    <2>1. in_flight' \in GoodTable /\ store' \in GoodTable
      BY <1>0, <1>13, AgedGood DEF TimePass
    <2>2. ASSUME NEW m \in Modes
          PROVE  [m EXCEPT !.timer = Elapsed(@)] \in Modes
      BY ElapsedNat DEF Modes
    <2>3. unavailable' \in [Relays -> Modes]
      BY <1>0, <1>13, <2>2 DEF TimePass
    <2> QED
      BY <1>0, <1>13, <2>1, <2>3 DEF TimePass, TypeInv
  <1>14. CASE UNCHANGED vars
    BY <1>0, <1>14 DEF vars, TypeInv
  <1> QED
    BY <1>1, <1>2, <1>3, <1>4, <1>5, <1>6, <1>7, <1>8, <1>9, <1>10, <1>11,
       <1>12, <1>13, <1>14 DEF Next

\* The initial state satisfies TypeInv.
LEMMA TypeInvInit == Init => TypeInv
  <1>1. [h \in Handles |-> NoRow] \in GoodTable
    BY NoRowGood DEF GoodTable
  <1>2. [h \in Handles |-> NoCid] \in CidTable
    BY DEF CidTable
  <1>3. [r \in Relays |-> Up] \in [Relays -> Modes]
    BY DEF Up, Modes
  <1>4. [h \in Handles |-> [r \in Relays |-> "none"]] \in FrameTable
    BY DEF FrameTable
  <1> QED
    BY <1>1, <1>2, <1>3, <1>4 DEF Init, TypeInv

\* TypeInv implies TypeOK.
LEMMA TypeInvOK == TypeInv => TypeOK
  <1>1. GoodTable \subseteq Rows
    BY DEF GoodTable, GoodRows, GoodEntries, Rows
  <1> QED
    BY <1>1 DEF TypeInv, TypeOK, CidTable, FrameTable

\* The engine keeps every variable in its type: in particular no relay is ever
\* tried more than MaxAttempts times in a row, whatever answers, timeouts,
\* demotions, retries and restarts happen, and even if store writes fail.
THEOREM TypeCorrect == Spec => []TypeOK
  BY TypeInvInit, TypeInvStep, TypeInvOK, PTL DEF Spec

-----------------------------------------------------------------------------
(* The scheduler's deadline.  DeadlineIsHonest says what the next tick does  *)
(* with a row, so it rests on what a row can look like: a pending entry has  *)
(* no wait left (dispatch_due does not look at one, next_deadline_ms does).  *)
(* Rows are reloaded from records, so a record must not have one either.     *)

Waitless(rows) ==
    \A h \in Handles, r \in Relays :
        rows[h][r].stage = "Pending" => rows[h][r].timer = 0

LineInv == Waitless(in_flight) /\ Waitless(store)

\* What the constructor of entries says about its fields.
LEMMA EntryFields ==
    ASSUME NEW s, NEW a, NEW t, NEW p
    PROVE  /\ Entry(s, a, t, p).stage = s
           /\ Entry(s, a, t, p).attempt = a
           /\ Entry(s, a, t, p).timer = t
           /\ Entry(s, a, t, p).pinned = p
  BY DEF Entry

\* A handle without a row has no relay in any stage.
LEMMA NoRowStages ==
    \A r \in Relays : NoRow[r].stage = "Absent"
  BY DEF NoRow, Absent, Entry

\* A dispatched entry is in flight or refused.
LEMMA DispatchedStages ==
    ASSUME NEW h, NEW e
    PROVE  Dispatched(h, e).stage \in {"InFlight", "FailedAfterRetries"}
  BY EntryFields DEF Dispatched

\* dispatch_due leaves an entry alone, or sends or refuses it, and that only on
\* a relay that is up.
LEMMA DispatchOutcome ==
    ASSUME NEW rows, NEW picked, NEW filter, NEW modes,
           NEW h \in Handles, NEW r \in Relays
    PROVE  LET e == DispatchAll(rows, picked, filter, modes)[h][r]
           IN  \/ e = rows[h][r]
               \/ /\ modes[r].mode = "up"
                  /\ e.stage \in {"InFlight", "FailedAfterRetries"}
  <1>1. CASE h \in picked /\ r \in Due(rows[h], filter, modes)
    <2>1. DispatchAll(rows, picked, filter, modes)[h][r]
             = Dispatched(h, rows[h][r])
      BY <1>1 DEF DispatchAll, DispatchDue
    <2>2. modes[r].mode = "up"
      BY <1>1 DEF Due
    <2> QED
      BY <2>1, <2>2, DispatchedStages
  <1>2. CASE ~(h \in picked /\ r \in Due(rows[h], filter, modes))
    BY <1>2 DEF DispatchAll, DispatchDue
  <1> QED
    BY <1>1, <1>2

\* dispatch_due leaves nothing waiting that was not.
LEMMA DispatchWaitless ==
    ASSUME NEW rows, NEW picked, NEW filter, NEW modes, Waitless(rows)
    PROVE  Waitless(DispatchAll(rows, picked, filter, modes))
  <1> SUFFICES ASSUME NEW h \in Handles, NEW r \in Relays,
                      DispatchAll(rows, picked, filter, modes)[h][r].stage
                         = "Pending"
               PROVE  DispatchAll(rows, picked, filter, modes)[h][r].timer = 0
    BY DEF Waitless
  <1>1. DispatchAll(rows, picked, filter, modes)[h][r] = rows[h][r]
    BY DispatchOutcome
  <1> QED
    BY <1>1 DEF Waitless

\* Letting completed rows go changes nothing for the others.
LEMMA FinalizeRows ==
    ASSUME NEW rows, NEW picked, NEW cids, NEW disk,
           Finalize(rows, picked, cids, disk), NEW h \in Handles
    PROVE  in_flight'[h] \in {NoRow, rows[h]} /\ store'[h] \in {NoRow, disk[h]}
  BY DEF Finalize

LEMMA FinalizeWaitless ==
    ASSUME NEW rows, NEW picked, NEW cids, NEW disk,
           Waitless(rows), Waitless(disk), Finalize(rows, picked, cids, disk)
    PROVE  LineInv'
  <1>1. \A h \in Handles : /\ in_flight'[h] \in {NoRow, rows[h]}
                           /\ store'[h] \in {NoRow, disk[h]}
    BY FinalizeRows
  <1> QED
    BY <1>1, NoRowStages DEF LineInv, Waitless

\* What demotion makes of an entry.
LEMMA DemotedEntry ==
    ASSUME NEW relay, Demote(relay), NEW h \in Handles, NEW r \in Relays
    PROVE  in_flight'[h][r] =
              IF r = relay /\ in_flight[h][r].stage = "InFlight"
              THEN Entry("Pending", 0, 0, in_flight[h][r].pinned)
              ELSE in_flight[h][r]
  BY DEF Demote, Demoted

\* Demotion leaves nothing waiting, in memory and in what it writes.
LEMMA DemoteWaitless ==
    ASSUME LineInv, NEW relay, Demote(relay)
    PROVE  LineInv'
  <1>1. Waitless(in_flight')
    <2> SUFFICES ASSUME NEW h \in Handles, NEW r \in Relays,
                        in_flight'[h][r].stage = "Pending"
                 PROVE  in_flight'[h][r].timer = 0
      BY DEF Waitless
    <2>1. in_flight'[h][r] \in {in_flight[h][r],
                                Entry("Pending", 0, 0, in_flight[h][r].pinned)}
      BY DemotedEntry
    <2> QED
      BY <2>1, EntryFields DEF LineInv, Waitless
  <1>2. \A h \in Handles : store'[h] \in {in_flight'[h], store[h]}
    BY DEF Demote
  <1> QED
    BY <1>1, <1>2 DEF LineInv, Waitless

\* The initial state satisfies LineInv.
LEMMA LineInvInit == Init => LineInv
  BY NoRowStages DEF Init, LineInv, Waitless

\* One step per action.
LEMMA LineInvStep ==
    ASSUME TypeInv, LineInv, [Next]_vars
    PROVE  LineInv'
  <1>0. Waitless(in_flight) /\ Waitless(store)
    BY DEF LineInv
  <1>f. /\ DOMAIN in_flight = Handles /\ DOMAIN store = Handles
        /\ \A h \in Handles : /\ DOMAIN in_flight[h] = Relays
                              /\ in_flight[h] \in GoodRows
    BY DEF TypeInv, GoodTable, GoodRows
  <1>1. ASSUME NEW h \in Handles, NEW cid, NEW targets, NEW pins,
               StartPublish(h, targets, pins, cid)
        PROVE  LineInv'
    <2> DEFINE row  == Planned(targets, pins)
               rows == [in_flight EXCEPT ![h] = row]
               cids == [override EXCEPT ![h] = cid]
               disk == [store EXCEPT ![h] = row]
    <2>1. \A r \in Relays : row[r].timer = 0
      BY DEF Planned, Absent, Entry
    <2>2. Waitless(rows) /\ Waitless(disk)
      BY <1>0, <1>f, <2>1 DEF Waitless
    <2>3. Finalize(DispatchAll(rows, {h}, Relays, unavailable), {h}, cids, disk)
      BY <1>1 DEF StartPublish
    <2> HIDE DEF rows, cids, disk
    <2>4. Waitless(DispatchAll(rows, {h}, Relays, unavailable))
      BY <2>2, DispatchWaitless
    <2> QED
      BY <2>2, <2>3, <2>4, FinalizeWaitless
  <1>2. ASSUME NEW h \in Handles, NEW cid, NEW targets, NEW pins,
               StartPublishStoreError(h, targets, pins, cid)
        PROVE  LineInv'
    <2>1. \A r \in Relays : Planned(targets, pins)[r].timer = 0
      BY DEF Planned, Absent, Entry
    <2> QED
      BY <1>0, <1>f, <1>2, <2>1 DEF StartPublishStoreError, LineInv, Waitless
  <1>3. ASSUME NEW h \in Handles, NEW cid, StartPublishNoTargets(h, cid)
        PROVE  LineInv'
    BY <1>0, <1>3 DEF StartPublishNoTargets, LineInv
  <1>4. ASSUME NEW h \in Handles, NEW r \in Relays, NEW answer \in Answers,
               OnAck(h, r, answer)
        PROVE  LineInv'
    <2>1. CASE ParkAwaitingAuth(h, r)
      BY <2>1, DemoteWaitless DEF ParkAwaitingAuth
    <2>2. CASE FoldAnswer(h, r, answer)
      <3> DEFINE row  == [in_flight[h] EXCEPT ![r] = ApplyAck(@, answer)]
                 rows == [in_flight EXCEPT ![h] = row]
      <3>1. /\ row[r] = ApplyAck(in_flight[h][r], answer)
            /\ \A q \in Relays : q # r => row[q] = in_flight[h][q]
        BY <1>f
      <3>2. \/ row[r] = in_flight[h][r]
            \/ row[r].stage \in {"Ok", "FailedAfterRetries", "RelayError"}
        BY <3>1, EntryFields DEF ApplyAck
      <3>3. Waitless(rows)
        BY <1>0, <1>f, <3>1, <3>2 DEF Waitless
      <3>5. CASE IsComplete(row)
        <4>1. Finalize(rows, {h}, override, store)
          BY <2>2, <3>5 DEF FoldAnswer
        <4> HIDE DEF rows
        <4> QED
          BY <1>0, <3>3, <4>1, FinalizeWaitless
      <3>6. CASE ~IsComplete(row)
        <4>1. /\ in_flight' = rows
              /\ store' \in {store, [store EXCEPT ![h] = row]}
          BY <2>2, <3>6 DEF FoldAnswer, Upsert
        <4>2. rows[h] = row
          BY <1>f
        <4> HIDE DEF row, rows
        <4>3. Waitless([store EXCEPT ![h] = row])
          BY <1>0, <1>f, <3>3, <4>2 DEF Waitless
        <4> QED
          BY <1>0, <3>3, <4>1, <4>3 DEF LineInv
      <3> QED
        BY <3>5, <3>6
    <2> QED
      BY <1>4, <2>1, <2>2 DEF OnAck
  <1>5. ASSUME NEW h \in Handles, RetryNow(h)
        PROVE  LineInv'
    <2> DEFINE row  == Unhurried(in_flight[h])
               rows == [in_flight EXCEPT ![h] = row]
               disk == [store EXCEPT ![h] = row]
    <2>1. \A q \in Relays : row[q].stage = "Pending" => row[q] = in_flight[h][q]
      <3> SUFFICES ASSUME NEW q \in Relays, row[q].stage = "Pending"
                   PROVE  row[q] = in_flight[h][q]
        OBVIOUS
      <3>1. in_flight[h][q] \in GoodEntries
        BY <1>f DEF GoodRows
      <3>2. [in_flight[h][q] EXCEPT !.timer = 0].stage = in_flight[h][q].stage
        BY <3>1, GoodFields
      <3> QED
        BY <3>2 DEF Unhurried
    <2>2. Waitless(rows) /\ Waitless(disk)
      <3> HIDE DEF row
      <3> QED BY <1>0, <1>f, <2>1 DEF Waitless
    <2>4. CASE Finalize(DispatchAll(rows, {h}, Relays, unavailable), {h},
                        override, disk)
      <3> HIDE DEF rows, disk
      <3>1. Waitless(DispatchAll(rows, {h}, Relays, unavailable))
        BY <2>2, DispatchWaitless
      <3> QED
        BY <2>2, <2>4, <3>1, FinalizeWaitless
    <2>5. CASE in_flight' = rows /\ store' = store
      <3> HIDE DEF rows
      <3> QED BY <1>0, <2>2, <2>5 DEF LineInv
    <2> QED
      BY <1>5, <2>4, <2>5 DEF RetryNow
  <1>6. ASSUME NEW h \in Handles, CancelByHandle(h, override[h])
        PROVE  LineInv'
    <2>1. /\ \A g \in Handles : in_flight'[g] \in {NoRow, in_flight[g]}
          /\ \A g \in Handles : store'[g] \in {NoRow, store[g]}
      BY <1>f, <1>6 DEF CancelByHandle, Delete
    <2> QED
      BY <1>0, <2>1, NoRowStages DEF LineInv, Waitless
  <1>7. ASSUME NEW r \in Relays, MarkRelayAvailable(r)
        PROVE  LineInv'
    <2>1. PICK found \in [Handles -> SUBSET Relays],
               pins \in [Handles -> SUBSET Relays], ok \in Commits :
            LET rows == [h \in Handles |->
                            Retargeted(in_flight[h], found[h], pins[h])]
            IN  Finalize(DispatchAll(rows, Handles, {r}, unavailable'),
                         Handles, override, PersistRetargeted(rows, ok))
      BY <1>7 DEF MarkRelayAvailable
    <2> DEFINE rows == [h \in Handles |->
                           Retargeted(in_flight[h], found[h], pins[h])]
               disk == PersistRetargeted(rows, ok)
    <2>3. \A h \in Handles, q \in Relays :
              rows[h][q] = in_flight[h][q] \/ rows[h][q].timer = 0
      BY EntryFields DEF Retargeted
    <2>4. Waitless(rows)
      <3> HIDE DEF rows
      <3> QED BY <1>0, <2>3 DEF Waitless
    <2>5. \A h \in Handles : disk[h] \in {rows[h], store[h]}
      BY DEF PersistRetargeted
    <2>6. Waitless(disk)
      <3> HIDE DEF rows, disk
      <3> QED BY <1>0, <2>4, <2>5 DEF Waitless
    <2>7. Finalize(DispatchAll(rows, Handles, {r}, unavailable'), Handles,
                   override, disk)
      BY <2>1
    <2> HIDE DEF rows, disk
    <2>8. Waitless(DispatchAll(rows, Handles, {r}, unavailable'))
      BY <2>4, DispatchWaitless
    <2> QED
      BY <2>6, <2>7, <2>8, FinalizeWaitless
  <1>8. ASSUME NEW r \in Relays, MarkRelayUnavailable(r)
        PROVE  LineInv'
    BY <1>8, DemoteWaitless DEF MarkRelayUnavailable
  <1>9. CASE Tick
    <2>1. Waitless(Swept)
      <3> SUFFICES ASSUME NEW h \in Handles, NEW r \in Relays,
                          Swept[h][r].stage = "Pending"
                   PROVE  Swept[h][r].timer = 0
        BY DEF Waitless
      <3> DEFINE e == SweepInflightTimeouts(in_flight[h])[r]
      <3>1. e = in_flight[h][r] \/ e.stage \in {"FailedAfterRetries", "TimedOut"}
        BY EntryFields DEF SweepInflightTimeouts
      <3>2. Swept[h][r] = e \/ Swept[h][r].stage = "FailedAfterRetries"
        BY EntryFields DEF Swept, SweepUnavailableTimeouts
      <3> HIDE DEF e
      <3> QED
        BY <1>0, <3>1, <3>2 DEF Waitless
    <2>2. Waitless(Ticked)
      BY <2>1, DispatchWaitless DEF Ticked
    <2>3. Finalize(Ticked, Handles, override, store)
      BY <1>9 DEF Tick
    <2> QED
      BY <1>0, <2>2, <2>3, FinalizeWaitless
  <1>10. CASE Start
    <2>2. CASE ResumeFromStore
      <3> DEFINE pend == LoadPending
                 rows == [h \in Handles |-> IF h \in pend THEN store[h]
                                                         ELSE in_flight[h]]
                 cids == [h \in Handles |-> IF h \in pend THEN NoCid
                                                         ELSE override[h]]
      <3>1. Finalize(DispatchAll(rows, pend, Relays, unavailable), pend,
                     cids, store)
        BY <2>2 DEF ResumeFromStore
      <3>2. \A h \in Handles : rows[h] \in {store[h], in_flight[h]}
        OBVIOUS
      <3> HIDE DEF rows, cids, pend
      <3>3. Waitless(rows)
        BY <1>0, <3>2 DEF Waitless
      <3>4. Waitless(DispatchAll(rows, pend, Relays, unavailable))
        BY <3>3, DispatchWaitless
      <3> QED
        BY <1>0, <3>1, <3>4, FinalizeWaitless
    <2>3. CASE UNCHANGED <<in_flight, store>>
      BY <1>0, <2>3 DEF LineInv
    <2> QED
      BY <1>10, <2>2, <2>3 DEF Start
  <1>11. CASE Stop
    BY <1>0, <1>11 DEF Stop, LineInv
  <1>12. CASE Crash
    BY <1>0, <1>12, NoRowStages DEF Crash, LineInv, Waitless
  <1>13. CASE TimePass
    <2>1. ASSUME NEW rows \in GoodTable, NEW h \in Handles, NEW r \in Relays
          PROVE  /\ Aged(rows)[h][r].stage = rows[h][r].stage
                 /\ rows[h][r].timer = 0 => Aged(rows)[h][r].timer = 0
      <3>1. rows[h][r] \in GoodEntries
        BY DEF GoodTable, GoodRows
      <3>2. Aged(rows)[h][r] = [rows[h][r] EXCEPT !.timer = Elapsed(@)]
        BY DEF Aged
      <3>3. /\ Aged(rows)[h][r].stage = rows[h][r].stage
            /\ Aged(rows)[h][r].timer = Elapsed(rows[h][r].timer)
        BY <3>1, <3>2, GoodFields
      <3> QED
        BY <3>1, <3>3, GoodFields, ElapsedNat
    <2>2. in_flight \in GoodTable /\ store \in GoodTable
      BY DEF TypeInv
    <2>4. in_flight' = Aged(in_flight) /\ store' = Aged(store)
      BY <1>13 DEF TimePass
    <2> QED
      BY <1>0, <2>1, <2>2, <2>4 DEF LineInv, Waitless
  <1>14. CASE UNCHANGED vars
    BY <1>0, <1>14 DEF vars, LineInv
  <1> QED
    BY <1>1, <1>2, <1>3, <1>4, <1>5, <1>6, <1>7, <1>8, <1>9, <1>10, <1>11,
       <1>12, <1>13, <1>14 DEF Next


\* Whether a tick has work for one relay of a row, as next_deadline_ms sees it.
HasWork(row, r) ==
    /\ Open(row[r])
    /\ \/ /\ unavailable[r].mode = "down"
          /\ HasAnyAccepted(row)
          /\ unavailable[r].timer = 0
       \/ unavailable[r].mode = "up" /\ row[r].timer = 0

\* next_deadline_ms reports 0 exactly when it sees work for some relay.
LEMMA DeadlineSeesWork ==
    ASSUME NEW row
    PROVE  0 \in Deadlines(row) <=> \E r \in Relays : HasWork(row, r)
  BY DEF Deadlines, HasWork

\* A silent relay that times out neither gains nor loses an acceptance.
LEMMA SweepKeepsAcceptance ==
    ASSUME NEW row
    PROVE  HasAnyAccepted(SweepInflightTimeouts(row)) <=> HasAnyAccepted(row)
  <1>1. ASSUME NEW r \in Relays
        PROVE  SweepInflightTimeouts(row)[r].stage = "Ok"
                   <=> row[r].stage = "Ok"
    BY EntryFields DEF SweepInflightTimeouts
  <1> QED
    BY <1>1 DEF HasAnyAccepted

\* A tick changes the entry of a relay when there is work for it, and only
\* then unless the entry is stranded.
LEMMA TickWorks ==
    ASSUME TypeInv, Waitless(in_flight), NEW h \in Handles, NEW r \in Relays
    PROVE  /\ HasWork(in_flight[h], r) => Ticked[h][r] # in_flight[h][r]
           /\ Ticked[h][r] # in_flight[h][r] =>
                 HasWork(in_flight[h], r) \/ Stranded(h, r)
  <1> DEFINE row == in_flight[h]
             e   == row[r]
             one == SweepInflightTimeouts(row)
             two == SweepUnavailableTimeouts(one)
             m   == unavailable[r]
  <1>1. e \in GoodEntries /\ m \in Modes
    BY DEF TypeInv, GoodTable, GoodRows
  <1>2. one[r] = IF e.stage = "InFlight" /\ e.timer = 0
                 THEN IF e.attempt >= MaxAttempts
                      THEN Entry("FailedAfterRetries", 0, 0, e.pinned)
                      ELSE Entry("TimedOut", e.attempt, 0, e.pinned)
                 ELSE e
    BY DEF SweepInflightTimeouts
  <1>3. two[r] = IF /\ HasAnyAccepted(row)
                    /\ Open(one[r])
                    /\ m.mode = "down"
                    /\ m.timer = 0
                 THEN Entry("FailedAfterRetries", 0, 0, one[r].pinned)
                 ELSE one[r]
    <2>1. HasAnyAccepted(one) <=> HasAnyAccepted(row)
      BY SweepKeepsAcceptance
    <2> HIDE DEF one
    <2> QED
      BY <2>1 DEF SweepUnavailableTimeouts
  <1>4. Swept[h] = two
    BY DEF Swept
  <1>5. Ticked[h][r] = IF m.mode = "up" /\ Ready(two[r])
                       THEN Dispatched(h, two[r])
                       ELSE two[r]
    <2>1. Ticked[h] = DispatchDue(h, two, Relays, unavailable)
      BY <1>4 DEF Ticked, DispatchAll
    <2> HIDE DEF two
    <2> QED
      BY <2>1 DEF DispatchDue, Due
  <1>6. e.stage = "Pending" => e.timer = 0
    BY DEF Waitless
  <1>s. Stranded(h, r) <=> e.stage = "InFlight" /\ m.mode # "up"
    BY DEF Stranded
  <1>7. e.attempt \in Nat /\ e.timer \in Nat /\ e.stage \in Stages
    BY <1>1, GoodFields
  <1>w. HasWork(row, r) <=>
            /\ Open(e)
            /\ \/ m.mode = "down" /\ HasAnyAccepted(row) /\ m.timer = 0
               \/ m.mode = "up" /\ e.timer = 0
    BY DEF HasWork
  <1> HIDE DEF row, e, one, two, m
  <1>8. CASE ~Open(e)
    <2>1. one[r] = e
      BY <1>2, <1>8 DEF Open, Terminal
    <2>2. two[r] = e
      BY <1>3, <1>8, <2>1
    <2>3. ~Ready(e)
      BY <1>8 DEF Ready, Open, Terminal
    <2>4. Ticked[h][r] = e
      BY <1>5, <2>2, <2>3
    <2> QED
      BY <1>8, <1>w, <2>4 DEF e, row
  <1>9. CASE Open(e) /\ m.mode # "up" /\ e.stage # "InFlight"
    <2>1. one[r] = e
      BY <1>2, <1>9
    <2>2. Ticked[h][r] = two[r]
      BY <1>5, <1>9
    <2>3. Entry("FailedAfterRetries", 0, 0, one[r].pinned) # e
      BY <1>9, EntryFields DEF Open, Terminal
    <2>4. two[r] # e <=> HasWork(row, r)
      BY <1>3, <1>9, <1>w, <2>1, <2>3
    <2> QED
      BY <2>2, <2>4 DEF e, row
  <1>10. CASE Open(e) /\ m.mode = "up" /\ e.stage = "InFlight"
    <2>1. two[r] = one[r]
      BY <1>3, <1>10
    <2>2. CASE e.timer # 0
      <3>1. two[r] = e
        BY <1>2, <2>1, <2>2
      <3>2. ~Ready(e)
        BY <1>10 DEF Ready
      <3> QED
        BY <1>5, <1>10, <1>w, <2>2, <3>1, <3>2 DEF e, row
    <2>3. CASE e.timer = 0
      <3>1. \/ two[r] = Entry("FailedAfterRetries", 0, 0, e.pinned)
            \/ two[r] = Entry("TimedOut", e.attempt, 0, e.pinned)
        BY <1>2, <1>10, <2>1, <2>3
      <3>2. CASE two[r] = Entry("FailedAfterRetries", 0, 0, e.pinned)
        <4>1. two[r].stage = "FailedAfterRetries"
          BY <3>2, EntryFields
        <4>2. Ticked[h][r] # e
          BY <1>5, <1>10, <4>1 DEF Ready
        <4> QED
          BY <1>10, <1>w, <2>3, <4>2 DEF e, row
      <3>3. CASE two[r] = Entry("TimedOut", e.attempt, 0, e.pinned)
        <4>1. /\ two[r].stage = "TimedOut"
              /\ two[r].timer = 0
              /\ two[r].attempt = e.attempt
          BY <3>3, EntryFields
        <4>2. Ticked[h][r] = Dispatched(h, two[r])
          BY <1>5, <1>10, <4>1 DEF Ready
        <4>3. \/ Dispatched(h, two[r]).attempt = e.attempt + 1
              \/ Dispatched(h, two[r]).stage = "FailedAfterRetries"
          BY <4>1, EntryFields DEF Dispatched
        <4>4. Ticked[h][r] # e
          BY <1>7, <1>10, <4>2, <4>3
        <4> QED
          BY <1>10, <1>w, <2>3, <4>4 DEF e, row
      <3> QED
        BY <3>1, <3>2, <3>3
    <2> QED
      BY <2>2, <2>3
  <1>11. CASE Open(e) /\ m.mode = "up" /\ e.stage # "InFlight"
    <2>1. two[r] = e
      BY <1>2, <1>3, <1>11
    <2>2. Ready(e) <=> e.timer = 0
      BY <1>6, <1>7, <1>11 DEF Ready, Open, Terminal, Stages
    <2>3. Dispatched(h, e) # e
      BY <1>11, DispatchedStages DEF Open, Terminal
    <2> QED
      BY <1>5, <1>11, <1>w, <2>1, <2>2, <2>3 DEF e, row
  <1>12. CASE Open(e) /\ m.mode # "up" /\ e.stage = "InFlight"
    <2>1. Stranded(h, r)
      BY <1>12, <1>s
    <2>2. ASSUME HasWork(row, r) PROVE Ticked[h][r] # e
      <3>1. HasAnyAccepted(row) /\ m.mode = "down" /\ m.timer = 0
        BY <1>w, <1>12, <2>2
      <3>2. Ticked[h][r] = two[r]
        BY <1>5, <1>12
      <3>3. \/ one[r] = e
            \/ one[r].stage = "FailedAfterRetries"
            \/ one[r].stage = "TimedOut"
        BY <1>2, EntryFields
      <3>4. Open(one[r]) \/ one[r].stage = "FailedAfterRetries"
        BY <1>12, <3>3 DEF Open, Terminal
      <3>5. two[r].stage = "FailedAfterRetries"
        BY <1>3, <3>1, <3>4, EntryFields
      <3> QED
        BY <1>12, <3>2, <3>5
    <2> QED
      BY <2>1, <2>2 DEF e, row
  <1> QED
    BY <1>8, <1>9, <1>10, <1>11, <1>12

\* The invariants make the deadline honest.
LEMMA LineInvHonest == TypeInv /\ LineInv => DeadlineIsHonest
  <1> SUFFICES ASSUME TypeInv, LineInv, NEW h \in Handles
               PROVE  /\ 0 \in Deadlines(in_flight[h]) => Ticked[h] # in_flight[h]
                      /\ Ticked[h] # in_flight[h] =>
                            \/ 0 \in Deadlines(in_flight[h])
                            \/ \E r \in Relays : Stranded(h, r)
    BY DEF DeadlineIsHonest
  <1>1. \A r \in Relays :
           /\ HasWork(in_flight[h], r) => Ticked[h][r] # in_flight[h][r]
           /\ Ticked[h][r] # in_flight[h][r] =>
                 HasWork(in_flight[h], r) \/ Stranded(h, r)
    BY TickWorks DEF LineInv
  <1>2. in_flight[h] = [r \in Relays |-> in_flight[h][r]]
    BY DEF TypeInv, GoodTable, GoodRows
  <1>3. Ticked[h] = [r \in Relays |-> Ticked[h][r]]
    BY DEF Ticked, DispatchAll, DispatchDue
  <1>4. Ticked[h] # in_flight[h]
            <=> \E r \in Relays : Ticked[h][r] # in_flight[h][r]
    BY <1>2, <1>3
  <1> QED
    BY <1>1, <1>4, DeadlineSeesWork

\* next_deadline_ms is honest: whatever answers, timeouts, lost connections,
\* authentication demands, crashes, stops, starts (also of an actor that runs)
\* and failed writes came before, a row whose deadline has been reached is
\* changed by the next tick, and a row a tick changes has reached its deadline
\* or has an entry stranded in flight on a relay that cannot answer.
THEOREM DeadlinesAreHonest == Spec => []DeadlineIsHonest
  <1>1. TypeInv /\ LineInv /\ [Next]_vars => TypeInv' /\ LineInv'
    BY TypeInvStep, LineInvStep
  <1> QED
    BY <1>1, TypeInvInit, LineInvInit, LineInvHonest, PTL DEF Spec


=============================================================================
