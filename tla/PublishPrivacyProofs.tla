------------------------ MODULE PublishPrivacyProofs ------------------------
(***************************************************************************)
(* A private envelope is only ever sent to pinned inbox relays, whatever    *)
(* the store, the relays and the process do.                                *)
(***************************************************************************)
EXTENDS PublishEngineProofs

USE PrivateAssumption

-----------------------------------------------------------------------------
(* The invariant is about the records too: a restart sends from them.       *)

Contacted == {"InFlight", "Ok", "RelayError", "TimedOut"}

PinnedRow(row) ==
    \A r \in Relays : row[r].stage \in Contacted => row[r].pinned = TRUE

PinInv ==
    \A h \in PrivateHandles : PinnedRow(in_flight[h]) /\ PinnedRow(store[h])

LEMMA NoRowPinned == PinnedRow(NoRow)
  BY DEF PinnedRow, NoRow, Absent, Entry, Contacted

LEMMA PlannedPinned ==
    ASSUME NEW targets, NEW pins
    PROVE  PinnedRow(Planned(targets, pins))
  BY DEF PinnedRow, Planned, Absent, Entry, Contacted

LEMMA RetargetedPinned ==
    ASSUME NEW row, PinnedRow(row), NEW targets, NEW pins
    PROVE  PinnedRow(Retargeted(row, targets, pins))
  BY DEF PinnedRow, Retargeted, Entry, Contacted

\* The gate: what leaves dispatch_due in flight passed it.
LEMMA SanctionedPinned ==
    ASSUME NEW h \in PrivateHandles, NEW e \in GoodEntries, Sanctioned(h, e)
    PROVE  e.pinned = TRUE
  <1>1. e.pinned \in BOOLEAN
    BY GoodFields
  <1>2. e.pinned
    BY DEF Sanctioned
  <1> QED
    BY <1>1, <1>2, Zenon

LEMMA DispatchPinned ==
    ASSUME NEW rows \in GoodTable, NEW picked, NEW filter, NEW modes,
           NEW h \in PrivateHandles, PinnedRow(rows[h])
    PROVE  PinnedRow(DispatchAll(rows, picked, filter, modes)[h])
  <1> DEFINE sent == DispatchAll(rows, picked, filter, modes)[h]
  <1> SUFFICES ASSUME NEW r \in Relays, sent[r].stage \in Contacted
               PROVE  sent[r].pinned = TRUE
    BY DEF PinnedRow
  <1>0. h \in Handles
    OBVIOUS
  <1>1. rows[h][r] \in GoodEntries
    BY <1>0 DEF GoodTable, GoodRows
  <1>2. sent[r] = rows[h][r] \/ sent[r] = Dispatched(h, rows[h][r])
    BY <1>0 DEF DispatchAll, DispatchDue
  <1>3. CASE sent[r] = rows[h][r]
    <2> HIDE DEF sent
    <2> QED
      BY <1>3 DEF PinnedRow
  <1>4. CASE sent[r] = Dispatched(h, rows[h][r])
    <2> HIDE DEF sent
    <2>1. Sanctioned(h, rows[h][r])
      BY <1>4 DEF Dispatched, Entry, Contacted
    <2>2. sent[r].pinned = rows[h][r].pinned
      BY <1>4, <2>1 DEF Dispatched, Entry
    <2> QED
      BY <1>1, <2>1, <2>2, SanctionedPinned
  <1> QED
    BY <1>2, <1>3, <1>4

LEMMA SweepPinned ==
    ASSUME NEW row, PinnedRow(row)
    PROVE  PinnedRow(SweepUnavailableTimeouts(SweepInflightTimeouts(row)))
  <1>1. PinnedRow(SweepInflightTimeouts(row))
    BY DEF PinnedRow, SweepInflightTimeouts, Entry, Contacted
  <1>2. ASSUME NEW a, PinnedRow(a)
        PROVE  PinnedRow(SweepUnavailableTimeouts(a))
    BY <1>2 DEF PinnedRow, SweepUnavailableTimeouts, Entry, Contacted
  <1> QED
    BY <1>1, <1>2

LEMMA DemotedPinned ==
    ASSUME NEW rows, NEW relay, NEW h \in Handles, PinnedRow(rows[h])
    PROVE  PinnedRow(Demoted(rows, relay)[h])
  BY DEF PinnedRow, Demoted, Entry, Contacted

LEMMA AnsweredPinned ==
    ASSUME NEW row \in GoodRows, PinnedRow(row), NEW q \in Relays, NEW answer
    PROVE  PinnedRow([row EXCEPT ![q] = ApplyAck(@, answer)])
  BY DEF PinnedRow, GoodRows, ApplyAck, Entry, Contacted

LEMMA UnhurriedPinned ==
    ASSUME NEW row \in GoodRows, PinnedRow(row)
    PROVE  PinnedRow(Unhurried(row))
  <1> SUFFICES ASSUME NEW r \in Relays, Unhurried(row)[r].stage \in Contacted
               PROVE  Unhurried(row)[r].pinned = TRUE
    BY DEF PinnedRow
  <1>1. row[r] \in GoodEntries
    BY DEF GoodRows
  <1> QED
    BY <1>1, GoodFields DEF PinnedRow, Unhurried

LEMMA AgedPinned ==
    ASSUME NEW rows \in GoodTable, NEW h \in Handles, PinnedRow(rows[h])
    PROVE  PinnedRow(Aged(rows)[h])
  <1> SUFFICES ASSUME NEW r \in Relays, Aged(rows)[h][r].stage \in Contacted
               PROVE  Aged(rows)[h][r].pinned = TRUE
    BY DEF PinnedRow
  <1>1. rows[h][r] \in GoodEntries
    BY DEF GoodTable, GoodRows
  <1> QED
    BY <1>1, GoodFields DEF PinnedRow, Aged

\* finalize_completed_rows only removes rows and records.
LEMMA FinalizePinned ==
    ASSUME NEW rows, NEW picked, NEW cids, NEW disk,
           Finalize(rows, picked, cids, disk),
           \A h \in PrivateHandles : PinnedRow(rows[h]) /\ PinnedRow(disk[h])
    PROVE  PinInv'
  BY NoRowPinned DEF Finalize, PinInv

LEMMA DemotePinned ==
    ASSUME PinInv, NEW relay, Demote(relay)
    PROVE  PinInv'
  BY DemotedPinned DEF PinInv, Demote

\* The induction step: one case per call of the engine.
LEMMA PinStep ==
    TypeInv /\ PinInv /\ [Next]_vars => PinInv'
  <1> SUFFICES ASSUME TypeInv, PinInv, [Next]_vars
               PROVE  PinInv'
    OBVIOUS
  <1>0. in_flight \in GoodTable /\ store \in GoodTable
    BY DEF TypeInv
  <1>a. \A h \in PrivateHandles :
           /\ h \in Handles
           /\ PinnedRow(in_flight[h]) /\ PinnedRow(store[h])
           /\ in_flight[h] \in GoodRows
    BY <1>0 DEF PinInv, GoodTable
  <1>1. ASSUME NEW g \in Handles, NEW cid, NEW targets, NEW pins,
               StartPublish(g, targets, pins, cid)
        PROVE  PinInv'
    <2> DEFINE row  == Planned(targets, pins)
               rows == [in_flight EXCEPT ![g] = row]
               disk == [store EXCEPT ![g] = row]
               cids == [override EXCEPT ![g] = cid]
               sent == DispatchAll(rows, {g}, Relays, unavailable)
    <2>1. Finalize(sent, {g}, cids, disk)
      BY <1>1 DEF StartPublish
    <2>2. row \in GoodRows /\ PinnedRow(row)
      BY PlannedGood, PlannedPinned
    <2> HIDE DEF row
    <2>3. rows \in GoodTable
      BY <1>0, <2>2 DEF GoodTable
    <2>4. \A h \in PrivateHandles : PinnedRow(rows[h]) /\ PinnedRow(disk[h])
      BY <1>0, <1>a, <2>2 DEF GoodTable
    <2> HIDE DEF rows, disk, cids
    <2>5. \A h \in PrivateHandles : PinnedRow(sent[h])
      BY <2>3, <2>4, DispatchPinned
    <2> HIDE DEF sent
    <2> QED
      BY <2>1, <2>4, <2>5, FinalizePinned
  <1>2. ASSUME NEW g \in Handles, NEW cid, NEW targets, NEW pins,
               StartPublishStoreError(g, targets, pins, cid)
        PROVE  PinInv'
    BY <1>0, <1>2, <1>a, PlannedPinned DEF StartPublishStoreError, PinInv, GoodTable
  <1>3. ASSUME NEW g \in Handles, NEW cid, StartPublishNoTargets(g, cid)
        PROVE  PinInv'
    BY <1>3 DEF StartPublishNoTargets, PinInv
  <1>4. ASSUME NEW g \in Handles, NEW q \in Relays, NEW answer \in Answers,
               OnAck(g, q, answer)
        PROVE  PinInv'
    <2>1. CASE ParkAwaitingAuth(g, q)
      BY <2>1, DemotePinned DEF ParkAwaitingAuth
    <2>2. CASE FoldAnswer(g, q, answer)
      <3> DEFINE row  == [in_flight[g] EXCEPT ![q] = ApplyAck(@, answer)]
                 rows == [in_flight EXCEPT ![g] = row]
      <3>1. g \in PrivateHandles => PinnedRow(row)
        BY <1>a, AnsweredPinned
      <3>2. \/ Finalize(rows, {g}, override, store)
            \/ /\ in_flight' = rows
               /\ store' = store \/ store' = [store EXCEPT ![g] = row]
        BY <2>2 DEF FoldAnswer, Upsert
      <3> HIDE DEF row
      <3>3. \A h \in PrivateHandles : PinnedRow(rows[h])
        BY <1>0, <1>a, <3>1 DEF GoodTable
      <3>4. CASE Finalize(rows, {g}, override, store)
        <4> HIDE DEF rows
        <4> QED
          BY <1>a, <3>3, <3>4, FinalizePinned
      <3>5. CASE /\ in_flight' = rows
                 /\ store' = store \/ store' = [store EXCEPT ![g] = row]
        <4>1. \A h \in PrivateHandles : PinnedRow(store'[h])
          BY <1>0, <1>a, <3>1, <3>5 DEF GoodTable
        <4> QED
          BY <3>3, <3>5, <4>1 DEF PinInv
      <3> QED
        BY <3>2, <3>4, <3>5
    <2> QED
      BY <1>4, <2>1, <2>2 DEF OnAck
  <1>5. ASSUME NEW g \in Handles, RetryNow(g)
        PROVE  PinInv'
    <2> DEFINE row  == Unhurried(in_flight[g])
               rows == [in_flight EXCEPT ![g] = row]
               disk == [store EXCEPT ![g] = row]
               sent == DispatchAll(rows, {g}, Relays, unavailable)
    <2>1. \/ Finalize(sent, {g}, override, disk)
          \/ in_flight' = rows /\ UNCHANGED store
      BY <1>5 DEF RetryNow
    <2>2. row \in GoodRows
      BY <1>0, UnhurriedGood DEF GoodTable
    <2>3. g \in PrivateHandles => PinnedRow(row)
      BY <1>a, UnhurriedPinned
    <2> HIDE DEF row
    <2>4. rows \in GoodTable
      BY <1>0, <2>2 DEF GoodTable
    <2>5. \A h \in PrivateHandles : PinnedRow(rows[h]) /\ PinnedRow(disk[h])
      BY <1>0, <1>a, <2>3 DEF GoodTable
    <2> HIDE DEF rows, disk
    <2>6. \A h \in PrivateHandles : PinnedRow(sent[h])
      BY <2>4, <2>5, DispatchPinned
    <2> HIDE DEF sent
    <2>7. CASE Finalize(sent, {g}, override, disk)
      BY <2>5, <2>6, <2>7, FinalizePinned
    <2>8. CASE in_flight' = rows /\ UNCHANGED store
      BY <1>a, <2>5, <2>8 DEF PinInv
    <2> QED
      BY <2>1, <2>7, <2>8
  <1>6. ASSUME NEW g \in Handles, CancelByHandle(g, override[g])
        PROVE  PinInv'
    <2>1. \A h \in PrivateHandles :
             /\ in_flight'[h] \in {NoRow, in_flight[h]}
             /\ store'[h] \in {NoRow, store[h]}
      BY <1>0, <1>6, <1>a DEF CancelByHandle, Delete, GoodTable
    <2> QED
      BY <1>a, <2>1, NoRowPinned DEF PinInv
  <1>7. ASSUME NEW relay \in Relays, MarkRelayAvailable(relay)
        PROVE  PinInv'
    <2>1. PICK found, pins, ok :
             LET rows == [g \in Handles |->
                             Retargeted(in_flight[g], found[g], pins[g])]
             IN  Finalize(DispatchAll(rows, Handles, {relay}, unavailable'),
                          Handles, override, PersistRetargeted(rows, ok))
      BY <1>7 DEF MarkRelayAvailable
    <2> DEFINE rows == [g \in Handles |->
                           Retargeted(in_flight[g], found[g], pins[g])]
               sent == DispatchAll(rows, Handles, {relay}, unavailable')
               disk == PersistRetargeted(rows, ok)
    <2>2. Finalize(sent, Handles, override, disk)
      BY <2>1
    <2>3. rows \in GoodTable
      BY <1>0, RetargetedGood DEF GoodTable
    <2>4. \A h \in PrivateHandles : PinnedRow(rows[h])
      BY <1>a, RetargetedPinned
    <2> HIDE DEF rows
    <2>5. \A h \in PrivateHandles : PinnedRow(disk[h])
      BY <1>a, <2>4 DEF PersistRetargeted
    <2> HIDE DEF disk
    <2>6. \A h \in PrivateHandles : PinnedRow(sent[h])
      BY <2>3, <2>4, DispatchPinned
    <2> HIDE DEF sent
    <2> QED
      BY <2>2, <2>5, <2>6, FinalizePinned
  <1>8. ASSUME NEW relay \in Relays, MarkRelayUnavailable(relay)
        PROVE  PinInv'
    BY <1>8, DemotePinned DEF MarkRelayUnavailable
  <1>9. CASE Tick
    <2>1. Finalize(Ticked, Handles, override, store)
      BY <1>9 DEF Tick
    <2>2. Swept \in GoodTable
      BY <1>0, SweepInflightGood, SweepUnavailableGood DEF Swept, GoodTable
    <2>3. \A h \in PrivateHandles : PinnedRow(Swept[h])
      BY <1>a, SweepPinned DEF Swept
    <2>4. \A h \in PrivateHandles : PinnedRow(Ticked[h])
      BY <2>2, <2>3, DispatchPinned DEF Ticked
    <2> QED
      BY <1>a, <2>1, <2>4, FinalizePinned
  <1>10. CASE Start
    <2> DEFINE pend == LoadPending
               rows == [h \in Handles |-> IF h \in pend THEN store[h]
                                                       ELSE in_flight[h]]
               cids == [h \in Handles |-> IF h \in pend THEN NoCid
                                                       ELSE override[h]]
               sent == DispatchAll(rows, pend, Relays, unavailable)
    <2>1. Finalize(sent, pend, cids, store) \/ UNCHANGED <<in_flight, store>>
      BY <1>10 DEF Start, ResumeFromStore
    <2>2. rows \in GoodTable /\ \A h \in PrivateHandles : PinnedRow(rows[h])
      BY <1>0, <1>a DEF GoodTable
    <2> HIDE DEF pend, rows, cids
    <2>3. \A h \in PrivateHandles : PinnedRow(sent[h])
      BY <2>2, DispatchPinned
    <2> HIDE DEF sent
    <2>4. CASE Finalize(sent, pend, cids, store)
      BY <1>a, <2>3, <2>4, FinalizePinned
    <2>5. CASE UNCHANGED <<in_flight, store>>
      BY <2>5 DEF PinInv
    <2> QED
      BY <2>1, <2>4, <2>5
  <1>11. CASE Stop
    BY <1>11 DEF Stop, PinInv
  <1>12. CASE Crash
    BY <1>12, <1>a, NoRowPinned DEF Crash, PinInv
  <1>13. CASE TimePass
    BY <1>0, <1>13, <1>a, AgedPinned DEF TimePass, PinInv
  <1>14. CASE UNCHANGED vars
    BY <1>14 DEF vars, PinInv
  <1> QED
    BY <1>1, <1>2, <1>3, <1>4, <1>5, <1>6, <1>7, <1>8, <1>9, <1>10, <1>11,
       <1>12, <1>13, <1>14 DEF Next

\* The privacy gate holds for every number of publishes and relays, and needs
\* no assumption on the store: neither a failed write, a stale record resumed
\* after a crash, a retry nor a retarget sends a private envelope to a relay
\* that is not a verified inbox of its recipient.
THEOREM PrivatePinned == Spec => []PrivateStaysPinned
  <1>1. Init => PinInv
    BY NoRowPinned DEF Init, PinInv
  <1>2. PinInv => PrivateStaysPinned
    BY Zenon DEF PinInv, PinnedRow, Contacted, PrivateStaysPinned
  <1> QED
    BY <1>1, <1>2, TypeInvInit, TypeInvStep, PinStep, PTL DEF Spec

=============================================================================
