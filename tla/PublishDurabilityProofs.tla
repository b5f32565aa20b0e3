---------------------- MODULE PublishDurabilityProofs ----------------------
(***************************************************************************)
(* Theorems about the rows and the durable records of the publish engine.   *)
(***************************************************************************)
EXTENDS PublishEngineProofs

-----------------------------------------------------------------------------
(* A completed row never outlives the call that completed it.               *)

\* HasRow and IsComplete look at stages only, and at InFlight and Pending alike.
LEMMA SameStages ==
    ASSUME NEW a, NEW b,
           \A r \in Relays : \/ a[r].stage = b[r].stage
                             \/ /\ a[r].stage = "InFlight"
                                /\ b[r].stage = "Pending"
    PROVE  /\ HasRow(a) <=> HasRow(b)
           /\ IsComplete(a) <=> IsComplete(b)
  BY DEF HasRow, IsComplete, Open, Terminal

LEMMA NoRowEmpty == ~HasRow(NoRow) /\ IsComplete(NoRow)
  BY DEF HasRow, IsComplete, NoRow, Absent, Entry, Open, Terminal

\* An incomplete row is a row.
LEMMA IncompleteIsRow ==
    ASSUME NEW row, ~IsComplete(row)
    PROVE  HasRow(row)
  BY DEF HasRow, IsComplete, Open

LEMMA UnpickedUntouched ==
    ASSUME NEW rows, NEW picked, NEW filter, NEW modes,
           NEW h \in Handles, h \notin picked
    PROVE  DispatchAll(rows, picked, filter, modes)[h] = rows[h]
  BY DEF DispatchAll

LEMMA AgedStages ==
    ASSUME NEW rows \in GoodTable, NEW h \in Handles, NEW r \in Relays
    PROVE  Aged(rows)[h][r].stage = rows[h][r].stage
  <1>1. rows[h][r] \in GoodEntries
    BY DEF GoodTable, GoodRows
  <1> QED
    BY <1>1, GoodFields DEF Aged

LEMMA UnhurriedStages ==
    ASSUME NEW row \in GoodRows, NEW r \in Relays
    PROVE  Unhurried(row)[r].stage = row[r].stage
  <1>1. row[r] \in GoodEntries
    BY DEF GoodRows
  <1> QED
    BY <1>1, GoodFields DEF Unhurried

LEMMA DemotedStages ==
    ASSUME NEW rows \in GoodTable, NEW relay, NEW h \in Handles,
           NEW r \in Relays
    PROVE  \/ rows[h][r].stage = Demoted(rows, relay)[h][r].stage
           \/ /\ rows[h][r].stage = "InFlight"
              /\ Demoted(rows, relay)[h][r].stage = "Pending"
  BY DEF Demoted, Entry

\* If every row outside the picked ones was open, so is every row that is left.
LEMMA FinalizeLeavesOpen ==
    ASSUME NEW rows, NEW picked \in SUBSET Handles, NEW cids, NEW disk,
           Finalize(rows, picked, cids, disk),
           \A h \in Handles \ picked : HasRow(rows[h]) => ~IsComplete(rows[h])
    PROVE  NoCompletedRowLingers'
  <1> SUFFICES ASSUME NEW h \in Handles, HasRow(in_flight'[h])
               PROVE  ~IsComplete(in_flight'[h])
    BY DEF NoCompletedRowLingers
  <1>1. in_flight'[h] = IF h \in Completed(rows, picked) THEN NoRow ELSE rows[h]
    BY DEF Finalize
  <1>2. h \notin Completed(rows, picked)
    BY <1>1, NoRowEmpty
  <1> QED
    BY <1>1, <1>2 DEF Completed

LEMMA OpenStep ==
    TypeInv /\ NoCompletedRowLingers /\ [Next]_vars => NoCompletedRowLingers'
  <1> SUFFICES ASSUME TypeInv, NoCompletedRowLingers, [Next]_vars
               PROVE  NoCompletedRowLingers'
    OBVIOUS
  <1>0. in_flight \in GoodTable /\ store \in GoodTable
    BY DEF TypeInv
  <1>a. \A h \in Handles : HasRow(in_flight[h]) => ~IsComplete(in_flight[h])
    BY DEF NoCompletedRowLingers
  <1>b. ASSUME NEW relay, Demote(relay)
        PROVE  NoCompletedRowLingers'
    BY <1>0, <1>a, <1>b, DemotedStages, SameStages DEF Demote, NoCompletedRowLingers
  <1>1. ASSUME NEW h \in Handles, NEW cid, NEW targets, NEW pins,
               StartPublish(h, targets, pins, cid)
        PROVE  NoCompletedRowLingers'
    <2> DEFINE rows == [in_flight EXCEPT ![h] = Planned(targets, pins)]
               sent == DispatchAll(rows, {h}, Relays, unavailable)
    <2>1. Finalize(sent, {h}, [override EXCEPT ![h] = cid],
                   [store EXCEPT ![h] = Planned(targets, pins)])
      BY <1>1 DEF StartPublish
    <2>2. \A g \in Handles \ {h} : rows[g] = in_flight[g]
      OBVIOUS
    <2>3. \A g \in Handles \ {h} : sent[g] = in_flight[g]
      <3> HIDE DEF rows
      <3> QED BY <2>2, UnpickedUntouched
    <2> QED
      <3> HIDE DEF sent
      <3> QED BY <1>a, <2>1, <2>3, FinalizeLeavesOpen
  <1>2. ASSUME NEW h \in Handles, NEW cid, NEW targets \in SUBSET Relays,
               NEW pins, StartPublishStoreError(h, targets, pins, cid)
        PROVE  NoCompletedRowLingers'
    <2>1. ~IsComplete(Planned(targets, pins))
      BY <1>2 DEF StartPublishStoreError, IsComplete, Planned, Open, Entry,
                  Terminal
    <2> QED
      BY <1>0, <1>a, <1>2, <2>1
         DEF StartPublishStoreError, NoCompletedRowLingers, GoodTable
  <1>3. ASSUME NEW h \in Handles, NEW cid, StartPublishNoTargets(h, cid)
        PROVE  NoCompletedRowLingers'
    BY <1>a, <1>3 DEF StartPublishNoTargets, NoCompletedRowLingers
  <1>4. ASSUME NEW h \in Handles, NEW r \in Relays, NEW answer \in Answers,
               OnAck(h, r, answer)
        PROVE  NoCompletedRowLingers'
    <2>1. CASE ParkAwaitingAuth(h, r)
      BY <1>b, <2>1 DEF ParkAwaitingAuth
    <2>2. CASE FoldAnswer(h, r, answer)
      <3> DEFINE row  == [in_flight[h] EXCEPT ![r] = ApplyAck(@, answer)]
                 rows == [in_flight EXCEPT ![h] = row]
      <3>1. \A g \in Handles \ {h} : rows[g] = in_flight[g]
        OBVIOUS
      <3>2. CASE IsComplete(row)
        <4>1. Finalize(rows, {h}, override, store)
          BY <2>2, <3>2 DEF FoldAnswer
        <4> QED
          <5> HIDE DEF rows
          <5> QED BY <1>a, <3>1, <4>1, FinalizeLeavesOpen
      <3>3. CASE ~IsComplete(row)
        <4>1. in_flight' = rows
          BY <2>2, <3>3 DEF FoldAnswer
        <4>2. rows[h] = row
          BY <1>0 DEF GoodTable
        <4> QED
          <5> HIDE DEF row, rows
          <5> QED BY <1>a, <3>1, <3>3, <4>1, <4>2 DEF NoCompletedRowLingers
      <3> QED
        BY <3>2, <3>3
    <2> QED
      BY <1>4, <2>1, <2>2 DEF OnAck
  <1>5. ASSUME NEW h \in Handles, RetryNow(h)
        PROVE  NoCompletedRowLingers'
    <2> DEFINE row  == Unhurried(in_flight[h])
               rows == [in_flight EXCEPT ![h] = row]
               sent == DispatchAll(rows, {h}, Relays, unavailable)
    <2>1. CASE Finalize(sent, {h}, override, [store EXCEPT ![h] = row])
      <3>1. \A g \in Handles \ {h} : rows[g] = in_flight[g]
        OBVIOUS
      <3>2. \A g \in Handles \ {h} : sent[g] = in_flight[g]
        <4> HIDE DEF rows
        <4> QED BY <3>1, UnpickedUntouched
      <3> QED
        <4> HIDE DEF sent
        <4> QED BY <1>a, <2>1, <3>2, FinalizeLeavesOpen
    <2>2. CASE in_flight' = rows
      <3>1. HasRow(row) => ~IsComplete(row)
        <4>1. \A r \in Relays : row[r].stage = in_flight[h][r].stage
          BY <1>0, UnhurriedStages DEF GoodTable
        <4> HIDE DEF row
        <4>2. HasRow(row) <=> HasRow(in_flight[h])
          BY <4>1, SameStages
        <4>3. IsComplete(row) <=> IsComplete(in_flight[h])
          BY <4>1, SameStages
        <4> QED
          BY <1>a, <4>2, <4>3
      <3> QED
        BY <1>0, <1>a, <2>2, <3>1 DEF NoCompletedRowLingers, GoodTable
    <2> QED
      BY <1>5, <2>1, <2>2 DEF RetryNow
  <1>6. ASSUME NEW h \in Handles, CancelByHandle(h, override[h])
        PROVE  NoCompletedRowLingers'
    BY <1>0, <1>a, <1>6, NoRowEmpty
       DEF CancelByHandle, NoCompletedRowLingers, GoodTable
  <1>7. ASSUME NEW r \in Relays, MarkRelayAvailable(r)
        PROVE  NoCompletedRowLingers'
    <2>1. PICK rows, disk : Finalize(rows, Handles, override, disk)
      BY <1>7 DEF MarkRelayAvailable
    <2> QED
      BY <2>1, FinalizeLeavesOpen
  <1>8. ASSUME NEW r \in Relays, MarkRelayUnavailable(r)
        PROVE  NoCompletedRowLingers'
    BY <1>b, <1>8 DEF MarkRelayUnavailable
  <1>9. CASE Tick
    BY <1>9, FinalizeLeavesOpen DEF Tick
  <1>10. CASE Start
    <2>1. CASE ResumeFromStore
      <3> DEFINE pend == LoadPending
                 rows == [h \in Handles |-> IF h \in pend THEN store[h]
                                                         ELSE in_flight[h]]
                 cids == [h \in Handles |-> IF h \in pend THEN NoCid
                                                         ELSE override[h]]
                 sent == DispatchAll(rows, pend, Relays, unavailable)
      <3>1. Finalize(sent, pend, cids, store)
        BY <2>1 DEF ResumeFromStore
      <3>2. \A h \in Handles \ pend : sent[h] = in_flight[h]
        BY UnpickedUntouched
      <3>3. pend \in SUBSET Handles
        BY DEF LoadPending
      <3> QED
        <4> HIDE DEF sent, pend, cids
        <4> QED BY <1>a, <3>1, <3>2, <3>3, FinalizeLeavesOpen
    <2>2. CASE UNCHANGED in_flight
      BY <1>a, <2>2 DEF NoCompletedRowLingers
    <2> QED
      BY <1>10, <2>1, <2>2 DEF Start
  <1>11. CASE Stop
    BY <1>a, <1>11 DEF Stop, NoCompletedRowLingers
  <1>12. CASE Crash
    BY <1>12, NoRowEmpty DEF Crash, NoCompletedRowLingers
  <1>13. CASE TimePass
    <2> SUFFICES ASSUME NEW h \in Handles, HasRow(in_flight'[h])
                 PROVE  ~IsComplete(in_flight'[h])
      BY DEF NoCompletedRowLingers
    <2>1. in_flight' = Aged(in_flight)
      BY <1>13 DEF TimePass
    <2>2. \A r \in Relays : in_flight[h][r].stage = in_flight'[h][r].stage
      BY <1>0, <2>1, AgedStages
    <2> QED
      BY <1>a, <2>2, SameStages
  <1>14. CASE UNCHANGED vars
    BY <1>a, <1>14 DEF vars, NoCompletedRowLingers
  <1> QED
    BY <1>1, <1>2, <1>3, <1>4, <1>5, <1>6, <1>7, <1>8, <1>9, <1>10, <1>11,
       <1>12, <1>13, <1>14 DEF Next

\* Whichever path settles the last relay of a publish, its row is gone when the
\* call returns: for any number of publishes and relays, and even if every
\* store write fails.
THEOREM NoLinger == Spec => []NoCompletedRowLingers
  <1>1. Init => NoCompletedRowLingers
    BY NoRowEmpty DEF Init, NoCompletedRowLingers
  <1> QED
    BY <1>1, TypeInvInit, TypeInvStep, OpenStep, PTL DEF Spec

-----------------------------------------------------------------------------
(* The write-through, as long as store writes succeed.                      *)

LEMMA AgreesRefl ==
    ASSUME NEW row
    PROVE  Agrees(row, row)
  BY DEF Agrees

LEMMA AgreesHasRow ==
    ASSUME NEW a, NEW b, Agrees(a, b)
    PROVE  HasRow(a) <=> HasRow(b)
  BY DEF Agrees, HasRow

\* What a pass does to a row in memory keeps it in agreement with a record.
LEMMA DispatchAgrees ==
    ASSUME NEW record, NEW row, NEW h, NEW filter, NEW modes,
           Agrees(record, row)
    PROVE  Agrees(record, DispatchDue(h, row, filter, modes))
  <1> SUFFICES ASSUME NEW r \in Relays
               PROVE LET e == DispatchDue(h, row, filter, modes)[r]
                     IN  /\ record[r].stage = "Absent" <=> e.stage = "Absent"
                         /\ IsTerminal(record[r]) => e.stage = record[r].stage
                         /\ e.stage = "Ok" => record[r].stage = "Ok"
    BY DEF Agrees
  <1>1. CASE r \in Due(row, filter, modes)
    <2>1. row[r].stage \in {"Pending", "RelayError", "TimedOut"}
      BY <1>1 DEF Due, Ready
    <2>2. Dispatched(h, row[r]).stage \in {"InFlight", "FailedAfterRetries"}
      BY DEF Dispatched, Entry
    <2> QED
      BY <1>1, <2>1, <2>2 DEF DispatchDue, Agrees, IsTerminal, Terminal
  <1>2. CASE r \notin Due(row, filter, modes)
    BY <1>2 DEF DispatchDue, Agrees
  <1> QED
    BY <1>1, <1>2

LEMMA DispatchAllAgrees ==
    ASSUME NEW record, NEW rows, NEW picked, NEW filter, NEW modes,
           NEW h \in Handles, Agrees(record, rows[h])
    PROVE  Agrees(record, DispatchAll(rows, picked, filter, modes)[h])
  BY DispatchAgrees DEF DispatchAll

LEMMA SweepInflightAgrees ==
    ASSUME NEW record, NEW row, Agrees(record, row)
    PROVE  Agrees(record, SweepInflightTimeouts(row))
  BY DEF Agrees, SweepInflightTimeouts, IsTerminal, Terminal, Entry

LEMMA SweepUnavailableAgrees ==
    ASSUME NEW record, NEW row, Agrees(record, row)
    PROVE  Agrees(record, SweepUnavailableTimeouts(row))
  BY DEF Agrees, SweepUnavailableTimeouts, IsTerminal, Open, Terminal, Entry

LEMMA TickedAgrees ==
    ASSUME NEW record, NEW h \in Handles, Agrees(record, in_flight[h])
    PROVE  Agrees(record, Ticked[h])
  <1>1. Agrees(record, Swept[h])
    BY SweepInflightAgrees, SweepUnavailableAgrees DEF Swept
  <1> QED
    BY <1>1, DispatchAllAgrees DEF Ticked

LEMMA DemotedAgrees ==
    ASSUME NEW record, NEW relay, NEW h \in Handles,
           Agrees(record, in_flight[h])
    PROVE  Agrees(record, Demoted(in_flight, relay)[h])
  BY DEF Agrees, Demoted, IsTerminal, Terminal, Entry

\* Finalize, with every delete succeeding, establishes the write-through.
LEMMA FinalizeWriteThrough ==
    ASSUME ~StoreMayFail,
           NEW rows, NEW picked \in SUBSET Handles, NEW cids, NEW disk,
           Finalize(rows, picked, cids, disk),
           \A h \in Handles :
               /\ h \notin Completed(rows, picked) /\ HasRow(rows[h])
                     => Agrees(disk[h], rows[h])
               /\ disk[h] # NoRow => ~IsComplete(disk[h])
               /\ running' /\ disk[h] # NoRow => HasRow(rows[h])
    PROVE  WriteThrough'
  <1> SUFFICES ASSUME NEW h \in Handles
               PROVE  /\ HasRow(in_flight'[h]) => Agrees(store'[h], in_flight'[h])
                      /\ store'[h] # NoRow => ~IsComplete(store'[h])
                      /\ running' /\ store'[h] # NoRow => HasRow(in_flight'[h])
    BY DEF WriteThrough, LoadPending
  <1>1. in_flight'[h] = IF h \in Completed(rows, picked) THEN NoRow ELSE rows[h]
    BY DEF Finalize
  <1>2. store'[h] = IF h \in Completed(rows, picked) THEN NoRow ELSE disk[h]
    BY DEF Finalize, Commits, Completed
  <1> QED
    BY <1>1, <1>2, NoRowEmpty

\* Demotion walks sent entries back and persists the rows it changed.
LEMMA DemoteWriteThrough ==
    ASSUME ~StoreMayFail, TypeInv, WriteThrough, NEW relay \in Relays,
           Demote(relay), UNCHANGED running
    PROVE  WriteThrough'
  <1> SUFFICES ASSUME NEW h \in Handles
               PROVE  /\ HasRow(in_flight'[h]) => Agrees(store'[h], in_flight'[h])
                      /\ store'[h] # NoRow => ~IsComplete(store'[h])
                      /\ running' /\ store'[h] # NoRow => HasRow(in_flight'[h])
    BY DEF WriteThrough, LoadPending
  <1> DEFINE row == Demoted(in_flight, relay)[h]
  <1>0. in_flight \in GoodTable
    BY DEF TypeInv
  <1>1. in_flight'[h] = row
    BY DEF Demote
  <1>2. store'[h] = IF in_flight[h][relay].stage = "InFlight"
                    THEN row ELSE store[h]
    BY DEF Demote, Commits
  <1>3. HasRow(in_flight[h]) <=> HasRow(row)
    BY <1>0, DemotedStages, SameStages
  <1>4. CASE in_flight[h][relay].stage = "InFlight"
    <2>1. row[relay].stage = "Pending"
      BY <1>4 DEF Demoted, Entry
    <2>2. ~IsComplete(row) /\ HasRow(row)
      BY <2>1, IncompleteIsRow DEF IsComplete, Open, Terminal
    <2> QED
      <3> HIDE DEF row
      <3> QED BY <1>1, <1>2, <1>4, <2>2, AgreesRefl
  <1>5. CASE in_flight[h][relay].stage # "InFlight"
    <2>1. HasRow(in_flight[h]) => Agrees(store[h], row)
      BY DemotedAgrees DEF WriteThrough
    <2> QED
      <3> HIDE DEF row
      <3> QED BY <1>1, <1>2, <1>3, <1>5, <2>1 DEF WriteThrough, LoadPending
  <1> QED
    BY <1>4, <1>5

\* Time changes no stage.
LEMMA AgedWriteThrough ==
    ASSUME TypeInv, WriteThrough, TimePass
    PROVE  WriteThrough'
  <1> SUFFICES ASSUME NEW h \in Handles
               PROVE  /\ HasRow(in_flight'[h]) => Agrees(store'[h], in_flight'[h])
                      /\ store'[h] # NoRow => ~IsComplete(store'[h])
                      /\ running' /\ store'[h] # NoRow => HasRow(in_flight'[h])
    BY DEF WriteThrough, LoadPending
  <1>1. \A r \in Relays : in_flight[h][r].stage = in_flight'[h][r].stage
    BY AgedStages DEF TimePass, TypeInv
  <1>2. \A r \in Relays : store[h][r].stage = store'[h][r].stage
    BY AgedStages DEF TimePass, TypeInv
  <1>3. store[h] = NoRow => store'[h] = NoRow
    <2>1. [Absent EXCEPT !.timer = Elapsed(@)] = Absent
      BY DEF Absent, Entry, Elapsed
    <2> SUFFICES ASSUME store[h] = NoRow
                 PROVE  store'[h] = NoRow
      OBVIOUS
    <2>2. store'[h] = [r \in Relays |->
                          [store[h][r] EXCEPT !.timer = Elapsed(@)]]
      BY DEF TimePass, Aged
    <2>3. \A r \in Relays : store[h][r] = Absent
      BY DEF NoRow
    <2> QED
      BY <2>1, <2>2, <2>3 DEF NoRow
  <1>4. /\ HasRow(in_flight[h]) <=> HasRow(in_flight'[h])
        /\ IsComplete(store[h]) <=> IsComplete(store'[h])
    BY <1>1, <1>2, SameStages
  <1>5. Agrees(store[h], in_flight[h]) => Agrees(store'[h], in_flight'[h])
    BY <1>1, <1>2 DEF Agrees, IsTerminal
  <1> QED
    BY <1>3, <1>4, <1>5 DEF WriteThrough, LoadPending, TimePass

LEMMA RetargetedAgrees ==
    ASSUME NEW row \in GoodRows, NEW targets, NEW pins,
           IsComplete(row) => targets = {},
           Retargeted(row, targets, pins) # row
    PROVE  ~IsComplete(Retargeted(row, targets, pins))
  <1>1. IsComplete(row) => Retargeted(row, targets, pins) = row
    BY DEF Retargeted, GoodRows
  <1>2. PICK r \in Relays : Open(row[r])
    BY <1>1 DEF IsComplete
  <1> QED
    BY <1>2 DEF IsComplete, Retargeted, Open

LEMMA RetargetedHasRow ==
    ASSUME NEW row, NEW targets, NEW pins, HasRow(row)
    PROVE  HasRow(Retargeted(row, targets, pins))
  BY DEF HasRow, Retargeted

LEMMA AvailableWriteThrough ==
    ASSUME ~StoreMayFail, TypeInv, WriteThrough, NEW relay \in Relays,
           MarkRelayAvailable(relay)
    PROVE  WriteThrough'
  <1>1. PICK found \in [Handles -> SUBSET Relays],
             pins \in [Handles -> SUBSET Relays] :
          /\ \A h \in Handles : IsComplete(in_flight[h]) => found[h] = {}
          /\ LET rows == [h \in Handles |->
                             Retargeted(in_flight[h], found[h], pins[h])]
             IN  Finalize(DispatchAll(rows, Handles, {relay}, unavailable'),
                          Handles, override, PersistRetargeted(rows, Handles))
    BY DEF MarkRelayAvailable, Commits
  <1> DEFINE rows == [h \in Handles |->
                         Retargeted(in_flight[h], found[h], pins[h])]
             sent == DispatchAll(rows, Handles, {relay}, unavailable')
             disk == PersistRetargeted(rows, Handles)
  <1>2. Finalize(sent, Handles, override, disk)
    BY <1>1
  <1>3. ASSUME NEW h \in Handles
        PROVE  /\ HasRow(sent[h]) => Agrees(disk[h], sent[h])
               /\ disk[h] # NoRow => ~IsComplete(disk[h])
               /\ disk[h] # NoRow => HasRow(sent[h])
    <2>0. in_flight[h] \in GoodRows /\ running
      BY DEF TypeInv, GoodTable, MarkRelayAvailable
    <2>1. HasRow(rows[h]) <=> HasRow(sent[h])
      <3> HIDE DEF rows
      <3> QED BY AgreesRefl, DispatchAllAgrees, AgreesHasRow
    <2>2. disk[h] = IF rows[h] # in_flight[h] THEN rows[h] ELSE store[h]
      BY DEF PersistRetargeted
    <2>3. CASE rows[h] # in_flight[h]
      <3>1. ~IsComplete(rows[h])
        BY <1>1, <2>0, <2>3, RetargetedAgrees
      <3>2. Agrees(rows[h], sent[h])
        <4> HIDE DEF rows
        <4> QED BY AgreesRefl, DispatchAllAgrees
      <3> QED
        <4> HIDE DEF rows, sent, disk
        <4> QED BY <2>1, <2>2, <2>3, <3>1, <3>2, IncompleteIsRow
    <2>4. CASE rows[h] = in_flight[h]
      <3>1. HasRow(in_flight[h]) => Agrees(store[h], sent[h])
        <4> HIDE DEF rows
        <4> QED BY <2>4, DispatchAllAgrees DEF WriteThrough
      <3> QED
        <4> HIDE DEF rows, sent, disk
        <4> QED BY <2>0, <2>1, <2>2, <2>4, <3>1 DEF WriteThrough, LoadPending
    <2> QED
      BY <2>3, <2>4
  <1> HIDE DEF rows, sent, disk
  <1> QED
    BY <1>2, <1>3, FinalizeWriteThrough

\* The induction step: one case per call of the engine.
LEMMA WriteThroughStep ==
    ASSUME ~StoreMayFail
    PROVE  TypeInv /\ NoCompletedRowLingers /\ WriteThrough /\ [Next]_vars
              => WriteThrough'
  <1> SUFFICES ASSUME TypeInv, NoCompletedRowLingers, WriteThrough, [Next]_vars
               PROVE  WriteThrough'
    OBVIOUS
  <1>0. in_flight \in GoodTable /\ store \in GoodTable
    BY DEF TypeInv
  <1>a. \A h \in Handles :
           /\ HasRow(in_flight[h]) => Agrees(store[h], in_flight[h])
           /\ store[h] # NoRow => ~IsComplete(store[h])
           /\ running /\ store[h] # NoRow => HasRow(in_flight[h])
    BY DEF WriteThrough, LoadPending
  <1>1. ASSUME NEW h \in Handles, NEW cid, NEW targets \in SUBSET Relays,
               NEW pins, StartPublish(h, targets, pins, cid)
        PROVE  WriteThrough'
    <2> DEFINE row  == Planned(targets, pins)
               rows == [in_flight EXCEPT ![h] = row]
               sent == DispatchAll(rows, {h}, Relays, unavailable)
               disk == [store EXCEPT ![h] = row]
               cids == [override EXCEPT ![h] = cid]
    <2>1. Finalize(sent, {h}, cids, disk)
      BY <1>1 DEF StartPublish
    <2>2. ~IsComplete(row)
      BY <1>1 DEF StartPublish, IsComplete, Planned, Open, Entry, Terminal
    <2>3. /\ rows[h] = row /\ disk[h] = row
          /\ \A g \in Handles \ {h} : /\ rows[g] = in_flight[g]
                                      /\ disk[g] = store[g]
      BY <1>0 DEF GoodTable
    <2>4. Agrees(row, sent[h])
      <3> HIDE DEF row, rows
      <3> QED BY <2>3, AgreesRefl, DispatchAllAgrees
    <2>5. \A g \in Handles \ {h} : sent[g] = in_flight[g]
      <3> HIDE DEF rows
      <3> QED BY <2>3, UnpickedUntouched
    <2>6. UNCHANGED running
      BY <1>1 DEF StartPublish
    <2> HIDE DEF row, rows, sent, disk, cids
    <2>7. HasRow(sent[h])
      BY <2>2, <2>4, IncompleteIsRow, AgreesHasRow
    <2>8. \A g \in Handles :
             /\ HasRow(sent[g]) => Agrees(disk[g], sent[g])
             /\ disk[g] # NoRow => ~IsComplete(disk[g])
             /\ running' /\ disk[g] # NoRow => HasRow(sent[g])
      BY <1>a, <2>2, <2>3, <2>4, <2>5, <2>6, <2>7
    <2> QED
      BY <2>1, <2>8, FinalizeWriteThrough
  <1>2. ASSUME NEW h \in Handles, NEW cid, NEW targets, NEW pins,
               StartPublishStoreError(h, targets, pins, cid)
        PROVE  WriteThrough'
    BY <1>2 DEF StartPublishStoreError
  <1>3. ASSUME NEW h \in Handles, NEW cid, StartPublishNoTargets(h, cid)
        PROVE  WriteThrough'
    BY <1>3 DEF StartPublishNoTargets, WriteThrough, LoadPending
  <1>4. ASSUME NEW h \in Handles, NEW r \in Relays, NEW answer \in Answers,
               OnAck(h, r, answer)
        PROVE  WriteThrough'
    <2>0. UNCHANGED running
      BY <1>4 DEF OnAck
    <2>1. CASE ParkAwaitingAuth(h, r)
      BY <2>0, <2>1, DemoteWriteThrough DEF ParkAwaitingAuth
    <2>2. CASE FoldAnswer(h, r, answer)
      <3> DEFINE row  == [in_flight[h] EXCEPT ![r] = ApplyAck(@, answer)]
                 rows == [in_flight EXCEPT ![h] = row]
      <3>1. rows[h] = row /\ \A g \in Handles \ {h} : rows[g] = in_flight[g]
        BY <1>0 DEF GoodTable
      <3>2. HasRow(row)
        <4>1. in_flight[h][r].stage # "Absent"
          BY <1>4 DEF OnAck
        <4>2. row[r] = ApplyAck(in_flight[h][r], answer)
          BY <1>0 DEF GoodTable, GoodRows
        <4>3. row[r].stage # "Absent"
          BY <4>1, <4>2 DEF ApplyAck, Entry
        <4> QED
          BY <4>3 DEF HasRow
      <3>3. CASE IsComplete(row)
        <4>1. Finalize(rows, {h}, override, store)
          BY <2>2, <3>3 DEF FoldAnswer
        <4> HIDE DEF row, rows
        <4>2. h \in Completed(rows, {h})
          BY <3>1, <3>2, <3>3 DEF Completed
        <4> QED
          BY <1>a, <2>0, <3>1, <3>2, <4>1, <4>2, FinalizeWriteThrough
      <3>4. CASE ~IsComplete(row)
        <4>1. in_flight' = rows /\ store' = [store EXCEPT ![h] = row]
          BY <2>2, <3>4 DEF FoldAnswer, Outcomes, Upsert
        <4>2. store'[h] = row /\ \A g \in Handles \ {h} : store'[g] = store[g]
          BY <1>0, <4>1 DEF GoodTable
        <4> HIDE DEF row, rows
        <4> QED
          BY <1>a, <2>0, <3>1, <3>2, <3>4, <4>1, <4>2, AgreesRefl
             DEF WriteThrough, LoadPending
      <3> QED
        BY <3>3, <3>4
    <2> QED
      BY <1>4, <2>1, <2>2 DEF OnAck
  <1>5. ASSUME NEW h \in Handles, RetryNow(h)
        PROVE  WriteThrough'
    <2> DEFINE row  == Unhurried(in_flight[h])
               rows == [in_flight EXCEPT ![h] = row]
               sent == DispatchAll(rows, {h}, Relays, unavailable)
               disk == [store EXCEPT ![h] = row]
    <2>1. Finalize(sent, {h}, override, disk) /\ UNCHANGED running
      BY <1>5 DEF RetryNow
    <2>2. ~IsComplete(row)
      <3>1. ~IsComplete(in_flight[h])
        BY <1>5 DEF RetryNow, NoCompletedRowLingers
      <3> QED
        BY <1>0, <3>1, UnhurriedStages, SameStages DEF GoodTable
    <2>3. /\ rows[h] = row /\ disk[h] = row
          /\ \A g \in Handles \ {h} : /\ rows[g] = in_flight[g]
                                      /\ disk[g] = store[g]
      BY <1>0 DEF GoodTable
    <2>4. Agrees(row, sent[h])
      <3> HIDE DEF row, rows
      <3> QED BY <2>3, AgreesRefl, DispatchAllAgrees
    <2>5. \A g \in Handles \ {h} : sent[g] = in_flight[g]
      <3> HIDE DEF rows
      <3> QED BY <2>3, UnpickedUntouched
    <2> HIDE DEF row, rows, sent, disk
    <2>6. HasRow(sent[h])
      BY <2>2, <2>4, IncompleteIsRow, AgreesHasRow
    <2> QED
      BY <1>a, <2>1, <2>2, <2>3, <2>4, <2>5, <2>6, FinalizeWriteThrough
  <1>6. ASSUME NEW h \in Handles, CancelByHandle(h, override[h])
        PROVE  WriteThrough'
    <2>1. /\ in_flight'[h] = NoRow /\ store'[h] = NoRow
          /\ \A g \in Handles \ {h} : /\ in_flight'[g] = in_flight[g]
                                      /\ store'[g] = store[g]
          /\ UNCHANGED running
      BY <1>0, <1>6 DEF CancelByHandle, Outcomes, Delete, GoodTable
    <2> QED
      BY <1>a, <2>1, NoRowEmpty DEF WriteThrough, LoadPending
  <1>7. ASSUME NEW r \in Relays, MarkRelayAvailable(r)
        PROVE  WriteThrough'
    BY <1>7, AvailableWriteThrough
  <1>8. ASSUME NEW r \in Relays, MarkRelayUnavailable(r)
        PROVE  WriteThrough'
    BY <1>8, DemoteWriteThrough DEF MarkRelayUnavailable
  <1>9. CASE Tick
    <2>1. Finalize(Ticked, Handles, override, store) /\ UNCHANGED running
      BY <1>9 DEF Tick
    <2>2. \A h \in Handles : HasRow(in_flight[h]) <=> HasRow(Ticked[h])
      BY AgreesRefl, TickedAgrees, AgreesHasRow
    <2>3. \A h \in Handles :
             HasRow(in_flight[h]) => Agrees(store[h], Ticked[h])
      BY <1>a, TickedAgrees
    <2> QED
      BY <1>a, <2>1, <2>2, <2>3, FinalizeWriteThrough
  <1>10. CASE Start
    <2> DEFINE pend == LoadPending
               rows == [h \in Handles |-> IF h \in pend THEN store[h]
                                                       ELSE in_flight[h]]
               cids == [h \in Handles |-> IF h \in pend THEN NoCid
                                                       ELSE override[h]]
               sent == DispatchAll(rows, pend, Relays, unavailable)
    <2>1. Finalize(sent, pend, cids, store)
      BY <1>10 DEF Start, ResumeFromStore
    <2>2. pend \in SUBSET Handles
      BY DEF LoadPending
    <2>3. ASSUME NEW h \in Handles
          PROVE  /\ HasRow(sent[h]) => Agrees(store[h], sent[h])
                 /\ store[h] # NoRow => HasRow(sent[h])
      <3>1. CASE h \in pend
        <4>1. rows[h] = store[h] /\ ~IsComplete(store[h])
          BY <3>1 DEF LoadPending
        <4>2. Agrees(store[h], sent[h])
          <5> HIDE DEF rows, pend
          <5> QED BY <4>1, AgreesRefl, DispatchAllAgrees
        <4> HIDE DEF sent
        <4> QED
          BY <4>1, <4>2, IncompleteIsRow, AgreesHasRow
      <3>2. CASE h \notin pend
        <4>1. rows[h] = in_flight[h] /\ store[h] = NoRow
          BY <1>a, <3>2 DEF LoadPending
        <4>2. sent[h] = in_flight[h]
          <5> HIDE DEF rows, pend
          <5> QED BY <3>2, <4>1, UnpickedUntouched
        <4> HIDE DEF sent
        <4> QED
          BY <1>a, <4>1, <4>2
      <3> QED
        BY <3>1, <3>2
    <2> HIDE DEF pend, rows, cids, sent
    <2> QED
      BY <1>a, <2>1, <2>2, <2>3, FinalizeWriteThrough
  <1>11. CASE Stop
    BY <1>a, <1>11 DEF Stop, WriteThrough, LoadPending
  <1>12. CASE Crash
    BY <1>a, <1>12, NoRowEmpty DEF Crash, WriteThrough, LoadPending
  <1>13. CASE TimePass
    BY <1>13, AgedWriteThrough
  <1>14. CASE UNCHANGED vars
    BY <1>14 DEF vars, WriteThrough, LoadPending
  <1> QED
    BY <1>1, <1>2, <1>3, <1>4, <1>5, <1>6, <1>7, <1>8, <1>9, <1>10, <1>11,
       <1>12, <1>13, <1>14 DEF Next

\* The inductive invariant of the durability theorems.
DurabilityInv == TypeInv /\ NoCompletedRowLingers /\ WriteThrough

LEMMA DurabilityInvariant ==
    ASSUME ~StoreMayFail
    PROVE  Spec => []DurabilityInv
  <1>1. Init => DurabilityInv
    <2>1. Init => NoCompletedRowLingers /\ WriteThrough
      BY NoRowEmpty DEF Init, NoCompletedRowLingers, WriteThrough
    <2> QED
      BY <2>1, TypeInvInit DEF DurabilityInv
  <1>2. DurabilityInv /\ [Next]_vars => DurabilityInv'
    BY TypeInvStep, OpenStep, WriteThroughStep DEF DurabilityInv
  <1> QED
    BY <1>1, <1>2, PTL DEF Spec

\* With store writes succeeding, no intent the engine took on is only in
\* memory: persist on start, on retarget, on demotion and on retry keep a
\* record that load_pending returns, with the row's relays.
THEOREM IntentDurable ==
    ASSUME ~StoreMayFail
    PROVE  Spec => []IntentIsDurable
  <1>1. DurabilityInv => IntentIsDurable
    <2> SUFFICES ASSUME DurabilityInv, NEW h \in Handles, HasRow(in_flight[h])
                 PROVE  /\ h \in LoadPending
                        /\ \A r \in Relays : (store[h][r].stage = "Absent")
                                          <=> (in_flight[h][r].stage = "Absent")
      BY DEF IntentIsDurable
    <2>1. Agrees(store[h], in_flight[h])
      BY DEF DurabilityInv, WriteThrough
    <2>2. store[h] # NoRow
      BY <2>1, AgreesHasRow, NoRowEmpty
    <2> QED
      BY <2>1, <2>2 DEF DurabilityInv, WriteThrough, Agrees
  <1> QED
    BY <1>1, DurabilityInvariant, PTL

\* With store writes succeeding, an acceptance is durable as soon as on_ack
\* returns, and no record claims a settlement that memory does not have.
THEOREM SettlementDurable ==
    ASSUME ~StoreMayFail
    PROVE  Spec => []SettlementAgrees
  <1>1. DurabilityInv => SettlementAgrees
    BY DEF DurabilityInv, WriteThrough, Agrees, SettlementAgrees, IsTerminal,
           Terminal
  <1> QED
    BY <1>1, DurabilityInvariant, PTL

\* With store writes succeeding, a running engine keeps no record of a publish
\* that was settled or cancelled.
THEOREM NoGhost ==
    ASSUME ~StoreMayFail
    PROVE  Spec => []NoGhostRecord
  <1>1. DurabilityInv => NoGhostRecord
    BY DEF DurabilityInv, WriteThrough, NoGhostRecord
  <1> QED
    BY <1>1, DurabilityInvariant, PTL

-----------------------------------------------------------------------------
(* Offline first: no verdict while a relay is owed and out of reach.         *)

\* An entry that finalize_completed_rows leaves in flight was in flight before.
LEMMA FinalizeStage ==
    ASSUME NEW rows, NEW picked, NEW cids, NEW disk,
           Finalize(rows, picked, cids, disk), NEW h \in Handles,
           NEW r \in Relays, in_flight'[h][r].stage = "InFlight"
    PROVE  rows[h][r].stage = "InFlight"
  <1>1. in_flight'[h] \in {NoRow, rows[h]}
    BY FinalizeRows
  <1> QED
    BY <1>1, NoRowStages

\* What dispatch_due leaves in flight on a relay that is not up was in flight
\* before.
LEMMA DispatchStage ==
    ASSUME NEW rows, NEW picked, NEW filter, NEW modes,
           NEW h \in Handles, NEW r \in Relays, modes[r].mode # "up",
           DispatchAll(rows, picked, filter, modes)[h][r].stage = "InFlight"
    PROVE  rows[h][r].stage = "InFlight"
  <1>1. DispatchAll(rows, picked, filter, modes)[h][r] = rows[h][r]
    BY DispatchOutcome
  <1> QED
    BY <1>1

\* Demotion leaves nothing in flight on the relay and sends nothing.
LEMMA DemoteStage ==
    ASSUME NEW relay, Demote(relay), NEW h \in Handles, NEW r \in Relays,
           in_flight'[h][r].stage = "InFlight"
    PROVE  r # relay /\ in_flight[h][r].stage = "InFlight"
  <1>1. in_flight'[h][r] =
              IF r = relay /\ in_flight[h][r].stage = "InFlight"
              THEN Entry("Pending", 0, 0, in_flight[h][r].pinned)
              ELSE in_flight[h][r]
    BY DemotedEntry
  <1> QED
    BY <1>1, EntryFields

\* Only a Start strands an entry: every other action that takes a relay down
\* walks its sends back, and nothing is sent to a relay that is not up.
LEMMA StrandStep ==
    ASSUME TypeInv, Next, NEW h \in Handles, NEW r \in Relays,
           in_flight'[h][r].stage = "InFlight", unavailable'[r].mode # "up"
    PROVE  \/ in_flight[h][r].stage = "InFlight" /\ unavailable[r].mode # "up"
           \/ Start /\ store[h][r].stage = "InFlight"
  <1> DEFINE Was == in_flight[h][r].stage = "InFlight"
                       /\ unavailable[r].mode # "up"
  <1>f. /\ DOMAIN in_flight = Handles
        /\ unavailable \in [Relays -> Modes]
        /\ \A g \in Handles : /\ DOMAIN in_flight[g] = Relays
                              /\ in_flight[g] \in GoodRows
    BY DEF TypeInv, GoodTable, GoodRows
  <1>1. ASSUME NEW g \in Handles, NEW cid, NEW targets, NEW pins,
               StartPublish(g, targets, pins, cid)
        PROVE  Was
    <2> DEFINE rows == [in_flight EXCEPT ![g] = Planned(targets, pins)]
               sent == DispatchAll(rows, {g}, Relays, unavailable)
               cids == [override EXCEPT ![g] = cid]
               disk == [store EXCEPT ![g] = Planned(targets, pins)]
    <2>1. Finalize(sent, {g}, cids, disk) /\ unavailable' = unavailable
      BY <1>1 DEF StartPublish
    <2>2. Planned(targets, pins)[r].stage # "InFlight"
      BY DEF Planned, Absent, Entry
    <2>3. rows[h][r].stage = "InFlight" => in_flight[h][r].stage = "InFlight"
      BY <1>f, <2>2
    <2> HIDE DEF rows, cids, disk
    <2>4. sent[h][r].stage = "InFlight"
      <3> HIDE DEF sent
      <3> QED BY <2>1, FinalizeStage
    <2>5. rows[h][r].stage = "InFlight"
      BY <2>1, <2>4, DispatchStage
    <2> QED
      BY <2>1, <2>3, <2>5
  <1>2. ASSUME NEW g \in Handles, NEW cid, NEW targets, NEW pins,
               StartPublishStoreError(g, targets, pins, cid)
        PROVE  Was
    <2>1. Planned(targets, pins)[r].stage # "InFlight"
      BY DEF Planned, Absent, Entry
    <2> QED
      BY <1>f, <1>2, <2>1 DEF StartPublishStoreError
  <1>3. ASSUME NEW g \in Handles, NEW cid, StartPublishNoTargets(g, cid)
        PROVE  Was
    BY <1>3 DEF StartPublishNoTargets
  <1>4. ASSUME NEW g \in Handles, NEW q \in Relays, NEW answer \in Answers,
               OnAck(g, q, answer)
        PROVE  Was
    <2>1. CASE ParkAwaitingAuth(g, q)
      <3>1. r # q /\ in_flight[h][r].stage = "InFlight"
        BY <2>1, DemoteStage DEF ParkAwaitingAuth
      <3> QED
        BY <1>f, <2>1, <3>1 DEF ParkAwaitingAuth
    <2>2. CASE FoldAnswer(g, q, answer)
      <3> DEFINE row  == [in_flight[g] EXCEPT ![q] = ApplyAck(@, answer)]
                 rows == [in_flight EXCEPT ![g] = row]
      <3>1. ApplyAck(in_flight[g][q], answer).stage = "InFlight"
               => in_flight[g][q].stage = "InFlight"
        BY EntryFields DEF ApplyAck
      <3>2. rows[h][r].stage = "InFlight" => in_flight[h][r].stage = "InFlight"
        BY <1>f, <3>1
      <3>3. /\ \/ Finalize(rows, {g}, override, store)
               \/ in_flight' = rows
            /\ unavailable' = unavailable
        BY <2>2 DEF FoldAnswer
      <3> HIDE DEF rows
      <3>4. rows[h][r].stage = "InFlight"
        BY <3>3, FinalizeStage
      <3> QED
        BY <3>2, <3>3, <3>4
    <2> QED
      BY <1>4, <2>1, <2>2 DEF OnAck
  <1>5. ASSUME NEW g \in Handles, RetryNow(g)
        PROVE  Was
    <2> DEFINE rows == [in_flight EXCEPT ![g] = Unhurried(in_flight[g])]
               sent == DispatchAll(rows, {g}, Relays, unavailable)
               disk == [store EXCEPT ![g] = Unhurried(in_flight[g])]
    <2>1. /\ \/ Finalize(sent, {g}, override, disk)
             \/ in_flight' = rows
          /\ unavailable' = unavailable
      BY <1>5 DEF RetryNow
    <2>2. rows[h][r].stage = in_flight[h][r].stage
      <3>1. Unhurried(in_flight[g])[r].stage = in_flight[g][r].stage
        BY <1>f, UnhurriedStages
      <3> QED
        BY <1>f, <3>1
    <2> HIDE DEF rows, disk
    <2>3. sent[h][r].stage = "InFlight" \/ rows[h][r].stage = "InFlight"
      <3> HIDE DEF sent
      <3> QED BY <2>1, FinalizeStage
    <2>4. rows[h][r].stage = "InFlight"
      BY <2>1, <2>3, DispatchStage
    <2> QED
      BY <2>1, <2>2, <2>4
  <1>6. ASSUME NEW g \in Handles, CancelByHandle(g, override[g])
        PROVE  Was
    BY <1>f, <1>6, NoRowStages DEF CancelByHandle
  <1>7. ASSUME NEW q \in Relays, MarkRelayAvailable(q)
        PROVE  Was
    <2>1. PICK found \in [Handles -> SUBSET Relays],
               pins \in [Handles -> SUBSET Relays], ok \in Commits :
            LET rows == [g \in Handles |->
                            Retargeted(in_flight[g], found[g], pins[g])]
            IN  Finalize(DispatchAll(rows, Handles, {q}, unavailable'),
                         Handles, override, PersistRetargeted(rows, ok))
      BY <1>7 DEF MarkRelayAvailable
    <2> DEFINE rows == [g \in Handles |->
                           Retargeted(in_flight[g], found[g], pins[g])]
               sent == DispatchAll(rows, Handles, {q}, unavailable')
               disk == PersistRetargeted(rows, ok)
    <2>2. Finalize(sent, Handles, override, disk)
      BY <2>1
    <2>3. rows[h][r].stage = "InFlight" => in_flight[h][r].stage = "InFlight"
      <3>1. \/ rows[h][r] = in_flight[h][r]
            \/ rows[h][r] = Entry("Pending", 0, 0, r \in pins[h])
        BY DEF Retargeted
      <3> HIDE DEF rows
      <3> QED BY <3>1, EntryFields
    <2>4. unavailable[r].mode # "up"
      BY <1>f, <1>7 DEF MarkRelayAvailable, Up
    <2> HIDE DEF rows, disk
    <2>5. sent[h][r].stage = "InFlight"
      <3> HIDE DEF sent
      <3> QED BY <2>2, FinalizeStage
    <2>6. rows[h][r].stage = "InFlight"
      BY <2>5, DispatchStage
    <2> QED
      BY <2>3, <2>4, <2>6
  <1>8. ASSUME NEW q \in Relays, MarkRelayUnavailable(q)
        PROVE  Was
    <2>1. r # q /\ in_flight[h][r].stage = "InFlight"
      BY <1>8, DemoteStage DEF MarkRelayUnavailable
    <2> QED
      BY <1>f, <1>8, <2>1 DEF MarkRelayUnavailable
  <1>9. CASE Tick
    <2>1. Finalize(Ticked, Handles, override, store)
             /\ unavailable' = unavailable
      BY <1>9 DEF Tick
    <2>2. Ticked[h][r].stage = "InFlight"
      BY <2>1, FinalizeStage
    <2>3. Swept[h][r].stage = "InFlight"
      BY <2>1, <2>2, DispatchStage DEF Ticked
    <2>4. SweepInflightTimeouts(in_flight[h])[r].stage = "InFlight"
      BY <2>3, EntryFields DEF Swept, SweepUnavailableTimeouts
    <2>5. in_flight[h][r].stage = "InFlight"
      BY <2>4, EntryFields DEF SweepInflightTimeouts
    <2> QED
      BY <2>1, <2>5
  <1>10. CASE Start
    <2>1. unavailable' = unavailable
      BY <1>10 DEF Start
    <2>2. CASE ResumeFromStore
      <3> DEFINE pend == LoadPending
                 rows == [g \in Handles |-> IF g \in pend THEN store[g]
                                                         ELSE in_flight[g]]
                 cids == [g \in Handles |-> IF g \in pend THEN NoCid
                                                         ELSE override[g]]
                 sent == DispatchAll(rows, pend, Relays, unavailable)
      <3>1. Finalize(sent, pend, cids, store)
        BY <2>2 DEF ResumeFromStore
      <3>2. rows[h] \in {store[h], in_flight[h]}
        OBVIOUS
      <3> HIDE DEF pend, rows, cids
      <3>3. sent[h][r].stage = "InFlight"
        <4> HIDE DEF sent
        <4> QED BY <3>1, FinalizeStage
      <3>4. rows[h][r].stage = "InFlight"
        BY <2>1, <3>3, DispatchStage
      <3> QED
        BY <1>10, <2>1, <3>2, <3>4
    <2>3. CASE in_flight' = in_flight
      BY <2>1, <2>3
    <2> QED
      BY <1>10, <2>2, <2>3 DEF Start
  <1>11. CASE Stop
    BY <1>11 DEF Stop
  <1>12. CASE Crash
    BY <1>12, NoRowStages DEF Crash
  <1>13. CASE TimePass
    <2>1. in_flight[h][r].stage = "InFlight"
      BY <1>13, AgedStages DEF TimePass, TypeInv
    <2>2. unavailable'[r] = [unavailable[r] EXCEPT !.timer = Elapsed(@)]
      BY <1>13 DEF TimePass
    <2>3. unavailable'[r].mode = unavailable[r].mode
      BY <1>f, <2>2 DEF Modes
    <2> QED
      BY <2>1, <2>3
  <1> QED
    BY <1>1, <1>2, <1>3, <1>4, <1>5, <1>6, <1>7, <1>8, <1>9, <1>10, <1>11,
       <1>12, <1>13 DEF Next

\* A publish with a relay that is still open gets no verdict.
LEMMA OpenGetsNoVerdict ==
    ASSUME NEW rows, NEW picked, NEW cids, NEW disk,
           Finalize(rows, picked, cids, disk),
           NEW h, NEW r \in Relays, h \in picked => Open(rows[h][r])
    PROVE  \A v \in pending_terminals' : v.handle # h
  <1>1. h \notin Completed(rows, picked)
    BY DEF Completed, IsComplete
  <1>2. pending_terminals' =
            {FromOutcome(g, cids[g], rows[g]) : g \in Completed(rows, picked)}
    BY DEF Finalize
  <1>3. ASSUME NEW g \in Completed(rows, picked)
        PROVE  FromOutcome(g, cids[g], rows[g]).handle = g
    BY DEF FromOutcome, LastTerminal
  <1> QED
    BY <1>1, <1>2, <1>3

\* dispatch_due passes over a relay that is not up.
LEMMA DownIsNotDispatched ==
    ASSUME NEW rows, NEW picked, NEW filter, NEW modes,
           NEW h \in Handles, NEW r \in Relays, modes[r].mode # "up"
    PROVE  DispatchAll(rows, picked, filter, modes)[h][r] = rows[h][r]
  BY DEF DispatchAll, DispatchDue, Due

\* The sweeps pass over a relay that is owed, not in flight and not up, unless
\* another relay has accepted the event.
LEMMA DownIsNotSwept ==
    ASSUME NEW h \in Handles, NEW r \in Relays,
           in_flight[h][r].stage # "InFlight",
           ~HasAnyAccepted(in_flight[h]), unavailable[r].mode # "up"
    PROVE  Swept[h][r] = in_flight[h][r]
  <1>1. SweepInflightTimeouts(in_flight[h])[r] = in_flight[h][r]
    BY DEF SweepInflightTimeouts
  <1>2. ~HasAnyAccepted(SweepInflightTimeouts(in_flight[h]))
    BY SweepKeepsAcceptance
  <1> QED
    BY <1>1, <1>2 DEF Swept, SweepUnavailableTimeouts

\* What UnreachableIsNotFailure says of one step.
Unblamed ==
    \A h \in Handles, r \in Relays :
       /\ Stranded(h, r)' => \/ Stranded(h, r)
                             \/ Start /\ store[h][r].stage = "InFlight"
       /\ (/\ ~HasAnyAccepted(in_flight[h])
           /\ Open(in_flight[h][r])
           /\ ~Stranded(h, r)
           /\ unavailable[r].mode # "up"
           /\ unavailable'[r].mode # "up")
          => \A v \in pending_terminals' :
                v.handle = h => v.status # "failed"

\* One step per action that reports a verdict.  A relay out of reach that is
\* not stranded has no send that could time out or be answered, and a Start
\* reloads it as owed, because the record agrees with the row it replaces.
LEMMA UnblamedStep ==
    ASSUME ~StoreMayFail, DurabilityInv, Next,
           NEW h \in Handles, NEW r \in Relays,
           ~HasAnyAccepted(in_flight[h]),
           Open(in_flight[h][r]),
           ~Stranded(h, r),
           unavailable[r].mode # "up",
           unavailable'[r].mode # "up",
           NEW v \in pending_terminals', v.handle = h
    PROVE  v.status # "failed"
  <1>0. /\ TypeInv
        /\ HasRow(in_flight[h])
        /\ in_flight[h][r].stage # "InFlight"
    BY DEF DurabilityInv, Stranded, HasRow, Open
  <1>f. /\ DOMAIN in_flight = Handles
        /\ unavailable \in [Relays -> Modes]
        /\ \A g \in Handles : /\ DOMAIN in_flight[g] = Relays
                              /\ in_flight[g] \in GoodRows
    BY <1>0 DEF TypeInv, GoodTable, GoodRows
  <1>1. ASSUME NEW g \in Handles, NEW cid, NEW targets, NEW pins,
               StartPublish(g, targets, pins, cid)
        PROVE  v.status # "failed"
    <2> DEFINE rows == DispatchAll([in_flight EXCEPT ![g] =
                                       Planned(targets, pins)],
                                   {g}, Relays, unavailable)
               cids == [override EXCEPT ![g] = cid]
               disk == [store EXCEPT ![g] = Planned(targets, pins)]
    <2>1. Finalize(rows, {g}, cids, disk) /\ g # h
      BY <1>0, <1>1 DEF StartPublish
    <2> HIDE DEF rows, cids, disk
    <2> QED
      BY <2>1, OpenGetsNoVerdict
  <1>2. ASSUME NEW g \in Handles, NEW cid, NEW targets, NEW pins,
               StartPublishStoreError(g, targets, pins, cid)
        PROVE  v.status # "failed"
    BY <1>2 DEF StartPublishStoreError
  <1>3. ASSUME NEW g \in Handles, NEW cid, StartPublishNoTargets(g, cid)
        PROVE  v.status # "failed"
    BY <1>0, <1>3 DEF StartPublishNoTargets, LastTerminal
  <1>4. ASSUME NEW g \in Handles, NEW q \in Relays, NEW answer \in Answers,
               OnAck(g, q, answer)
        PROVE  v.status # "failed"
    <2> DEFINE row  == [in_flight[g] EXCEPT ![q] = ApplyAck(@, answer)]
               rows == [in_flight EXCEPT ![g] = row]
    <2>1. FoldAnswer(g, q, answer)
      BY <1>4 DEF OnAck, ParkAwaitingAuth
    <2>2. Finalize(rows, {g}, override, store)
      BY <2>1 DEF FoldAnswer
    <2>3. rows[h][r] = in_flight[h][r]
      BY <1>0, <1>f DEF ApplyAck
    <2> HIDE DEF rows
    <2> QED
      BY <2>2, <2>3, OpenGetsNoVerdict
  <1>5. ASSUME NEW g \in Handles, RetryNow(g)
        PROVE  v.status # "failed"
    <2> DEFINE rows == [in_flight EXCEPT ![g] = Unhurried(in_flight[g])]
               sent == DispatchAll(rows, {g}, Relays, unavailable)
               disk == [store EXCEPT ![g] = Unhurried(in_flight[g])]
    <2>1. Finalize(sent, {g}, override, disk)
      BY <1>5 DEF RetryNow
    <2>2. rows[h][r].stage = in_flight[h][r].stage
      <3>1. in_flight[h][r] \in GoodEntries
        BY <1>f DEF GoodRows
      <3>2. [in_flight[h][r] EXCEPT !.timer = 0].stage = in_flight[h][r].stage
        BY <3>1, GoodFields
      <3>3. Unhurried(in_flight[h])[r].stage = in_flight[h][r].stage
        BY <3>2 DEF Unhurried
      <3> HIDE DEF Unhurried
      <3> QED
        BY <1>f, <3>3
    <2>3. sent[h][r] = rows[h][r]
      <3> HIDE DEF rows
      <3> QED BY DownIsNotDispatched
    <2>4. Open(sent[h][r])
      <3> HIDE DEF rows, sent
      <3> QED BY <2>2, <2>3 DEF Open
    <2> HIDE DEF rows, sent, disk
    <2> QED
      BY <2>1, <2>4, OpenGetsNoVerdict
  <1>6. ASSUME NEW g \in Handles, CancelByHandle(g, override[g])
        PROVE  v.status # "failed"
    BY <1>6 DEF CancelByHandle, LastTerminal
  <1>7. ASSUME NEW q \in Relays, MarkRelayAvailable(q)
        PROVE  v.status # "failed"
    <2>1. PICK found \in [Handles -> SUBSET Relays],
               pins \in [Handles -> SUBSET Relays], ok \in Commits :
            LET rows == [g \in Handles |->
                            Retargeted(in_flight[g], found[g], pins[g])]
            IN  Finalize(DispatchAll(rows, Handles, {q}, unavailable'),
                         Handles, override, PersistRetargeted(rows, ok))
      BY <1>7 DEF MarkRelayAvailable
    <2> DEFINE rows == [g \in Handles |->
                           Retargeted(in_flight[g], found[g], pins[g])]
               sent == DispatchAll(rows, Handles, {q}, unavailable')
               disk == PersistRetargeted(rows, ok)
    <2>2. Finalize(sent, Handles, override, disk)
      BY <2>1
    <2>3. rows[h][r] = in_flight[h][r]
      BY DEF Retargeted, Open
    <2>4. sent[h][r] = rows[h][r]
      <3> HIDE DEF rows
      <3> QED BY DownIsNotDispatched
    <2> HIDE DEF rows, sent, disk
    <2> QED
      BY <2>2, <2>3, <2>4, OpenGetsNoVerdict
  <1>8. ASSUME NEW q \in Relays, MarkRelayUnavailable(q)
        PROVE  v.status # "failed"
    BY <1>8 DEF MarkRelayUnavailable
  <1>9. CASE Tick
    <2>1. Finalize(Ticked, Handles, override, store)
      BY <1>9 DEF Tick
    <2>2. Ticked[h][r] = in_flight[h][r]
      BY <1>0, DownIsNotDispatched, DownIsNotSwept DEF Ticked
    <2> QED
      BY <2>1, <2>2, OpenGetsNoVerdict
  <1>10. CASE Start
    <2> DEFINE pend == LoadPending
               rows == [g \in Handles |-> IF g \in pend THEN store[g]
                                                       ELSE in_flight[g]]
               cids == [g \in Handles |-> IF g \in pend THEN NoCid
                                                       ELSE override[g]]
               sent == DispatchAll(rows, pend, Relays, unavailable)
    <2>1. Finalize(sent, pend, cids, store)
      BY <1>10 DEF Start, ResumeFromStore
    <2>2. Agrees(store[h], in_flight[h])
      BY <1>0 DEF DurabilityInv, WriteThrough
    <2>3. Open(store[h][r])
      BY <2>2 DEF Agrees, Open, IsTerminal, Terminal
    <2>4. rows[h] \in {store[h], in_flight[h]}
      OBVIOUS
    <2>5. sent[h][r] = rows[h][r]
      <3> HIDE DEF rows, pend
      <3> QED BY DownIsNotDispatched
    <2> HIDE DEF pend, rows, cids, sent
    <2>6. Open(sent[h][r])
      BY <2>3, <2>4, <2>5
    <2> QED
      BY <2>1, <2>6, OpenGetsNoVerdict
  <1>11. CASE Stop \/ Crash \/ TimePass
    BY <1>11 DEF Stop, Crash, TimePass
  <1> QED
    BY <1>1, <1>2, <1>3, <1>4, <1>5, <1>6, <1>7, <1>8, <1>9, <1>10, <1>11
       DEF Next

\* With store writes succeeding, only a Start strands an entry in flight on a
\* relay that cannot answer, and no step reports a publish as failed that no
\* relay has accepted while one of its relays is owed, not stranded, and out of
\* reach before and after the step; whatever crashes, stops and starts (also of
\* an actor that runs) came before.
THEOREM UnreachableIsPending ==
    ASSUME ~StoreMayFail
    PROVE  Spec => UnreachableIsNotFailure
  <1>1. DurabilityInv /\ [Next]_vars => [Unblamed]_vars
    <2> SUFFICES ASSUME DurabilityInv, Next, NEW h \in Handles, NEW r \in Relays
                 PROVE  /\ Stranded(h, r)' =>
                              \/ Stranded(h, r)
                              \/ Start /\ store[h][r].stage = "InFlight"
                        /\ (/\ ~HasAnyAccepted(in_flight[h])
                            /\ Open(in_flight[h][r])
                            /\ ~Stranded(h, r)
                            /\ unavailable[r].mode # "up"
                            /\ unavailable'[r].mode # "up")
                           => \A v \in pending_terminals' :
                                 v.handle = h => v.status # "failed"
      BY DEF Unblamed
    <2>1. Stranded(h, r)' => \/ Stranded(h, r)
                             \/ Start /\ store[h][r].stage = "InFlight"
      BY StrandStep DEF Stranded, DurabilityInv
    <2> QED
      BY <2>1, UnblamedStep
  <1>2. [][Unblamed]_vars => UnreachableIsNotFailure
    BY DEF UnreachableIsNotFailure, Unblamed
  <1>3. Spec => [][Unblamed]_vars
    BY <1>1, DurabilityInvariant, PTL DEF Spec
  <1> QED
    BY <1>2, <1>3, PTL
=============================================================================
