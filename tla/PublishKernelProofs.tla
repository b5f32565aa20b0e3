------------------------ MODULE PublishKernelProofs ------------------------
(***************************************************************************)
(* Theorems about the kernel's views of a publish, for any publishes,       *)
(* relays, dispatch ids, budgets and capacities.                            *)
(***************************************************************************)
EXTENDS PublishKernel, PublishDurabilityProofs, SequenceTheorems,
        FiniteSetTheorems, WellFoundedInduction

-----------------------------------------------------------------------------
(* What the engine's calls mean to the kernel.                              *)

\* A live row speaks for the dispatch id c.
Carries(h, c) == HasRow(in_flight[h]) /\ override[h] = c

\* Nothing is left of the publish, in memory or on disk.
Gone(h) == in_flight[h] = NoRow /\ store[h] = NoRow

\* A call that takes up no publish: no row starts to speak for an id, every
\* verdict is that of a row that leaves, and what is gone stays gone.
Quiet ==
    /\ \A h \in Handles, c \in Cids :
          HasRow(in_flight'[h]) /\ override'[h] = c => Carries(h, c)
    /\ \A v \in pending_terminals' :
          /\ v.handle \in Handles /\ v.status \in {"ok", "failed"}
          /\ override'[v.handle] = NoCid
          /\ v.cid \in Cids => Carries(v.handle, v.cid)
    /\ \A v, w \in pending_terminals' : v.handle = w.handle => v = w
    /\ \A h \in Handles : Gone(h) => in_flight'[h] = NoRow /\ store'[h] = NoRow

\* The verdict of a settled row, field by field.
LEMMA FromOutcomeFields ==
    ASSUME NEW h, NEW cid, NEW row
    PROVE  /\ FromOutcome(h, cid, row).handle = h
           /\ FromOutcome(h, cid, row).cid = cid
           /\ FromOutcome(h, cid, row).status \in {"ok", "failed"}
  BY DEF FromOutcome, LastTerminal

\* Letting completed rows go is quiet if the rows it is given carry no new
\* id.
LEMMA FinalizeQuiet ==
    ASSUME NEW rows, NEW picked \in SUBSET Handles, NEW cids, NEW disk,
           Finalize(rows, picked, cids, disk),
           \A h \in Handles, c \in Cids :
              HasRow(rows[h]) /\ cids[h] = c => Carries(h, c),
           \A h \in Handles : Gone(h) => rows[h] = NoRow /\ disk[h] = NoRow
    PROVE  Quiet
  <1> DEFINE done == Completed(rows, picked)
  <1>1. /\ in_flight' = [h \in Handles |-> IF h \in done THEN NoRow ELSE rows[h]]
        /\ override' = [h \in Handles |-> IF h \in done THEN NoCid ELSE cids[h]]
        /\ pending_terminals' = {FromOutcome(h, cids[h], rows[h]) : h \in done}
    BY DEF Finalize
  <1>2. PICK ok \in Commits :
           store' = [h \in Handles |-> IF h \in done \cap ok THEN NoRow ELSE disk[h]]
    BY DEF Finalize
  <1>3. done \subseteq Handles /\ \A h \in done : HasRow(rows[h])
    BY DEF Completed
  <1> HIDE DEF done
  <1>4. ASSUME NEW h \in Handles, NEW c \in Cids, HasRow(in_flight'[h]),
               override'[h] = c
        PROVE  Carries(h, c)
    <2>1. h \notin done
      BY <1>1, <1>4, CidAssumption
    <2>2. HasRow(rows[h]) /\ cids[h] = c
      BY <1>1, <1>4, <2>1
    <2> QED
      BY <2>2
  <1>5. ASSUME NEW v \in pending_terminals'
        PROVE  /\ v.handle \in done /\ v.status \in {"ok", "failed"}
               /\ v = FromOutcome(v.handle, cids[v.handle], rows[v.handle])
               /\ v.cid \in Cids => Carries(v.handle, v.cid)
    <2>1. PICK h \in done : v = FromOutcome(h, cids[h], rows[h])
      BY <1>1
    <2>2. v.handle = h /\ v.cid = cids[h] /\ v.status \in {"ok", "failed"}
      BY <2>1, FromOutcomeFields
    <2> QED
      BY <1>3, <2>1, <2>2
  <1>6. \A v \in pending_terminals' : override'[v.handle] = NoCid
    BY <1>1, <1>3, <1>5
  <1>7. ASSUME NEW h \in Handles, Gone(h)
        PROVE  in_flight'[h] = NoRow /\ store'[h] = NoRow
    BY <1>1, <1>2, <1>7
  <1> QED
    BY <1>3, <1>4, <1>5, <1>6, <1>7 DEF Quiet

\* An entry that is no key of the row is never due.
LEMMA DispatchKeepsRows ==
    ASSUME NEW rows \in GoodTable, NEW picked, NEW filter, NEW modes,
           NEW h \in Handles
    PROVE  LET after == DispatchAll(rows, picked, filter, modes)[h]
           IN  /\ HasRow(after) => HasRow(rows[h])
               /\ rows[h] = NoRow => after = NoRow
  <1> DEFINE after == DispatchAll(rows, picked, filter, modes)[h]
  <1>1. \A r \in Relays : rows[h][r].stage = "Absent" => r \notin Due(rows[h], filter, modes)
    BY DEF Due, Ready
  <1>2. \/ after = rows[h]
        \/ after = [r \in Relays |-> IF r \in Due(rows[h], filter, modes)
                                     THEN Dispatched(h, rows[h][r]) ELSE rows[h][r]]
    BY DEF DispatchAll, DispatchDue
  <1> HIDE DEF after
  <1>3. HasRow(after) => HasRow(rows[h])
    BY <1>1, <1>2 DEF HasRow
  <1>4. ASSUME rows[h] = NoRow PROVE after = NoRow
    <2>1. \A r \in Relays : rows[h][r] = Absent /\ rows[h][r].stage = "Absent"
      BY <1>4 DEF NoRow, Absent, Entry
    <2>2. [r \in Relays |-> IF r \in Due(rows[h], filter, modes)
                            THEN Dispatched(h, rows[h][r]) ELSE rows[h][r]] = NoRow
      BY <1>1, <2>1 DEF NoRow
    <2> QED
      BY <1>2, <1>4, <2>2
  <1> QED
    BY <1>3, <1>4 DEF after

\* Sending an entry leaves it in the row.
LEMMA DispatchLeavesRows ==
    ASSUME NEW rows \in GoodTable, NEW picked, NEW filter, NEW modes,
           NEW h \in Handles, HasRow(rows[h])
    PROVE  HasRow(DispatchAll(rows, picked, filter, modes)[h])
  <1> DEFINE after == DispatchAll(rows, picked, filter, modes)[h]
  <1>1. \/ after = rows[h]
        \/ after = [r \in Relays |-> IF r \in Due(rows[h], filter, modes)
                                     THEN Dispatched(h, rows[h][r]) ELSE rows[h][r]]
    BY DEF DispatchAll, DispatchDue
  <1>2. \A e : Dispatched(h, e).stage # "Absent"
    BY DEF Dispatched, Entry
  <1> HIDE DEF after
  <1>3. HasRow(after)
    BY <1>1, <1>2 DEF HasRow
  <1> QED
    BY <1>3 DEF after

\* The sweeps leave every row in place.
LEMMA SweepLeavesRows ==
    ASSUME NEW h \in Handles, HasRow(in_flight[h])
    PROVE  HasRow(Swept[h])
  <1> DEFINE mid == SweepInflightTimeouts(in_flight[h])
             end == SweepUnavailableTimeouts(mid)
  <1>1. Swept[h] = end
    BY DEF Swept
  <1>2. \A r \in Relays : in_flight[h][r].stage # "Absent" => mid[r].stage # "Absent"
    BY DEF SweepInflightTimeouts, Entry
  <1> HIDE DEF mid
  <1>3. \A r \in Relays : mid[r].stage # "Absent" => end[r].stage # "Absent"
    BY DEF SweepUnavailableTimeouts, Entry
  <1> HIDE DEF end
  <1> QED
    BY <1>1, <1>2, <1>3 DEF HasRow

\* The sweeps create no row.
LEMMA SweepKeepsRows ==
    ASSUME NEW h \in Handles, in_flight \in GoodTable
    PROVE  /\ HasRow(Swept[h]) => HasRow(in_flight[h])
           /\ in_flight[h] = NoRow => Swept[h] = NoRow
  <1> DEFINE mid == SweepInflightTimeouts(in_flight[h])
             end == SweepUnavailableTimeouts(mid)
  <1>1. Swept[h] = end
    BY DEF Swept
  <1>2. \A r \in Relays : in_flight[h][r].stage = "Absent" => mid[r] = in_flight[h][r]
    BY DEF SweepInflightTimeouts
  <1> HIDE DEF mid
  <1>3. \A r \in Relays : mid[r].stage = "Absent" => end[r] = mid[r]
    BY DEF SweepUnavailableTimeouts, Open
  <1>4. end = [r \in Relays |-> end[r]]
    BY DEF SweepUnavailableTimeouts
  <1> HIDE DEF end
  <1>5. \A r \in Relays : in_flight[h][r].stage = "Absent" => end[r] = in_flight[h][r]
    BY <1>2, <1>3
  <1>6. HasRow(end) => HasRow(in_flight[h])
    BY <1>5 DEF HasRow
  <1>7. ASSUME in_flight[h] = NoRow PROVE end = NoRow
    <2>1. \A r \in Relays : in_flight[h][r] = Absent /\ Absent.stage = "Absent"
      BY <1>7 DEF NoRow, Absent, Entry
    <2>2. \A r \in Relays : end[r] = Absent
      BY <1>5, <2>1
    <2> QED
      BY <1>4, <2>2 DEF NoRow
  <1> QED
    BY <1>1, <1>6, <1>7


\* A call that reports nothing and forgets at most a dispatch id.
LEMMA SilentQuiet ==
    ASSUME pending_terminals' = {},
           \A h \in Handles :
              /\ HasRow(in_flight'[h]) => HasRow(in_flight[h])
              /\ override'[h] \in {override[h], NoCid}
              /\ Gone(h) => in_flight'[h] = NoRow /\ store'[h] = NoRow
    PROVE  Quiet
  BY CidAssumption DEF Quiet, Carries

\* Demotion is quiet.
LEMMA DemoteQuiet ==
    ASSUME TypeInv, NEW relay \in Relays, Demote(relay),
           pending_terminals' = {}, override' = override
    PROVE  Quiet
  <1>1. in_flight \in GoodTable /\ in_flight' = Demoted(in_flight, relay)
    BY DEF TypeInv, Demote
  <1>2. \A h \in Handles : HasRow(in_flight'[h]) => HasRow(in_flight[h])
    <2> SUFFICES ASSUME NEW h \in Handles PROVE HasRow(in_flight[h]) <=> HasRow(in_flight'[h])
      OBVIOUS
    <2> QED
      BY <1>1, DemotedStages, SameStages
  <1>3. ASSUME NEW h \in Handles, Gone(h)
        PROVE  in_flight'[h] = NoRow /\ store'[h] = NoRow
    <2>1. \A r \in Relays : in_flight[h][r] = Absent /\ in_flight[h][r].stage = "Absent"
      BY <1>3 DEF Gone, NoRow, Absent, Entry
    <2>2. in_flight'[h] = NoRow
      BY <1>1, <2>1 DEF Demoted, NoRow
    <2>3. PICK ok \in Commits :
             store' = [g \in Handles |->
                IF g \in ok /\ in_flight[g][relay].stage = "InFlight"
                THEN Demoted(in_flight, relay)[g] ELSE store[g]]
      BY DEF Demote
    <2>4. in_flight[h][relay].stage # "InFlight"
      BY <2>1
    <2>5. store'[h] = store[h]
      BY <2>3, <2>4
    <2> QED
      BY <1>3, <2>2, <2>5 DEF Gone
  <1> QED
    BY <1>2, <1>3, SilentQuiet

\* An answer is quiet.
LEMMA OnAckQuiet ==
    ASSUME TypeInv, NEW h \in Handles, NEW r \in Relays, NEW answer \in Answers,
           OnAck(h, r, answer)
    PROVE  Quiet
  <1>0. in_flight \in GoodTable /\ store \in GoodTable /\ override \in CidTable
    BY DEF TypeInv
  <1>1. CASE ParkAwaitingAuth(h, r)
    BY <1>1, DemoteQuiet DEF ParkAwaitingAuth
  <1>2. CASE FoldAnswer(h, r, answer)
    <2> DEFINE row  == [in_flight[h] EXCEPT ![r] = ApplyAck(@, answer)]
               rows == [in_flight EXCEPT ![h] = row]
    <2>1. HasRow(in_flight[h]) /\ ~Gone(h)
      <3>1. in_flight[h][r].stage # "Absent"
        BY DEF OnAck
      <3>2. HasRow(in_flight[h])
        BY <3>1 DEF HasRow
      <3> QED
        BY <3>2, NoRowEmpty DEF Gone
    <2>2. \A g \in Handles \ {h} : rows[g] = in_flight[g]
      OBVIOUS
    <2>3. CASE IsComplete(row)
      <3>1. Finalize(rows, {h}, override, store)
        BY <1>2, <2>3 DEF FoldAnswer
      <3> HIDE DEF row, rows
      <3>2. \A g \in Handles, c \in Cids :
               HasRow(rows[g]) /\ override[g] = c => Carries(g, c)
        BY <2>1, <2>2 DEF Carries
      <3>3. \A g \in Handles : Gone(g) => rows[g] = NoRow /\ store[g] = NoRow
        BY <2>1, <2>2 DEF Gone
      <3> QED
        BY <3>1, <3>2, <3>3, FinalizeQuiet
    <2>4. CASE ~IsComplete(row)
      <3>1. /\ in_flight' = rows /\ pending_terminals' = {}
            /\ override' = override
            /\ \E ok \in Outcomes : store' = Upsert(h, row, ok)
        BY <1>2, <2>4 DEF FoldAnswer
      <3> HIDE DEF row, rows
      <3>2. \A g \in Handles \ {h} : store'[g] = store[g]
        BY <1>0, <3>1 DEF Upsert, GoodTable
      <3> QED
        BY <2>1, <2>2, <3>1, <3>2, SilentQuiet DEF Gone
    <2> QED
      BY <2>3, <2>4
  <1> QED
    BY <1>1, <1>2 DEF OnAck


\* A reconnect is quiet.
LEMMA AvailableQuiet ==
    ASSUME TypeInv, NEW relay \in Relays, MarkRelayAvailable(relay)
    PROVE  Quiet
  <1>0. in_flight \in GoodTable /\ store \in GoodTable
    BY DEF TypeInv
  <1>1. PICK found \in [Handles -> SUBSET Relays], pins \in [Handles -> SUBSET Relays],
             ok \in Commits :
          /\ \A h \in Handles : IsComplete(in_flight[h]) => found[h] = {}
          /\ LET rows == [h \in Handles |->
                             Retargeted(in_flight[h], found[h], pins[h])]
             IN  Finalize(DispatchAll(rows, Handles, {relay}, unavailable'),
                          Handles, override, PersistRetargeted(rows, ok))
    BY DEF MarkRelayAvailable
  <1> DEFINE rows == [h \in Handles |-> Retargeted(in_flight[h], found[h], pins[h])]
             sent == DispatchAll(rows, Handles, {relay}, unavailable')
             disk == PersistRetargeted(rows, ok)
  <1>2. Finalize(sent, Handles, override, disk)
    BY <1>1
  <1>3. ASSUME NEW h \in Handles
        PROVE  /\ rows[h] = Retargeted(in_flight[h], found[h], pins[h])
               /\ rows[h] \in GoodRows
               /\ HasRow(rows[h]) => HasRow(in_flight[h])
               /\ in_flight[h] = NoRow => rows[h] = NoRow
    <2>1. rows[h] = Retargeted(in_flight[h], found[h], pins[h])
      OBVIOUS
    <2>2. in_flight[h] \in GoodRows
      BY <1>0 DEF GoodTable
    <2>3. rows[h] \in GoodRows
      BY <2>1, <2>2, RetargetedGood
    <2>4. IsComplete(in_flight[h]) => rows[h] = in_flight[h]
      <3> SUFFICES ASSUME IsComplete(in_flight[h])
                   PROVE  Retargeted(in_flight[h], found[h], pins[h]) = in_flight[h]
        BY <2>1
      <3>1. found[h] = {}
        BY <1>1
      <3>2. in_flight[h] = [r \in Relays |-> in_flight[h][r]]
        BY <2>2 DEF GoodRows
      <3> QED
        BY <3>1, <3>2 DEF Retargeted
    <2> HIDE DEF rows
    <2> QED
      BY <2>1, <2>3, <2>4, NoRowEmpty, IncompleteIsRow
  <1>4. rows \in GoodTable
    BY <1>3 DEF GoodTable
  <1> HIDE DEF rows
  <1>5. \A h \in Handles : /\ HasRow(sent[h]) => HasRow(rows[h])
                           /\ rows[h] = NoRow => sent[h] = NoRow
    BY <1>4, DispatchKeepsRows
  <1>6. \A h \in Handles : Gone(h) => disk[h] = NoRow
    BY <1>3 DEF PersistRetargeted, Gone
  <1> HIDE DEF sent, disk
  <1>7. \A h \in Handles, c \in Cids :
           HasRow(sent[h]) /\ override[h] = c => Carries(h, c)
    BY <1>3, <1>5 DEF Carries
  <1>8. \A h \in Handles : Gone(h) => sent[h] = NoRow /\ disk[h] = NoRow
    BY <1>3, <1>5, <1>6 DEF Gone
  <1> QED
    BY <1>2, <1>7, <1>8, FinalizeQuiet

\* Start is quiet.
LEMMA StartQuiet ==
    ASSUME TypeInv, Start
    PROVE  Quiet
  <1>0. in_flight \in GoodTable /\ store \in GoodTable
    BY DEF TypeInv
  <1>1. CASE ResumeFromStore
    <2> DEFINE pend == LoadPending
               rows == [h \in Handles |-> IF h \in pend THEN store[h]
                                                        ELSE in_flight[h]]
               cids == [h \in Handles |-> IF h \in pend THEN NoCid ELSE override[h]]
               sent == DispatchAll(rows, pend, Relays, unavailable)
    <2>1. Finalize(sent, pend, cids, store)
      BY <1>1 DEF ResumeFromStore
    <2>2. pend \in SUBSET Handles
      BY DEF LoadPending
    <2>3. \A h \in Handles : Gone(h) => h \notin pend
      BY NoRowEmpty DEF LoadPending, Gone
    <2> HIDE DEF pend
    <2>4. rows \in GoodTable
      BY <1>0 DEF GoodTable
    <2>5. \A h \in Handles : /\ h \notin pend => rows[h] = in_flight[h]
                             /\ h \notin pend => cids[h] = override[h]
                             /\ h \in pend => cids[h] = NoCid
      OBVIOUS
    <2> HIDE DEF rows, cids
    <2>6. \A h \in Handles : /\ HasRow(sent[h]) => HasRow(rows[h])
                             /\ rows[h] = NoRow => sent[h] = NoRow
      BY <2>4, DispatchKeepsRows
    <2> HIDE DEF sent
    <2>7. \A h \in Handles, c \in Cids :
             HasRow(sent[h]) /\ cids[h] = c => Carries(h, c)
      BY <2>5, <2>6, CidAssumption DEF Carries
    <2>8. \A h \in Handles : Gone(h) => sent[h] = NoRow /\ store[h] = NoRow
      BY <2>3, <2>5, <2>6 DEF Gone
    <2> QED
      BY <2>1, <2>2, <2>7, <2>8, FinalizeQuiet
  <1>2. CASE pending_terminals' = {} /\ UNCHANGED <<in_flight, override, store, frames>>
    BY <1>2, SilentQuiet DEF Gone
  <1> QED
    BY <1>1, <1>2 DEF Start

\* The passing of time is quiet.
LEMMA TimePassQuiet ==
    ASSUME TypeInv, TimePass
    PROVE  Quiet
  <1>0. /\ in_flight \in GoodTable /\ store \in GoodTable
        /\ in_flight' = Aged(in_flight) /\ store' = Aged(store)
        /\ pending_terminals' = {} /\ override' = override
    BY DEF TypeInv, TimePass
  <1>1. ASSUME NEW rows \in GoodTable, NEW h \in Handles, rows[h] = NoRow
        PROVE  Aged(rows)[h] = NoRow
    <2>1. \A r \in Relays : [rows[h][r] EXCEPT !.timer = Elapsed(@)] = Absent
      BY <1>1 DEF NoRow, Absent, Entry, Elapsed
    <2> QED
      BY <2>1 DEF Aged, NoRow
  <1>2. ASSUME NEW h \in Handles
        PROVE  HasRow(in_flight'[h]) => HasRow(in_flight[h])
    BY <1>0, AgedStages DEF HasRow
  <1> QED
    BY <1>0, <1>1, <1>2, SilentQuiet DEF Gone

\* A tick is quiet.
LEMMA TickQuiet ==
    ASSUME TypeInv, Tick
    PROVE  Quiet
  <1>0. in_flight \in GoodTable
    BY DEF TypeInv
  <1>1. Finalize(Ticked, Handles, override, store)
    BY DEF Tick
  <1>2. Swept \in GoodTable
    BY <1>0, SweptGood
  <1>3. \A h \in Handles : /\ HasRow(Ticked[h]) => HasRow(Swept[h])
                           /\ Swept[h] = NoRow => Ticked[h] = NoRow
    BY <1>2, DispatchKeepsRows DEF Ticked
  <1>4. \A h \in Handles, c \in Cids :
           HasRow(Ticked[h]) /\ override[h] = c => Carries(h, c)
    BY <1>0, <1>3, SweepKeepsRows DEF Carries
  <1>5. \A h \in Handles : Gone(h) => Ticked[h] = NoRow /\ store[h] = NoRow
    BY <1>0, <1>3, SweepKeepsRows DEF Gone
  <1> QED
    BY <1>1, <1>4, <1>5, FinalizeQuiet

\* A retry is quiet.
LEMMA RetryQuiet ==
    ASSUME TypeInv, NEW h \in Handles, RetryNow(h)
    PROVE  Quiet
  <1>0. in_flight \in GoodTable /\ store \in GoodTable
    BY DEF TypeInv
  <1> DEFINE row  == Unhurried(in_flight[h])
             rows == [in_flight EXCEPT ![h] = row]
             sent == DispatchAll(rows, {h}, Relays, unavailable)
             disk == [store EXCEPT ![h] = row]
  <1>1. HasRow(in_flight[h]) /\ ~Gone(h)
    BY NoRowEmpty DEF RetryNow, Gone
  <1>2. row \in GoodRows
    BY <1>0, UnhurriedGood DEF GoodTable
  <1>3. CASE Finalize(sent, {h}, override, disk)
    <2> HIDE DEF row
    <2>1. \A g \in Handles \ {h} : rows[g] = in_flight[g] /\ disk[g] = store[g]
      OBVIOUS
    <2>2. rows \in GoodTable
      BY <1>0, <1>2 DEF GoodTable
    <2> HIDE DEF rows, disk
    <2>3. \A g \in Handles : /\ HasRow(sent[g]) => HasRow(rows[g])
                             /\ rows[g] = NoRow => sent[g] = NoRow
      BY <2>2, DispatchKeepsRows
    <2> HIDE DEF sent
    <2>4. \A g \in Handles, c \in Cids :
             HasRow(sent[g]) /\ override[g] = c => Carries(g, c)
      BY <1>1, <2>1, <2>3 DEF Carries
    <2>5. \A g \in Handles : Gone(g) => sent[g] = NoRow /\ disk[g] = NoRow
      BY <1>1, <2>1, <2>3 DEF Gone
    <2> QED
      BY <1>3, <2>4, <2>5, FinalizeQuiet
  <1>4. CASE in_flight' = rows /\ pending_terminals' = {}
             /\ UNCHANGED <<override, store, frames>>
    <2> HIDE DEF row
    <2> QED
      BY <1>1, <1>4, SilentQuiet DEF Gone
  <1> QED
    BY <1>3, <1>4 DEF RetryNow

\* Every call of the engine that is neither a publish nor a cancel is quiet.
LEMMA QuietStep ==
    ASSUME TypeInv,
           \/ \E h \in Handles, r \in Relays, answer \in Answers :
                 OnAck(h, r, answer)
           \/ \E r \in Relays : MarkRelayAvailable(r)
           \/ \E r \in Relays : MarkRelayUnavailable(r)
           \/ Start \/ Stop \/ TimePass \/ Tick \/ Crash \/ EngineUntouched
           \/ \E h \in Handles : RetryNow(h)
    PROVE  Quiet
  <1>1. ASSUME NEW r \in Relays, MarkRelayUnavailable(r) PROVE Quiet
    BY <1>1, DemoteQuiet DEF MarkRelayUnavailable
  <1>2. CASE Stop \/ EngineUntouched
    BY <1>2, SilentQuiet DEF Stop, EngineUntouched, engine_vars, Gone
  <1>3. CASE Crash
    BY <1>3, SilentQuiet, NoRowEmpty DEF Crash, Gone
  <1> QED
    BY <1>1, <1>2, <1>3, OnAckQuiet, AvailableQuiet, StartQuiet, TimePassQuiet,
       TickQuiet, RetryQuiet


-----------------------------------------------------------------------------
(* The calls that take up a publish or drop one.                            *)

\* A publish concerns its own handle only: its row speaks for the dispatch id
\* of the command, and a verdict reported at once leaves no row behind.
LEMMA StartOutcome ==
    ASSUME TypeInv, NEW h \in Handles, NEW targets, NEW pins, NEW cid,
           StartPublish(h, targets, pins, cid)
    PROVE  /\ \A g \in Handles, c \in Cids :
                 HasRow(in_flight'[g]) /\ override'[g] = c
                    => IF g = h THEN c = cid ELSE Carries(g, c)
           /\ \A v \in pending_terminals' :
                 /\ v.handle = h /\ v.cid = cid /\ v.status \in {"ok", "failed"}
                 /\ ~HasRow(in_flight'[h])
           /\ \A v, w \in pending_terminals' : v = w
           /\ \A g \in Handles \ {h} :
                 Gone(g) => in_flight'[g] = NoRow /\ store'[g] = NoRow
           /\ \A g \in Handles \ {h} : /\ in_flight'[g] = in_flight[g]
                                       /\ override'[g] = override[g]
           /\ pending_terminals' = {} /\ targets \in SUBSET Relays
                 => HasRow(in_flight'[h]) /\ override'[h] = cid
  <1>0. in_flight \in GoodTable /\ store \in GoodTable /\ override \in CidTable
    BY DEF TypeInv
  <1> DEFINE row  == Planned(targets, pins)
             rows == [in_flight EXCEPT ![h] = row]
             cids == [override EXCEPT ![h] = cid]
             sent == DispatchAll(rows, {h}, Relays, unavailable)
             disk == [store EXCEPT ![h] = row]
             done == Completed(sent, {h})
  <1>1. Finalize(sent, {h}, cids, disk)
    BY DEF StartPublish
  <1>2. /\ in_flight' = [g \in Handles |-> IF g \in done THEN NoRow ELSE sent[g]]
        /\ override' = [g \in Handles |-> IF g \in done THEN NoCid ELSE cids[g]]
        /\ pending_terminals' = {FromOutcome(g, cids[g], sent[g]) : g \in done}
        /\ \E ok \in Commits : store' = [g \in Handles |->
              IF g \in done \cap ok THEN NoRow ELSE disk[g]]
    BY <1>1 DEF Finalize
  <1>3. /\ \A g \in Handles \ {h} : /\ rows[g] = in_flight[g]
                                    /\ cids[g] = override[g] /\ disk[g] = store[g]
        /\ cids[h] = cid
    BY <1>0 DEF CidTable
  <1>4. done \subseteq {h}
    BY DEF Completed
  <1> HIDE DEF rows, cids, disk, done
  <1>5. ASSUME NEW g \in Handles \ {h} PROVE sent[g] = in_flight[g]
    <2>1. g \in Handles /\ g \notin {h}
      OBVIOUS
    <2>2. sent[g] = rows[g]
      BY <2>1, UnpickedUntouched
    <2> QED
      BY <1>3, <2>2
  <1>a. targets \in SUBSET Relays => HasRow(sent[h])
    <2> SUFFICES ASSUME targets \in SUBSET Relays PROVE HasRow(sent[h])
      OBVIOUS
    <2>1. rows[h] = row
      BY <1>0 DEF rows, GoodTable
    <2>2. HasRow(row)
      BY DEF StartPublish, Planned, HasRow, Entry
    <2>3. row \in GoodRows
      BY PlannedGood
    <2>4. rows \in GoodTable
      BY <1>0, <2>3 DEF rows, GoodTable
    <2> HIDE DEF row
    <2> QED
      BY <2>1, <2>2, <2>4, DispatchLeavesRows
  <1> HIDE DEF sent
  <1>6. ASSUME NEW v \in pending_terminals'
        PROVE  /\ h \in done /\ v = FromOutcome(h, cid, sent[h])
               /\ v.handle = h /\ v.cid = cid /\ v.status \in {"ok", "failed"}
    <2>1. h \in done /\ v = FromOutcome(h, cid, sent[h])
      BY <1>2, <1>3, <1>4
    <2> QED
      BY <2>1, FromOutcomeFields
  <1>7. h \in done => ~HasRow(in_flight'[h])
    BY <1>2, NoRowEmpty
  <1>8. ASSUME NEW g \in Handles, NEW c \in Cids, HasRow(in_flight'[g]), override'[g] = c
        PROVE  IF g = h THEN c = cid ELSE Carries(g, c)
    <2>1. g \notin done
      BY <1>2, <1>8, CidAssumption
    <2>2. HasRow(sent[g]) /\ cids[g] = c
      BY <1>2, <1>8, <2>1
    <2> QED
      BY <1>3, <1>5, <2>2 DEF Carries
  <1>9. ASSUME NEW g \in Handles \ {h}, Gone(g)
        PROVE  in_flight'[g] = NoRow /\ store'[g] = NoRow
    <2>1. g \notin done
      BY <1>4
    <2>2. in_flight'[g] = sent[g] /\ store'[g] = disk[g]
      BY <1>2, <2>1
    <2> QED
      BY <1>3, <1>5, <1>9, <2>2 DEF Gone
  <1>10. ASSUME NEW g \in Handles \ {h}
         PROVE  in_flight'[g] = in_flight[g] /\ override'[g] = override[g]
    <2>1. g \notin done
      BY <1>4
    <2> QED
      BY <1>2, <1>3, <1>5, <2>1
  <1>11. ASSUME pending_terminals' = {}, targets \in SUBSET Relays
         PROVE  HasRow(in_flight'[h]) /\ override'[h] = cid
    <2>1. h \notin done
      BY <1>2, <1>11
    <2> QED
      BY <1>2, <1>3, <1>a, <1>11, <2>1
  <1> QED
    BY <1>6, <1>7, <1>8, <1>9, <1>10, <1>11

\* A cancel leaves nothing of the publish, and touches no other.
LEMMA CancelOutcome ==
    ASSUME TypeInv, ~StoreMayFail, NEW h \in Handles, NEW cid,
           CancelByHandle(h, cid)
    PROVE  /\ in_flight'[h] = NoRow /\ store'[h] = NoRow
           /\ \A g \in Handles \ {h} : /\ in_flight'[g] = in_flight[g]
                                       /\ store'[g] = store[g]
                                       /\ override'[g] = override[g]
  BY DEF TypeInv, GoodTable, CidTable, CancelByHandle, Outcomes, Delete


-----------------------------------------------------------------------------
(* The handle index.                                                        *)

Pairs == [handle : Handles, cid : Cids \cup {NoCid}]

In(seq, x) == \E i \in DOMAIN seq : seq[i] = x

\* No handle is filed twice.
Distinct(ix) ==
    \A i, j \in DOMAIN ix : ix[i].handle = ix[j].handle => i = j

\* Induction over the naturals, for a property given as a set.
LEMMA SetInduction ==
    ASSUME NEW T \in SUBSET Nat, 0 \in T, \A n \in T : n + 1 \in T
    PROVE  T = Nat
  <1> DEFINE R == {ss \in Nat \X Nat : ss[1] < ss[2]}
             U == Nat \ T
  <1>1. IsWellFoundedOn(R, Nat)
    BY NatLessThanWellFounded DEF OpToRel
  <1>2. U # {} => \E x \in U : \A y \in U : ~(<<y, x>> \in R)
    <2>1. U \subseteq Nat
      OBVIOUS
    <2> HIDE DEF R, U
    <2> QED BY <1>1, <2>1, WFMin
  <1>3. ASSUME NEW x \in U, \A y \in U : ~(<<y, x>> \in R) PROVE FALSE
    <2>1. x \in Nat /\ x # 0 /\ x - 1 \in Nat /\ x - 1 < x
      OBVIOUS
    <2>2. x - 1 \notin U
      BY <1>3, <2>1
    <2>3. x - 1 \in T
      BY <2>1, <2>2
    <2>4. (x - 1) + 1 \in T
      BY <2>3
    <2> QED
      BY <2>1, <2>4
  <1> QED
    BY <1>2, <1>3

\* What appending a pair to the index does.
LEMMA AppendPair ==
    ASSUME NEW ix \in Seq(Pairs), NEW pair \in Pairs
    PROVE  /\ Append(ix, pair) \in Seq(Pairs)
           /\ Len(Append(ix, pair)) = Len(ix) + 1
           /\ \A p : In(Append(ix, pair), p) <=> In(ix, p) \/ p = pair
           /\ (\A p : In(ix, p) => p.handle # pair.handle) /\ Distinct(ix)
                 => Distinct(Append(ix, pair))
  <1> DEFINE new == Append(ix, pair)
             n == Len(ix)
  <1>1. /\ new \in Seq(Pairs) /\ Len(new) = n + 1
        /\ n \in Nat /\ DOMAIN ix = 1..n /\ DOMAIN new = 1..n+1
        /\ \A i \in 1..n : new[i] = ix[i]
        /\ new[n+1] = pair
    OBVIOUS
  <1> HIDE DEF new, n
  <1>2. \A p : In(new, p) <=> In(ix, p) \/ p = pair
    BY <1>1 DEF In
  <1>3. ASSUME \A p : In(ix, p) => p.handle # pair.handle, Distinct(ix)
        PROVE  Distinct(new)
    <2> SUFFICES ASSUME NEW i \in 1..n+1, NEW j \in 1..n+1,
                        new[i].handle = new[j].handle
                 PROVE  i = j
      BY <1>1 DEF Distinct
    <2>1. \A k \in 1..n : new[k].handle # pair.handle
      BY <1>1, <1>3 DEF In
    <2>2. CASE i \in 1..n /\ j \in 1..n
      BY <1>1, <1>3, <2>2 DEF Distinct
    <2>3. CASE i \notin 1..n \/ j \notin 1..n
      BY <1>1, <2>1, <2>3
    <2> QED
      BY <2>2, <2>3
  <1> QED
    BY <1>1, <1>2, <1>3 DEF new, n

\* One step of Forget.
LEMMA KeptPair ==
    ASSUME NEW ix \in Seq(Pairs), NEW pair \in Pairs, NEW gone
    PROVE  /\ Kept(ix, pair, gone) \in Seq(Pairs)
           /\ Len(Kept(ix, pair, gone)) \in {Len(ix), Len(ix) + 1}
           /\ \A p : In(Kept(ix, pair, gone), p) <=>
                        In(ix, p) \/ (p = pair /\ pair.handle \notin gone)
           /\ (\A p : In(ix, p) => p.handle # pair.handle) /\ Distinct(ix)
                 => Distinct(Kept(ix, pair, gone))
  <1>1. CASE pair.handle \in gone
    BY <1>1 DEF Kept
  <1>2. CASE pair.handle \notin gone
    BY <1>2, AppendPair DEF Kept
  <1> QED
    BY <1>1, <1>2

\* The recursion of Forget is defined on every prefix of the index.
LEMMA KeptExists ==
    ASSUME NEW ix \in Seq(Pairs), NEW gone, NEW n \in 0..Len(ix)
    PROVE  \E g \in [0..n -> Seq(Pairs)] :
              /\ g[0] = <<>>
              /\ \A m \in 1..n : g[m] = Kept(g[m - 1], ix[m], gone)
  <1> DEFINE Upto(k) == \E g \in [0..k -> Seq(Pairs)] :
                           /\ g[0] = <<>>
                           /\ \A m \in 1..k : g[m] = Kept(g[m - 1], ix[m], gone)
             T == {k \in Nat : k \in 0..Len(ix) => Upto(k)}
  <1>1. Len(ix) \in Nat /\ \A m \in 1..Len(ix) : ix[m] \in Pairs
    OBVIOUS
  <1>2. Upto(0)
    <2> DEFINE g == [m \in 0..0 |-> <<>>]
    <2>1. g \in [0..0 -> Seq(Pairs)] /\ g[0] = <<>>
      OBVIOUS
    <2> HIDE DEF g
    <2> QED
      BY <2>1
  <1>3. ASSUME NEW k \in Nat, k + 1 \in 0..Len(ix), Upto(k) PROVE Upto(k + 1)
    <2>1. PICK g \in [0..k -> Seq(Pairs)] :
             /\ g[0] = <<>>
             /\ \A m \in 1..k : g[m] = Kept(g[m - 1], ix[m], gone)
      BY <1>3
    <2> DEFINE next == Kept(g[k], ix[k + 1], gone)
               h == [m \in 0..k+1 |-> IF m = k + 1 THEN next ELSE g[m]]
    <2>2. next \in Seq(Pairs)
      <3>1. k \in 0..k /\ k + 1 \in 1..Len(ix)
        BY <1>1, <1>3
      <3>2. g[k] \in Seq(Pairs) /\ ix[k + 1] \in Pairs
        BY <1>1, <2>1, <3>1
      <3> QED
        BY <3>2, KeptPair
    <2>3. /\ h[k + 1] = next
          /\ \A m \in 0..k : h[m] = g[m]
      BY <1>3
    <2>4. h \in [0..k+1 -> Seq(Pairs)]
      <3> HIDE DEF next
      <3> QED
        BY <1>3, <2>1, <2>2
    <2> HIDE DEF h
    <2>5. h[0] = <<>>
      <3>1. 0 \in 0..k
        BY <1>3
      <3> QED
        BY <2>1, <2>3, <3>1
    <2>6. ASSUME NEW m \in 1..k+1 PROVE h[m] = Kept(h[m - 1], ix[m], gone)
      <3>1. CASE m = k + 1
        <4>1. m - 1 = k /\ k \in 0..k
          BY <1>3, <3>1
        <4>2. h[m - 1] = g[k]
          BY <2>3, <4>1
        <4> QED
          BY <2>3, <3>1, <4>2
      <3>2. CASE m # k + 1
        <4>1. m \in 1..k /\ m \in 0..k /\ m - 1 \in 0..k
          BY <1>3, <3>2
        <4> QED
          BY <2>1, <2>3, <4>1
      <3> QED
        BY <3>1, <3>2
    <2> QED
      BY <2>4, <2>5, <2>6
  <1> HIDE DEF Upto
  <1>4. T = Nat
    <2>1. T \in SUBSET Nat /\ 0 \in T
      BY <1>2
    <2>2. \A k \in T : k + 1 \in T
      BY <1>1, <1>3
    <2> HIDE DEF T
    <2> QED
      BY <2>1, <2>2, SetInduction
  <1>5. Upto(n)
    BY <1>1, <1>4
  <1> QED
    BY <1>5 DEF Upto

\* Forgetting handles drops their pairs and nothing else.
LEMMA ForgetFacts ==
    ASSUME NEW ix \in Seq(Pairs), NEW gone
    PROVE  /\ Forget(ix, gone) \in Seq(Pairs)
           /\ Len(Forget(ix, gone)) <= Len(ix)
           /\ \A p : In(Forget(ix, gone), p) <=> In(ix, p) /\ p.handle \notin gone
           /\ Distinct(ix) => Distinct(Forget(ix, gone))
  <1> DEFINE Is(g) == g = [n \in 0..Len(ix) |->
                             IF n = 0 THEN <<>>
                             ELSE Kept(g[n - 1], ix[n], gone)]
             kept == CHOOSE g : Is(g)
  <1>1. /\ Len(ix) \in Nat /\ DOMAIN ix = 1..Len(ix)
        /\ \A n \in 1..Len(ix) : ix[n] \in Pairs
    OBVIOUS
  <1>2. \E g : Is(g)
    <2>0. Len(ix) \in 0..Len(ix)
      BY <1>1
    <2>1. PICK g \in [0..Len(ix) -> Seq(Pairs)] :
             /\ g[0] = <<>>
             /\ \A m \in 1..Len(ix) : g[m] = Kept(g[m - 1], ix[m], gone)
      BY <2>0, KeptExists
    <2>2. \A n \in 0..Len(ix) :
             g[n] = IF n = 0 THEN <<>> ELSE Kept(g[n - 1], ix[n], gone)
      BY <1>1, <2>1
    <2> QED
      BY <2>1, <2>2
  <1>3. Is(kept)
    BY <1>2, Zenon
  <1>4. Forget(ix, gone) = kept[Len(ix)]
    BY DEF Forget
  <1>5. /\ kept[0] = <<>>
        /\ \A n \in 1..Len(ix) : kept[n] = Kept(kept[n - 1], ix[n], gone)
    <2> HIDE DEF kept
    <2>1. /\ 0 \in 0..Len(ix)
          /\ \A n \in 1..Len(ix) : n \in 0..Len(ix) /\ n # 0
      BY <1>1
    <2>2. \A n \in 0..Len(ix) :
             kept[n] = IF n = 0 THEN <<>> ELSE Kept(kept[n - 1], ix[n], gone)
      BY <1>3
    <2> QED
      BY <2>1, <2>2
  <1> HIDE DEF kept, Is
  <1> DEFINE Among(n, p) == \E i \in 1..n : ix[i] = p
             Good(n) == /\ kept[n] \in Seq(Pairs)
                        /\ Len(kept[n]) <= n
                        /\ \A p : In(kept[n], p) <=> Among(n, p) /\ p.handle \notin gone
                        /\ Distinct(ix) => Distinct(kept[n])
             T == {n \in Nat : n \in 0..Len(ix) => Good(n)}
  <1>6. Good(0)
    <2>1. kept[0] \in Seq(Pairs) /\ Len(kept[0]) = 0 /\ DOMAIN kept[0] = {}
      BY <1>5
    <2> QED
      BY <2>1 DEF In, Distinct
  <1>7. ASSUME NEW n \in Nat, n + 1 \in 0..Len(ix), Good(n) PROVE Good(n + 1)
    <2> DEFINE old == kept[n]
               pair == ix[n + 1]
    <2>1. n + 1 \in 1..Len(ix) /\ (n + 1) - 1 = n
      BY <1>1, <1>7
    <2>2. pair \in Pairs /\ kept[n + 1] = Kept(old, pair, gone)
      BY <1>1, <1>5, <2>1
    <2>3. \A p : Among(n + 1, p) <=> Among(n, p) \/ p = pair
      BY <1>7
    <2>4. /\ old \in Seq(Pairs) /\ Len(old) <= n /\ Len(old) \in Nat
          /\ \A p : In(old, p) <=> Among(n, p) /\ p.handle \notin gone
          /\ Distinct(ix) => Distinct(old)
      BY <1>7
    <2>5. Distinct(ix) => \A p : Among(n, p) => p.handle # pair.handle
      <3> SUFFICES ASSUME Distinct(ix), NEW i \in 1..n PROVE ix[i].handle # ix[n + 1].handle
        OBVIOUS
      <3>1. i \in DOMAIN ix /\ n + 1 \in DOMAIN ix /\ i # n + 1
        BY <1>1, <1>7, <2>1
      <3> QED
        BY <3>1 DEF Distinct
    <2> HIDE DEF old, pair, Among
    <2>6. /\ Kept(old, pair, gone) \in Seq(Pairs)
          /\ Len(Kept(old, pair, gone)) \in {Len(old), Len(old) + 1}
          /\ \A p : In(Kept(old, pair, gone), p) <=>
                       In(old, p) \/ (p = pair /\ pair.handle \notin gone)
          /\ (\A p : In(old, p) => p.handle # pair.handle) /\ Distinct(old)
                 => Distinct(Kept(old, pair, gone))
      BY <2>2, <2>4, KeptPair
    <2>7. Len(Kept(old, pair, gone)) <= n + 1
      BY <2>4, <2>6, <1>7
    <2>8. \A p : In(kept[n + 1], p) <=> Among(n + 1, p) /\ p.handle \notin gone
      BY <2>2, <2>3, <2>4, <2>6
    <2>9. Distinct(ix) => Distinct(kept[n + 1])
      BY <2>2, <2>4, <2>5, <2>6
    <2> QED
      BY <2>2, <2>6, <2>7, <2>8, <2>9
  <1> HIDE DEF Good
  <1>8. T = Nat
    <2>1. T \in SUBSET Nat /\ 0 \in T
      BY <1>6
    <2>2. \A n \in T : n + 1 \in T
      BY <1>1, <1>7
    <2> HIDE DEF T
    <2> QED
      BY <2>1, <2>2, SetInduction
  <1>9. Good(Len(ix))
    BY <1>1, <1>8
  <1>10. \A p : In(ix, p) <=> Among(Len(ix), p)
    BY <1>1 DEF In
  <1> HIDE DEF Among
  <1> QED
    BY <1>4, <1>9, <1>10 DEF Good


\* Least and greatest positions.
LEMMA MinNat ==
    ASSUME NEW T \in SUBSET Nat, T # {}
    PROVE  Min(T) \in T /\ \A y \in T : Min(T) <= y
  <1> DEFINE R == {ss \in Nat \X Nat : ss[1] < ss[2]}
  <1>1. IsWellFoundedOn(R, Nat)
    BY NatLessThanWellFounded DEF OpToRel
  <1>2. \E x \in T : \A y \in T : ~(<<y, x>> \in R)
    <2> HIDE DEF R
    <2> QED BY <1>1, WFMin
  <1>3. \E x \in T : \A y \in T : x =< y
    <2>1. PICK x \in T : \A y \in T : ~(<<y, x>> \in R)
      BY <1>2
    <2>2. ASSUME NEW y \in T PROVE x =< y
      <3>1. x \in Nat /\ y \in Nat
        OBVIOUS
      <3>2. y < x => <<y, x>> \in R
        BY <3>1
      <3> QED
        BY <2>1, <3>1, <3>2
    <2> QED
      BY <2>2
  <1> QED
    BY <1>3 DEF Min

\* A bounded set of naturals that is not empty has Max as its greatest
\* element.
LEMMA MaxBounded ==
    ASSUME NEW T \in SUBSET Nat, T # {}, NEW b \in Nat, \A x \in T : x <= b
    PROVE  Max(T) \in T /\ \A y \in T : Max(T) >= y
  <1> DEFINE D == {b - x : x \in T}
  <1>1. D \in SUBSET Nat /\ D # {}
    <2>1. \A x \in T : b - x \in Nat
      OBVIOUS
    <2>2. \E x \in T : b - x \in D
      OBVIOUS
    <2> QED
      BY <2>1, <2>2
  <1>2. Min(D) \in D /\ \A y \in D : Min(D) <= y
    <2> HIDE DEF D
    <2> QED BY <1>1, MinNat
  <1>3. PICK x \in T : Min(D) = b - x
    BY <1>2
  <1>4. \A y \in T : x >= y
    <2> SUFFICES ASSUME NEW y \in T PROVE x >= y
      OBVIOUS
    <2>1. b - y \in D
      OBVIOUS
    <2>2. b - x <= b - y
      BY <1>2, <1>3, <2>1
    <2> QED
      BY <2>2
  <1>5. \E z \in T : \A y \in T : z >= y
    BY <1>4
  <1> QED
    BY <1>5 DEF Max

\* A lookup finds a pair that matches, or there is none.
LEMMA LookupFacts ==
    ASSUME NEW ix \in Seq(Pairs), NEW h
    PROVE  LET at == SelectInSeq(ix, LAMBDA p : p.handle = h)
           IN  \/ at = 0 /\ \A i \in DOMAIN ix : ix[i].handle # h
               \/ at \in DOMAIN ix /\ at # 0 /\ ix[at].handle = h
  <1> DEFINE I == {i \in 1..Len(ix) : ix[i].handle = h}
  <1>1. SelectInSeq(ix, LAMBDA p : p.handle = h) = IF I # {} THEN Min(I) ELSE 0
    BY DEF SelectInSeq
  <1>2. I \in SUBSET Nat /\ DOMAIN ix = 1..Len(ix)
    OBVIOUS
  <1>3. I # {} => Min(I) \in I
    <2> HIDE DEF I
    <2> QED BY <1>2, MinNat
  <1> QED
    BY <1>1, <1>2, <1>3

\* resolve finds a pair with the id, as handle or as dispatch id, if there is
\* one.
LEMMA ResolveFacts ==
    ASSUME index \in Seq(Pairs), NEW id
    PROVE  \/ /\ Resolve(id) = 0
              /\ \A i \in DOMAIN index : index[i].handle # id /\ index[i].cid # id
           \/ /\ Resolve(id) \in DOMAIN index /\ Resolve(id) # 0
              /\ index[Resolve(id)].handle = id \/ index[Resolve(id)].cid = id
  <1> DEFINE I == {i \in 1..Len(index) : index[i].handle = id \/ index[i].cid = id}
  <1>1. Resolve(id) = IF I # {} THEN Min(I) ELSE 0
    BY DEF SelectInSeq, Resolve
  <1>2. I \in SUBSET Nat /\ DOMAIN index = 1..Len(index)
    OBVIOUS
  <1>3. I # {} => Min(I) \in I
    <2> HIDE DEF I
    <2> QED BY <1>2, MinNat
  <1> QED
    BY <1>1, <1>2, <1>3

\* Filing a handle keeps the bound and files it once; only a full index
\* forgets another pair.
LEMMA RecordFacts ==
    ASSUME NEW ix \in Seq(Pairs), Len(ix) <= IndexCap, NEW h \in Handles,
           NEW cid \in Cids \cup {NoCid}
    PROVE  LET new == Record(ix, h, cid)
               pair == [handle |-> h, cid |-> cid]
           IN  /\ new \in Seq(Pairs)
               /\ Len(new) <= IndexCap
               /\ \A p : In(new, p) => p = pair \/ In(ix, p)
               /\ In(new, pair)
               /\ Distinct(ix) => Distinct(new)
               /\ Distinct(ix) => \A p : In(new, p) /\ p.handle = h => p = pair
               /\ Len(ix) < IndexCap \/ (\E i \in DOMAIN ix : ix[i].handle = h)
                     => \A p : In(ix, p) /\ p.handle # h => In(new, p)
  <1> DEFINE pair == [handle |-> h, cid |-> cid]
             at   == SelectInSeq(ix, LAMBDA p : p.handle = h)
             new  == Record(ix, h, cid)
             n    == Len(ix)
  <1>0. pair \in Pairs /\ pair.handle = h
    BY DEF Pairs
  <1>1. new = IF at # 0 THEN [ix EXCEPT ![at] = pair]
              ELSE IF n >= IndexCap THEN Append(Tail(ix), pair)
              ELSE Append(ix, pair)
    BY DEF Record, ReplaceAt
  <1>2. \/ at = 0 /\ \A i \in DOMAIN ix : ix[i].handle # h
        \/ at \in DOMAIN ix /\ at # 0 /\ ix[at].handle = h
    BY LookupFacts
  <1>3. n \in Nat /\ DOMAIN ix = 1..n /\ IndexCap \in Nat \ {0} /\ n <= IndexCap
        /\ \A i \in 1..n : ix[i] \in Pairs
    BY CapAssumption
  <1> HIDE DEF pair, at, new
  <1>4. CASE at # 0
    <2>1. /\ new \in Seq(Pairs) /\ Len(new) = n /\ DOMAIN new = 1..n
          /\ at \in 1..n /\ ix[at].handle = h
          /\ \A i \in 1..n : new[i] = IF i = at THEN pair ELSE ix[i]
      BY <1>0, <1>1, <1>2, <1>3, <1>4
    <2> HIDE DEF n
    <2>2. \A p : In(new, p) => p = pair \/ In(ix, p)
      BY <1>3, <2>1 DEF In
    <2>3. In(new, pair)
      BY <2>1 DEF In
    <2>4. \A i \in 1..n : new[i].handle = ix[i].handle
      BY <1>0, <2>1
    <2>5. Distinct(ix) => Distinct(new)
      BY <1>3, <2>1, <2>4 DEF Distinct
    <2>6. Distinct(ix) => \A p : In(new, p) /\ p.handle = h => p = pair
      BY <1>0, <1>3, <2>1, <2>4 DEF Distinct, In
    <2>7. \A p : In(ix, p) /\ p.handle # h => In(new, p)
      BY <1>3, <2>1 DEF In
    <2> QED
      BY <1>3, <2>1, <2>2, <2>3, <2>5, <2>6, <2>7 DEF n, new, pair
  <1>5. CASE at = 0
    <2> DEFINE old == IF n >= IndexCap THEN Tail(ix) ELSE ix
    <2>1. new = Append(old, pair)
      BY <1>1, <1>5
    <2>2. /\ old \in Seq(Pairs) /\ Len(old) < IndexCap /\ Len(old) \in Nat
          /\ \A p : In(old, p) => In(ix, p)
          /\ Distinct(ix) => Distinct(old)
      <3>1. CASE n >= IndexCap
        <4>1. /\ old \in Seq(Pairs) /\ Len(old) = n - 1 /\ DOMAIN old = 1..(n-1)
              /\ \A i \in 1..(n-1) : i + 1 \in 1..n /\ old[i] = ix[i + 1]
          BY <1>3, <3>1
        <4>2. \A p : In(old, p) => In(ix, p)
          BY <1>3, <4>1 DEF In
        <4>3. Distinct(ix) => Distinct(old)
          <5> HIDE DEF old, n
          <5> SUFFICES ASSUME Distinct(ix), NEW i \in 1..(n-1), NEW j \in 1..(n-1),
                              old[i].handle = old[j].handle
                       PROVE  i = j
            BY <4>1 DEF Distinct
          <5>1. i + 1 \in DOMAIN ix /\ j + 1 \in DOMAIN ix
            BY <1>3, <4>1
          <5>2. ix[i + 1].handle = ix[j + 1].handle
            BY <4>1
          <5>3. i + 1 = j + 1
            BY <5>1, <5>2 DEF Distinct
          <5> QED
            BY <5>3
        <4>4. Len(old) < IndexCap /\ Len(old) \in Nat
          <5> HIDE DEF old, n
          <5> QED BY <1>3, <3>1, <4>1
        <4> HIDE DEF old
        <4> QED
          BY <4>1, <4>2, <4>3, <4>4
      <3>2. CASE ~(n >= IndexCap)
        BY <1>3, <3>2
      <3> QED
        BY <3>1, <3>2
    <2>3. \A p : In(ix, p) => p.handle # h
      BY <1>2, <1>5 DEF In
    <2>4. n < IndexCap => old = ix
      <3>1. n < IndexCap => ~(n >= IndexCap)
        <4> HIDE DEF n
        <4> QED BY <1>3
      <3> QED
        BY <3>1
    <2> HIDE DEF old
    <2>5. /\ new \in Seq(Pairs) /\ Len(new) = Len(old) + 1
          /\ \A p : In(new, p) <=> In(old, p) \/ p = pair
          /\ (\A p : In(old, p) => p.handle # pair.handle) /\ Distinct(old)
                 => Distinct(new)
      BY <1>0, <2>1, <2>2, AppendPair
    <2>6. Distinct(ix) => Distinct(new)
      BY <1>0, <2>2, <2>3, <2>5
    <2>7. \A p : In(new, p) /\ p.handle = h => p = pair
      BY <2>2, <2>3, <2>5
    <2>8. n < IndexCap => \A p : In(ix, p) => In(new, p)
      BY <2>4, <2>5
    <2>9. ~\E i \in DOMAIN ix : ix[i].handle = h
      BY <1>2, <1>5
    <2>10. Len(new) <= IndexCap
      BY <1>3, <2>2, <2>5
    <2> QED
      BY <2>2, <2>5, <2>6, <2>7, <2>8, <2>9, <2>10 DEF n, new, pair
  <1> QED
    BY <1>4, <1>5


-----------------------------------------------------------------------------
(* The publish queue.                                                       *)

QueueStatuses == {"accepted_locally", "ok", "failed", "cancelled",
                  "pending_relays_unknown", "duplicate", "store_error"}

QueueRows == [handle : Handles, can_retry : BOOLEAN, status : QueueStatuses]

GoodQueue(q) == q \in Seq(QueueRows) /\ Len(q) <= QueueCap

\* A queue entry has its type.
LEMMA EntryType ==
    ASSUME NEW h \in Handles, NEW status \in QueueStatuses, NEW can_retry \in BOOLEAN
    PROVE  QueueEntry(h, status, can_retry) \in QueueRows
  BY DEF QueueEntry, QueueRows

\* Pushing keeps the queue within its bound.
LEMMA PushGood ==
    ASSUME NEW q, GoodQueue(q), NEW row \in QueueRows
    PROVE  GoodQueue(Push(q, row))
  <1> DEFINE longer == Append(q, row)
  <1>1. /\ q \in Seq(QueueRows) /\ Len(q) \in Nat /\ Len(q) <= QueueCap
        /\ QueueCap \in Nat \ {0}
    BY CapAssumption DEF GoodQueue
  <1>2. longer \in Seq(QueueRows) /\ Len(longer) = Len(q) + 1 /\ longer # <<>>
    BY <1>1
  <1>3. Push(q, row) = IF Len(longer) > QueueCap THEN Tail(longer) ELSE longer
    BY DEF Push
  <1> HIDE DEF longer
  <1>4. Tail(longer) \in Seq(QueueRows) /\ Len(Tail(longer)) = Len(longer) - 1
    BY <1>1, <1>2
  <1> QED
    BY <1>1, <1>2, <1>3, <1>4 DEF GoodQueue

\* What the search for the most recent row of a handle returns.
LEMMA LastRowFacts ==
    ASSUME NEW q \in Seq(QueueRows), NEW h
    PROVE  \/ LastRow(q, h) = 0 /\ \A i \in DOMAIN q : q[i].handle # h
           \/ LastRow(q, h) \in DOMAIN q /\ q[LastRow(q, h)].handle = h
  <1> DEFINE I == {i \in 1..Len(q) : q[i].handle = h}
  <1>1. LastRow(q, h) = IF I # {} THEN Max(I) ELSE 0
    BY DEF SelectLastInSeq, LastRow
  <1>2. /\ I \in SUBSET Nat /\ DOMAIN q = 1..Len(q) /\ Len(q) \in Nat
        /\ \A i \in I : i <= Len(q)
    OBVIOUS
  <1>3. I # {} => Max(I) \in I
    <2> HIDE DEF I
    <2> QED BY <1>2, MaxBounded
  <1> QED
    BY <1>1, <1>2, <1>3

\* Removing a row keeps the queue within its bound.
LEMMA DroppedGood ==
    ASSUME NEW q, GoodQueue(q), NEW h, \E i \in DOMAIN q : q[i].handle = h
    PROVE  GoodQueue(Dropped(q, h))
  <1> DEFINE at == LastRow(q, h)
             n == Len(q)
  <1>1. /\ q \in Seq(QueueRows) /\ n \in Nat /\ n <= QueueCap /\ DOMAIN q = 1..n
        /\ QueueCap \in Nat \ {0}
    BY CapAssumption DEF GoodQueue
  <1>2. at \in 1..n
    BY <1>1, LastRowFacts
  <1>3. Dropped(q, h) = SubSeq(q, 1, at - 1) \o SubSeq(q, at + 1, n)
    BY DEF Dropped, RemoveAt
  <1> HIDE DEF at
  <1> DEFINE front == SubSeq(q, 1, at - 1)
             back == SubSeq(q, at + 1, n)
  <1>4. /\ front \in Seq(QueueRows) /\ Len(front) = at - 1
        /\ back \in Seq(QueueRows) /\ Len(back) = n - at
    <2>1. \A i \in 1..n : q[i] \in QueueRows
      BY <1>1
    <2> HIDE DEF n
    <2>2. /\ at - 1 \in Int /\ at + 1 \in Int /\ n \in Int /\ 1 \in Int
          /\ \A i \in 1..(at - 1) : q[i] \in QueueRows
          /\ \A i \in (at + 1)..n : q[i] \in QueueRows
      BY <1>1, <1>2, <2>1
    <2>3. /\ front \in Seq(QueueRows)
          /\ Len(front) = IF 1 <= at - 1 THEN at - 1 - 1 + 1 ELSE 0
      BY <2>2, SubSeqProperties
    <2>4. /\ back \in Seq(QueueRows)
          /\ Len(back) = IF at + 1 <= n THEN n - (at + 1) + 1 ELSE 0
      BY <2>2, SubSeqProperties
    <2> QED
      BY <1>1, <1>2, <2>3, <2>4
  <1> HIDE DEF front, back
  <1>5. front \o back \in Seq(QueueRows) /\ Len(front \o back) = n - 1
    <2>1. /\ front \o back \in Seq(QueueRows)
          /\ Len(front \o back) = Len(front) + Len(back)
      BY <1>4, ConcatProperties
    <2> HIDE DEF n
    <2> QED
      BY <1>1, <1>2, <1>4, <2>1
  <1>6. Dropped(q, h) = front \o back
    BY <1>3 DEF front, back
  <1> HIDE DEF n
  <1> QED
    BY <1>1, <1>5, <1>6 DEF GoodQueue

\* Refining rows keeps the queue within its bound.
LEMMA RefinedGood ==
    ASSUME NEW q, GoodQueue(q), NEW verdicts \in SUBSET Verdicts
    PROVE  GoodQueue(Refined(q, verdicts))
  <1> DEFINE n == Len(q)
             new == Refined(q, verdicts)
  <1>1. /\ q \in Seq(QueueRows) /\ n \in Nat /\ n <= QueueCap /\ DOMAIN q = 1..n
        /\ \A i \in 1..n : q[i] \in QueueRows
    BY DEF GoodQueue
  <1>2. ASSUME NEW i \in 1..n PROVE new[i] \in QueueRows
    <2> DEFINE about == {v \in verdicts : /\ v.queue # "none"
                                          /\ v.handle = q[i].handle
                                          /\ i = LastRow(q, v.handle)}
               v == CHOOSE w \in about : TRUE
    <2>1. new[i] = IF about = {} THEN q[i]
                   ELSE QueueEntry(v.handle, QueueStatus(v),
                                   QueueStatus(v) = "failed" \/ v.lossy)
      BY <1>1 DEF Refined
    <2>2. about # {} => v \in Verdicts
      <3>1. about \subseteq Verdicts
        OBVIOUS
      <3> HIDE DEF about
      <3> QED BY <3>1
    <2> HIDE DEF about, v
    <2>3. CASE about # {}
      <3>1. v.handle \in Handles /\ v.status \in {"ok", "failed", "cancelled"}
        BY <2>2, <2>3 DEF Verdicts
      <3>2. QueueStatus(v) \in QueueStatuses
        BY <3>1 DEF QueueStatus, QueueStatuses
      <3>3. (QueueStatus(v) = "failed" \/ v.lossy) \in BOOLEAN
        OBVIOUS
      <3> DEFINE s == QueueStatus(v)
                 b == (QueueStatus(v) = "failed" \/ v.lossy)
      <3>4. s \in QueueStatuses /\ b \in BOOLEAN
        BY <3>2, <3>3
      <3>5. new[i] = QueueEntry(v.handle, s, b)
        BY <2>1, <2>3
      <3> HIDE DEF s, b
      <3> QED
        BY <3>1, <3>4, <3>5, EntryType
    <2> QED
      BY <1>1, <2>1, <2>3
  <1>3. DOMAIN new = 1..n
    BY <1>1 DEF Refined
  <1>4. new = [i \in 1..n |-> new[i]]
    BY <1>1 DEF Refined
  <1> HIDE DEF new, n
  <1>5. new \in Seq(QueueRows)
    BY <1>1, <1>2, <1>4
  <1>6. Len(new) = n
    BY <1>1, <1>3, <1>5
  <1> QED
    BY <1>1, <1>5, <1>6 DEF GoodQueue, new

-----------------------------------------------------------------------------
(* What the host knows.                                                     *)

Told == {"published", "failed", "cancelled"}

HostKnows == [phase : {"unused", "waiting", "answered", "gone"}, told : SUBSET Told]

HostTable == [Cids -> HostKnows]

\* What one id hears from a set of statuses.
LEMMA HearFacts ==
    ASSUME NEW known \in HostTable, NEW c \in Cids, NEW statuses \in SUBSET Told
    PROVE  /\ Hear(known, c, statuses) \in HostKnows
           /\ Hear(known, c, statuses).told = known[c].told \cup statuses
           /\ Hear(known, c, statuses).phase =
                 IF statuses = {} THEN known[c].phase ELSE "answered"
  BY DEF HostTable, HostKnows, Hear

\* The statuses a set of verdicts has for a dispatch id.
News(verdicts, c) == {Wire(v.status) : v \in {w \in verdicts : w.cid = c}}

\* What every id hears from the verdicts of one call.
LEMMA HeardFacts ==
    ASSUME NEW known \in HostTable,
           NEW verdicts, \A v \in verdicts : v.status \in {"ok", "failed", "cancelled"}
    PROVE  /\ Heard(known, verdicts) \in HostTable
           /\ \A c \in Cids :
                 LET news == News(verdicts, c)
                 IN  /\ Heard(known, verdicts)[c].told = known[c].told \cup news
                     /\ Heard(known, verdicts)[c].phase =
                           IF news = {} THEN known[c].phase ELSE "answered"
  <1>1. ASSUME NEW c \in Cids
        PROVE  News(verdicts, c) \in SUBSET Told
    BY DEF News, Wire, Told
  <1>2. ASSUME NEW c \in Cids
        PROVE  Heard(known, verdicts)[c] = Hear(known, c, News(verdicts, c))
    BY DEF Heard, News
  <1>3. Heard(known, verdicts) = [c \in Cids |-> Heard(known, verdicts)[c]]
    BY DEF Heard
  <1>4. ASSUME NEW c \in Cids PROVE Heard(known, verdicts)[c] \in HostKnows
    BY <1>1, <1>2, HearFacts
  <1> QED
    BY <1>1, <1>2, <1>3, <1>4, HearFacts DEF HostTable

\* What dispatching under an id changes in what the host knows.
LEMMA AskedFacts ==
    ASSUME host \in HostTable, NEW cid
    PROVE  /\ Asked(cid) \in HostTable
           /\ \A c \in Cids :
                 /\ Asked(cid)[c].told = host[c].told
                 /\ Asked(cid)[c].phase = IF c = cid THEN "waiting" ELSE host[c].phase
  <1>1. ASSUME NEW c \in Cids
        PROVE  /\ Asked(cid)[c] \in HostKnows
               /\ Asked(cid)[c].told = host[c].told
               /\ Asked(cid)[c].phase = IF c = cid THEN "waiting" ELSE host[c].phase
    <2>1. host[c] \in HostKnows
      BY DEF HostTable
    <2>2. Asked(cid)[c] = IF c = cid THEN [host[c] EXCEPT !.phase = "waiting"] ELSE host[c]
      BY DEF Asked
    <2> QED
      BY <2>1, <2>2 DEF HostKnows
  <1>2. Asked(cid) = [c \in Cids |-> Asked(cid)[c]]
    BY DEF Asked
  <1> QED
    BY <1>1, <1>2 DEF HostTable

\* What a failure told at once changes in what the host knows.
LEMMA FailedFacts ==
    ASSUME NEW known \in HostTable, NEW cid
    PROVE  /\ Failed(known, cid) \in HostTable
           /\ \A c \in Cids :
                 /\ Failed(known, cid)[c].told =
                       known[c].told \cup (IF c = cid THEN {"failed"} ELSE {})
                 /\ Failed(known, cid)[c].phase =
                       IF c = cid THEN "answered" ELSE known[c].phase
  <1>1. ASSUME NEW c \in Cids
        PROVE  Failed(known, cid)[c] =
                  Hear(known, c, IF c = cid THEN {"failed"} ELSE {})
    BY DEF Failed
  <1>2. ASSUME NEW c \in Cids
        PROVE  (IF c = cid THEN {"failed"} ELSE {}) \in SUBSET Told
    BY DEF Told
  <1>3. ASSUME NEW c \in Cids
        PROVE  /\ Failed(known, cid)[c] \in HostKnows
               /\ Failed(known, cid)[c].told =
                       known[c].told \cup (IF c = cid THEN {"failed"} ELSE {})
               /\ Failed(known, cid)[c].phase =
                       IF c = cid THEN "answered" ELSE known[c].phase
    BY <1>1, <1>2, HearFacts
  <1>4. Failed(known, cid) = [c \in Cids |-> Failed(known, cid)[c]]
    BY DEF Failed
  <1> QED
    BY <1>3, <1>4 DEF HostTable


-----------------------------------------------------------------------------
(* Type correctness of the kernel.  The views do not feed back into the      *)
(* engine except through a cancel, whose dispatch id comes from the index.   *)

KernelTypeInv ==
    /\ TypeInv
    /\ index \in Seq(Pairs) /\ Len(index) <= IndexCap
    /\ GoodQueue(queue)
    /\ host \in HostTable
    /\ withdrawn \subseteq Handles

\* The statuses a verdict can have.
LEMMA VerdictStatus ==
    ASSUME NEW verdicts \in SUBSET Verdicts
    PROVE  \A v \in verdicts : v.status \in {"ok", "failed", "cancelled"}
  BY DEF Verdicts

\* The drain keeps the views well-formed.
LEMMA DrainType ==
    ASSUME NEW q, GoodQueue(q), NEW ix \in Seq(Pairs), Len(ix) <= IndexCap,
           NEW known \in HostTable, TypeInv', Drain(q, ix, known)
    PROVE  /\ index' \in Seq(Pairs) /\ Len(index') <= IndexCap
           /\ GoodQueue(queue') /\ host' \in HostTable
  <1>1. pending_terminals' \in SUBSET Verdicts
    BY DEF TypeInv
  <1>2. GoodQueue(queue')
    BY <1>1, RefinedGood DEF Drain
  <1>3. host' \in HostTable
    BY <1>1, VerdictStatus, HeardFacts DEF Drain
  <1> DEFINE gone == {v.handle : v \in {w \in pending_terminals' :
                                                 w.queue = "settled"}}
  <1>4. index' = Forget(ix, gone)
    BY DEF Drain
  <1> HIDE DEF gone
  <1>5. index' \in Seq(Pairs) /\ Len(index') <= Len(ix)
    BY <1>4, ForgetFacts
  <1>6. Len(ix) \in Nat /\ Len(index') \in Nat /\ IndexCap \in Nat
    BY <1>5, CapAssumption
  <1> QED
    BY <1>2, <1>3, <1>5, <1>6

\* Leaving the engine alone keeps TypeInv.
LEMMA UntouchedType ==
    ASSUME TypeInv, EngineUntouched
    PROVE  TypeInv'
  BY DEF TypeInv, EngineUntouched, engine_vars

\* A publish keeps the engine well-formed.
LEMMA RunEngineType ==
    ASSUME TypeInv, NEW h \in Handles, NEW cid \in Cids \cup {NoCid}, NEW q, NEW known,
           RunPublishEngine(h, cid, q, known)
    PROVE  TypeInv'
  <1>1. CASE \E targets \in SUBSET Relays : \E pins \in Pins(h, targets) :
                \/ StartPublish(h, targets, pins, cid)
                \/ StartPublishStoreError(h, targets, pins, cid)
    BY <1>1, TypeInvStep DEF Next
  <1>2. CASE StartPublishNoTargets(h, cid)
    BY <1>2, TypeInvStep DEF Next
  <1>3. CASE EngineUntouched
    BY <1>3, UntouchedType
  <1> QED
    BY <1>1, <1>2, <1>3 DEF RunPublishEngine, PublishOk

\* A failed publish keeps the views well-formed.
LEMMA PublishErrorType ==
    ASSUME index \in Seq(Pairs), Len(index) <= IndexCap, NEW h \in Handles, NEW cid, NEW q, GoodQueue(q), NEW known \in HostTable,
           NEW status \in {"pending_relays_unknown", "store_error", "duplicate"},
           PublishError(h, cid, q, known, status)
    PROVE  /\ index' \in Seq(Pairs) /\ Len(index') <= IndexCap
           /\ GoodQueue(queue') /\ host' \in HostTable
  <1> DEFINE again == (status = "pending_relays_unknown")
             row == QueueEntry(h, status, again)
  <1>1. again \in BOOLEAN /\ status \in QueueStatuses
    BY DEF QueueStatuses
  <1>2. queue' = Push(q, row)
    BY DEF PublishError
  <1>3. row \in QueueRows
    <2> HIDE DEF again
    <2> QED BY <1>1, EntryType
  <1> HIDE DEF row
  <1> QED
    BY <1>2, <1>3, PushGood, FailedFacts DEF PublishError

\* A publish keeps KernelTypeInv.
LEMMA RunType ==
    ASSUME KernelTypeInv, NEW h \in Handles, NEW cid \in Cids \cup {NoCid}, NEW q, GoodQueue(q),
           NEW known \in HostTable, RunPublishEngine(h, cid, q, known)
    PROVE  KernelTypeInv'
  <1>1. TypeInv' /\ pending_terminals' \in SUBSET Verdicts
    BY RunEngineType DEF KernelTypeInv, TypeInv
  <1>2. withdrawn' \subseteq Handles
    BY DEF KernelTypeInv, RunPublishEngine
  <1>3. index \in Seq(Pairs) /\ Len(index) <= IndexCap
    BY DEF KernelTypeInv
  <1>4. Heard(known, pending_terminals') \in HostTable
    BY <1>1, VerdictStatus, HeardFacts
  <1>5. CASE PublishOk(h, cid, q, known)
    <2>1. PICK targets \in SUBSET Relays : \E pins \in Pins(h, targets) :
             Drain(IF Frames(h, Planned(targets, pins)) = {} THEN q
                   ELSE Push(q, QueueEntry(h, "accepted_locally", FALSE)),
                   Record(index, h, cid), known)
      BY <1>5 DEF PublishOk
    <2>2. PICK pins \in Pins(h, targets) :
             Drain(IF Frames(h, Planned(targets, pins)) = {} THEN q
                   ELSE Push(q, QueueEntry(h, "accepted_locally", FALSE)),
                   Record(index, h, cid), known)
      BY <2>1
    <2> DEFINE p == IF Frames(h, Planned(targets, pins)) = {} THEN q
                    ELSE Push(q, QueueEntry(h, "accepted_locally", FALSE))
               ix == Record(index, h, cid)
    <2>3. Drain(p, ix, known)
      BY <2>2
    <2>4. GoodQueue(p)
      <3>1. QueueEntry(h, "accepted_locally", FALSE) \in QueueRows
        BY EntryType DEF QueueStatuses
      <3> QED
        BY <3>1, PushGood
    <2>5. ix \in Seq(Pairs) /\ Len(ix) <= IndexCap
      BY <1>3, RecordFacts
    <2> HIDE DEF p, ix
    <2> QED
      BY <1>1, <1>2, <2>3, <2>4, <2>5, DrainType DEF KernelTypeInv
  <1>6. CASE \/ PublishError(h, cid, q, Heard(known, pending_terminals'), "pending_relays_unknown")
             \/ PublishError(h, cid, q, known, "store_error")
             \/ PublishError(h, cid, q, known, "duplicate")
    <2>1. PICK k \in HostTable, s \in {"pending_relays_unknown", "store_error", "duplicate"} :
             PublishError(h, cid, q, k, s)
      BY <1>4, <1>6
    <2>2. /\ index' \in Seq(Pairs) /\ Len(index') <= IndexCap
          /\ GoodQueue(queue') /\ host' \in HostTable
      BY <1>3, <2>1, PublishErrorType
    <2> QED
      BY <1>1, <1>2, <2>2 DEF KernelTypeInv
  <1> QED
    BY <1>5, <1>6 DEF RunPublishEngine

\* The dispatch id a cancel reports comes from the index, or is none.
LEMMA CancelCases ==
    ASSUME KernelTypeInv, NEW id \in HeldIds, CancelPublish(id)
    PROVE  \/ \E h \in Handles : ClearSettled(h)
           \/ \E h \in Handles, cid \in Cids \cup {NoCid} :
                 /\ CancelLive(h, cid)
                 /\ \/ In(index, [handle |-> h, cid |-> cid])
                    \/ h = id /\ cid = NoCid /\ \A p : In(index, p) => p.handle # h
           \/ /\ id \in Cids /\ CancelUnknown(id)
              /\ \A p : In(index, p) => p.cid # id
  <1> DEFINE at == Resolve(id)
             h == IF at # 0 THEN index[at].handle ELSE id
             cid == IF at # 0 THEN index[at].cid ELSE NoCid
  <1>1. \/ h \in Handles /\ ClearSettled(h)
        \/ h \in Handles /\ CancelLive(h, cid)
        \/ h \in Cids /\ CancelUnknown(h)
    BY DEF CancelPublish
  <1>2. \/ at = 0 /\ \A i \in DOMAIN index : index[i].handle # id /\ index[i].cid # id
        \/ at \in DOMAIN index /\ at # 0
    BY ResolveFacts DEF KernelTypeInv
  <1> HIDE DEF at
  <1>3. CASE at = 0
    <2>1. h = id /\ cid = NoCid
      BY <1>3
    <2>2. \A p : In(index, p) => p.handle # id /\ p.cid # id
      BY <1>2, <1>3 DEF In
    <2> HIDE DEF h, cid
    <2> QED
      BY <1>1, <2>1, <2>2
  <1>4. CASE at # 0
    <2>1. index[at] \in Pairs /\ In(index, index[at])
      BY <1>2, <1>4 DEF KernelTypeInv, In
    <2>2. h = index[at].handle /\ cid = index[at].cid
      BY <1>4
    <2> HIDE DEF h, cid
    <2>3. h \in Handles /\ cid \in Cids \cup {NoCid} /\ index[at] = [handle |-> h, cid |-> cid]
      BY <2>1, <2>2 DEF Pairs
    <2> QED
      BY <1>1, <2>1, <2>3, IdAssumption
  <1> QED
    BY <1>3, <1>4


\* A cancel keeps the engine well-formed.
LEMMA CancelEngineType ==
    ASSUME TypeInv, NEW h \in Handles, NEW cid \in Cids \cup {NoCid},
           CancelByHandle(h, cid)
    PROVE  TypeInv'
  <1>1. LastTerminal(h, cid, "cancelled", "cancelled", FALSE) \in Verdicts
    BY DEF LastTerminal, Verdicts
  <1>2. pending_terminals' \subseteq Verdicts
    BY <1>1 DEF CancelByHandle
  <1>3. in_flight' \in GoodTable /\ override' \in CidTable
    BY NoRowGood DEF TypeInv, CancelByHandle, GoodTable, CidTable
  <1>4. store' \in GoodTable
    BY NoRowGood DEF TypeInv, CancelByHandle, GoodTable, Delete
  <1> QED
    BY <1>2, <1>3, <1>4 DEF TypeInv, CancelByHandle

\* A step of the kernel is a publish, a cancel, or a drained call of the engine
\* that is neither.
Drained ==
    /\ \/ \E h \in Handles, r \in Relays, answer \in Answers :
             OnAck(h, r, answer)
       \/ \E r \in Relays : MarkRelayAvailable(r)
       \/ \E r \in Relays : MarkRelayUnavailable(r)
       \/ Start \/ Stop \/ TimePass \/ Tick
       \/ \E h \in Handles : RetryNow(h)
    /\ Drain(queue, index, host)
    /\ UNCHANGED withdrawn

\* Every step of the kernel but a crash is a drained event, a publish, a
\* retry or a cancel.
LEMMA KernelCases ==
    ASSUME KernelTypeInv, KernelNext
    PROVE  \/ Drained
           \/ \E h \in Handles, cid \in Cids \cup {NoCid} :
                 Publish(h, cid) \/ PublishRefused(h, cid)
           \/ \E h \in Handles :
                 /\ ~HasRow(in_flight[h])
                 /\ \E i \in DOMAIN queue : queue[i].handle = h
                 /\ RunPublishEngine(h, NoCid, Dropped(queue, h), host)
           \/ \E id \in HeldIds : CancelPublish(id)
           \/ KernelCrash
  <1>1. CASE EngineEvent \/ KernelTick
    BY <1>1 DEF EngineEvent, KernelTick, Drained
  <1>2. ASSUME NEW h \in Handles, RetryPublishNow(h)
        PROVE  \/ Drained
               \/ /\ ~HasRow(in_flight[h])
                  /\ \E i \in DOMAIN queue : queue[i].handle = h
                  /\ RunPublishEngine(h, NoCid, Dropped(queue, h), host)
    BY <1>2 DEF RetryPublishNow, Drained
  <1> QED
    BY <1>1, <1>2 DEF KernelNext

\* A drained event keeps KernelTypeInv.
LEMMA DrainedType ==
    ASSUME KernelTypeInv, Drained
    PROVE  KernelTypeInv'
  <1>1. TypeInv'
    BY TypeInvStep DEF KernelTypeInv, Drained, Next
  <1> QED
    BY <1>1, DrainType DEF KernelTypeInv, Drained

\* A crash keeps KernelTypeInv.
LEMMA CrashType ==
    ASSUME KernelTypeInv, KernelCrash
    PROVE  KernelTypeInv'
  <1>1. TypeInv'
    BY TypeInvStep DEF KernelTypeInv, KernelCrash, Next
  <1>2. /\ index' \in Seq(Pairs) /\ Len(index') <= IndexCap
        /\ GoodQueue(queue') /\ withdrawn' \subseteq Handles
    BY CapAssumption DEF KernelTypeInv, KernelCrash, GoodQueue
  <1>3. host' \in HostTable
    <2>1. ASSUME NEW c \in Cids
          PROVE  (IF host[c].phase = "unused" THEN host[c]
                  ELSE [phase |-> "gone", told |-> {}]) \in HostKnows
      <3>1. host[c] \in HostKnows
        BY DEF KernelTypeInv, HostTable
      <3>2. [phase |-> "gone", told |-> {}] \in HostKnows
        BY DEF HostKnows
      <3> QED
        BY <3>1, <3>2
    <2> QED
      BY <2>1 DEF KernelCrash, HostTable
  <1> QED
    BY <1>1, <1>2, <1>3 DEF KernelTypeInv

\* A cancel keeps KernelTypeInv.
LEMMA CancelType ==
    ASSUME KernelTypeInv, NEW id \in HeldIds, CancelPublish(id)
    PROVE  KernelTypeInv'
  <1>1. /\ index \in Seq(Pairs) /\ Len(index) <= IndexCap /\ Len(index) \in Nat
        /\ IndexCap \in Nat /\ GoodQueue(queue) /\ host \in HostTable
        /\ TypeInv /\ withdrawn \subseteq Handles
    BY CapAssumption DEF KernelTypeInv
  <1>2. ASSUME NEW h \in Handles
        PROVE  Forget(index, {h}) \in Seq(Pairs) /\ Len(Forget(index, {h})) <= IndexCap
    <2>1. Forget(index, {h}) \in Seq(Pairs) /\ Len(Forget(index, {h})) <= Len(index)
      BY <1>1, ForgetFacts
    <2>2. Len(Forget(index, {h})) \in Nat
      BY <2>1
    <2> QED
      BY <1>1, <2>1, <2>2
  <1>3. ASSUME NEW h \in Handles, ClearSettled(h)
        PROVE  KernelTypeInv'
    <2>1. \E i \in DOMAIN queue : queue[i].handle = h
      BY <1>1, <1>3, LastRowFacts DEF ClearSettled, GoodQueue
    <2>2. GoodQueue(queue')
      BY <1>1, <1>3, <2>1, DroppedGood DEF ClearSettled
    <2> QED
      BY <1>1, <1>2, <1>3, <2>2, UntouchedType DEF ClearSettled, KernelTypeInv
  <1>4. ASSUME NEW h \in Handles, NEW cid \in Cids \cup {NoCid}, CancelLive(h, cid)
        PROVE  KernelTypeInv'
    <2>1. TypeInv'
      BY <1>1, <1>4, CancelEngineType DEF CancelLive
    <2>2. Drain(queue, Forget(index, {h}), host) /\ withdrawn' = withdrawn \cup {h}
      BY <1>4 DEF CancelLive
    <2> QED
      BY <1>1, <1>2, <2>1, <2>2, DrainType DEF KernelTypeInv
  <1>5. ASSUME id \in Cids, CancelUnknown(id)
        PROVE  KernelTypeInv'
    <2>1. TypeInv'
      BY <1>1, <1>5, UntouchedType DEF CancelUnknown
    <2>2. Hear(host, id, {"cancelled"}) \in HostKnows
      BY <1>1, <1>5, HearFacts DEF Told
    <2>3. host' \in HostTable
      BY <1>1, <1>5, <2>2 DEF CancelUnknown, HostTable
    <2> QED
      BY <1>1, <1>5, <2>1, <2>3 DEF CancelUnknown, KernelTypeInv
  <1> QED
    BY <1>3, <1>4, <1>5, CancelCases

\* Every step keeps KernelTypeInv.
LEMMA KernelTypeStep ==
    ASSUME KernelTypeInv, [KernelNext]_all_vars
    PROVE  KernelTypeInv'
  <1>1. ASSUME NEW h \in Handles, NEW cid \in Cids \cup {NoCid},
               Publish(h, cid) \/ PublishRefused(h, cid)
        PROVE  KernelTypeInv'
    <2>1. Asked(cid) \in HostTable /\ GoodQueue(queue) /\ TypeInv
      BY AskedFacts DEF KernelTypeInv
    <2>2. CASE Publish(h, cid)
      BY <2>1, <2>2, RunType DEF Publish
    <2>3. CASE PublishRefused(h, cid)
      <3>1. TypeInv'
        BY <2>1, <2>3, UntouchedType DEF PublishRefused
      <3>2. host' \in HostTable
        BY <2>1, <2>3, FailedFacts DEF PublishRefused
      <3> QED
        BY <2>3, <3>1, <3>2 DEF PublishRefused, KernelTypeInv
    <2> QED
      BY <1>1, <2>2, <2>3
  <1>2. ASSUME NEW h \in Handles, \E i \in DOMAIN queue : queue[i].handle = h,
               RunPublishEngine(h, NoCid, Dropped(queue, h), host)
        PROVE  KernelTypeInv'
    <2>1. GoodQueue(Dropped(queue, h)) /\ host \in HostTable
      BY <1>2, DroppedGood DEF KernelTypeInv
    <2> QED
      BY <1>2, <2>1, RunType
  <1>3. CASE UNCHANGED all_vars
    <2>1. [Next]_vars
      BY <1>3 DEF all_vars
    <2>2. TypeInv'
      BY <2>1, TypeInvStep DEF KernelTypeInv
    <2> QED
      BY <1>3, <2>2 DEF all_vars, kernel_vars, KernelTypeInv
  <1> QED
    BY <1>1, <1>2, <1>3, DrainedType, CancelType, CrashType, KernelCases

\* The initial state satisfies KernelTypeInv.
LEMMA KernelTypeInit == KernelInit => KernelTypeInv
  <1> SUFFICES ASSUME KernelInit PROVE KernelTypeInv
    OBVIOUS
  <1>1. TypeInv
    BY TypeInvInit DEF KernelInit
  <1>2. host \in HostTable
    BY DEF KernelInit, HostTable, HostKnows
  <1> QED
    BY <1>1, <1>2, CapAssumption DEF KernelInit, KernelTypeInv, GoodQueue

\* The views the kernel keeps beside the engine have their shape, and neither
\* the handle index nor the publish-queue window outgrows its bound, whatever
\* the host publishes, retries and cancels and whatever the store does.
THEOREM KernelTypeCorrect == KernelSpec => []KernelTypeOK
  <1>1. KernelTypeInv => KernelTypeOK
    <2> SUFFICES ASSUME KernelTypeInv PROVE KernelTypeOK
      OBVIOUS
    <2>1. TypeOK
      BY TypeInvOK DEF KernelTypeInv
    <2>2. QueueRows = [handle : Handles, can_retry : BOOLEAN,
                       status : {"accepted_locally", "ok", "failed", "cancelled",
                                 "pending_relays_unknown", "duplicate",
                                 "store_error"}]
      BY DEF QueueRows, QueueStatuses
    <2>3. HostTable = [Cids -> [phase : {"unused", "waiting", "answered", "gone"},
                                told : SUBSET {"published", "failed", "cancelled"}]]
      BY DEF HostTable, HostKnows, Told
    <2>4. Pairs = [handle : Handles, cid : Cids \cup {NoCid}]
      BY DEF Pairs
    <2> HIDE DEF QueueRows, HostTable, Pairs
    <2>5. /\ index \in Seq(Pairs) /\ Len(index) <= IndexCap
          /\ queue \in Seq(QueueRows) /\ Len(queue) <= QueueCap
          /\ host \in HostTable /\ withdrawn \subseteq Handles
      BY DEF KernelTypeInv, GoodQueue
    <2> QED
      BY <2>1, <2>2, <2>3, <2>4, <2>5, Zenon DEF KernelTypeOK
  <1>2. KernelTypeInv /\ [KernelNext]_all_vars => KernelTypeInv'
    BY KernelTypeStep
  <1> QED
    BY <1>1, <1>2, KernelTypeInit, PTL DEF KernelSpec


-----------------------------------------------------------------------------
(* One dispatch id, one verdict.  As long as store writes succeed, at most   *)
(* one row speaks for a dispatch id, and only while the host has no verdict. *)

Verdict == {"published", "failed"}

OneVoice ==
    /\ \A c \in Cids : host[c].phase = "unused" => host[c].told = {}
    /\ \A h \in Handles, c \in Cids : Carries(h, c) =>
          host[c].phase # "unused" /\ host[c].told \cap Verdict = {}
    /\ \A h, k \in Handles, c \in Cids : Carries(h, c) /\ Carries(k, c) => h = k

WithdrawnGone == \A h \in withdrawn : Gone(h)

\* What happens to one dispatch id in a step: nobody speaks up for it and it
\* hears nothing; or its one speaker leaves with the verdict; or it hears of a
\* cancel only; or it was unused, hears at most one verdict, and then has no
\* speaker.
VoiceMove(c) ==
    /\ \/ host'[c].told \subseteq host[c].told \cup {"cancelled"}
       \/ /\ \A h \in Handles : ~(HasRow(in_flight'[h]) /\ override'[h] = c)
          /\ host[c].told \cap Verdict = {}
          /\ \E s \in Verdict : host'[c].told \subseteq host[c].told \cup {s, "cancelled"}
    /\ host'[c].phase = "unused" => host'[c].told = {}
    /\ \A h \in Handles : HasRow(in_flight'[h]) /\ override'[h] = c =>
          \/ Carries(h, c) /\ host'[c].phase # "unused"
          \/ /\ host[c].phase = "unused" /\ host'[c].phase # "unused"
             /\ \A k \in Handles :
                   HasRow(in_flight'[k]) /\ override'[k] = c => k = h

\* Steps that are voice moves for every id keep the verdicts consistent.
LEMMA VoiceMoveKeeps ==
    ASSUME OneVoice, NoContradictoryVerdict, \A c \in Cids : VoiceMove(c)
    PROVE  OneVoice' /\ NoContradictoryVerdict'
  <1>1. ASSUME NEW c \in Cids
        PROVE  ~({"published", "failed"} \subseteq host'[c].told)
    BY DEF NoContradictoryVerdict, VoiceMove, Verdict
  <1>2. ASSUME NEW h \in Handles, NEW c \in Cids,
               HasRow(in_flight'[h]), override'[h] = c
        PROVE  host'[c].phase # "unused" /\ host'[c].told \cap Verdict = {}
    <2>1. host'[c].phase # "unused"
      BY <1>2 DEF VoiceMove
    <2>2. host[c].told \cap Verdict = {}
      BY <1>2 DEF VoiceMove, OneVoice
    <2>3. host'[c].told \subseteq host[c].told \cup {"cancelled"}
      BY <1>2 DEF VoiceMove
    <2> QED
      BY <2>1, <2>2, <2>3 DEF Verdict
  <1>3. ASSUME NEW h \in Handles, NEW k \in Handles, NEW c \in Cids,
               HasRow(in_flight'[h]), override'[h] = c,
               HasRow(in_flight'[k]), override'[k] = c
        PROVE  h = k
    BY <1>3 DEF VoiceMove, OneVoice
  <1>4. ASSUME NEW c \in Cids, host'[c].phase = "unused" PROVE host'[c].told = {}
    BY <1>4 DEF VoiceMove
  <1> QED
    BY <1>1, <1>2, <1>3, <1>4 DEF OneVoice, NoContradictoryVerdict, Carries

\* A drained event is a voice move.
LEMMA DrainedVoice ==
    ASSUME KernelTypeInv, OneVoice, Drained, NEW c \in Cids
    PROVE  VoiceMove(c)
  <1>1. Quiet /\ host' = Heard(host, pending_terminals') /\ host \in HostTable
    BY QuietStep DEF Drained, Drain, KernelTypeInv
  <1>2. \A v \in pending_terminals' : v.status \in {"ok", "failed"}
    BY <1>1 DEF Quiet
  <1> DEFINE news == News(pending_terminals', c)
  <1>3. /\ host'[c].told = host[c].told \cup news
        /\ host'[c].phase = IF news = {} THEN host[c].phase ELSE "answered"
    BY <1>1, <1>2, HeardFacts
  <1>4. \A h \in Handles : HasRow(in_flight'[h]) /\ override'[h] = c => Carries(h, c)
    BY <1>1 DEF Quiet
  <1>5. CASE news = {}
    BY <1>3, <1>4, <1>5 DEF VoiceMove, OneVoice
  <1>6. CASE news # {}
    <2>1. PICK v \in pending_terminals' : v.cid = c
      BY <1>6 DEF News
    <2>2. v.handle \in Handles /\ Carries(v.handle, c) /\ override'[v.handle] = NoCid
      BY <1>1, <2>1 DEF Quiet
    <2>3. \A w \in pending_terminals' : w.cid = c => w = v
      <3> SUFFICES ASSUME NEW w \in pending_terminals', w.cid = c PROVE w = v
        OBVIOUS
      <3>1. w.handle \in Handles /\ Carries(w.handle, c)
        BY <1>1 DEF Quiet
      <3>2. w.handle = v.handle
        BY <2>2, <3>1 DEF OneVoice
      <3> QED
        BY <1>1, <3>2 DEF Quiet
    <2>4. news = {Wire(v.status)}
      BY <2>1, <2>3 DEF News
    <2>5. Wire(v.status) \in Verdict
      BY <1>2 DEF Wire, Verdict
    <2>6. host[c].told \cap Verdict = {}
      BY <2>2 DEF OneVoice
    <2>7. \A h \in Handles : ~(HasRow(in_flight'[h]) /\ override'[h] = c)
      <3> SUFFICES ASSUME NEW h \in Handles, HasRow(in_flight'[h]), override'[h] = c
                   PROVE  FALSE
        OBVIOUS
      <3>1. h = v.handle
        BY <1>4, <2>2 DEF OneVoice
      <3> QED
        BY <2>2, <3>1, CidAssumption
    <2> QED
      BY <1>3, <1>6, <2>4, <2>5, <2>6, <2>7 DEF VoiceMove
  <1> QED
    BY <1>5, <1>6

\* A publish answers its own dispatch id at most once, and no other.
LEMMA RunVoice ==
    ASSUME KernelTypeInv, OneVoice, ~StoreMayFail,
           NEW h \in Handles, NEW cid \in Cids \cup {NoCid}, NEW q, NEW known \in HostTable,
           \A c \in Cids : /\ known[c].told = host[c].told
                           /\ known[c].phase = IF c = cid THEN "waiting" ELSE host[c].phase,
           cid # NoCid => host[cid].phase = "unused",
           RunPublishEngine(h, cid, q, known), NEW c \in Cids
    PROVE  VoiceMove(c)
  <1>0. /\ c = cid => host[c].phase = "unused" /\ host[c].told = {}
        /\ c = cid => \A g \in Handles : ~Carries(g, c)
    BY CidAssumption DEF OneVoice
  <1>a. ASSUME NEW known2 \in HostTable, known2[c].told = host[c].told \/ (c = cid /\ known2[c].told = {"failed"}),
               c # cid => known2[c].phase = host[c].phase,
               host' = Failed(known2, cid),
               \A g \in Handles : HasRow(in_flight'[g]) /\ override'[g] = c => Carries(g, c)
        PROVE  VoiceMove(c)
    <2>1. /\ host'[c].told = known2[c].told \cup (IF c = cid THEN {"failed"} ELSE {})
          /\ host'[c].phase = IF c = cid THEN "answered" ELSE known2[c].phase
      BY <1>a, FailedFacts
    <2>2. CASE c = cid
      <3>1. host'[c].told = {"failed"} /\ host'[c].phase = "answered"
        BY <1>0, <1>a, <2>1, <2>2
      <3>2. "failed" \in Verdict /\ host[c].told \cap Verdict = {}
        BY <1>0, <2>2 DEF Verdict
      <3>3. \A g \in Handles : ~(HasRow(in_flight'[g]) /\ override'[g] = c)
        BY <1>0, <1>a, <2>2
      <3> QED
        BY <3>1, <3>2, <3>3 DEF VoiceMove
    <2>3. CASE c # cid
      <3>1. host'[c].told = host[c].told /\ host'[c].phase = host[c].phase
        BY <1>a, <2>1, <2>3
      <3> QED
        BY <1>a, <3>1 DEF VoiceMove, OneVoice
    <2> QED
      BY <2>2, <2>3
  <1>1. CASE PublishOk(h, cid, q, known)
    <2>1. PICK targets \in SUBSET Relays : \E pins \in Pins(h, targets) :
             StartPublish(h, targets, pins, cid)
      BY <1>1 DEF PublishOk
    <2>2. PICK pins \in Pins(h, targets) : StartPublish(h, targets, pins, cid)
      BY <2>1
    <2>3. /\ \A g \in Handles :
                 HasRow(in_flight'[g]) /\ override'[g] = c
                    => IF g = h THEN c = cid ELSE Carries(g, c)
          /\ \A v \in pending_terminals' :
                 /\ v.handle = h /\ v.cid = cid /\ v.status \in {"ok", "failed"}
                 /\ ~HasRow(in_flight'[h])
          /\ \A v, w \in pending_terminals' : v = w
      BY <2>2, StartOutcome DEF KernelTypeInv
    <2> DEFINE news == News(pending_terminals', c)
    <2>4. host' = Heard(known, pending_terminals')
      BY <1>1 DEF PublishOk, Drain
    <2>5. /\ host'[c].told = host[c].told \cup news
          /\ host'[c].phase = IF news = {} THEN known[c].phase ELSE "answered"
      <3>1. \A v \in pending_terminals' : v.status \in {"ok", "failed", "cancelled"}
        BY <2>3
      <3> QED
        BY <2>4, <3>1, HeardFacts
    <2>6. CASE c # cid
      <3>1. news = {}
        BY <2>3, <2>6 DEF News
      <3>2. host'[c].told = host[c].told /\ host'[c].phase = host[c].phase
        BY <2>5, <2>6, <3>1
      <3> QED
        BY <2>3, <2>6, <3>2 DEF VoiceMove, OneVoice
    <2>7. CASE c = cid /\ news = {}
      <3>1. host'[c].told = {} /\ host'[c].phase = "waiting" /\ host[c].phase = "unused"
        BY <1>0, <2>5, <2>7
      <3>2. \A g \in Handles : HasRow(in_flight'[g]) /\ override'[g] = c => g = h
        BY <1>0, <2>3, <2>7
      <3> QED
        BY <3>1, <3>2 DEF VoiceMove
    <2>8. CASE c = cid /\ news # {}
      <3>1. PICK v \in pending_terminals' : v.cid = c
        BY <2>8 DEF News
      <3>2. news = {Wire(v.status)}
        BY <2>3, <3>1 DEF News
      <3>3. Wire(v.status) \in Verdict
        BY <2>3 DEF Wire, Verdict
      <3>4. host'[c].told = {Wire(v.status)} /\ host'[c].phase = "answered"
        BY <1>0, <2>5, <2>8, <3>2
      <3>5. \A g \in Handles : ~(HasRow(in_flight'[g]) /\ override'[g] = c)
        BY <1>0, <2>3, <2>8, <3>1
      <3>6. host[c].told \cap Verdict = {}
        BY <1>0, <2>8
      <3> QED
        BY <3>3, <3>4, <3>5, <3>6 DEF VoiceMove
    <2> QED
      BY <2>6, <2>7, <2>8
  <1>2. CASE /\ StartPublishNoTargets(h, cid)
             /\ PublishError(h, cid, q, Heard(known, pending_terminals'),
                          "pending_relays_unknown")
    <2> DEFINE v == LastTerminal(h, cid, "failed", "none", FALSE)
               known2 == Heard(known, pending_terminals')
               news == News(pending_terminals', c)
    <2>1. /\ pending_terminals' = {v} /\ v.cid = cid /\ v.status = "failed"
          /\ in_flight' = in_flight /\ override' = override
      BY <1>2 DEF StartPublishNoTargets, LastTerminal
    <2> HIDE DEF v
    <2>2. news = IF c = cid THEN {"failed"} ELSE {}
      BY <2>1 DEF News, Wire
    <2>3. /\ known2 \in HostTable
          /\ known2[c].told = known[c].told \cup news
          /\ known2[c].phase = IF news = {} THEN known[c].phase ELSE "answered"
      <3>1. \A w \in pending_terminals' : w.status \in {"ok", "failed", "cancelled"}
        BY <2>1
      <3> QED
        BY <3>1, HeardFacts
    <2>4. host' = Failed(known2, cid)
      BY <1>2 DEF PublishError
    <2> HIDE DEF known2, news
    <2>5. known2[c].told = host[c].told \/ (c = cid /\ known2[c].told = {"failed"})
      BY <1>0, <2>2, <2>3
    <2>6. c # cid => known2[c].phase = host[c].phase
      BY <2>2, <2>3
    <2>7. \A g \in Handles : HasRow(in_flight'[g]) /\ override'[g] = c => Carries(g, c)
      BY <2>1 DEF Carries
    <2> QED
      BY <1>a, <2>3, <2>4, <2>5, <2>6, <2>7
  <1>3. CASE EngineUntouched /\ PublishError(h, cid, q, known, "duplicate")
    <2>1. \A g \in Handles : HasRow(in_flight'[g]) /\ override'[g] = c => Carries(g, c)
      BY <1>3 DEF EngineUntouched, engine_vars, Carries
    <2>2. host' = Failed(known, cid)
      BY <1>3 DEF PublishError
    <2> QED
      BY <1>a, <2>1, <2>2
  <1> QED
    BY <1>1, <1>2, <1>3 DEF RunPublishEngine, StartPublishStoreError


\* A cancel, a refusal and a crash leave no new voice.
LEMMA CancelVoice ==
    ASSUME KernelTypeInv, OneVoice, NEW id \in HeldIds, CancelPublish(id), NEW c \in Cids
    PROVE  VoiceMove(c)
  <1>0. host \in HostTable /\ TypeInv
    BY DEF KernelTypeInv
  <1>a. ASSUME \A h \in Handles : HasRow(in_flight'[h]) /\ override'[h] = c => Carries(h, c),
               host'[c].told \subseteq host[c].told \cup {"cancelled"},
               \/ host'[c] = host[c]
               \/ host'[c].phase = "answered"
        PROVE  VoiceMove(c)
    BY <1>a DEF VoiceMove, OneVoice
  <1>1. ASSUME NEW h \in Handles, ClearSettled(h) PROVE VoiceMove(c)
    BY <1>a, <1>1 DEF ClearSettled, EngineUntouched, engine_vars, Carries
  <1>2. ASSUME NEW h \in Handles, NEW cid, CancelLive(h, cid) PROVE VoiceMove(c)
    <2> DEFINE v == LastTerminal(h, cid, "cancelled", "cancelled", FALSE)
               news == News(pending_terminals', c)
    <2>1. /\ pending_terminals' = {v} /\ v.cid = cid /\ v.status = "cancelled"
          /\ in_flight' = [in_flight EXCEPT ![h] = NoRow]
          /\ override' = [override EXCEPT ![h] = NoCid]
          /\ host' = Heard(host, pending_terminals')
      BY <1>2 DEF CancelLive, CancelByHandle, LastTerminal, Drain
    <2> HIDE DEF v
    <2>2. news = IF c = cid THEN {"cancelled"} ELSE {}
      BY <2>1 DEF News, Wire
    <2>3. /\ host'[c].told = host[c].told \cup news
          /\ host'[c].phase = IF news = {} THEN host[c].phase ELSE "answered"
          /\ host' \in HostTable
      <3>1. \A w \in pending_terminals' : w.status \in {"ok", "failed", "cancelled"}
        BY <2>1
      <3>2. LET known == Heard(host, pending_terminals')
            IN  /\ known \in HostTable
                /\ known[c].told = host[c].told \cup news
                /\ known[c].phase = IF news = {} THEN host[c].phase ELSE "answered"
        BY <1>0, <3>1, HeardFacts
      <3> HIDE DEF news
      <3> QED
        BY <2>1, <3>2
    <2> HIDE DEF news
    <2>4. news = {} => host'[c] = host[c]
      <3>1. host[c] \in HostKnows /\ host'[c] \in HostKnows
        BY <1>0, <2>3 DEF HostTable
      <3> QED
        BY <2>3, <3>1 DEF HostKnows
    <2>5. \A g \in Handles : HasRow(in_flight'[g]) /\ override'[g] = c => Carries(g, c)
      <3> SUFFICES ASSUME NEW g \in Handles, HasRow(in_flight'[g]), override'[g] = c
                   PROVE  Carries(g, c)
        OBVIOUS
      <3>1. g # h
        BY <1>0, <2>1, CidAssumption DEF TypeInv, CidTable
      <3> QED
        BY <1>0, <2>1, <3>1 DEF TypeInv, CidTable, GoodTable, Carries
    <2> QED
      BY <1>a, <2>2, <2>3, <2>4, <2>5
  <1>3. ASSUME id \in Cids, CancelUnknown(id) PROVE VoiceMove(c)
    <2>1. host'[c] = IF c = id THEN Hear(host, id, {"cancelled"}) ELSE host[c]
      BY <1>0, <1>3 DEF CancelUnknown, HostTable
    <2>2. /\ Hear(host, id, {"cancelled"}).told = host[id].told \cup {"cancelled"}
          /\ Hear(host, id, {"cancelled"}).phase = "answered"
      BY DEF Hear
    <2>3. \A h \in Handles : HasRow(in_flight'[h]) /\ override'[h] = c => Carries(h, c)
      BY <1>3 DEF CancelUnknown, EngineUntouched, engine_vars, Carries
    <2> QED
      BY <1>a, <2>1, <2>2, <2>3
  <1> QED
    BY <1>1, <1>2, <1>3, CancelCases

\* A refused publish is a voice move.
LEMMA RefusedVoice ==
    ASSUME KernelTypeInv, OneVoice, NEW h \in Handles, NEW cid \in Cids \cup {NoCid},
           PublishRefused(h, cid), NEW c \in Cids
    PROVE  VoiceMove(c)
  <1>1. /\ Asked(cid) \in HostTable
        /\ Asked(cid)[c].told = host[c].told
        /\ Asked(cid)[c].phase = IF c = cid THEN "waiting" ELSE host[c].phase
    BY AskedFacts DEF KernelTypeInv
  <1>2. host' = Failed(Asked(cid), cid)
    BY DEF PublishRefused
  <1>3. /\ host'[c].told = host[c].told \cup (IF c = cid THEN {"failed"} ELSE {})
        /\ host'[c].phase = IF c = cid THEN "answered" ELSE host[c].phase
    BY <1>1, <1>2, FailedFacts
  <1>4. \A g \in Handles : HasRow(in_flight'[g]) /\ override'[g] = c => Carries(g, c)
    BY DEF PublishRefused, EngineUntouched, engine_vars, Carries
  <1>5. CASE c = cid
    <2>1. host[c].phase = "unused" /\ host[c].told = {} /\ \A g \in Handles : ~Carries(g, c)
      BY <1>5, CidAssumption DEF PublishRefused, OneVoice
    <2>2. "failed" \in Verdict /\ host[c].told \cap Verdict = {}
      BY <2>1 DEF Verdict
    <2> QED
      BY <1>3, <1>4, <1>5, <2>1, <2>2 DEF VoiceMove
  <1>6. CASE c # cid
    BY <1>3, <1>4, <1>6 DEF VoiceMove, OneVoice
  <1> QED
    BY <1>5, <1>6

\* A crash is a voice move.
LEMMA CrashVoice ==
    ASSUME KernelTypeInv, OneVoice, KernelCrash, NEW c \in Cids
    PROVE  VoiceMove(c)
  <1>1. \A h \in Handles : ~HasRow(in_flight'[h])
    BY NoRowEmpty DEF KernelCrash, Crash
  <1>2. \/ host'[c] = host[c] /\ host[c].phase = "unused"
        \/ host'[c] = [phase |-> "gone", told |-> {}]
    BY DEF KernelCrash
  <1> QED
    BY <1>1, <1>2 DEF VoiceMove, OneVoice

\* Every step is a voice move for every id.
LEMMA VoiceStep ==
    ASSUME ~StoreMayFail, KernelTypeInv, OneVoice, NoContradictoryVerdict,
           [KernelNext]_all_vars
    PROVE  OneVoice' /\ NoContradictoryVerdict'
  <1>0. host \in HostTable
    BY DEF KernelTypeInv
  <1>1. ASSUME NEW h \in Handles, NEW cid \in Cids \cup {NoCid}, Publish(h, cid),
               NEW c \in Cids
        PROVE  VoiceMove(c)
    <2> DEFINE known == Asked(cid)
    <2>1. /\ known \in HostTable
          /\ \A d \in Cids : /\ known[d].told = host[d].told
                             /\ known[d].phase = IF d = cid THEN "waiting"
                                                 ELSE host[d].phase
          /\ RunPublishEngine(h, cid, queue, known)
          /\ cid # NoCid => host[cid].phase = "unused"
      BY <1>0, <1>1, AskedFacts DEF Publish
    <2> HIDE DEF known
    <2> QED
      BY <2>1, RunVoice
  <1>2. ASSUME NEW h \in Handles, RunPublishEngine(h, NoCid, Dropped(queue, h), host),
               NEW c \in Cids
        PROVE  VoiceMove(c)
    <2> DEFINE q == Dropped(queue, h)
    <2>1. /\ \A d \in Cids : /\ host[d].told = host[d].told
                             /\ host[d].phase = IF d = NoCid THEN "waiting"
                                                ELSE host[d].phase
          /\ RunPublishEngine(h, NoCid, q, host)
      BY <1>2, CidAssumption
    <2> HIDE DEF q
    <2> QED
      BY <1>0, <2>1, RunVoice
  <1>3. CASE UNCHANGED all_vars
    BY <1>3 DEF all_vars, vars, kernel_vars, OneVoice, NoContradictoryVerdict, Carries
  <1>4. CASE KernelNext
    <2> SUFFICES ASSUME NEW c \in Cids PROVE VoiceMove(c)
      BY VoiceMoveKeeps
    <2> QED
      BY <1>1, <1>2, <1>4, KernelCases, DrainedVoice, CancelVoice, RefusedVoice, CrashVoice
  <1> QED
    BY <1>3, <1>4

\* As long as store writes succeed, the host is never told both that a dispatch
\* was published and that it failed, whatever it publishes twice, retries or
\* cancels and whenever the actor stops or the process dies.
THEOREM VerdictsAgree ==
    ASSUME ~StoreMayFail
    PROVE  KernelSpec => []NoContradictoryVerdict
  <1> DEFINE Inv == KernelTypeInv /\ OneVoice /\ NoContradictoryVerdict
  <1>1. KernelInit => Inv
    <2> SUFFICES ASSUME KernelInit PROVE OneVoice /\ NoContradictoryVerdict
      BY KernelTypeInit
    <2>1. /\ \A c \in Cids : host[c] = [phase |-> "unused", told |-> {}]
          /\ \A h \in Handles : ~HasRow(in_flight[h])
      BY NoRowEmpty DEF KernelInit, Init
    <2> QED
      BY <2>1 DEF OneVoice, NoContradictoryVerdict, Carries
  <1>2. Inv /\ [KernelNext]_all_vars => Inv'
    BY KernelTypeStep, VoiceStep
  <1> QED
    BY <1>1, <1>2, PTL DEF KernelSpec

-----------------------------------------------------------------------------
(* What the user withdrew.  That it has no row is not inductive: a record    *)
(* on disk would be resumed, so it must have no record either.               *)

\* No step takes up a withdrawn publish.
LEMMA WithdrawnStep ==
    ASSUME ~StoreMayFail, KernelTypeInv, WithdrawnGone, [KernelNext]_all_vars
    PROVE  WithdrawnGone'
  <1>0. TypeInv /\ withdrawn \subseteq Handles
    BY DEF KernelTypeInv
  <1>a. ASSUME Quiet, withdrawn' \subseteq withdrawn PROVE WithdrawnGone'
    BY <1>0, <1>a DEF Quiet, WithdrawnGone, Gone
  <1>1. ASSUME NEW h \in Handles, NEW cid \in Cids \cup {NoCid}, NEW q, NEW known,
               RunPublishEngine(h, cid, q, known)
        PROVE  WithdrawnGone'
    <2>1. withdrawn' = withdrawn \ {h}
      BY <1>1 DEF RunPublishEngine
    <2>2. CASE \E targets \in SUBSET Relays : \E pins \in Pins(h, targets) :
                  StartPublish(h, targets, pins, cid)
      <3>1. \A g \in Handles \ {h} : Gone(g) => in_flight'[g] = NoRow /\ store'[g] = NoRow
        BY <1>0, <2>2, StartOutcome
      <3> QED
        BY <1>0, <2>1, <3>1 DEF WithdrawnGone, Gone
    <2>3. CASE StartPublishNoTargets(h, cid) \/ EngineUntouched
      BY <2>1, <2>3 DEF StartPublishNoTargets, EngineUntouched, engine_vars,
                        WithdrawnGone, Gone
    <2> QED
      BY <1>1, <2>2, <2>3 DEF RunPublishEngine, PublishOk, StartPublishStoreError
  <1>2. CASE Drained
    <2>1. Quiet /\ withdrawn' \subseteq withdrawn
      BY <1>0, <1>2, QuietStep DEF Drained
    <2> QED
      BY <1>a, <2>1
  <1>3. CASE KernelCrash
    <2>1. Quiet /\ withdrawn' \subseteq withdrawn
      BY <1>0, <1>3, QuietStep DEF KernelCrash
    <2> QED
      BY <1>a, <2>1
  <1>4. ASSUME NEW id \in HeldIds, CancelPublish(id) PROVE WithdrawnGone'
    <2>1. ASSUME NEW h \in Handles, NEW cid, CancelLive(h, cid) PROVE WithdrawnGone'
      <3>1. /\ in_flight'[h] = NoRow /\ store'[h] = NoRow
            /\ \A g \in Handles \ {h} : /\ in_flight'[g] = in_flight[g]
                                        /\ store'[g] = store[g]
            /\ withdrawn' = withdrawn \cup {h}
        BY <1>0, <2>1, CancelOutcome DEF CancelLive
      <3> QED
        BY <1>0, <3>1 DEF WithdrawnGone, Gone
    <2>2. CASE EngineUntouched /\ withdrawn' = withdrawn
      BY <2>2 DEF EngineUntouched, engine_vars, WithdrawnGone, Gone
    <2> QED
      BY <1>4, <2>1, <2>2, CancelCases DEF ClearSettled, CancelUnknown
  <1>5. ASSUME NEW h \in Handles, NEW cid \in Cids \cup {NoCid},
               Publish(h, cid) \/ PublishRefused(h, cid)
        PROVE  WithdrawnGone'
    <2>1. CASE Publish(h, cid)
      BY <1>1, <2>1 DEF Publish
    <2>2. CASE PublishRefused(h, cid)
      BY <2>2 DEF PublishRefused, EngineUntouched, engine_vars, WithdrawnGone, Gone
    <2> QED
      BY <1>5, <2>1, <2>2
  <1>6. CASE UNCHANGED all_vars
    BY <1>6 DEF all_vars, vars, kernel_vars, WithdrawnGone, Gone
  <1> QED
    BY <1>1, <1>2, <1>3, <1>4, <1>5, <1>6, KernelCases

\* As long as store writes succeed, a publish the user cancelled is not taken
\* up again until somebody publishes it: not by a late answer, a reconnect, a
\* tick, a Start after a Stop or a relaunch after a crash.
THEOREM WithdrawnIsFinal ==
    ASSUME ~StoreMayFail
    PROVE  KernelSpec => []WithdrawnStaysWithdrawn
  <1> DEFINE Inv == KernelTypeInv /\ WithdrawnGone
  <1>1. KernelInit => Inv
    BY KernelTypeInit DEF KernelInit, WithdrawnGone
  <1>2. Inv /\ [KernelNext]_all_vars => Inv'
    BY KernelTypeStep, WithdrawnStep
  <1>3. Inv => WithdrawnStaysWithdrawn
    BY NoRowEmpty DEF WithdrawnGone, Gone, WithdrawnStaysWithdrawn
  <1> QED
    BY <1>1, <1>2, <1>3, PTL DEF KernelSpec


-----------------------------------------------------------------------------
(* Nobody leaves silently: outside a crash a row leaves the engine with its  *)
(* verdict, and only a resume takes its dispatch id away.                    *)

\* What becomes of a row that spoke for cid.
Speaks(h, cid) ==
    \/ HasRow(in_flight'[h]) /\ override'[h] = cid
    \/ \E v \in pending_terminals' :
          v.handle = h /\ v.cid = cid /\ v.queue = "settled"

Loud ==
    \A h \in Handles : HasRow(in_flight[h]) =>
        Speaks(h, override[h]) \/ (Start /\ h \in LoadPending)

\* Letting completed rows go speaks for each of them.
LEMMA FinalizeLoud ==
    ASSUME NEW rows, NEW picked \in SUBSET Handles, NEW cids, NEW disk,
           Finalize(rows, picked, cids, disk), NEW h \in Handles, HasRow(rows[h])
    PROVE  Speaks(h, cids[h])
  <1> DEFINE done == Completed(rows, picked)
             v == FromOutcome(h, cids[h], rows[h])
  <1>1. /\ in_flight' = [g \in Handles |-> IF g \in done THEN NoRow ELSE rows[g]]
        /\ override' = [g \in Handles |-> IF g \in done THEN NoCid ELSE cids[g]]
        /\ pending_terminals' = {FromOutcome(g, cids[g], rows[g]) : g \in done}
    BY DEF Finalize
  <1>2. v.handle = h /\ v.cid = cids[h] /\ v.queue = "settled"
    BY DEF FromOutcome, LastTerminal
  <1>3. h \in done => v \in pending_terminals'
    BY <1>1
  <1> HIDE DEF done, v
  <1>4. h \notin done => in_flight'[h] = rows[h] /\ override'[h] = cids[h]
    BY <1>1
  <1> QED
    BY <1>2, <1>3, <1>4 DEF Speaks

\* An answer is loud.
LEMMA OnAckLoud ==
    ASSUME TypeInv, NEW h \in Handles, NEW r \in Relays, NEW answer \in Answers,
           OnAck(h, r, answer)
    PROVE  Loud
  <1>0. in_flight \in GoodTable
    BY DEF TypeInv
  <1> SUFFICES ASSUME NEW g \in Handles, HasRow(in_flight[g]) PROVE Speaks(g, override[g])
    BY DEF Loud
  <1>1. CASE ParkAwaitingAuth(h, r)
    <2>1. in_flight' = Demoted(in_flight, r) /\ override' = override
      BY <1>1 DEF ParkAwaitingAuth, Demote
    <2>2. HasRow(in_flight'[g])
      BY <1>0, <2>1, DemotedStages, SameStages
    <2> QED
      BY <2>1, <2>2 DEF Speaks
  <1>2. CASE FoldAnswer(h, r, answer)
    <2> DEFINE e == ApplyAck(in_flight[h][r], answer)
               row  == [in_flight[h] EXCEPT ![r] = ApplyAck(@, answer)]
               rows == [in_flight EXCEPT ![h] = row]
    <2>1. e.stage # "Absent"
      BY DEF OnAck, ApplyAck, Entry
    <2>2. row[r] = e /\ rows[h] = row
      BY <1>0 DEF GoodTable, GoodRows
    <2>3. g # h => rows[g] = in_flight[g]
      OBVIOUS
    <2>4. HasRow(row)
      <3> HIDE DEF row, e
      <3> QED BY <2>1, <2>2 DEF HasRow
    <2>5. HasRow(rows[g])
      <3> HIDE DEF row, rows
      <3> QED BY <2>2, <2>3, <2>4
    <2>6. \/ Finalize(rows, {h}, override, store)
          \/ in_flight' = rows /\ override' = override
      BY <1>2 DEF FoldAnswer
    <2> HIDE DEF rows
    <2> QED
      BY <2>5, <2>6, FinalizeLoud DEF Speaks
  <1> QED
    BY <1>1, <1>2 DEF OnAck

\* A reconnect is loud.
LEMMA AvailableLoud ==
    ASSUME TypeInv, NEW relay \in Relays, MarkRelayAvailable(relay)
    PROVE  Loud
  <1>0. in_flight \in GoodTable
    BY DEF TypeInv
  <1>1. PICK found \in [Handles -> SUBSET Relays], pins \in [Handles -> SUBSET Relays],
             ok \in Commits :
          LET rows == [h \in Handles |->
                             Retargeted(in_flight[h], found[h], pins[h])]
          IN  Finalize(DispatchAll(rows, Handles, {relay}, unavailable'),
                       Handles, override, PersistRetargeted(rows, ok))
    BY DEF MarkRelayAvailable
  <1> DEFINE rows == [h \in Handles |-> Retargeted(in_flight[h], found[h], pins[h])]
             sent == DispatchAll(rows, Handles, {relay}, unavailable')
             disk == PersistRetargeted(rows, ok)
  <1>2. Finalize(sent, Handles, override, disk)
    BY <1>1
  <1>3. ASSUME NEW h \in Handles
        PROVE  rows[h] \in GoodRows /\ (HasRow(in_flight[h]) => HasRow(rows[h]))
    <2>1. in_flight[h] \in GoodRows
      BY <1>0 DEF GoodTable
    <2>2. rows[h] = Retargeted(in_flight[h], found[h], pins[h])
      OBVIOUS
    <2>3. \A r \in Relays : in_flight[h][r].stage # "Absent" => rows[h][r].stage # "Absent"
      BY DEF Retargeted
    <2> HIDE DEF rows
    <2> QED
      BY <2>1, <2>2, <2>3, RetargetedGood DEF HasRow
  <1>4. rows \in GoodTable
    BY <1>3 DEF GoodTable
  <1> HIDE DEF rows
  <1>5. \A h \in Handles : HasRow(in_flight[h]) => HasRow(sent[h])
    BY <1>3, <1>4, DispatchLeavesRows
  <1> HIDE DEF sent, disk
  <1> QED
    BY <1>2, <1>5, FinalizeLoud DEF Loud

\* Start is loud.
LEMMA StartLoud ==
    ASSUME TypeInv, Start
    PROVE  Loud
  <1>0. in_flight \in GoodTable /\ store \in GoodTable
    BY DEF TypeInv
  <1>1. CASE ResumeFromStore
    <2> DEFINE pend == LoadPending
               rows == [h \in Handles |-> IF h \in pend THEN store[h]
                                                        ELSE in_flight[h]]
               cids == [h \in Handles |-> IF h \in pend THEN NoCid ELSE override[h]]
               sent == DispatchAll(rows, pend, Relays, unavailable)
    <2>1. Finalize(sent, pend, cids, store)
      BY <1>1 DEF ResumeFromStore
    <2>2. pend \in SUBSET Handles
      BY DEF LoadPending
    <2>3. \A h \in pend : HasRow(store[h])
      BY IncompleteIsRow DEF LoadPending
    <2> HIDE DEF pend
    <2>4. rows \in GoodTable
      BY <1>0 DEF GoodTable
    <2>5. \A h \in Handles : HasRow(in_flight[h]) => HasRow(rows[h])
      BY <2>3
    <2> HIDE DEF rows, cids
    <2>6. \A h \in Handles : HasRow(in_flight[h]) => HasRow(sent[h])
      BY <2>4, <2>5, DispatchLeavesRows
    <2> HIDE DEF sent
    <2>7. \A h \in Handles : HasRow(in_flight[h]) => Speaks(h, cids[h])
      BY <2>1, <2>2, <2>6, FinalizeLoud
    <2>8. \A h \in Handles : h \notin pend => cids[h] = override[h]
      BY DEF cids
    <2> QED
      BY <2>7, <2>8 DEF Loud, pend
  <1>2. CASE UNCHANGED <<in_flight, override, store, frames>>
    BY <1>2 DEF Loud, Speaks
  <1> QED
    BY <1>1, <1>2 DEF Start

\* A tick is loud.
LEMMA TickLoud ==
    ASSUME TypeInv, Tick
    PROVE  Loud
  <1>1. Finalize(Ticked, Handles, override, store) /\ Swept \in GoodTable
    BY SweptGood DEF Tick, TypeInv
  <1>2. \A h \in Handles : HasRow(in_flight[h]) => HasRow(Ticked[h])
    BY <1>1, SweepLeavesRows, DispatchLeavesRows DEF Ticked
  <1> QED
    BY <1>1, <1>2, FinalizeLoud DEF Loud

\* A retry is loud.
LEMMA RetryLoud ==
    ASSUME TypeInv, NEW h \in Handles, RetryNow(h)
    PROVE  Loud
  <1>0. in_flight \in GoodTable /\ in_flight[h] \in GoodRows
    BY DEF TypeInv, GoodTable
  <1> DEFINE row  == Unhurried(in_flight[h])
             rows == [in_flight EXCEPT ![h] = row]
             sent == DispatchAll(rows, {h}, Relays, unavailable)
             disk == [store EXCEPT ![h] = row]
  <1>1. row \in GoodRows /\ HasRow(row)
    BY <1>0, UnhurriedGood, UnhurriedStages DEF RetryNow, HasRow
  <1>2. \/ Finalize(sent, {h}, override, disk)
        \/ in_flight' = rows /\ override' = override
    BY DEF RetryNow
  <1> HIDE DEF row
  <1>3. rows \in GoodTable /\ rows[h] = row /\ \A g \in Handles \ {h} : rows[g] = in_flight[g]
    BY <1>0, <1>1 DEF GoodTable
  <1> HIDE DEF rows, disk
  <1>4. \A g \in Handles : HasRow(in_flight[g]) => HasRow(rows[g]) /\ HasRow(sent[g])
    BY <1>1, <1>3, DispatchLeavesRows
  <1> HIDE DEF sent
  <1>5. ASSUME NEW g \in Handles, HasRow(in_flight[g]) PROVE Speaks(g, override[g])
    <2>1. CASE Finalize(sent, {h}, override, disk)
      BY <1>4, <1>5, <2>1, FinalizeLoud
    <2>2. CASE in_flight' = rows /\ override' = override
      BY <1>4, <1>5, <2>2 DEF Speaks
    <2> QED
      BY <1>2, <2>1, <2>2
  <1> QED
    BY <1>5 DEF Loud

\* Every drained event is loud.
LEMMA LoudStep ==
    ASSUME TypeInv, Drained
    PROVE  Loud
  <1>0. in_flight \in GoodTable
    BY DEF TypeInv
  <1>1. ASSUME NEW r \in Relays, MarkRelayUnavailable(r) PROVE Loud
    <2>1. in_flight' = Demoted(in_flight, r) /\ override' = override
      BY <1>1 DEF MarkRelayUnavailable, Demote
    <2>2. \A g \in Handles : HasRow(in_flight[g]) => HasRow(in_flight'[g])
      <3> SUFFICES ASSUME NEW g \in Handles PROVE HasRow(in_flight[g]) <=> HasRow(in_flight'[g])
        OBVIOUS
      <3> QED
        BY <1>0, <2>1, DemotedStages, SameStages
    <2> QED
      BY <2>1, <2>2 DEF Loud, Speaks
  <1>2. CASE Stop
    BY <1>2 DEF Stop, Loud, Speaks
  <1>3. CASE TimePass
    <2>1. \A g \in Handles : HasRow(in_flight[g]) => HasRow(in_flight'[g])
      BY <1>0, <1>3, AgedStages DEF TimePass, HasRow
    <2> QED
      BY <1>3, <2>1 DEF TimePass, Loud, Speaks
  <1> QED
    BY <1>1, <1>2, <1>3, OnAckLoud, AvailableLoud, StartLoud, TickLoud, RetryLoud
       DEF Drained


-----------------------------------------------------------------------------
(* The index and the promises.  With room for every publish the index never  *)
(* evicts a live pair.                                                       *)

Room == IsFiniteSet(Handles) /\ Cardinality(Handles) <= IndexCap

Pair(h, c) == [handle |-> h, cid |-> c]

Settled(verdicts) == {v.handle : v \in {w \in verdicts : w.queue = "settled"}}

\* What the drain leaves in the index.
LEMMA DrainIndex ==
    ASSUME NEW q, NEW ix \in Seq(Pairs), NEW known, Drain(q, ix, known)
    PROVE  /\ index' \in Seq(Pairs)
           /\ \A p : In(index', p) <=> In(ix, p) /\ p.handle \notin Settled(pending_terminals')
           /\ Distinct(ix) => Distinct(index')
  <1> DEFINE gone == Settled(pending_terminals')
  <1>1. index' = Forget(ix, gone)
    BY DEF Drain, Settled
  <1> HIDE DEF gone
  <1> QED
    BY <1>1, ForgetFacts DEF gone

\* An index that can hold every handle never evicts for a new one.
LEMMA RoomForAll ==
    ASSUME Room, NEW ix \in Seq(Pairs), Distinct(ix), NEW h \in Handles
    PROVE  Len(ix) < IndexCap \/ \E i \in DOMAIN ix : ix[i].handle = h
  <1> SUFFICES ASSUME ~(Len(ix) < IndexCap), \A i \in DOMAIN ix : ix[i].handle # h
               PROVE  FALSE
    OBVIOUS
  <1> DEFINE n == Len(ix)
             others == Handles \ {h}
             f == [i \in 1..n |-> ix[i].handle]
  <1>1. n \in Nat /\ DOMAIN ix = 1..n /\ IndexCap \in Nat /\ n >= IndexCap
    BY CapAssumption
  <1>2. IsFiniteSet(1..n) /\ Cardinality(1..n) = n
    <2>1. n \in Int /\ 1 \in Int
      BY <1>1
    <2> HIDE DEF n
    <2>2. IsFiniteSet(1..n) /\ Cardinality(1..n) = IF 1 > n THEN 0 ELSE n - 1 + 1
      BY <2>1, FS_Interval
    <2> QED
      BY <1>1, <2>2
  <1>3. IsFiniteSet(others) /\ Cardinality(others) = Cardinality(Handles) - 1
    BY FS_RemoveElement DEF Room
  <1>4. f \in [1..n -> others]
    <2>1. ASSUME NEW i \in 1..n PROVE ix[i].handle \in others
      <3>1. ix[i] \in Pairs /\ i \in DOMAIN ix
        BY <1>1
      <3>2. ix[i].handle \in Handles
        BY <3>1 DEF Pairs
      <3> QED
        BY <3>1, <3>2
    <2> QED
      BY <2>1
  <1>5. \A i, j \in 1..n : f[i] = f[j] => i = j
    BY <1>1 DEF Distinct
  <1>6. Cardinality(Handles) \in Nat /\ Cardinality(Handles) <= IndexCap
    BY FS_CardinalityType DEF Room
  <1> HIDE DEF n, others, f
  <1>7. Cardinality(others) < Cardinality(1..n)
    BY <1>1, <1>2, <1>3, <1>6
  <1> DEFINE S == 1..n
  <1>8. /\ IsFiniteSet(S) /\ Cardinality(others) < Cardinality(S)
        /\ f \in [S -> others]
    BY <1>2, <1>4, <1>7
  <1>9. \A i, j \in S : f[i] = f[j] => i = j
    BY <1>5
  <1> HIDE DEF S
  <1>10. \E i, j \in S : i # j /\ f[i] = f[j]
    BY <1>3, <1>8, FS_PigeonHole
  <1> QED
    BY <1>9, <1>10

\* With room, filing a handle leaves every other pair in place.
LEMMA RecordKeeps ==
    ASSUME Room, index \in Seq(Pairs), Len(index) <= IndexCap, Distinct(index),
           NEW h \in Handles, NEW cid \in Cids \cup {NoCid}
    PROVE  /\ Record(index, h, cid) \in Seq(Pairs)
           /\ Distinct(Record(index, h, cid))
           /\ In(Record(index, h, cid), Pair(h, cid))
           /\ \A p : In(Record(index, h, cid), p) => p = Pair(h, cid) \/ In(index, p)
           /\ \A p : In(index, p) /\ p.handle # h => In(Record(index, h, cid), p)
  BY RoomForAll, RecordFacts DEF Pair

\* The index files a handle once.
LEMMA DistinctStep ==
    ASSUME KernelTypeInv, Distinct(index), [KernelNext]_all_vars
    PROVE  Distinct(index')
  <1>0. index \in Seq(Pairs) /\ Len(index) <= IndexCap
    BY DEF KernelTypeInv
  <1>1. ASSUME NEW h \in Handles, NEW cid \in Cids \cup {NoCid}, NEW q, NEW known,
               RunPublishEngine(h, cid, q, known)
        PROVE  Distinct(index')
    <2> DEFINE ix == Record(index, h, cid)
    <2>1. ix \in Seq(Pairs) /\ Distinct(ix)
      BY <1>0, RecordFacts
    <2>2. \/ index' = index
          \/ \E p : Drain(p, ix, known)
      BY <1>1 DEF RunPublishEngine, PublishOk, PublishError
    <2> HIDE DEF ix
    <2> QED
      BY <2>1, <2>2, DrainIndex
  <1>2. CASE Drained
    BY <1>0, <1>2, DrainIndex DEF Drained
  <1>3. CASE KernelCrash
    BY <1>3 DEF KernelCrash, Distinct
  <1>4. ASSUME NEW id \in HeldIds, CancelPublish(id) PROVE Distinct(index')
    <2>1. ASSUME NEW h PROVE Forget(index, {h}) \in Seq(Pairs) /\ Distinct(Forget(index, {h}))
      BY <1>0, ForgetFacts
    <2>2. ASSUME NEW h, NEW cid, CancelLive(h, cid) PROVE Distinct(index')
      BY <2>1, <2>2, DrainIndex DEF CancelLive
    <2> QED
      BY <1>4, <2>1, <2>2, CancelCases DEF ClearSettled, CancelUnknown
  <1>5. ASSUME NEW h \in Handles, NEW cid \in Cids \cup {NoCid},
               Publish(h, cid) \/ PublishRefused(h, cid)
        PROVE  Distinct(index')
    BY <1>1, <1>5 DEF Publish, PublishRefused
  <1>6. CASE UNCHANGED all_vars
    BY <1>6 DEF all_vars, kernel_vars
  <1> QED
    BY <1>1, <1>2, <1>3, <1>4, <1>5, <1>6, KernelCases


\* A row never speaks for an id that was not dispatched, and while the host
\* waits on the id the index files the row under it: a cancel by handle then
\* answers the promise too.
Named ==
    \A h \in Handles, c \in Cids : Carries(h, c) =>
        /\ host[c].phase # "unused"
        /\ host[c].phase = "waiting" => In(index, Pair(h, c))

\* What OnlyStartBreaksPromises says of one id.
Honoured(c) ==
    (/\ host'[c].phase = "waiting"
     /\ host[c].phase = "waiting" => Backed(c))
       => \/ Backed(c)'
          \/ Start /\ \E h \in LoadPending : override[h] = c

\* The fields of a pair.
LEMMA PairFields ==
    \A h, c : Pair(h, c).handle = h /\ Pair(h, c).cid = c
  BY DEF Pair

\* A drained event lets a row that carries an id go only with its verdict.
LEMMA DrainedHonoured ==
    ASSUME KernelTypeInv, Named, Drained
    PROVE  Named' /\ \A c \in Cids : Honoured(c)
  <1>1. /\ Quiet /\ Loud /\ host' = Heard(host, pending_terminals') /\ host \in HostTable
        /\ index \in Seq(Pairs) /\ Drain(queue, index, host)
    BY QuietStep, LoudStep DEF Drained, Drain, KernelTypeInv
  <1>2. \A v \in pending_terminals' : v.status \in {"ok", "failed", "cancelled"}
    BY <1>1 DEF Quiet
  <1>3. ASSUME NEW c \in Cids
        PROVE  host'[c].phase = IF News(pending_terminals', c) = {} THEN host[c].phase
                                ELSE "answered"
    BY <1>1, <1>2, HeardFacts
  <1>4. ASSUME NEW h \in Handles, NEW c \in Cids, HasRow(in_flight'[h]), override'[h] = c
        PROVE  /\ host'[c].phase # "unused"
               /\ host'[c].phase = "waiting" => In(index', Pair(h, c))
    <2>1. Carries(h, c)
      BY <1>1, <1>4 DEF Quiet
    <2>2. h \notin Settled(pending_terminals')
      BY <1>1, <1>4, CidAssumption DEF Settled, Quiet
    <2>3. In(index, Pair(h, c)) => In(index', Pair(h, c))
      BY <1>1, <2>2, DrainIndex, PairFields
    <2> QED
      BY <1>3, <2>1, <2>3 DEF Named
  <1>5. ASSUME NEW c \in Cids, host'[c].phase = "waiting",
               host[c].phase = "waiting" => Backed(c)
        PROVE  \/ Backed(c)'
               \/ Start /\ \E h \in LoadPending : override[h] = c
    <2>1. News(pending_terminals', c) = {} /\ host[c].phase = "waiting"
      BY <1>3, <1>5
    <2>2. PICK h \in Handles : HasRow(in_flight[h]) /\ override[h] = c
      BY <1>5, <2>1 DEF Backed
    <2>3. CASE Start /\ h \in LoadPending
      BY <2>2, <2>3
    <2>4. CASE Speaks(h, c)
      <3>1. HasRow(in_flight'[h]) /\ override'[h] = c
        BY <2>1, <2>4 DEF Speaks, News
      <3> QED
        BY <3>1 DEF Backed
    <2> QED
      BY <1>1, <2>2, <2>3, <2>4 DEF Loud
  <1> QED
    BY <1>4, <1>5 DEF Named, Honoured, Carries

\* A call that tells one id of a failure and takes up no row for the others.
LEMMA FailureHonoured ==
    ASSUME Named, NEW known \in HostTable, NEW cid,
           host' = Failed(known, cid), index' = index,
           \A c \in Cids : c # cid =>
               known[c].phase = host[c].phase,
           \A g \in Handles, c \in Cids :
              /\ Carries(g, c) => HasRow(in_flight'[g]) /\ override'[g] = c
              /\ HasRow(in_flight'[g]) /\ override'[g] = c /\ c # cid => Carries(g, c)
    PROVE  Named' /\ \A c \in Cids : Honoured(c)
  <1>1. \A c \in Cids : host'[c].phase = IF c = cid THEN "answered" ELSE host[c].phase
    BY FailedFacts
  <1>2. ASSUME NEW g \in Handles, NEW c \in Cids, HasRow(in_flight'[g]), override'[g] = c
        PROVE  /\ host'[c].phase # "unused"
               /\ host'[c].phase = "waiting" => In(index', Pair(g, c))
    BY <1>1, <1>2 DEF Named
  <1>3. ASSUME NEW c \in Cids, host'[c].phase = "waiting",
               host[c].phase = "waiting" => Backed(c)
        PROVE  Backed(c)'
    <2>1. PICK g \in Handles : Carries(g, c)
      BY <1>1, <1>3 DEF Backed, Carries
    <2>2. HasRow(in_flight'[g]) /\ override'[g] = c
      BY <2>1
    <2> QED
      BY <2>2 DEF Backed
  <1> QED
    BY <1>2, <1>3 DEF Named, Honoured, Carries

\* A publish answers its id or takes up a row for it.
LEMMA RunHonoured ==
    ASSUME Room, KernelTypeInv, Distinct(index), Named,
           NEW h \in Handles, NEW cid \in Cids \cup {NoCid}, NEW q, NEW known \in HostTable,
           \A c \in Cids : known[c].phase = IF c = cid THEN "waiting" ELSE host[c].phase,
           cid # NoCid => host[cid].phase = "unused",
           RunPublishEngine(h, cid, q, known)
    PROVE  Named' /\ \A c \in Cids : Honoured(c)
  <1>0. /\ index \in Seq(Pairs) /\ Len(index) <= IndexCap /\ TypeInv
        /\ in_flight \in GoodTable /\ override \in CidTable
    BY DEF KernelTypeInv, TypeInv
  <1>a. \A g \in Handles, c \in Cids : Carries(g, c) => c # cid
    BY CidAssumption DEF Named
  <1>1. CASE PublishOk(h, cid, q, known)
    <2> DEFINE ix == Record(index, h, cid)
    <2>1. PICK targets \in SUBSET Relays : \E pins \in Pins(h, targets) :
             StartPublish(h, targets, pins, cid) /\ \E p : Drain(p, ix, known)
      BY <1>1 DEF PublishOk
    <2>2. PICK pins \in Pins(h, targets) : StartPublish(h, targets, pins, cid)
      BY <2>1
    <2>3. /\ \A v \in pending_terminals' :
                 v.handle = h /\ v.cid = cid /\ v.status \in {"ok", "failed"}
          /\ \A g \in Handles \ {h} : /\ in_flight'[g] = in_flight[g]
                                      /\ override'[g] = override[g]
          /\ pending_terminals' = {} => HasRow(in_flight'[h]) /\ override'[h] = cid
          /\ \A g \in Handles, c \in Cids :
                 HasRow(in_flight'[g]) /\ override'[g] = c
                    => IF g = h THEN c = cid ELSE Carries(g, c)
          /\ pending_terminals' # {} => ~HasRow(in_flight'[h])
      BY <1>0, <2>2, StartOutcome
    <2>4. ~HasRow(in_flight[h])
      BY <2>2 DEF StartPublish
    <2>5. host' = Heard(known, pending_terminals')
      BY <2>1 DEF Drain
    <2>6. ASSUME NEW c \in Cids
          PROVE  host'[c].phase = IF News(pending_terminals', c) = {} THEN known[c].phase
                                  ELSE "answered"
      <3>1. \A v \in pending_terminals' : v.status \in {"ok", "failed", "cancelled"}
        BY <2>3
      <3> QED
        BY <2>5, <3>1, HeardFacts
    <2>7. /\ ix \in Seq(Pairs)
          /\ In(ix, Pair(h, cid))
          /\ \A p : In(index, p) /\ p.handle # h => In(ix, p)
      BY <1>0, RecordKeeps
    <2> HIDE DEF ix
    <2>8. \A p : In(index', p) <=> In(ix, p) /\ p.handle \notin Settled(pending_terminals')
      BY <2>1, <2>7, DrainIndex
    <2>9. Settled(pending_terminals') \subseteq {h}
      BY <2>3 DEF Settled
    <2>10. pending_terminals' = {} => Settled(pending_terminals') = {}
      BY DEF Settled
    <2>11. ASSUME NEW g \in Handles, NEW c \in Cids, HasRow(in_flight'[g]), override'[g] = c
           PROVE  /\ host'[c].phase # "unused"
                  /\ host'[c].phase = "waiting" => In(index', Pair(g, c))
      <3>1. CASE g = h
        <4>1. c = cid /\ pending_terminals' = {}
          BY <2>3, <2>11, <3>1
        <4>2. In(index', Pair(g, c))
          BY <2>7, <2>8, <2>10, <3>1, <4>1, PairFields
        <4> QED
          BY <2>6, <4>1, <4>2
      <3>2. CASE g # h
        <4>1. Carries(g, c) /\ c # cid
          BY <1>a, <2>3, <2>11, <3>2
        <4>2. In(index, Pair(g, c)) => In(index', Pair(g, c))
          BY <2>7, <2>8, <2>9, <3>2, PairFields
        <4> QED
          BY <2>6, <4>1, <4>2 DEF Named
      <3> QED
        BY <3>1, <3>2
    <2>12. ASSUME NEW c \in Cids, host'[c].phase = "waiting",
                  host[c].phase = "waiting" => Backed(c)
           PROVE  Backed(c)'
      <3>1. News(pending_terminals', c) = {} /\ known[c].phase = "waiting"
        BY <2>6, <2>12
      <3>2. CASE c = cid
        <4>1. pending_terminals' = {}
          BY <2>3, <3>1, <3>2 DEF News
        <4> QED
          BY <2>3, <3>2, <4>1 DEF Backed
      <3>3. CASE c # cid
        <4>1. PICK g \in Handles : HasRow(in_flight[g]) /\ override[g] = c
          BY <2>12, <3>1, <3>3 DEF Backed
        <4>2. g # h
          BY <2>4, <4>1
        <4>3. HasRow(in_flight'[g]) /\ override'[g] = c
          BY <2>3, <4>1, <4>2
        <4> QED
          BY <4>3 DEF Backed
      <3> QED
        BY <3>2, <3>3
    <2> QED
      BY <2>11, <2>12 DEF Named, Honoured, Carries
  <1>2. CASE /\ StartPublishNoTargets(h, cid)
             /\ PublishError(h, cid, q, Heard(known, pending_terminals'),
                          "pending_relays_unknown")
    <2> DEFINE v == LastTerminal(h, cid, "failed", "none", FALSE)
               known2 == Heard(known, pending_terminals')
    <2>1. pending_terminals' = {v} /\ v.cid = cid /\ v.status = "failed"
      BY <1>2 DEF StartPublishNoTargets, LastTerminal
    <2>2. /\ in_flight' = in_flight /\ override' = override
          /\ host' = Failed(known2, cid) /\ index' = index
      BY <1>2 DEF StartPublishNoTargets, PublishError
    <2> HIDE DEF v
    <2>3. \A c \in Cids : c # cid => News(pending_terminals', c) = {}
      BY <2>1 DEF News
    <2>4. \A w \in pending_terminals' : w.status \in {"ok", "failed", "cancelled"}
      BY <2>1
    <2>5. known2 \in HostTable
      BY <2>4, HeardFacts
    <2>6. ASSUME NEW c \in Cids, c # cid PROVE known2[c].phase = host[c].phase
      <3>1. known2[c].phase = IF News(pending_terminals', c) = {} THEN known[c].phase
                              ELSE "answered"
        BY <2>4, HeardFacts
      <3> HIDE DEF known2
      <3> QED
        BY <2>3, <2>6, <3>1
    <2> HIDE DEF known2
    <2>7. \A g \in Handles, c \in Cids :
             Carries(g, c) <=> HasRow(in_flight'[g]) /\ override'[g] = c
      BY <2>2 DEF Carries
    <2> QED
      BY <2>2, <2>5, <2>6, <2>7, FailureHonoured
  <1>3. CASE \E targets \in SUBSET Relays : \E pins \in Pins(h, targets) :
                StartPublishStoreError(h, targets, pins, cid)
             /\ PublishError(h, cid, q, known, "store_error")
    <2>1. /\ ~HasRow(in_flight[h])
          /\ override'[h] = cid
          /\ \A g \in Handles : g # h => /\ in_flight'[g] = in_flight[g]
                                         /\ override'[g] = override[g]
      BY <1>0, <1>3 DEF StartPublishStoreError, GoodTable, CidTable
    <2>2. host' = Failed(known, cid) /\ index' = index
      BY <1>3 DEF PublishError
    <2>3. ASSUME NEW g \in Handles, NEW c \in Cids
          PROVE  /\ Carries(g, c) => HasRow(in_flight'[g]) /\ override'[g] = c
                 /\ HasRow(in_flight'[g]) /\ override'[g] = c /\ c # cid => Carries(g, c)
      BY <2>1 DEF Carries
    <2> QED
      BY <2>2, <2>3, FailureHonoured
  <1>4. CASE EngineUntouched /\ PublishError(h, cid, q, known, "duplicate")
    <2>1. /\ host' = Failed(known, cid) /\ index' = index
          /\ in_flight' = in_flight /\ override' = override
      BY <1>4 DEF PublishError, EngineUntouched, engine_vars
    <2>2. \A g \in Handles, c \in Cids :
             Carries(g, c) <=> HasRow(in_flight'[g]) /\ override'[g] = c
      BY <2>1 DEF Carries
    <2> QED
      BY <2>1, <2>2, FailureHonoured
  <1> QED
    BY <1>1, <1>2, <1>3, <1>4 DEF RunPublishEngine

\* A cancel that drops the row of an id the host waits on answers that id.
LEMMA CancelHonoured ==
    ASSUME KernelTypeInv, Distinct(index), Named, NEW id \in HeldIds, CancelPublish(id)
    PROVE  Named' /\ \A c \in Cids : Honoured(c)
  <1>0. /\ index \in Seq(Pairs) /\ host \in HostTable
        /\ in_flight \in GoodTable /\ override \in CidTable
    BY DEF KernelTypeInv, TypeInv
  <1>1. ASSUME NEW h \in Handles, ClearSettled(h)
        PROVE  Named' /\ \A c \in Cids : Honoured(c)
    <2>1. /\ host' = host /\ in_flight' = in_flight /\ override' = override
          /\ index' = Forget(index, {h}) /\ ~HasRow(in_flight[h])
      BY <1>1 DEF ClearSettled, EngineUntouched, engine_vars
    <2>2. \A p : In(index', p) <=> In(index, p) /\ p.handle # h
      BY <1>0, <2>1, ForgetFacts
    <2>3. ASSUME NEW g \in Handles, NEW c \in Cids, Carries(g, c)
          PROVE  host[c].phase = "waiting" => In(index', Pair(g, c))
      BY <2>1, <2>2, <2>3, PairFields DEF Named, Carries
    <2>4. Named'
      BY <2>1, <2>3 DEF Named, Carries
    <2>5. \A c \in Cids : Honoured(c)
      BY <2>1 DEF Honoured, Backed
    <2> QED
      BY <2>4, <2>5
  <1>2. ASSUME NEW h \in Handles, NEW cid \in Cids \cup {NoCid}, CancelLive(h, cid),
               \/ In(index, Pair(h, cid))
               \/ \A p : In(index, p) => p.handle # h
        PROVE  Named' /\ \A c \in Cids : Honoured(c)
    <2> DEFINE v == LastTerminal(h, cid, "cancelled", "cancelled", FALSE)
               ix == Forget(index, {h})
    <2>1. /\ pending_terminals' = {v} /\ v.cid = cid /\ v.status = "cancelled"
          /\ v.queue = "cancelled"
          /\ in_flight' = [in_flight EXCEPT ![h] = NoRow]
          /\ override' = [override EXCEPT ![h] = NoCid]
          /\ host' = Heard(host, pending_terminals')
          /\ Drain(queue, ix, host)
      BY <1>2 DEF CancelLive, CancelByHandle, LastTerminal, Drain
    <2> HIDE DEF v
    <2>2. ASSUME NEW c \in Cids
          PROVE  host'[c].phase = IF News(pending_terminals', c) = {} THEN host[c].phase
                                  ELSE "answered"
      <3>1. \A w \in pending_terminals' : w.status \in {"ok", "failed", "cancelled"}
        BY <2>1
      <3>2. host \in HostTable
        BY <1>0
      <3> DEFINE heard == Heard(host, pending_terminals')
      <3>3. heard[c].phase = IF News(pending_terminals', c) = {} THEN host[c].phase
                             ELSE "answered"
        BY <3>1, <3>2, HeardFacts
      <3>4. host' = heard
        BY <2>1
      <3> HIDE DEF heard
      <3> QED
        BY <3>3, <3>4
    <2>3. \A c \in Cids : c = cid => News(pending_terminals', c) # {}
      BY <2>1 DEF News
    <2>4. /\ ix \in Seq(Pairs)
          /\ \A p : In(ix, p) <=> In(index, p) /\ p.handle # h
      BY <1>0, ForgetFacts
    <2> HIDE DEF ix
    <2>5. Settled(pending_terminals') = {}
      BY <2>1 DEF Settled
    <2>6. \A p : In(index', p) <=> In(index, p) /\ p.handle # h
      BY <2>1, <2>4, <2>5, DrainIndex
    <2>7. /\ in_flight'[h] = NoRow
          /\ \A g \in Handles : g # h => /\ in_flight'[g] = in_flight[g]
                                         /\ override'[g] = override[g]
      BY <1>0, <2>1 DEF GoodTable, CidTable
    <2>8. ASSUME NEW g \in Handles, NEW c \in Cids, HasRow(in_flight'[g]), override'[g] = c
          PROVE  /\ host'[c].phase # "unused"
                 /\ host'[c].phase = "waiting" => In(index', Pair(g, c))
      <3>1. g # h
        BY <2>7, <2>8, NoRowEmpty
      <3>2. Carries(g, c)
        BY <2>7, <2>8, <3>1 DEF Carries
      <3> QED
        BY <2>2, <2>6, <3>1, <3>2, PairFields DEF Named
    <2>9. ASSUME NEW c \in Cids, host'[c].phase = "waiting",
                 host[c].phase = "waiting" => Backed(c)
          PROVE  Backed(c)'
      <3>1. c # cid /\ host[c].phase = "waiting"
        BY <2>2, <2>3, <2>9
      <3>2. PICK g \in Handles : HasRow(in_flight[g]) /\ override[g] = c
        BY <2>9, <3>1 DEF Backed
      <3>3. In(index, Pair(g, c))
        BY <3>1, <3>2 DEF Named, Carries
      <3>4. g # h
        <4> SUFFICES ASSUME g = h PROVE FALSE
          OBVIOUS
        <4>1. In(index, Pair(h, cid)) /\ In(index, Pair(h, c))
          BY <1>2, <3>3, PairFields
        <4>2. PICK i \in DOMAIN index, j \in DOMAIN index :
                 index[i] = Pair(h, cid) /\ index[j] = Pair(h, c)
          BY <4>1 DEF In
        <4>3. i = j
          BY <4>2, PairFields DEF Distinct
        <4> QED
          BY <3>1, <4>2, <4>3 DEF Pair
      <3>5. HasRow(in_flight'[g]) /\ override'[g] = c
        BY <2>7, <3>2, <3>4
      <3> QED
        BY <3>5 DEF Backed
    <2> QED
      BY <2>8, <2>9 DEF Named, Honoured, Carries
  <1>3. ASSUME id \in Cids, CancelUnknown(id)
        PROVE  Named' /\ \A c \in Cids : Honoured(c)
    <2>1. /\ index' = index /\ in_flight' = in_flight /\ override' = override
          /\ \A c \in Cids : host'[c] = IF c = id THEN Hear(host, id, {"cancelled"})
                                        ELSE host[c]
      BY <1>0, <1>3 DEF CancelUnknown, EngineUntouched, engine_vars, HostTable
    <2>2. Hear(host, id, {"cancelled"}).phase = "answered"
      BY DEF Hear
    <2>3. \A c \in Cids : host'[c].phase = IF c = id THEN "answered" ELSE host[c].phase
      BY <2>1, <2>2
    <2>4. Named'
      BY <2>1, <2>3 DEF Named, Carries
    <2>5. \A c \in Cids : Honoured(c)
      BY <2>1, <2>3 DEF Honoured, Backed
    <2> QED
      BY <2>4, <2>5
  <1> QED
    BY <1>1, <1>2, <1>3, CancelCases DEF Pair

\* Every step keeps Named and honours every id.
LEMMA HonouredStep ==
    ASSUME Room, KernelTypeInv, Distinct(index), Named, [KernelNext]_all_vars
    PROVE  Named' /\ (KernelNext => \A c \in Cids : Honoured(c))
  <1>0. host \in HostTable
    BY DEF KernelTypeInv
  <1>1. ASSUME NEW h \in Handles, NEW cid \in Cids \cup {NoCid}, Publish(h, cid)
        PROVE  Named' /\ \A c \in Cids : Honoured(c)
    <2> DEFINE known == Asked(cid)
    <2>1. /\ known \in HostTable
          /\ \A d \in Cids : known[d].phase = IF d = cid THEN "waiting"
                                              ELSE host[d].phase
          /\ RunPublishEngine(h, cid, queue, known)
          /\ cid # NoCid => host[cid].phase = "unused"
      BY <1>0, <1>1, AskedFacts DEF Publish
    <2> HIDE DEF known
    <2> QED
      BY <2>1, RunHonoured
  <1>2. ASSUME NEW h \in Handles, RunPublishEngine(h, NoCid, Dropped(queue, h), host)
        PROVE  Named' /\ \A c \in Cids : Honoured(c)
    <2> DEFINE q == Dropped(queue, h)
    <2>1. /\ \A d \in Cids : host[d].phase = IF d = NoCid THEN "waiting"
                                             ELSE host[d].phase
          /\ RunPublishEngine(h, NoCid, q, host)
      BY <1>2, CidAssumption
    <2> HIDE DEF q
    <2> QED
      BY <1>0, <2>1, RunHonoured
  <1>3. ASSUME NEW h \in Handles, NEW cid \in Cids \cup {NoCid}, PublishRefused(h, cid)
        PROVE  Named' /\ \A c \in Cids : Honoured(c)
    <2> DEFINE known == Asked(cid)
    <2>1. /\ known \in HostTable
          /\ \A c \in Cids : c # cid => known[c].phase = host[c].phase
      BY <1>0, AskedFacts
    <2>2. /\ host' = Failed(known, cid) /\ index' = index
          /\ in_flight' = in_flight /\ override' = override
      BY <1>3 DEF PublishRefused, EngineUntouched, engine_vars
    <2>3. \A g \in Handles, c \in Cids :
             Carries(g, c) <=> HasRow(in_flight'[g]) /\ override'[g] = c
      BY <2>2 DEF Carries
    <2> HIDE DEF known
    <2> QED
      BY <2>1, <2>2, <2>3, FailureHonoured
  <1>4. CASE KernelCrash
    <2>1. \A h \in Handles : ~HasRow(in_flight'[h])
      BY <1>4, NoRowEmpty DEF KernelCrash, Crash
    <2>2. \A c \in Cids : host'[c].phase # "waiting"
      BY <1>4 DEF KernelCrash
    <2> QED
      BY <2>1, <2>2 DEF Named, Carries, Honoured
  <1>5. CASE UNCHANGED all_vars
    <2>1. Named'
      BY <1>5 DEF all_vars, vars, kernel_vars, Named, Carries
    <2>2. \A c \in Cids : Honoured(c)
      BY <1>5 DEF all_vars, vars, kernel_vars, Honoured, Backed
    <2> QED
      BY <2>1, <2>2
  <1> QED
    BY <1>1, <1>2, <1>3, <1>4, <1>5, KernelCases, DrainedHonoured, CancelHonoured

\* Only a Start breaks a promise.  Whatever writes fail, whatever is published,
\* retried, cancelled, stopped or lost, a step after which the host waits on a
\* dispatch id leaves a live row that carries the id, provided there was one
\* before if the host was waiting already; the exception is a Start that reloads
\* the record of that row.  This needs an index with room for the publishes (an
\* evicted pair makes a cancel report under the handle).
THEOREM PromisesAreBacked ==
    ASSUME IsFiniteSet(Handles), Cardinality(Handles) <= IndexCap
    PROVE  KernelSpec => OnlyStartBreaksPromises
  <1> DEFINE Inv == KernelTypeInv /\ Distinct(index) /\ Named
  <1>0. Room
    BY DEF Room
  <1>1. KernelInit => Inv
    <2> SUFFICES ASSUME KernelInit PROVE Distinct(index) /\ Named
      BY KernelTypeInit
    <2>1. /\ \A h \in Handles : ~HasRow(in_flight[h])
          /\ index = <<>>
      BY NoRowEmpty DEF KernelInit, Init
    <2> QED
      BY <2>1 DEF Distinct, Named, Carries
  <1>2. Inv /\ [KernelNext]_all_vars => Inv'
    BY <1>0, KernelTypeStep, DistinctStep, HonouredStep
  <1>3. Inv /\ [KernelNext]_all_vars => [\A c \in Cids : Honoured(c)]_all_vars
    BY <1>0, HonouredStep
  <1>4. [][\A c \in Cids : Honoured(c)]_all_vars => OnlyStartBreaksPromises
    BY DEF OnlyStartBreaksPromises, Honoured
  <1>5. KernelSpec => [][\A c \in Cids : Honoured(c)]_all_vars
    BY <1>1, <1>2, <1>3, PTL DEF KernelSpec
  <1> QED
    BY <1>4, <1>5, PTL


-----------------------------------------------------------------------------
(* After a cancel.  A row that speaks for a dispatch id is the one the index *)
(* files under it, so a cancel of that id finds the row and silences it.     *)

Filed(h, c) ==
    /\ In(index, Pair(h, c))
    /\ \A p : In(index, p) /\ p.cid = c => p.handle = h
    /\ "cancelled" \notin host[c].told

Silenced ==
    /\ \A h \in Handles, c \in Cids : Carries(h, c) => Filed(h, c)
    /\ \A p : In(index, p) /\ p.cid \in Cids => host[p.cid].phase # "unused"

\* The last word of one dispatch id.
Final(c) ==
    "cancelled" \in host[c].told
        => host'[c].told = host[c].told \/ host'[c].phase = "gone"

\* A drained event says nothing to a cancelled id.
LEMMA DrainedSilenced ==
    ASSUME KernelTypeInv, Silenced, Drained
    PROVE  Silenced' /\ \A c \in Cids : Final(c)
  <1>1. /\ Quiet /\ host' = Heard(host, pending_terminals') /\ host \in HostTable
        /\ index \in Seq(Pairs) /\ Drain(queue, index, host)
    BY QuietStep DEF Drained, Drain, KernelTypeInv
  <1>2. \A v \in pending_terminals' : v.status \in {"ok", "failed"}
    BY <1>1 DEF Quiet
  <1>3. \A p : In(index', p) <=> In(index, p) /\ p.handle \notin Settled(pending_terminals')
    BY <1>1, DrainIndex
  <1>4. ASSUME NEW c \in Cids
        PROVE  /\ host'[c].told = host[c].told \cup News(pending_terminals', c)
               /\ host[c].phase # "unused" => host'[c].phase # "unused"
               /\ "cancelled" \notin News(pending_terminals', c)
    <2>1. \A v \in pending_terminals' : v.status \in {"ok", "failed", "cancelled"}
      BY <1>2
    <2>2. /\ host'[c].told = host[c].told \cup News(pending_terminals', c)
          /\ host'[c].phase = IF News(pending_terminals', c) = {} THEN host[c].phase
                              ELSE "answered"
      BY <1>1, <2>1, HeardFacts
    <2>3. "cancelled" \notin News(pending_terminals', c)
      BY <1>2 DEF News, Wire
    <2> QED
      BY <2>2, <2>3
  <1>5. ASSUME NEW h \in Handles, NEW c \in Cids, HasRow(in_flight'[h]), override'[h] = c
        PROVE  Filed(h, c)'
    <2>1. Carries(h, c)
      BY <1>1, <1>5 DEF Quiet
    <2>2. Filed(h, c)
      BY <2>1 DEF Silenced
    <2>3. h \notin Settled(pending_terminals')
      BY <1>1, <1>5, CidAssumption DEF Settled, Quiet
    <2>4. In(index', Pair(h, c))
      BY <1>3, <2>2, <2>3 DEF Filed, Pair
    <2> QED
      BY <1>3, <1>4, <2>2, <2>4 DEF Filed
  <1>6. ASSUME NEW c \in Cids PROVE Final(c)
    <2> SUFFICES ASSUME "cancelled" \in host[c].told PROVE News(pending_terminals', c) = {}
      BY <1>4 DEF Final
    <2>1. ASSUME NEW v \in pending_terminals', v.cid = c PROVE FALSE
      <3>1. v.handle \in Handles /\ Carries(v.handle, c)
        BY <1>1, <2>1 DEF Quiet
      <3> QED
        BY <3>1 DEF Silenced, Filed
    <2> QED
      BY <2>1 DEF News
  <1>7. \A p : In(index', p) /\ p.cid \in Cids => host'[p.cid].phase # "unused"
    BY <1>3, <1>4 DEF Silenced
  <1> QED
    BY <1>5, <1>6, <1>7 DEF Silenced, Carries

\* A call that leaves the engine and the index alone and tells an id only what
\* nobody else will.
LEMMA ToldSilenced ==
    ASSUME Silenced, NEW told, index' = index,
           \A h \in Handles : HasRow(in_flight'[h]) =>
               HasRow(in_flight[h]) /\ override'[h] = override[h],
           \A c \in Cids : /\ host[c].phase # "unused" => host'[c].phase # "unused"
                           /\ c # told => host'[c].told = host[c].told,
           told \in Cids => /\ \A h \in Handles : ~Carries(h, told)
                            /\ Final(told)
    PROVE  Silenced' /\ \A c \in Cids : Final(c)
  <1>1. ASSUME NEW h \in Handles, NEW c \in Cids, HasRow(in_flight'[h]), override'[h] = c
        PROVE  Filed(h, c)'
    <2>1. Carries(h, c) /\ Filed(h, c)
      BY <1>1 DEF Carries, Silenced
    <2>2. c # told
      BY <2>1
    <2>3. host'[c].told = host[c].told
      BY <2>2
    <2> QED
      BY <2>1, <2>3 DEF Filed
  <1>2. \A c \in Cids : Final(c)
    BY DEF Final
  <1>3. \A p : In(index', p) /\ p.cid \in Cids => host'[p.cid].phase # "unused"
    BY DEF Silenced
  <1> QED
    BY <1>1, <1>2, <1>3 DEF Silenced, Carries

\* A publish says nothing to a cancelled id.
LEMMA RunSilenced ==
    ASSUME Room, ~StoreMayFail, KernelTypeInv, Distinct(index), OneVoice, Silenced,
           NEW h \in Handles, NEW cid \in Cids \cup {NoCid}, NEW q, NEW known \in HostTable,
           \A c \in Cids : /\ known[c].told = host[c].told
                           /\ known[c].phase = IF c = cid THEN "waiting" ELSE host[c].phase,
           cid # NoCid => host[cid].phase = "unused",
           RunPublishEngine(h, cid, q, known)
    PROVE  Silenced' /\ \A c \in Cids : Final(c)
  <1>0. /\ index \in Seq(Pairs) /\ Len(index) <= IndexCap /\ TypeInv
        /\ in_flight \in GoodTable /\ override \in CidTable
    BY DEF KernelTypeInv, TypeInv
  <1>a. cid \in Cids => /\ host[cid].phase = "unused" /\ host[cid].told = {}
                        /\ \A g \in Handles : ~Carries(g, cid)
                        /\ \A p : In(index, p) => p.cid # cid
    BY CidAssumption DEF OneVoice, Silenced
  <1>b. \A g, c : Pair(g, c).handle = g /\ Pair(g, c).cid = c
    BY DEF Pair
  <1>1. CASE PublishOk(h, cid, q, known)
    <2> DEFINE ix == Record(index, h, cid)
    <2>1. PICK targets \in SUBSET Relays : \E pins \in Pins(h, targets) :
             StartPublish(h, targets, pins, cid) /\ \E p : Drain(p, ix, known)
      BY <1>1 DEF PublishOk
    <2>2. PICK pins \in Pins(h, targets) : StartPublish(h, targets, pins, cid)
      BY <2>1
    <2>3. /\ \A g \in Handles, c \in Cids :
                 HasRow(in_flight'[g]) /\ override'[g] = c
                    => IF g = h THEN c = cid ELSE Carries(g, c)
          /\ \A v \in pending_terminals' :
                 /\ v.handle = h /\ v.cid = cid /\ v.status \in {"ok", "failed"}
                 /\ ~HasRow(in_flight'[h])
      BY <1>0, <2>2, StartOutcome
    <2>4. /\ ix \in Seq(Pairs)
          /\ In(ix, Pair(h, cid))
          /\ \A p : In(ix, p) => p = Pair(h, cid) \/ In(index, p)
          /\ \A p : In(index, p) /\ p.handle # h => In(ix, p)
      BY <1>0, RecordKeeps
    <2> HIDE DEF ix
    <2>5. \A p : In(index', p) <=> In(ix, p) /\ p.handle \notin Settled(pending_terminals')
      BY <2>1, <2>4, DrainIndex
    <2>6. ASSUME NEW g \in Handles, g \in Settled(pending_terminals')
          PROVE  g = h /\ ~HasRow(in_flight'[g])
      BY <2>3, <2>6 DEF Settled
    <2>7. host' = Heard(known, pending_terminals')
      BY <2>1 DEF Drain
    <2>8. ASSUME NEW c \in Cids
          PROVE  /\ host'[c].told = host[c].told \cup News(pending_terminals', c)
                 /\ host[c].phase # "unused" \/ c = cid => host'[c].phase # "unused"
                 /\ "cancelled" \notin News(pending_terminals', c)
                 /\ c # cid => News(pending_terminals', c) = {}
      <3>1. \A v \in pending_terminals' : v.status \in {"ok", "failed", "cancelled"}
        BY <2>3
      <3>2. /\ host'[c].told = known[c].told \cup News(pending_terminals', c)
            /\ host'[c].phase = IF News(pending_terminals', c) = {} THEN known[c].phase
                                ELSE "answered"
        BY <2>7, <3>1, HeardFacts
      <3>3. "cancelled" \notin News(pending_terminals', c)
        BY <2>3 DEF News, Wire
      <3>4. c # cid => News(pending_terminals', c) = {}
        BY <2>3 DEF News
      <3> QED
        BY <3>2, <3>3, <3>4
    <2>9. ASSUME NEW g \in Handles, NEW c \in Cids, HasRow(in_flight'[g]), override'[g] = c
          PROVE  Filed(g, c)'
      <3>1. g \notin Settled(pending_terminals')
        BY <2>6, <2>9
      <3>2. CASE g = h
        <4>1. c = cid
          BY <2>3, <2>9, <3>2
        <4>2. In(index', Pair(g, c))
          BY <1>b, <2>4, <2>5, <3>1, <3>2, <4>1
        <4>3. \A p : In(index', p) /\ p.cid = c => p.handle = g
          BY <1>a, <1>b, <2>4, <2>5, <3>2, <4>1
        <4>4. "cancelled" \notin host'[c].told
          BY <1>a, <2>8, <4>1
        <4> QED
          BY <4>2, <4>3, <4>4 DEF Filed
      <3>3. CASE g # h
        <4>1. Carries(g, c) /\ Filed(g, c)
          BY <2>3, <2>9, <3>3 DEF Silenced
        <4>2. c # cid
          BY <1>a, <4>1
        <4>3. In(index', Pair(g, c))
          BY <1>b, <2>4, <2>5, <3>1, <3>3, <4>1 DEF Filed
        <4>4. \A p : In(index', p) /\ p.cid = c => p.handle = g
          BY <1>b, <2>4, <2>5, <4>1, <4>2 DEF Filed
        <4>5. "cancelled" \notin host'[c].told
          BY <2>8, <4>1, <4>2 DEF Filed
        <4> QED
          BY <4>3, <4>4, <4>5 DEF Filed
      <3> QED
        BY <3>2, <3>3
    <2>10. ASSUME NEW p, In(index', p), p.cid \in Cids
           PROVE  host'[p.cid].phase # "unused"
      <3>1. p = Pair(h, cid) \/ In(index, p)
        BY <2>4, <2>5, <2>10
      <3> QED
        BY <1>b, <2>8, <2>10, <3>1 DEF Silenced
    <2>11. ASSUME NEW c \in Cids PROVE Final(c)
      BY <1>a, <2>8 DEF Final
    <2> QED
      BY <2>9, <2>10, <2>11 DEF Silenced, Carries
  <1>2. ASSUME NEW known2 \in HostTable, host' = Failed(known2, cid), index' = index,
               in_flight' = in_flight, override' = override,
               \A c \in Cids : c # cid => /\ known2[c].told = host[c].told
                                          /\ known2[c].phase = host[c].phase
        PROVE  Silenced' /\ \A c \in Cids : Final(c)
    <2>1. \A c \in Cids : /\ host[c].phase # "unused" => host'[c].phase # "unused"
                          /\ c # cid => host'[c].told = host[c].told
      <3> SUFFICES ASSUME NEW c \in Cids
                   PROVE  /\ host[c].phase # "unused" => host'[c].phase # "unused"
                          /\ c # cid => host'[c].told = host[c].told
        OBVIOUS
      <3>1. /\ host'[c].told = known2[c].told \cup (IF c = cid THEN {"failed"} ELSE {})
            /\ host'[c].phase = IF c = cid THEN "answered" ELSE known2[c].phase
        BY <1>2, FailedFacts
      <3> QED
        BY <1>2, <3>1
    <2>2. cid \in Cids => (\A g \in Handles : ~Carries(g, cid)) /\ Final(cid)
      BY <1>a DEF Final
    <2> QED
      BY <1>2, <2>1, <2>2, ToldSilenced
  <1>3. CASE /\ StartPublishNoTargets(h, cid)
             /\ PublishError(h, cid, q, Heard(known, pending_terminals'),
                          "pending_relays_unknown")
    <2> DEFINE v == LastTerminal(h, cid, "failed", "none", FALSE)
               known2 == Heard(known, pending_terminals')
    <2>1. /\ pending_terminals' = {v} /\ v.cid = cid /\ v.status = "failed"
          /\ in_flight' = in_flight /\ override' = override
      BY <1>3 DEF StartPublishNoTargets, LastTerminal
    <2> HIDE DEF v
    <2>2. \A c \in Cids : c # cid => News(pending_terminals', c) = {}
      BY <2>1 DEF News
    <2>3. /\ known2 \in HostTable
          /\ \A c \in Cids : c # cid => /\ known2[c].told = known[c].told
                                        /\ known2[c].phase = known[c].phase
      <3>1. \A w \in pending_terminals' : w.status \in {"ok", "failed", "cancelled"}
        BY <2>1
      <3>2. known2 \in HostTable
        BY <3>1, HeardFacts
      <3>3. ASSUME NEW c \in Cids, c # cid
            PROVE  known2[c].told = known[c].told /\ known2[c].phase = known[c].phase
        <4> DEFINE news == News(pending_terminals', c)
        <4>1. /\ known2[c].told = known[c].told \cup news
              /\ known2[c].phase = IF news = {} THEN known[c].phase ELSE "answered"
          BY <3>1, HeardFacts
        <4>2. news = {}
          BY <2>2, <3>3
        <4> HIDE DEF news, known2
        <4> QED
          BY <4>1, <4>2
      <3> QED
        BY <3>2, <3>3
    <2>4. host' = Failed(known2, cid) /\ index' = index
      BY <1>3 DEF PublishError
    <2> HIDE DEF known2
    <2>5. \A c \in Cids : c # cid => /\ known2[c].told = host[c].told
                                     /\ known2[c].phase = host[c].phase
      BY <2>3
    <2> QED
      BY <1>2, <2>1, <2>3, <2>4, <2>5
  <1>4. CASE EngineUntouched /\ PublishError(h, cid, q, known, "duplicate")
    <2>1. /\ host' = Failed(known, cid) /\ index' = index
          /\ in_flight' = in_flight /\ override' = override
      BY <1>4 DEF PublishError, EngineUntouched, engine_vars
    <2>2. \A c \in Cids : c # cid => /\ known[c].told = host[c].told
                                     /\ known[c].phase = host[c].phase
      OBVIOUS
    <2> QED
      BY <1>2, <2>1, <2>2
  <1> QED
    BY <1>1, <1>3, <1>4 DEF RunPublishEngine, StartPublishStoreError


\* A cancel says nothing to an id cancelled before.
LEMMA CancelSilenced ==
    ASSUME KernelTypeInv, Silenced, NEW id \in HeldIds, CancelPublish(id)
    PROVE  Silenced' /\ \A c \in Cids : Final(c)
  <1>0. /\ index \in Seq(Pairs) /\ host \in HostTable
        /\ in_flight \in GoodTable /\ override \in CidTable
    BY DEF KernelTypeInv, TypeInv
  <1>a. \A g, c : Pair(g, c).handle = g /\ Pair(g, c).cid = c
    BY DEF Pair
  <1>1. ASSUME NEW h \in Handles, ClearSettled(h)
        PROVE  Silenced' /\ \A c \in Cids : Final(c)
    <2>1. /\ host' = host /\ in_flight' = in_flight /\ override' = override
          /\ index' = Forget(index, {h}) /\ ~HasRow(in_flight[h])
      BY <1>1 DEF ClearSettled, EngineUntouched, engine_vars
    <2>2. \A p : In(index', p) <=> In(index, p) /\ p.handle # h
      BY <1>0, <2>1, ForgetFacts
    <2>3. ASSUME NEW g \in Handles, NEW c \in Cids, HasRow(in_flight'[g]), override'[g] = c
          PROVE  Filed(g, c)'
      <3>1. Filed(g, c) /\ g # h
        BY <2>1, <2>3 DEF Silenced, Carries
      <3> QED
        BY <1>a, <2>1, <2>2, <3>1 DEF Filed
    <2>4. \A p : In(index', p) /\ p.cid \in Cids => host'[p.cid].phase # "unused"
      BY <2>1, <2>2 DEF Silenced
    <2> QED
      BY <2>1, <2>3, <2>4 DEF Silenced, Carries, Final
  <1>2. ASSUME NEW h \in Handles, NEW cid \in Cids \cup {NoCid}, CancelLive(h, cid),
               In(index, Pair(h, cid)) \/ cid = NoCid
        PROVE  Silenced' /\ \A c \in Cids : Final(c)
    <2> DEFINE v == LastTerminal(h, cid, "cancelled", "cancelled", FALSE)
               ix == Forget(index, {h})
    <2>1. /\ pending_terminals' = {v} /\ v.cid = cid /\ v.status = "cancelled"
          /\ v.queue = "cancelled"
          /\ in_flight' = [in_flight EXCEPT ![h] = NoRow]
          /\ override' = [override EXCEPT ![h] = NoCid]
          /\ host' = Heard(host, pending_terminals')
          /\ Drain(queue, ix, host)
      BY <1>2 DEF CancelLive, CancelByHandle, LastTerminal, Drain
    <2> HIDE DEF v
    <2>2. ASSUME NEW c \in Cids
          PROVE  /\ host'[c].told = host[c].told \cup (IF c = cid THEN {"cancelled"} ELSE {})
                 /\ host[c].phase # "unused" => host'[c].phase # "unused"
      <3> DEFINE news == News(pending_terminals', c)
      <3>1. \A w \in pending_terminals' : w.status \in {"ok", "failed", "cancelled"}
        BY <2>1
      <3>2. LET known == Heard(host, pending_terminals')
            IN  /\ known[c].told = host[c].told \cup news
                /\ known[c].phase = IF news = {} THEN host[c].phase ELSE "answered"
        BY <1>0, <3>1, HeardFacts
      <3>3. news = IF c = cid THEN {"cancelled"} ELSE {}
        BY <2>1 DEF News, Wire
      <3> HIDE DEF news
      <3>4. /\ host'[c].told = host[c].told \cup news
            /\ host'[c].phase = IF news = {} THEN host[c].phase ELSE "answered"
        BY <2>1, <3>2
      <3> QED
        BY <3>3, <3>4
    <2>3. /\ ix \in Seq(Pairs)
          /\ \A p : In(ix, p) <=> In(index, p) /\ p.handle # h
      BY <1>0, ForgetFacts
    <2> HIDE DEF ix
    <2>4. Settled(pending_terminals') = {}
      BY <2>1 DEF Settled
    <2>5. \A p : In(index', p) <=> In(index, p) /\ p.handle # h
      BY <2>1, <2>3, <2>4, DrainIndex
    <2>6. ASSUME NEW g \in Handles, NEW c \in Cids, HasRow(in_flight'[g]), override'[g] = c
          PROVE  Filed(g, c)'
      <3>1. g # h
        BY <1>0, <2>1, <2>6, CidAssumption DEF CidTable
      <3>2. Carries(g, c) /\ Filed(g, c)
        BY <1>0, <2>1, <2>6, <3>1 DEF GoodTable, CidTable, Carries, Silenced
      <3>3. c # cid
        BY <1>2, <1>a, <3>1, <3>2, CidAssumption DEF Filed
      <3>4. host'[c].told = host[c].told
        BY <2>2, <3>3
      <3> QED
        BY <1>a, <2>5, <3>1, <3>2, <3>4 DEF Filed
    <2>7. \A p : In(index', p) /\ p.cid \in Cids => host'[p.cid].phase # "unused"
      BY <2>2, <2>5 DEF Silenced
    <2>8. ASSUME NEW c \in Cids PROVE Final(c)
      <3> SUFFICES ASSUME "cancelled" \in host[c].told
                   PROVE  host'[c].told = host[c].told
        BY DEF Final
      <3>1. host'[c].told = host[c].told \cup (IF c = cid THEN {"cancelled"} ELSE {})
        BY <2>2
      <3> QED
        BY <3>1
    <2> QED
      BY <2>6, <2>7, <2>8 DEF Silenced, Carries
  <1>3. ASSUME id \in Cids, CancelUnknown(id), \A p : In(index, p) => p.cid # id
        PROVE  Silenced' /\ \A c \in Cids : Final(c)
    <2>1. /\ index' = index /\ in_flight' = in_flight /\ override' = override
          /\ \A c \in Cids : host'[c] = IF c = id THEN Hear(host, id, {"cancelled"})
                                        ELSE host[c]
      BY <1>0, <1>3 DEF CancelUnknown, EngineUntouched, engine_vars, HostTable
    <2>2. /\ Hear(host, id, {"cancelled"}).told = host[id].told \cup {"cancelled"}
          /\ Hear(host, id, {"cancelled"}).phase = "answered"
      BY DEF Hear
    <2>3. \A h \in Handles : ~Carries(h, id)
      BY <1>3, <1>a DEF Silenced, Filed
    <2>4. Final(id)
      BY <1>3, <2>1, <2>2 DEF Final
    <2>5. \A c \in Cids : /\ host[c].phase # "unused" => host'[c].phase # "unused"
                          /\ c # id => host'[c].told = host[c].told
      BY <2>1, <2>2
    <2> QED
      BY <2>1, <2>3, <2>4, <2>5, ToldSilenced
  <1> QED
    BY <1>1, <1>2, <1>3, CancelCases DEF Pair

\* Every step keeps Silenced and the last word of every cancelled id.
LEMMA SilencedStep ==
    ASSUME Room, ~StoreMayFail, KernelTypeInv, Distinct(index), OneVoice, Silenced,
           [KernelNext]_all_vars
    PROVE  Silenced' /\ \A c \in Cids : Final(c)
  <1>0. host \in HostTable
    BY DEF KernelTypeInv
  <1>1. ASSUME NEW h \in Handles, NEW cid \in Cids \cup {NoCid}, Publish(h, cid)
        PROVE  Silenced' /\ \A c \in Cids : Final(c)
    <2> DEFINE known == Asked(cid)
    <2>1. /\ known \in HostTable
          /\ \A d \in Cids : /\ known[d].told = host[d].told
                             /\ known[d].phase = IF d = cid THEN "waiting"
                                                 ELSE host[d].phase
          /\ RunPublishEngine(h, cid, queue, known)
          /\ cid # NoCid => host[cid].phase = "unused"
      BY <1>0, <1>1, AskedFacts DEF Publish
    <2> HIDE DEF known
    <2> QED
      BY <2>1, RunSilenced
  <1>2. ASSUME NEW h \in Handles, RunPublishEngine(h, NoCid, Dropped(queue, h), host)
        PROVE  Silenced' /\ \A c \in Cids : Final(c)
    <2> DEFINE q == Dropped(queue, h)
    <2>1. /\ \A d \in Cids : /\ host[d].told = host[d].told
                             /\ host[d].phase = IF d = NoCid THEN "waiting"
                                                ELSE host[d].phase
          /\ RunPublishEngine(h, NoCid, q, host)
      BY <1>2, CidAssumption
    <2> HIDE DEF q
    <2> QED
      BY <1>0, <2>1, RunSilenced
  <1>3. ASSUME NEW h \in Handles, NEW cid \in Cids \cup {NoCid}, PublishRefused(h, cid)
        PROVE  Silenced' /\ \A c \in Cids : Final(c)
    <2>1. /\ Asked(cid) \in HostTable
          /\ \A c \in Cids : /\ Asked(cid)[c].told = host[c].told
                             /\ Asked(cid)[c].phase = IF c = cid THEN "waiting"
                                                      ELSE host[c].phase
      BY <1>0, AskedFacts
    <2>2. /\ host' = Failed(Asked(cid), cid) /\ index' = index
          /\ in_flight' = in_flight /\ override' = override
      BY <1>3 DEF PublishRefused, EngineUntouched, engine_vars
    <2>3. \A c \in Cids : /\ host[c].phase # "unused" => host'[c].phase # "unused"
                          /\ c # cid => host'[c].told = host[c].told
      <3> SUFFICES ASSUME NEW c \in Cids
                   PROVE  /\ host[c].phase # "unused" => host'[c].phase # "unused"
                          /\ c # cid => host'[c].told = host[c].told
        OBVIOUS
      <3>1. /\ host'[c].told = host[c].told \cup (IF c = cid THEN {"failed"} ELSE {})
            /\ host'[c].phase = IF c = cid THEN "answered" ELSE host[c].phase
        BY <2>1, <2>2, FailedFacts
      <3> QED
        BY <3>1
    <2>4. cid \in Cids => (\A g \in Handles : ~Carries(g, cid)) /\ Final(cid)
      BY <1>3, CidAssumption DEF PublishRefused, OneVoice, Final
    <2> QED
      BY <2>2, <2>3, <2>4, ToldSilenced
  <1>4. CASE KernelCrash
    <2>1. \A h \in Handles : ~HasRow(in_flight'[h])
      BY <1>4, NoRowEmpty DEF KernelCrash, Crash
    <2>2. \A p : ~In(index', p)
      BY <1>4 DEF KernelCrash, In
    <2>3. \A c \in Cids : host'[c] = host[c] \/ host'[c].phase = "gone"
      BY <1>4 DEF KernelCrash
    <2> QED
      BY <2>1, <2>2, <2>3 DEF Silenced, Carries, Final
  <1>5. CASE UNCHANGED all_vars
    BY <1>5 DEF all_vars, vars, kernel_vars, Silenced, Carries, Filed, Final
  <1> QED
    BY <1>1, <1>2, <1>3, <1>4, <1>5, KernelCases, DrainedSilenced, CancelSilenced

\* Once the host was told a dispatch is cancelled, it hears nothing more about
\* it in that process: the row that would still answer is the one the index
\* files under the id, and the cancel removed it.  This needs store writes that
\* succeed (a failed publish leaves a row the index does not file) and an index
\* with room for the publishes (eviction unfiles a live row).
THEOREM CancelIsFinal ==
    ASSUME ~StoreMayFail, IsFiniteSet(Handles), Cardinality(Handles) <= IndexCap
    PROVE  KernelSpec => CancelledIsFinal
  <1> DEFINE Inv == /\ KernelTypeInv /\ Distinct(index) /\ OneVoice
                    /\ NoContradictoryVerdict /\ Silenced
  <1>0. Room
    BY DEF Room
  <1>1. KernelInit => Inv
    <2> SUFFICES ASSUME KernelInit
                 PROVE  Distinct(index) /\ OneVoice /\ NoContradictoryVerdict /\ Silenced
      BY KernelTypeInit
    <2>1. /\ \A c \in Cids : host[c] = [phase |-> "unused", told |-> {}]
          /\ \A h \in Handles : ~HasRow(in_flight[h])
          /\ index = <<>>
      BY NoRowEmpty DEF KernelInit, Init
    <2>2. Distinct(index) /\ \A p : ~In(index, p)
      BY <2>1 DEF Distinct, In
    <2> QED
      BY <2>1, <2>2 DEF OneVoice, NoContradictoryVerdict, Silenced, Carries
  <1>2. Inv /\ [KernelNext]_all_vars => Inv'
    BY <1>0, KernelTypeStep, DistinctStep, VoiceStep, SilencedStep
  <1>3. Inv /\ [KernelNext]_all_vars =>
           [\A c \in Cids :
               "cancelled" \in host[c].told
                  => host'[c].told = host[c].told \/ host'[c].phase = "gone"]_all_vars
    BY <1>0, SilencedStep DEF Final
  <1> QED
    BY <1>1, <1>2, <1>3, PTL DEF KernelSpec, CancelledIsFinal
=============================================================================
