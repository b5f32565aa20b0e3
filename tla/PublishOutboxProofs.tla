------------------------ MODULE PublishOutboxProofs ------------------------
(***************************************************************************)
(* The publish engine implements the durable outbox: every call of the      *)
(* engine is, record by record, a step of DurableOutbox or a stutter.       *)
(***************************************************************************)
EXTENDS PublishDurabilityProofs

-----------------------------------------------------------------------------
(* The refinement mapping, one record at a time.                            *)

Named(row) == {r \in Relays : row[r].stage # "Absent"}
Got(row)   == {r \in Relays : row[r].stage = "Ok"}
Sent(h)    == {r \in Relays : frames[h][r] # "none"}
Said(h)    == {v.status : v \in {w \in pending_terminals : w.handle = h}}

LEMMA MapAccept ==
    ASSUME NEW h \in Handles, Named(store[h]) = {} \/ ~running,
           Named(store'[h]) # {}, Got(store'[h]) = {}, Said(h)' = {}
    PROVE  Outbox!Accept(h)
  BY DEF Outbox!Accept, Outbox!Vacant, Named, Got, Said

LEMMA MapRefuse ==
    ASSUME NEW h \in Handles, Named(store[h]) = {} \/ ~running,
           \/ Named(store'[h]) = {} /\ Got(store'[h]) = {}
           \/ store'[h] = store[h],
           Said(h)' = {"failed"}
    PROVE  Outbox!Refuse(h)
  BY DEF Outbox!Refuse, Outbox!Vacant, Named, Got, Said

LEMMA MapCarry ==
    ASSUME NEW h \in Handles,
           Named(store[h]) \subseteq Named(store'[h]),
           Named(store[h]) = {} => Named(store'[h]) = {},
           Got(store[h]) \subseteq Got(store'[h]),
           Got(store'[h]) \subseteq
              Got(store[h]) \cup (Named(store[h]) \cap Sent(h)),
           Said(h)' = {}
    PROVE  Outbox!Carry(h)
  BY DEF Outbox!Carry, Named, Got, Said, Sent

LEMMA MapSettle ==
    ASSUME NEW h \in Handles,
           Named(store[h]) # {},
           Named(store'[h]) = {}, Got(store'[h]) = {},
           \/ Said(h)' = {"failed"} /\ Got(store[h]) = {}
           \/ /\ Said(h)' = {"ok"}
              /\ Got(store[h]) \cup (Named(store[h]) \cap Sent(h)) # {}
    PROVE  Outbox!Settle(h)
  BY DEF Outbox!Settle, Named, Got, Said, Sent

LEMMA MapWithdraw ==
    ASSUME NEW h \in Handles,
           Named(store'[h]) = {}, Got(store'[h]) = {},
           Said(h)' = {"cancelled"}
    PROVE  Outbox!Withdraw(h)
  BY DEF Outbox!Withdraw, Named, Got, Said

LEMMA MapSend ==
    ASSUME NEW h \in Handles,
           Sent(h) \subseteq Sent(h)',
           Sent(h)' \subseteq Sent(h) \cup Named(store'[h])
    PROVE  Outbox!Send(h)
  BY DEF Outbox!Send, Named, Sent

-----------------------------------------------------------------------------
(* What the calls that end in finalize_completed_rows do to one record.     *)

\* A record that is not touched.
LEMMA IdleCarries ==
    ASSUME NEW h \in Handles, store'[h] = store[h], Said(h)' = {}
    PROVE  Outbox!Carry(h)
  BY MapCarry

LEMMA SameFramesSend ==
    ASSUME NEW h \in Handles, \A r \in Relays : (frames'[h][r] = "none") <=>
                                               (frames[h][r] = "none")
    PROVE  Outbox!Send(h)
  BY MapSend DEF Sent

LEMMA NoRowNothing == Named(NoRow) = {} /\ Got(NoRow) = {}
  BY DEF Named, Got, NoRow, Absent, Entry

LEMMA QuietSaid ==
    ASSUME pending_terminals' = {}
    PROVE  \A h \in Handles : Said(h)' = {}
  BY DEF Said

LEMMA OneSaid ==
    ASSUME NEW v, pending_terminals' = {v}, NEW h \in Handles
    PROVE  Said(h)' = IF v.handle = h THEN {v.status} ELSE {}
  <1>1. {w \in pending_terminals' : w.handle = h} = IF v.handle = h THEN {v} ELSE {}
    OBVIOUS
  <1>2. Said(h)' = {w.status : w \in IF v.handle = h THEN {v} ELSE {}}
    BY <1>1 DEF Said
  <1> QED
    BY <1>2

\* One record leaves with its verdict, or is as the call wrote it.
LEMMA FinalizeOne ==
    ASSUME ~StoreMayFail,
           NEW rows, NEW picked \in SUBSET Handles, NEW cids, NEW disk,
           Finalize(rows, picked, cids, disk), NEW h \in Handles
    PROVE  IF h \in Completed(rows, picked)
           THEN /\ store'[h] = NoRow
                /\ Said(h)' = {IF HasAnyAccepted(rows[h]) THEN "ok" ELSE "failed"}
           ELSE store'[h] = disk[h] /\ Said(h)' = {}
  <1>1. store' = [g \in Handles |-> IF g \in Completed(rows, picked) \cap Handles
                                    THEN NoRow ELSE disk[g]]
    BY DEF Finalize, Commits
  <1>2. pending_terminals' = {FromOutcome(g, cids[g], rows[g]) :
                                 g \in Completed(rows, picked)}
    BY DEF Finalize
  <1>3. \A g : /\ FromOutcome(g, cids[g], rows[g]).handle = g
               /\ FromOutcome(g, cids[g], rows[g]).status =
                     IF HasAnyAccepted(rows[g]) THEN "ok" ELSE "failed"
    BY DEF FromOutcome, LastTerminal
  <1>4. Said(h)' = {v.status : v \in {w \in pending_terminals' : w.handle = h}}
    BY DEF Said
  <1>5. CASE h \in Completed(rows, picked)
    <2> DEFINE v == FromOutcome(h, cids[h], rows[h])
    <2>1. {w \in pending_terminals' : w.handle = h} = {v}
      BY <1>2, <1>3, <1>5
    <2>2. Said(h)' = {v.status}
      <3> HIDE DEF v
      <3> QED BY <1>4, <2>1
    <2> QED
      BY <1>1, <1>3, <1>5, <2>2
  <1>6. CASE h \notin Completed(rows, picked)
    <2>1. {w \in pending_terminals' : w.handle = h} = {}
      BY <1>2, <1>3, <1>6
    <2> QED
      BY <1>1, <1>4, <1>6, <2>1
  <1> QED
    BY <1>5, <1>6

\* A call that wrote no less into the record than it held, and whose row in
\* memory agrees with what it wrote.
LEMMA FinalizeCarriesOrSettles ==
    ASSUME ~StoreMayFail,
           NEW rows, NEW picked \in SUBSET Handles, NEW cids, NEW disk,
           Finalize(rows, picked, cids, disk), NEW h \in Handles,
           HasRow(rows[h]) => Agrees(disk[h], rows[h]),
           Named(store[h]) \subseteq Named(disk[h]),
           Named(store[h]) = {} => Named(disk[h]) = {},
           Got(disk[h]) = Got(store[h])
    PROVE  Outbox!Carry(h) \/ Outbox!Settle(h)
  <1>1. CASE h \in Completed(rows, picked)
    <2>1. /\ store'[h] = NoRow
          /\ Said(h)' = {IF HasAnyAccepted(rows[h]) THEN "ok" ELSE "failed"}
      BY <1>1, FinalizeOne
    <2>2. HasRow(rows[h]) /\ Agrees(disk[h], rows[h])
      BY <1>1 DEF Completed
    <2>3. Named(store[h]) # {}
      BY <2>2 DEF Agrees, HasRow, Named
    <2>4. HasAnyAccepted(rows[h]) <=> Got(store[h]) # {}
      <3>1. HasAnyAccepted(rows[h]) <=> Got(disk[h]) # {}
        BY <2>2 DEF Agrees, HasAnyAccepted, Got, IsTerminal, Terminal
      <3> QED
        BY <3>1
    <2> QED
      BY <2>1, <2>3, <2>4, NoRowNothing, MapSettle
  <1>2. CASE h \notin Completed(rows, picked)
    <2>1. store'[h] = disk[h] /\ Said(h)' = {}
      BY <1>2, FinalizeOne
    <2> QED
      BY <2>1, MapCarry
  <1> QED
    BY <1>1, <1>2

\* Nothing is sent that the record, as the call leaves it, does not name.
LEMMA FinalizeSends ==
    ASSUME ~StoreMayFail,
           NEW rows, NEW picked \in SUBSET Handles, NEW filter \in SUBSET Relays,
           NEW modes, NEW cids, NEW disk, NEW h \in Handles,
           Finalize(DispatchAll(rows, picked, filter, modes), picked, cids, disk),
           frames' = Emit(rows, picked, filter, modes),
           HasRow(DispatchAll(rows, picked, filter, modes)[h]) =>
              Agrees(disk[h], DispatchAll(rows, picked, filter, modes)[h])
    PROVE  Outbox!Send(h)
  <1> DEFINE sent == DispatchAll(rows, picked, filter, modes)
  <1>0. Finalize(sent, picked, cids, disk)
    OBVIOUS
  <1>1. \A r \in Relays : frames[h][r] # "none" => frames'[h][r] # "none"
    BY DEF Emit
  <1>2. ASSUME NEW r \in Relays, frames'[h][r] # "none", frames[h][r] = "none"
        PROVE  r \in Named(store'[h])
    <2>1. /\ h \in picked
          /\ r \in Due(rows[h], filter, modes)
          /\ Sanctioned(h, rows[h][r])
      BY <1>2 DEF Emit
    <2>2. sent[h][r].stage = "InFlight"
      BY <2>1 DEF DispatchAll, DispatchDue, Dispatched, Entry
    <2>3. HasRow(sent[h]) /\ h \notin Completed(sent, picked)
      <3> HIDE DEF sent
      <3> QED BY <2>2 DEF HasRow, Completed, IsComplete, Open, Terminal
    <2>4. store'[h] = disk[h]
      <3> HIDE DEF sent
      <3> QED BY <1>0, <2>3, FinalizeOne
    <2>5. Agrees(disk[h], sent[h])
      BY <2>3
    <2> HIDE DEF sent
    <2> QED
      BY <2>2, <2>4, <2>5 DEF Agrees, Named
  <1> QED
    BY <1>1, <1>2, MapSend DEF Sent

\* A row that agrees with its record names and owns the same relays.
LEMMA AgreesNamed ==
    ASSUME NEW record, NEW row, Agrees(record, row)
    PROVE  Named(record) = Named(row) /\ Got(record) = Got(row)
  BY DEF Agrees, Named, Got, IsTerminal, Terminal

\* Without a row in memory the record is vacant, or the actor is stopped.
LEMMA NoRowVacant ==
    ASSUME WriteThrough, NEW h \in Handles, ~HasRow(in_flight[h])
    PROVE  Named(store[h]) = {} \/ ~running
  BY NoRowNothing DEF WriteThrough

\* A demotion is invisible in every record.
LEMMA DemoteCarries ==
    ASSUME ~StoreMayFail, TypeInv, WriteThrough, NEW relay \in Relays,
           Demote(relay), pending_terminals' = {}, NEW h \in Handles
    PROVE  Outbox!Carry(h)
  <1>1. store'[h] = IF in_flight[h][relay].stage = "InFlight"
                    THEN Demoted(in_flight, relay)[h] ELSE store[h]
    BY DEF Demote, Commits
  <1>2. Said(h)' = {}
    BY QuietSaid
  <1>3. CASE in_flight[h][relay].stage = "InFlight"
    <2>1. HasRow(in_flight[h])
      BY <1>3 DEF HasRow
    <2>2. Agrees(store[h], Demoted(in_flight, relay)[h])
      BY <2>1, DemotedAgrees DEF WriteThrough
    <2>3. /\ Named(store'[h]) = Named(store[h])
          /\ Got(store'[h]) = Got(store[h])
      BY <1>1, <1>3, <2>2, AgreesNamed
    <2> QED
      BY <1>2, <2>3, MapCarry
  <1>4. CASE in_flight[h][relay].stage # "InFlight"
    BY <1>1, <1>2, <1>4, IdleCarries
  <1> QED
    BY <1>3, <1>4

\* What one call of the engine does to one record.
OutboxMove(h) ==
    /\ \/ Outbox!Accept(h) \/ Outbox!Refuse(h) \/ Outbox!Carry(h)
       \/ Outbox!Settle(h) \/ Outbox!Withdraw(h)
    /\ Outbox!Send(h)

LEMMA StartPublishMoves ==
    ASSUME ~StoreMayFail, DurabilityInv, NEW g \in Handles, NEW cid,
           NEW targets \in SUBSET Relays, NEW pins,
           StartPublish(g, targets, pins, cid), NEW h \in Handles
    PROVE  OutboxMove(h)
  <1> DEFINE row  == Planned(targets, pins)
             rows == [in_flight EXCEPT ![g] = row]
             sent == DispatchAll(rows, {g}, Relays, unavailable)
             disk == [store EXCEPT ![g] = row]
             cids == [override EXCEPT ![g] = cid]
  <1>0. in_flight \in GoodTable /\ store \in GoodTable
    BY DEF DurabilityInv, TypeInv
  <1>1. Finalize(sent, {g}, cids, disk)
    BY DEF StartPublish
  <1>2. frames' = Emit(rows, {g}, Relays, unavailable)
    BY DEF StartPublish
  <1>3. /\ rows[g] = row /\ disk[g] = row
        /\ h # g => rows[h] = in_flight[h] /\ disk[h] = store[h]
    BY <1>0 DEF GoodTable
  <1>4. /\ Named(row) = targets /\ Got(row) = {} /\ targets # {}
        /\ ~HasRow(in_flight[g])
    BY DEF StartPublish, Planned, Named, Got, Entry, Absent
  <1>5. HasRow(sent[h]) => Agrees(disk[h], sent[h])
    <2> HIDE DEF row, rows, disk, cids
    <2>1. CASE h = g
      BY <1>3, <2>1, AgreesRefl, DispatchAllAgrees
    <2>2. CASE h # g
      <3>1. sent[h] = in_flight[h]
        BY <1>3, <2>2, UnpickedUntouched
      <3> HIDE DEF sent
      <3> QED
        BY <1>3, <2>2, <3>1 DEF DurabilityInv, WriteThrough
    <2> QED
      BY <2>1, <2>2
  <1>6. Outbox!Send(h)
    <2> HIDE DEF row, rows, disk, cids
    <2> QED
      BY <1>1, <1>2, <1>5, FinalizeSends
  <1>7. CASE h = g
    <2> HIDE DEF row, rows, sent, disk, cids
    <2>1. Named(store[h]) = {} \/ ~running
      BY <1>4, <1>7, NoRowVacant DEF DurabilityInv
    <2>2. CASE h \in Completed(sent, {g})
      <3>1. Agrees(row, sent[h])
        BY <1>3, <1>5, <1>7, <2>2 DEF Completed
      <3>2. ~HasAnyAccepted(sent[h])
        BY <1>4, <3>1, AgreesNamed DEF HasAnyAccepted, Got
      <3>3. store'[h] = NoRow /\ Said(h)' = {"failed"}
        BY <1>1, <2>2, <3>2, FinalizeOne
      <3> QED
        BY <1>6, <2>1, <3>3, NoRowNothing, MapRefuse DEF OutboxMove
    <2>3. CASE h \notin Completed(sent, {g})
      <3>1. store'[h] = row /\ Said(h)' = {}
        BY <1>1, <1>3, <1>7, <2>3, FinalizeOne
      <3> QED
        BY <1>4, <1>6, <2>1, <3>1, MapAccept DEF OutboxMove
    <2> QED
      BY <2>2, <2>3
  <1>8. CASE h # g
    <2> HIDE DEF row, rows, sent, disk, cids
    <2> QED
      BY <1>1, <1>3, <1>5, <1>6, <1>8, FinalizeCarriesOrSettles DEF OutboxMove
  <1> QED
    BY <1>7, <1>8

LEMMA FoldAnswerMoves ==
    ASSUME ~StoreMayFail, DurabilityInv, NEW g \in Handles, NEW q \in Relays,
           NEW answer \in Answers, CanAnswer(g, q, answer),
           in_flight[g][q].stage # "Absent", FoldAnswer(g, q, answer),
           NEW h \in Handles
    PROVE  Outbox!Carry(h) \/ Outbox!Settle(h)
  <1> DEFINE row  == [in_flight[g] EXCEPT ![q] = ApplyAck(@, answer)]
             rows == [in_flight EXCEPT ![g] = row]
  <1>0. in_flight \in GoodTable /\ store \in GoodTable
    BY DEF DurabilityInv, TypeInv
  <1>1. /\ rows[g] = row
        /\ h # g => rows[h] = in_flight[h]
    BY <1>0 DEF GoodTable
  <1>2. /\ row[q] = ApplyAck(in_flight[g][q], answer)
        /\ \A r \in Relays \ {q} : row[r] = in_flight[g][r]
    BY <1>0 DEF GoodTable, GoodRows
  <1>3. HasRow(in_flight[g])
    BY DEF HasRow
  <1>4. Agrees(store[g], in_flight[g])
    BY <1>3 DEF DurabilityInv, WriteThrough
  <1>5. q \in Named(store[g])
    BY <1>4 DEF Agrees, Named
  <1>6. row[q].stage # "Absent"
    BY <1>2 DEF ApplyAck, Entry
  <1>7. Named(row) = Named(store[g])
    BY <1>2, <1>4, <1>5, <1>6 DEF Agrees, Named
  <1>8. row[q].stage = "Ok" => q \in Got(store[g]) \/ q \in Sent(g)
    BY <1>2, <1>4 DEF ApplyAck, Entry, CanAnswer, Sent, Answers, Agrees, Got
  <1>9. q \in Got(store[g]) => row[q].stage = "Ok"
    <2>1. q \in Got(store[g]) => in_flight[g][q].stage = "Ok"
      BY <1>4 DEF Agrees, Got, IsTerminal, Terminal
    <2> QED
      BY <1>2, <2>1 DEF ApplyAck
  <1>10. /\ Got(store[g]) \subseteq Got(row)
         /\ Got(row) \subseteq Got(store[g]) \cup (Named(store[g]) \cap Sent(g))
    BY <1>2, <1>4, <1>5, <1>8, <1>9 DEF Agrees, Got, IsTerminal, Terminal
  <1>11. CASE IsComplete(row)
    <2>1. Finalize(rows, {g}, override, store)
      BY <1>11 DEF FoldAnswer
    <2>2. HasRow(row)
      BY <1>6 DEF HasRow
    <2> HIDE DEF row, rows
    <2>3. CASE h = g
      <3>1. h \in Completed(rows, {g})
        BY <1>1, <1>11, <2>2, <2>3 DEF Completed
      <3>2. /\ store'[h] = NoRow
            /\ Said(h)' = {IF HasAnyAccepted(row) THEN "ok" ELSE "failed"}
        BY <1>1, <2>1, <2>3, <3>1, FinalizeOne
      <3>3. HasAnyAccepted(row) <=> Got(row) # {}
        BY DEF HasAnyAccepted, Got
      <3> QED
        BY <1>5, <1>10, <2>3, <3>2, <3>3, NoRowNothing, MapSettle
    <2>4. CASE h # g
      <3>1. h \notin Completed(rows, {g})
        BY <2>4 DEF Completed
      <3>2. store'[h] = store[h] /\ Said(h)' = {}
        BY <2>1, <3>1, FinalizeOne
      <3> QED
        BY <3>2, IdleCarries
    <2> QED
      BY <2>3, <2>4
  <1>12. CASE ~IsComplete(row)
    <2>1. store' = [store EXCEPT ![g] = row] /\ pending_terminals' = {}
      BY <1>12 DEF FoldAnswer, Outcomes, Upsert
    <2>2. /\ store'[g] = row
          /\ h # g => store'[h] = store[h]
      BY <1>0, <2>1 DEF GoodTable
    <2>3. Said(h)' = {}
      BY <2>1, QuietSaid
    <2> HIDE DEF row, rows
    <2> QED
      BY <1>7, <1>10, <2>2, <2>3, MapCarry, IdleCarries
  <1> QED
    BY <1>11, <1>12

LEMMA RetryMoves ==
    ASSUME ~StoreMayFail, DurabilityInv, NEW g \in Handles, RetryNow(g),
           NEW h \in Handles
    PROVE  OutboxMove(h)
  <1> DEFINE row  == Unhurried(in_flight[g])
             rows == [in_flight EXCEPT ![g] = row]
             sent == DispatchAll(rows, {g}, Relays, unavailable)
             disk == [store EXCEPT ![g] = row]
  <1>0. in_flight \in GoodTable /\ store \in GoodTable
    BY DEF DurabilityInv, TypeInv
  <1>1. /\ Finalize(sent, {g}, override, disk)
        /\ frames' = Emit(rows, {g}, Relays, unavailable)
    BY DEF RetryNow
  <1>2. /\ rows[g] = row /\ disk[g] = row
        /\ h # g => rows[h] = in_flight[h] /\ disk[h] = store[h]
    BY <1>0 DEF GoodTable
  <1>3. Named(row) = Named(in_flight[g]) /\ Got(row) = Got(in_flight[g])
    BY <1>0, UnhurriedStages DEF Named, Got, GoodTable
  <1>4. Named(in_flight[g]) = Named(store[g]) /\ Got(in_flight[g]) = Got(store[g])
    BY AgreesNamed DEF RetryNow, DurabilityInv, WriteThrough
  <1>5. HasRow(sent[h]) => Agrees(disk[h], sent[h])
    <2> HIDE DEF row, rows, disk
    <2>1. CASE h = g
      BY <1>2, <2>1, AgreesRefl, DispatchAllAgrees
    <2>2. CASE h # g
      <3>1. sent[h] = in_flight[h]
        BY <1>2, <2>2, UnpickedUntouched
      <3> HIDE DEF sent
      <3> QED
        BY <1>2, <2>2, <3>1 DEF DurabilityInv, WriteThrough
    <2> QED
      BY <2>1, <2>2
  <1>6. /\ Named(disk[h]) = Named(store[h])
        /\ Got(disk[h]) = Got(store[h])
    <2> HIDE DEF row, rows, disk
    <2> QED
      BY <1>2, <1>3, <1>4
  <1> HIDE DEF row, rows, disk
  <1>7. Outbox!Send(h)
    BY <1>1, <1>5, FinalizeSends
  <1> HIDE DEF sent
  <1> QED
    BY <1>1, <1>5, <1>6, <1>7, FinalizeCarriesOrSettles DEF OutboxMove

LEMMA AvailableMoves ==
    ASSUME ~StoreMayFail, DurabilityInv, NEW relay \in Relays,
           MarkRelayAvailable(relay), NEW h \in Handles
    PROVE  OutboxMove(h)
  <1>1. PICK found \in [Handles -> SUBSET Relays],
             pins \in [Handles -> SUBSET Relays] :
          /\ \A g \in Handles : IsComplete(in_flight[g]) => found[g] = {}
          /\ LET rows == [g \in Handles |->
                             Retargeted(in_flight[g], found[g], pins[g])]
             IN  /\ Finalize(DispatchAll(rows, Handles, {relay}, unavailable'),
                             Handles, override, PersistRetargeted(rows, Handles))
                 /\ frames' = Emit(rows, Handles, {relay}, unavailable')
    BY DEF MarkRelayAvailable, Commits
  <1> DEFINE rows == [g \in Handles |->
                         Retargeted(in_flight[g], found[g], pins[g])]
             sent == DispatchAll(rows, Handles, {relay}, unavailable')
             disk == PersistRetargeted(rows, Handles)
  <1>2. /\ Finalize(sent, Handles, override, disk)
        /\ frames' = Emit(rows, Handles, {relay}, unavailable')
    BY <1>1
  <1>3. disk[h] = IF rows[h] # in_flight[h] THEN rows[h] ELSE store[h]
    BY DEF PersistRetargeted
  <1>4. in_flight[h] \in GoodRows
    BY DEF DurabilityInv, TypeInv, GoodTable
  <1>5. HasRow(in_flight[h]) => Agrees(store[h], in_flight[h])
    BY DEF DurabilityInv, WriteThrough
  <1>6. CASE rows[h] # in_flight[h]
    <2>1. ~IsComplete(in_flight[h])
      BY <1>1, <1>4, <1>6 DEF Retargeted, GoodRows
    <2>2. Agrees(store[h], in_flight[h])
      BY <1>5, <2>1, IncompleteIsRow
    <2>3. /\ Named(in_flight[h]) \subseteq Named(rows[h])
          /\ Got(rows[h]) = Got(in_flight[h])
      BY DEF Named, Got, Retargeted, Entry
    <2>4. Named(in_flight[h]) # {}
      BY <2>1, IncompleteIsRow DEF HasRow, Named
    <2>5. Agrees(disk[h], sent[h])
      <3> HIDE DEF rows
      <3> QED BY <1>3, <1>6, AgreesRefl, DispatchAllAgrees
    <2>6. /\ Named(store[h]) \subseteq Named(disk[h])
          /\ Named(store[h]) # {}
          /\ Got(disk[h]) = Got(store[h])
      <3> HIDE DEF rows, disk
      <3> QED BY <1>3, <1>6, <2>2, <2>3, <2>4, AgreesNamed
    <2> HIDE DEF rows, disk
    <2>7. Outbox!Send(h)
      BY <1>2, <2>5, FinalizeSends
    <2> HIDE DEF sent
    <2> QED
      BY <1>2, <2>5, <2>6, <2>7, FinalizeCarriesOrSettles DEF OutboxMove
  <1>7. CASE rows[h] = in_flight[h]
    <2> HIDE DEF rows
    <2>1. HasRow(in_flight[h]) => Agrees(store[h], sent[h])
      BY <1>5, <1>7, DispatchAllAgrees
    <2>2. HasRow(sent[h]) => HasRow(in_flight[h])
      BY <1>7, AgreesRefl, DispatchAllAgrees, AgreesHasRow
    <2> HIDE DEF disk
    <2>3. disk[h] = store[h]
      BY <1>3, <1>7
    <2>4. Outbox!Send(h)
      BY <1>2, <2>1, <2>2, <2>3, FinalizeSends
    <2> HIDE DEF sent
    <2> QED
      BY <1>2, <2>1, <2>2, <2>3, <2>4, FinalizeCarriesOrSettles DEF OutboxMove
  <1> QED
    BY <1>6, <1>7

LEMMA TickMoves ==
    ASSUME ~StoreMayFail, DurabilityInv, Tick, NEW h \in Handles
    PROVE  OutboxMove(h)
  <1>1. /\ Finalize(Ticked, Handles, override, store)
        /\ frames' = Emit(Swept, Handles, Relays, unavailable)
    BY DEF Tick
  <1>2. HasRow(Ticked[h]) => HasRow(in_flight[h])
    BY AgreesRefl, TickedAgrees, AgreesHasRow
  <1>3. HasRow(Ticked[h]) => Agrees(store[h], Ticked[h])
    BY <1>2, TickedAgrees DEF DurabilityInv, WriteThrough
  <1>4. Outbox!Send(h)
    BY <1>1, <1>3, FinalizeSends DEF Ticked
  <1> QED
    BY <1>1, <1>3, <1>4, FinalizeCarriesOrSettles DEF OutboxMove

LEMMA StartMoves ==
    ASSUME ~StoreMayFail, DurabilityInv, Start, NEW h \in Handles
    PROVE  OutboxMove(h)
  <1> DEFINE pend == LoadPending
             rows == [g \in Handles |-> IF g \in pend THEN store[g]
                                                     ELSE in_flight[g]]
             cids == [g \in Handles |-> IF g \in pend THEN NoCid
                                                     ELSE override[g]]
             sent == DispatchAll(rows, pend, Relays, unavailable)
  <1>1. /\ Finalize(sent, pend, cids, store)
        /\ frames' = Emit(rows, pend, Relays, unavailable)
    BY DEF Start, ResumeFromStore
  <1>2. pend \in SUBSET Handles
    BY DEF LoadPending
  <1>3. HasRow(sent[h]) => Agrees(store[h], sent[h])
    <2>1. CASE h \in pend
      <3>1. rows[h] = store[h]
        BY <2>1
      <3> HIDE DEF rows, pend
      <3> QED
        BY <3>1, AgreesRefl, DispatchAllAgrees
    <2>2. CASE h \notin pend
      <3>1. rows[h] = in_flight[h]
        BY <2>2
      <3>2. sent[h] = in_flight[h]
        <4> HIDE DEF rows, pend
        <4> QED BY <2>2, <3>1, UnpickedUntouched
      <3> HIDE DEF sent
      <3> QED
        BY <3>2 DEF DurabilityInv, WriteThrough
    <2> QED
      BY <2>1, <2>2
  <1> HIDE DEF pend, rows, cids
  <1>4. Outbox!Send(h)
    BY <1>1, <1>2, <1>3, FinalizeSends
  <1> HIDE DEF sent
  <1> QED
    BY <1>1, <1>2, <1>3, <1>4, FinalizeCarriesOrSettles DEF OutboxMove

\* A lost socket leaves the event sent where it was sent.
LEMMA HangupSends ==
    ASSUME NEW gone, frames' = Hangup(gone), NEW h \in Handles
    PROVE  Outbox!Send(h)
  BY SameFramesSend DEF Hangup

-----------------------------------------------------------------------------
(* The step: one case per call of the engine.                               *)

LEMMA EngineMoves ==
    ASSUME ~StoreMayFail, DurabilityInv, Next, NEW h \in Handles
    PROVE  OutboxMove(h)
  <1>0. in_flight \in GoodTable /\ store \in GoodTable /\ TypeInv /\ WriteThrough
    BY DEF DurabilityInv, TypeInv
  <1>1. ASSUME NEW g \in Handles, NEW cid, NEW targets \in SUBSET Relays,
               NEW pins, StartPublish(g, targets, pins, cid)
        PROVE  OutboxMove(h)
    BY <1>1, StartPublishMoves
  <1>2. ASSUME NEW g \in Handles, NEW cid, NEW targets, NEW pins,
               StartPublishStoreError(g, targets, pins, cid)
        PROVE  OutboxMove(h)
    BY <1>2 DEF StartPublishStoreError
  <1>3. ASSUME NEW g \in Handles, NEW cid, StartPublishNoTargets(g, cid)
        PROVE  OutboxMove(h)
    <2>1. /\ pending_terminals' = {LastTerminal(g, cid, "failed", "none", FALSE)}
          /\ UNCHANGED <<store, frames>> /\ ~HasRow(in_flight[g])
      BY <1>3 DEF StartPublishNoTargets
    <2>2. Said(h)' = IF h = g THEN {"failed"} ELSE {}
      <3> DEFINE v == LastTerminal(g, cid, "failed", "none", FALSE)
      <3>1. v.handle = g /\ v.status = "failed"
        BY DEF LastTerminal
      <3>2. pending_terminals' = {v}
        BY <2>1
      <3> HIDE DEF v
      <3> QED
        BY <3>1, <3>2, OneSaid
    <2>3. Outbox!Send(h)
      BY <2>1, SameFramesSend
    <2> QED
      BY <1>0, <2>1, <2>2, <2>3, NoRowVacant, MapRefuse, IdleCarries DEF OutboxMove
  <1>4. ASSUME NEW g \in Handles, NEW r \in Relays, NEW answer \in Answers,
               OnAck(g, r, answer)
        PROVE  OutboxMove(h)
    <2>1. Outbox!Send(h)
      BY <1>4, SameFramesSend DEF OnAck
    <2>2. CASE ParkAwaitingAuth(g, r)
      BY <1>0, <2>1, <2>2, DemoteCarries DEF ParkAwaitingAuth, OutboxMove
    <2>3. CASE FoldAnswer(g, r, answer)
      BY <1>4, <2>1, <2>3, FoldAnswerMoves DEF OnAck, OutboxMove
    <2> QED
      BY <1>4, <2>2, <2>3 DEF OnAck
  <1>5. ASSUME NEW g \in Handles, RetryNow(g)
        PROVE  OutboxMove(h)
    BY <1>5, RetryMoves
  <1>6. ASSUME NEW g \in Handles, CancelByHandle(g, override[g])
        PROVE  OutboxMove(h)
    <2>1. /\ h = g => store'[h] = NoRow
          /\ h # g => store'[h] = store[h]
          /\ pending_terminals' = {LastTerminal(g, override[g], "cancelled",
                                                "cancelled", FALSE)}
      BY <1>0, <1>6 DEF CancelByHandle, Outcomes, Delete, GoodTable
    <2>2. Said(h)' = IF h = g THEN {"cancelled"} ELSE {}
      <3> DEFINE v == LastTerminal(g, override[g], "cancelled", "cancelled", FALSE)
      <3>1. v.handle = g /\ v.status = "cancelled"
        BY DEF LastTerminal
      <3>2. pending_terminals' = {v}
        BY <2>1
      <3> HIDE DEF v
      <3> QED
        BY <3>1, <3>2, OneSaid
    <2>3. Outbox!Send(h)
      BY <1>6, SameFramesSend DEF CancelByHandle
    <2> QED
      BY <2>1, <2>2, <2>3, NoRowNothing, MapWithdraw, IdleCarries DEF OutboxMove
  <1>7. ASSUME NEW r \in Relays, MarkRelayAvailable(r)
        PROVE  OutboxMove(h)
    BY <1>7, AvailableMoves
  <1>8. ASSUME NEW r \in Relays, MarkRelayUnavailable(r)
        PROVE  OutboxMove(h)
    BY <1>0, <1>8, DemoteCarries, HangupSends DEF MarkRelayUnavailable, OutboxMove
  <1>9. CASE Tick
    BY <1>9, TickMoves
  <1>10. CASE Start
    BY <1>10, StartMoves
  <1>11. CASE Stop
    BY <1>11, QuietSaid, IdleCarries, HangupSends DEF Stop, OutboxMove
  <1>12. CASE Crash
    BY <1>12, QuietSaid, IdleCarries, HangupSends DEF Crash, OutboxMove
  <1>13. CASE TimePass
    <2>1. \A r \in Relays : store'[h][r].stage = store[h][r].stage
      BY <1>0, <1>13, AgedStages DEF TimePass
    <2>2. Named(store'[h]) = Named(store[h]) /\ Got(store'[h]) = Got(store[h])
      BY <2>1 DEF Named, Got
    <2>3. Outbox!Send(h)
      BY <1>13, SameFramesSend DEF TimePass
    <2> QED
      BY <1>13, <2>2, <2>3, QuietSaid, MapCarry DEF TimePass, OutboxMove
  <1> QED
    BY <1>1, <1>2, <1>3, <1>4, <1>5, <1>6, <1>7, <1>8, <1>9, <1>10, <1>11,
       <1>12, <1>13 DEF Next

\* With store writes succeeding, the engine implements the durable outbox: for
\* any number of publishes, relays, attempts, crashes and restarts, a record
\* leaves only with a verdict that is true of it, never forgets a relay or an
\* acceptance, and no relay is sent an event whose record does not name it.
THEOREM EngineImplementsOutbox ==
    ASSUME ~StoreMayFail
    PROVE  Spec => ImplementsOutbox
  <1>1. Init => Outbox!Init
    BY DEF Init, Outbox!Init, NoRow, Absent, Entry
  <1>2. DurabilityInv /\ [Next]_vars => [Outbox!Next]_(Outbox!outbox_vars)
    <2> SUFFICES ASSUME DurabilityInv, [Next]_vars
                 PROVE  [Outbox!Next]_(Outbox!outbox_vars)
      OBVIOUS
    <2>1. CASE Next
      <3>1. \A h \in Handles : OutboxMove(h)
        BY <2>1, EngineMoves
      <3> QED
        BY <3>1 DEF OutboxMove, Outbox!Next
    <2>2. CASE UNCHANGED vars
      BY <2>2 DEF vars, Outbox!outbox_vars
    <2> QED
      BY <2>1, <2>2
  <1> QED
    BY <1>1, <1>2, DurabilityInvariant, PTL DEF Spec, ImplementsOutbox, Outbox!Spec

-----------------------------------------------------------------------------
(* An acceptance survives every call, in the row itself.                     *)

\* A row that agrees with what was there before has its acceptances.
LEMMA FinalizeKeepsOk ==
    ASSUME NEW rows, NEW picked, NEW cids, NEW disk,
           Finalize(rows, picked, cids, disk), NEW h \in Handles,
           Agrees(in_flight[h], rows[h]), HasRow(in_flight'[h]),
           NEW r \in Relays, in_flight[h][r].stage = "Ok"
    PROVE  in_flight'[h][r].stage = "Ok"
  <1>1. in_flight'[h] = NoRow \/ in_flight'[h] = rows[h]
    BY DEF Finalize
  <1>2. in_flight'[h] = rows[h]
    BY <1>1, NoRowEmpty
  <1> QED
    BY <1>2 DEF Agrees, IsTerminal, Terminal

LEMMA DispatchKeepsOk ==
    ASSUME NEW rows, NEW picked, NEW filter, NEW modes, NEW h \in Handles,
           NEW r \in Relays, rows[h][r].stage = "Ok"
    PROVE  DispatchAll(rows, picked, filter, modes)[h][r].stage = "Ok"
  BY DEF DispatchAll, DispatchDue, Due, Ready

LEMMA AcceptedStep ==
    ASSUME ~StoreMayFail, DurabilityInv, [Next]_vars, NEW h \in Handles,
           NEW r \in Relays, in_flight[h][r].stage = "Ok", HasRow(in_flight'[h])
    PROVE  in_flight'[h][r].stage = "Ok"
  <1>0. in_flight \in GoodTable /\ store \in GoodTable
    BY DEF DurabilityInv, TypeInv
  <1>a. HasRow(in_flight[h]) /\ Agrees(store[h], in_flight[h])
    BY DEF HasRow, DurabilityInv, WriteThrough
  <1>1. ASSUME NEW g \in Handles, NEW cid, NEW targets, NEW pins,
               StartPublish(g, targets, pins, cid)
        PROVE  in_flight'[h][r].stage = "Ok"
    <2> DEFINE row  == Planned(targets, pins)
               rows == [in_flight EXCEPT ![g] = row]
               sent == DispatchAll(rows, {g}, Relays, unavailable)
               disk == [store EXCEPT ![g] = row]
               cids == [override EXCEPT ![g] = cid]
    <2>1. Finalize(sent, {g}, cids, disk) /\ h # g
      BY <1>1, <1>a DEF StartPublish
    <2>2. rows[h] = in_flight[h]
      BY <1>0, <2>1 DEF GoodTable
    <2> HIDE DEF row, rows, disk, cids
    <2>3. Agrees(in_flight[h], sent[h])
      BY <2>2, AgreesRefl, DispatchAllAgrees
    <2> HIDE DEF sent
    <2> QED
      BY <2>1, <2>3, FinalizeKeepsOk
  <1>2. ASSUME NEW g \in Handles, NEW cid, NEW targets, NEW pins,
               StartPublishStoreError(g, targets, pins, cid)
        PROVE  in_flight'[h][r].stage = "Ok"
    BY <1>2 DEF StartPublishStoreError
  <1>3. ASSUME NEW g \in Handles, NEW cid, StartPublishNoTargets(g, cid)
        PROVE  in_flight'[h][r].stage = "Ok"
    BY <1>3 DEF StartPublishNoTargets
  <1>4. ASSUME NEW g \in Handles, NEW q \in Relays, NEW answer \in Answers,
               OnAck(g, q, answer)
        PROVE  in_flight'[h][r].stage = "Ok"
    <2>1. CASE ParkAwaitingAuth(g, q)
      BY <2>1 DEF ParkAwaitingAuth, Demote, Demoted
    <2>2. CASE FoldAnswer(g, q, answer)
      <3> DEFINE row  == [in_flight[g] EXCEPT ![q] = ApplyAck(@, answer)]
                 rows == [in_flight EXCEPT ![g] = row]
      <3>1. \/ Finalize(rows, {g}, override, store)
            \/ in_flight' = rows
        BY <2>2 DEF FoldAnswer
      <3>2. rows[h][r].stage = "Ok"
        BY <1>0 DEF GoodTable, GoodRows, ApplyAck
      <3>3. CASE Finalize(rows, {g}, override, store)
        <4>1. in_flight'[h] = NoRow \/ in_flight'[h] = rows[h]
          <5> HIDE DEF rows
          <5> QED BY <3>3 DEF Finalize
        <4> HIDE DEF rows
        <4> QED
          BY <3>2, <4>1, NoRowEmpty
      <3> QED
        BY <3>1, <3>2, <3>3
    <2> QED
      BY <1>4, <2>1, <2>2 DEF OnAck
  <1>5. ASSUME NEW g \in Handles, RetryNow(g)
        PROVE  in_flight'[h][r].stage = "Ok"
    <2> DEFINE row  == Unhurried(in_flight[g])
               rows == [in_flight EXCEPT ![g] = row]
               sent == DispatchAll(rows, {g}, Relays, unavailable)
               disk == [store EXCEPT ![g] = row]
    <2>1. Finalize(sent, {g}, override, disk)
      BY <1>5 DEF RetryNow
    <2>2. \A x \in Relays : rows[h][x].stage = in_flight[h][x].stage
      BY <1>0, UnhurriedStages DEF GoodTable
    <2> HIDE DEF row, rows, disk
    <2>3. Agrees(in_flight[h], rows[h])
      BY <2>2 DEF Agrees
    <2>4. Agrees(in_flight[h], sent[h])
      BY <2>3, DispatchAllAgrees
    <2> HIDE DEF sent
    <2> QED
      BY <2>1, <2>4, FinalizeKeepsOk
  <1>6. ASSUME NEW g \in Handles, CancelByHandle(g, override[g])
        PROVE  in_flight'[h][r].stage = "Ok"
    BY <1>0, <1>6, NoRowEmpty DEF CancelByHandle, GoodTable
  <1>7. ASSUME NEW relay \in Relays, MarkRelayAvailable(relay)
        PROVE  in_flight'[h][r].stage = "Ok"
    <2>1. PICK found, pins, ok :
             LET rows == [g \in Handles |->
                             Retargeted(in_flight[g], found[g], pins[g])]
             IN  Finalize(DispatchAll(rows, Handles, {relay}, unavailable'),
                          Handles, override, PersistRetargeted(rows, ok))
      BY <1>7 DEF MarkRelayAvailable
    <2> DEFINE rows == [g \in Handles |->
                           Retargeted(in_flight[g], found[g], pins[g])]
               sent == DispatchAll(rows, Handles, {relay}, unavailable')
               disk == PersistRetargeted(rows, ok)
    <2>2. Finalize(sent, Handles, override, disk)
      BY <2>1
    <2>3. rows[h][r].stage = "Ok"
      BY DEF Retargeted
    <2> HIDE DEF rows, disk
    <2>4. sent[h][r].stage = "Ok"
      BY <2>3, DispatchKeepsOk
    <2>5. in_flight'[h] = NoRow \/ in_flight'[h] = sent[h]
      <3> HIDE DEF sent
      <3> QED BY <2>2 DEF Finalize
    <2> HIDE DEF sent
    <2> QED
      BY <2>4, <2>5, NoRowEmpty
  <1>8. ASSUME NEW relay \in Relays, MarkRelayUnavailable(relay)
        PROVE  in_flight'[h][r].stage = "Ok"
    BY <1>8 DEF MarkRelayUnavailable, Demote, Demoted
  <1>9. CASE Tick
    <2>1. Finalize(Ticked, Handles, override, store)
      BY <1>9 DEF Tick
    <2> QED
      BY <2>1, AgreesRefl, TickedAgrees, FinalizeKeepsOk
  <1>10. CASE Start
    <2> DEFINE pend == LoadPending
               rows == [g \in Handles |-> IF g \in pend THEN store[g]
                                                       ELSE in_flight[g]]
               cids == [g \in Handles |-> IF g \in pend THEN NoCid
                                                       ELSE override[g]]
               sent == DispatchAll(rows, pend, Relays, unavailable)
    <2>1. Finalize(sent, pend, cids, store)
      BY <1>10 DEF Start, ResumeFromStore
    <2>2. rows[h][r].stage = "Ok"
      BY <1>a DEF Agrees
    <2> HIDE DEF pend, rows, cids
    <2>3. sent[h][r].stage = "Ok"
      BY <2>2, DispatchKeepsOk
    <2>4. in_flight'[h] = NoRow \/ in_flight'[h] = sent[h]
      <3> HIDE DEF sent
      <3> QED BY <2>1 DEF Finalize
    <2> HIDE DEF sent
    <2> QED
      BY <2>3, <2>4, NoRowEmpty
  <1>11. CASE Stop
    BY <1>11 DEF Stop
  <1>12. CASE Crash
    BY <1>12, NoRowEmpty DEF Crash
  <1>13. CASE TimePass
    BY <1>0, <1>13, AgedStages DEF TimePass
  <1>14. CASE UNCHANGED vars
    BY <1>14 DEF vars
  <1> QED
    BY <1>1, <1>2, <1>3, <1>4, <1>5, <1>6, <1>7, <1>8, <1>9, <1>10, <1>11,
       <1>12, <1>13, <1>14 DEF Next

\* With store writes succeeding, a relay that accepted the event is not sent it
\* again by the same publish: no retry, retarget, timeout, demotion, nor the
\* Start after a Stop, takes an acceptance back.
THEOREM AcceptedForGood ==
    ASSUME ~StoreMayFail
    PROVE  Spec => AcceptedNeverResent
  <1>1. DurabilityInv /\ [Next]_vars =>
           [\A h \in Handles, r \in Relays :
               in_flight[h][r].stage = "Ok" /\ HasRow(in_flight'[h])
                  => in_flight'[h][r].stage = "Ok"]_vars
    BY AcceptedStep
  <1> QED
    BY <1>1, DurabilityInvariant, PTL DEF Spec, AcceptedNeverResent

=============================================================================
