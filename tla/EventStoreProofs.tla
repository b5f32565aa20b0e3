-------------------------- MODULE EventStoreProofs --------------------------
(***************************************************************************)
(* Theorems about the event store, for any set of events, relays, pins,     *)
(* filters and budgets, and any order of calls.                             *)
(***************************************************************************)
EXTENDS EventStore, SequenceTheorems, WellFoundedInduction, TLAPS

-----------------------------------------------------------------------------
(* The inductive invariant.                                                 *)

\* What is stored was delivered, and is not counted among what was retired.
Accounted == events \subseteq delivered /\ events \cap retired = {}

\* Every row is there for a reason: the event has expired, or a kind:5 of the
\* row's deleter names it.
TombsJustified ==
    \A i \in DOMAIN tombstones :
        /\ tombstones[i].origin = "NIP40Expiry" => ExpiredAt(i, now)
        /\ tombstones[i].origin = "Kind5" =>
              \E k \in delivered :
                 /\ Event[k].kind = "delete"
                 /\ Event[k].author = tombstones[i].deleter
                 /\ i \in Event[k].e \/ OwnDeletion(k, i)

AddrsJustified ==
    \A ad \in DOMAIN addr_tombstones :
        \E k \in delivered :
           /\ Event[k].kind = "delete"
           /\ Event[k].author = ad[2]
           /\ ad \in Event[k].a
           /\ Event[k].at = addr_tombstones[ad].deleted_at

\* The store never holds two versions of one coordinate.
OneVersion == \A i, j \in events : ~Newer(j, i)

\* The author's young deletion is on record, at its own time or a later one.
DeletionKept ==
    \A k \in delivered, i \in Ids :
        Withdrawn(i, k) /\ (\A f \in delivered : ~ForeignDeletion(f, i)) =>
           /\ i \in Event[k].e =>
                 /\ i \in DOMAIN tombstones
                 /\ tombstones[i].deleted_at >= Event[k].at
           /\ Event[i].kind = "addressable" /\ NamesAddress(k, i) =>
                 /\ AddressOf(Event[i]) \in DOMAIN addr_tombstones
                 /\ addr_tombstones[AddressOf(Event[i])].deleted_at
                       >= Event[k].at

StoreInv ==
    /\ StoreTypeOK /\ TombstoneExcludes /\ IndexesAgree
    /\ Accounted /\ LogTellsAll
    /\ TombsJustified /\ AddrsJustified /\ NoUnjustifiedLoss /\ OneVersion
    /\ CoverageHonest
    /\ DeletionKept /\ DeletionSticks

-----------------------------------------------------------------------------
(* What the operators return.                                               *)

\* A set of naturals that is not empty has a least element, and Min is it.
LEMMA MinNat ==
    ASSUME NEW T \in SUBSET Nat, T # {}
    PROVE  Min(T) \in T /\ \A y \in T : Min(T) <= y
  <1> DEFINE R == {ss \in Nat \X Nat : ss[1] < ss[2]}
  <1>1. IsWellFoundedOn(R, Nat)
    BY NatLessThanWellFounded DEF OpToRel
  <1>2. \E x \in T : \A y \in T : ~(<<y, x>> \in R)
    <2> HIDE DEF R
    <2> QED BY <1>1, WFMin
  <1>3. \E x \in T : \A y \in T : x =< y
    <2>1. PICK x \in T : \A y \in T : ~(<<y, x>> \in R)
      BY <1>2
    <2>2. ASSUME NEW y \in T PROVE x =< y
      <3>1. x \in Nat /\ y \in Nat
        OBVIOUS
      <3>2. y < x => <<y, x>> \in R
        BY <3>1
      <3> QED
        BY <2>1, <3>1, <3>2
    <2> QED
      BY <2>2
  <1> QED
    BY <1>3 DEF Min

\* The fields of an event, from the assumption on Event.
LEMMA EventFacts ==
    ASSUME NEW i \in Ids
    PROVE  /\ Event[i].author \in Authors /\ Event[i].kind \in Classes
           /\ Event[i].d \in Dtags \cup {NoD} /\ Event[i].at \in Nat
           /\ Event[i].e \subseteq Ids /\ Event[i].a \subseteq Addresses
           /\ Event[i].exp \in Nat \cup {Never}
           /\ i \notin Event[i].e /\ i \in Nat
  BY EventAssumption, IdsAssumption DEF EventRecords

\* Without removes keys and changes no row.
LEMMA WithoutFacts ==
    ASSUME NEW f, NEW keys
    PROVE  /\ DOMAIN Without(f, keys) = DOMAIN f \ keys
           /\ \A k \in DOMAIN f \ keys : Without(f, keys)[k] = f[k]
  BY DEF Without

\* merge_tombstone keeps deleter and origin of a row and never makes it
\* younger.
LEMMA MergeFacts ==
    ASSUME NEW map, NEW keys, NEW row \in Tombs,
           \A k \in DOMAIN map : map[k] \in Tombs
    PROVE  LET m == MergeTombstone(map, keys, row)
           IN  /\ DOMAIN m = DOMAIN map \cup keys
               /\ \A k \in DOMAIN m :
                     /\ m[k] \in Tombs
                     /\ k \notin DOMAIN map => m[k] = row
                     /\ k \in DOMAIN map =>
                           /\ m[k].deleter = map[k].deleter
                           /\ m[k].origin = map[k].origin
                           /\ m[k].deleted_at >= map[k].deleted_at
                           /\ m[k].deleted_at = map[k].deleted_at
                                 \/ (k \in keys
                                      /\ m[k].deleted_at = row.deleted_at)
                     /\ k \in keys => m[k].deleted_at >= row.deleted_at
  <1> DEFINE m == MergeTombstone(map, keys, row)
  <1>1. DOMAIN m = DOMAIN map \cup keys
    BY DEF MergeTombstone
  <1>2. ASSUME NEW k \in DOMAIN m, k \notin DOMAIN map
        PROVE  m[k] = row /\ row.deleted_at \in Nat
    BY <1>2, <1>1 DEF MergeTombstone, Tombs
  <1>3. ASSUME NEW k \in DOMAIN m, k \in DOMAIN map
        PROVE  /\ m[k] \in Tombs
               /\ m[k].deleter = map[k].deleter
               /\ m[k].origin = map[k].origin
               /\ m[k].deleted_at >= map[k].deleted_at
               /\ m[k].deleted_at = map[k].deleted_at
                     \/ (k \in keys /\ m[k].deleted_at = row.deleted_at)
               /\ k \in keys => m[k].deleted_at >= row.deleted_at
    <2>1. map[k] \in Tombs /\ row.deleted_at \in Nat
      BY <1>3 DEF Tombs
    <2>2. m[k] = IF k \in keys /\ row.deleted_at > map[k].deleted_at
                 THEN [map[k] EXCEPT !.deleted_at = row.deleted_at]
                 ELSE map[k]
      BY <1>3, <1>1 DEF MergeTombstone
    <2> QED
      BY <2>1, <2>2 DEF Tombs
  <1> QED
    BY <1>1, <1>2, <1>3

\* What each call tells the consumer of the log.
LEMMA AppendedFacts ==
    /\ Appended({}) => mirror' = mirror
    /\ \A id : Appended({Inserted(id)}) => mirror' = mirror \cup {id}
    /\ \A id, old : Appended({Replaced(id, old)})
                       => mirror' = (mirror \ {old}) \cup {id}
    /\ \A gone : Appended({Deleted(gone)}) => mirror' = mirror \ gone
    /\ \A id, gone : Appended({Deleted(gone), Inserted(id)})
                        => mirror' = (mirror \ gone) \cup {id}
  BY DEF Appended, Inserted, Replaced, Deleted

-----------------------------------------------------------------------------
(* The three things an insert may do.                                       *)

\* Nothing is stored; at most a stranger's row for the id is dropped.
Refuses(id) ==
    /\ delivered' = delivered \cup {id}
    /\ mirror' = mirror
    /\ UNCHANGED <<events, addr_tombstones, provenance, relay_index,
                   access_index, coverage, now, retired, purged,
                   forgotten>>
    /\ \/ tombstones' = tombstones
       \/ ~Applies(id) /\ tombstones' = Without(tombstones, {id})
    /\ \/ Event[id].kind = "ephemeral"
       \/ ExpiredAt(id, now)
       \/ Applies(id)
       \/ AddressTombstoned(Event[id])
       \/ /\ Event[id].kind \in {"replaceable", "addressable"}
          /\ \E head \in Heads(Event[id]) : id # head /\ ~Beats(id, head)

\* The id is stored already, and this relay has it too.
Repeats(id, relay) ==
    /\ id \in events
    /\ ~Applies(id)
    /\ delivered' = delivered \cup {id}
    /\ mirror' = mirror
    /\ Indexed(id, relay, {})
    /\ tombstones' = Without(tombstones, {id})
    /\ UNCHANGED <<events, addr_tombstones, coverage, now, retired, purged,
                   forgotten>>

\* The id is stored and the events `gone` leave.
Stores(id, relay, gone) ==
    /\ id \notin events
    /\ ~ExpiredAt(id, now) /\ ~Applies(id) /\ ~AddressTombstoned(Event[id])
    /\ delivered' = delivered \cup {id}
    /\ events' = (events \ gone) \cup {id}
    /\ mirror' = (mirror \ gone) \cup {id}
    /\ retired' = retired \ {id}
    /\ purged' = purged \ {id}
    /\ Indexed(id, relay, gone)
    /\ UNCHANGED <<coverage, now, forgotten>>

\* What a kind:5 removes and writes.
Deletes(id, gone) ==
    LET k5   == Event[id]
        byA  == AddressTargets(k5) \ EventTargets(k5)
        row  == Row(k5.author, k5.at, "Kind5")
    IN  /\ k5.kind = "delete"
        /\ gone = EventTargets(k5) \cup byA
        /\ addr_tombstones' =
              MergeTombstone(addr_tombstones,
                             {ad \in k5.a : ad[2] = k5.author}, row)
        /\ tombstones' = MergeTombstone(Without(tombstones, {id}),
                                        EventTombs(k5) \cup byA, row)

\* What any other event replaces.
Replaces(id, gone) ==
    /\ Event[id].kind # "delete"
    /\ tombstones' = Without(tombstones, {id})
    /\ addr_tombstones' = addr_tombstones
    /\ \/ gone = {} /\ (Event[id].kind \in {"replaceable", "addressable"}
                           => Heads(Event[id]) = {})
       \/ \E head \in Heads(Event[id]) :
             /\ Event[id].kind \in {"replaceable", "addressable"}
             /\ Beats(id, head)
             /\ gone = {head}

\* insert refuses, sees a redelivery, or stores and then deletes or replaces.
LEMMA InsertCases ==
    ASSUME NEW relay \in RelayUrls, NEW id \in Ids, Insert(id, relay)
    PROVE  \/ Refuses(id)
           \/ Repeats(id, relay)
           \/ \E gone : /\ Stores(id, relay, gone)
                        /\ Deletes(id, gone) \/ Replaces(id, gone)
  <1> DEFINE ev == Event[id]
             kept == Without(tombstones, {id})
  <1>0. /\ delivered' = delivered \cup {id}
        /\ UNCHANGED <<coverage, now, forgotten>>
    BY DEF Insert
  <1>1. CASE /\ ev.kind = "ephemeral" \/ ExpiredAt(id, now) \/ Applies(id)
             /\ Refused(tombstones)
    BY <1>0, <1>1, AppendedFacts DEF Refused, Refuses
  <1>2. CASE /\ ~ExpiredAt(id, now) /\ ~Applies(id)
             /\ AddressTombstoned(ev) /\ Refused(kept)
    BY <1>0, <1>2, AppendedFacts DEF Refused, Refuses
  <1>3. CASE ~Applies(id) /\ id \in events /\ Redelivered(id, relay, kept)
    BY <1>0, <1>3, AppendedFacts DEF Redelivered, Repeats
  <1>4. CASE /\ ~ExpiredAt(id, now) /\ ~Applies(id) /\ ~AddressTombstoned(ev)
             /\ id \notin events
             /\ \/ ev.kind = "delete" /\ Kind5(id, relay, kept)
                \/ /\ ev.kind \in {"replaceable", "addressable"}
                   /\ Supersede(id, relay, kept)
                \/ /\ ev.kind = "plain"
                   /\ Stored(id, relay, {}, kept, {Inserted(id)})
             /\ ev.kind # "delete" => UNCHANGED addr_tombstones
    <2>1. CASE ev.kind = "delete" /\ Kind5(id, relay, kept)
      <3> DEFINE gone == EventTargets(ev) \cup (AddressTargets(ev) \ EventTargets(ev))
      <3>1. mirror' = (mirror \ gone) \cup {id}
        BY <2>1, AppendedFacts DEF Kind5, Stored
      <3>2. Stores(id, relay, gone)
        BY <1>0, <1>4, <2>1, <3>1 DEF Kind5, Stored, Stores
      <3>3. Deletes(id, gone)
        BY <2>1 DEF Kind5, Stored, Deletes
      <3> QED
        BY <3>2, <3>3
    <2>2. ASSUME ev.kind # "delete", Stored(id, relay, {}, kept, {Inserted(id)}),
                 ev.kind \in {"replaceable", "addressable"} => Heads(ev) = {}
          PROVE  Stores(id, relay, {}) /\ Replaces(id, {})
      <3>1. mirror' = (mirror \ {}) \cup {id}
        BY <2>2, AppendedFacts DEF Stored
      <3> QED
        BY <1>0, <1>4, <2>2, <3>1 DEF Stored, Stores, Replaces
    <2>3. ASSUME ev.kind \in {"replaceable", "addressable"},
                 NEW head \in Heads(ev), Beats(id, head),
                 Stored(id, relay, {head}, kept, {Replaced(id, head)})
          PROVE  Stores(id, relay, {head}) /\ Replaces(id, {head})
      <3>1. mirror' = (mirror \ {head}) \cup {id}
        BY <2>3, AppendedFacts DEF Stored
      <3> QED
        BY <1>0, <1>4, <2>3, <3>1 DEF Stored, Stores, Replaces
    <2>4. ASSUME ev.kind \in {"replaceable", "addressable"},
                 NEW head \in Heads(ev), ~Beats(id, head), Refused(kept)
          PROVE  Refuses(id)
      <3>1. id # head
        BY <1>4 DEF Heads, Rivals
      <3> QED
        BY <1>0, <1>4, <2>4, <3>1, AppendedFacts DEF Refused, Refuses
    <2>5. CASE ev.kind \in {"replaceable", "addressable"}
                 /\ Supersede(id, relay, kept)
      BY <2>2, <2>3, <2>4, <2>5 DEF Supersede
    <2>6. CASE ev.kind = "plain" /\ Stored(id, relay, {}, kept, {Inserted(id)})
      BY <2>2, <2>6
    <2> QED
      BY <1>4, <2>1, <2>5, <2>6
  <1> QED
    BY <1>1, <1>2, <1>3, <1>4 DEF Insert

-----------------------------------------------------------------------------
(* The collector.                                                           *)

\* A pass of gc_step, cut short or not, reaps expired events and evicts
\* others.
LEMMA GcCases ==
    ASSUME NEW pins, GcStep(pins)
    PROVE  \E reaped \in SUBSET Expired, purge \in BOOLEAN :
           \E evicted \in SUBSET (events \ reaped) :
              Collected(reaped, evicted, purge)
  <1>1. PICK reaped \in SUBSET Expired :
           \/ Collected(reaped, {}, FALSE)
           \/ \E n : Collected(reaped, Oldest(events \ reaped, pins, n), TRUE)
           \/ \E n : Collected(reaped, Oldest(events \ reaped, pins, n), FALSE)
    BY DEF GcStep
  <1>2. \A n : Oldest(events \ reaped, pins, n) \in SUBSET (events \ reaped)
    BY DEF Oldest
  <1>3. CASE Collected(reaped, {}, FALSE)
    BY <1>3
  <1>4. CASE \E n : Collected(reaped, Oldest(events \ reaped, pins, n), TRUE)
    BY <1>2, <1>4
  <1>5. CASE \E n : Collected(reaped, Oldest(events \ reaped, pins, n), FALSE)
    BY <1>2, <1>5
  <1> QED
    BY <1>1, <1>3, <1>4, <1>5

\* Lowering a coverage row keeps it a number, never raises it, and takes it
\* below every evicted event of its filter.
LEMMA LoweredFacts ==
    ASSUME NEW s \in Shapes, NEW covered \in Nat, NEW gone \in SUBSET Ids
    PROVE  /\ Lowered(s, covered, gone) \in Nat
           /\ Lowered(s, covered, gone) <= covered
           /\ \A i \in gone \cap Matches[s] :
                 Lowered(s, covered, gone) > 0
                    => Event[i].at > Lowered(s, covered, gone)
  <1> DEFINE lost == {i \in gone \cap Matches[s] : Event[i].at <= covered}
             T == {Event[i].at : i \in lost}
             new == Lowered(s, covered, gone)
  <1>1. \A i \in gone : Event[i].at \in Nat
    BY EventFacts
  <1>2. CASE lost = {}
    <2>1. new = covered
      BY <1>2 DEF Lowered
    <2>2. ASSUME NEW i \in gone \cap Matches[s] PROVE Event[i].at > covered
      BY <1>1, <1>2
    <2> QED
      BY <2>1, <2>2
  <1>3. CASE lost # {}
    <2>1. T \in SUBSET Nat /\ T # {}
      BY <1>1, <1>3
    <2>2. Min(T) \in T /\ \A y \in T : Min(T) <= y
      <3> HIDE DEF T
      <3> QED BY <2>1, MinNat
    <2>3. Min(T) \in Nat /\ Min(T) <= covered
      BY <1>1, <2>2
    <2>4. new = IF Min(T) = 0 THEN 0 ELSE Min(T) - 1
      BY <1>3 DEF Lowered
    <2>5. ASSUME NEW i \in gone \cap Matches[s] PROVE Event[i].at >= Min(T)
      <3>1. CASE i \in lost
        BY <2>2, <3>1
      <3>2. CASE i \notin lost
        <4>1. Event[i].at \in Nat /\ ~(Event[i].at <= covered)
          BY <1>1, <3>2
        <4> HIDE DEF T
        <4> QED
          BY <4>1, <2>3
      <3> QED
        BY <3>1, <3>2
    <2> HIDE DEF T, new, lost
    <2>6. new \in Nat /\ new <= covered /\ (new > 0 => new < Min(T))
      BY <2>3, <2>4
    <2>7. ASSUME NEW i \in gone \cap Matches[s], new > 0
          PROVE  Event[i].at > new
      BY <1>1, <2>3, <2>5, <2>6, <2>7
    <2> QED
      BY <2>6, <2>7 DEF new
  <1> QED
    BY <1>2, <1>3

-----------------------------------------------------------------------------
(* Types.                                                                   *)

\* upsert_provenance names relays once, and only the old ones and the new
\* one.
LEMMA UpsertFacts ==
    ASSUME NEW seq \in Seq(RelayUrls), NEW relay \in RelayUrls,
           IsInjective(seq), NEW new \in Upserts(seq, relay)
    PROVE  /\ new \in Seq(RelayUrls) /\ new # <<>>
           /\ IsInjective(new)
           /\ ToSet(new) \subseteq ToSet(seq) \cup {relay}
  <1>0. Len(seq) \in Nat /\ DOMAIN seq = 1..Len(seq)
    OBVIOUS
  <1>1. CASE relay \in ToSet(seq)
    <2>1. new = seq
      BY <1>1 DEF Upserts
    <2>2. seq # <<>>
      BY <1>1 DEF ToSet
    <2> QED
      BY <2>1, <2>2
  <1>2. ASSUME NEW base \in Seq(RelayUrls), IsInjective(base),
               ToSet(base) \subseteq ToSet(seq),
               relay \notin ToSet(seq), new = Append(base, relay)
        PROVE  /\ new \in Seq(RelayUrls) /\ new # <<>>
               /\ IsInjective(new)
               /\ ToSet(new) \subseteq ToSet(seq) \cup {relay}
    <2>1. /\ new \in Seq(RelayUrls) /\ Len(new) = Len(base) + 1
          /\ DOMAIN new = 1..Len(base) + 1
          /\ \A n \in 1..Len(base) : new[n] = base[n]
          /\ new[Len(base) + 1] = relay
          /\ Len(base) \in Nat /\ DOMAIN base = 1..Len(base)
      BY <1>2
    <2>2. \A n \in 1..Len(base) : base[n] \in ToSet(seq) /\ base[n] # relay
      BY <1>2, <2>1 DEF ToSet
    <2>3. ToSet(new) \subseteq ToSet(seq) \cup {relay}
      BY <2>1, <2>2 DEF ToSet
    <2>4. ASSUME NEW a \in DOMAIN new, NEW b \in DOMAIN new, new[a] = new[b]
          PROVE  a = b
      <3>1. CASE a \in 1..Len(base) /\ b \in 1..Len(base)
        BY <1>2, <2>1, <2>4, <3>1 DEF IsInjective
      <3>2. CASE a = Len(base) + 1 \/ b = Len(base) + 1
        BY <2>1, <2>2, <2>4, <3>2
      <3> QED
        BY <2>1, <3>1, <3>2
    <2>5. new # <<>>
      BY <2>1
    <2> QED
      BY <2>1, <2>3, <2>4, <2>5 DEF IsInjective
  <1>3. CASE relay \notin ToSet(seq) /\ new = Append(seq, relay)
    BY <1>2, <1>3
  <1>4. ASSUME relay \notin ToSet(seq), NEW n \in 2..Len(seq),
               new = Append(RemoveAt(seq, n), relay)
        PROVE  /\ new \in Seq(RelayUrls) /\ new # <<>>
               /\ IsInjective(new)
               /\ ToSet(new) \subseteq ToSet(seq) \cup {relay}
    <2> DEFINE base == RemoveAt(seq, n)
               left == SubSeq(seq, 1, n - 1)
               right == SubSeq(seq, n + 1, Len(seq))
    <2>0. n \in Nat /\ n >= 2 /\ n <= Len(seq)
      BY <1>0
    <2>1. /\ left \in Seq(RelayUrls) /\ Len(left) = n - 1
          /\ \A m \in 1..n-1 : left[m] = seq[m]
      <3>1. \A m \in 1..n-1 : seq[m] \in RelayUrls
        BY <1>0, <2>0
      <3> QED
        BY <2>0, <3>1, SubSeqProperties
    <2>2. /\ right \in Seq(RelayUrls) /\ Len(right) = Len(seq) - n
          /\ \A m \in 1..Len(seq) - n : right[m] = seq[n + m]
      <3>1. \A m \in n+1..Len(seq) : seq[m] \in RelayUrls
        BY <1>0, <2>0
      <3>2. /\ right \in Seq(RelayUrls)
            /\ Len(right) = IF n + 1 <= Len(seq) THEN Len(seq) - (n + 1) + 1
                                                 ELSE 0
            /\ \A m \in 1..Len(seq) - (n + 1) + 1 :
                  right[m] = seq[(n + 1) + m - 1]
        BY <1>0, <2>0, <3>1, SubSeqProperties
      <3> HIDE DEF right
      <3>3. Len(right) = Len(seq) - n
        <4> DEFINE l == Len(seq)
        <4>1. l \in Nat /\ n \in Nat /\ n <= l
          BY <1>0, <2>0
        <4>2. (IF n + 1 <= l THEN l - (n + 1) + 1 ELSE 0) = l - n
          <5> HIDE DEF l
          <5> QED BY <4>1
        <4> QED
          BY <3>2, <4>2
      <3>4. ASSUME NEW m \in 1..Len(seq) - n
            PROVE  right[m] = seq[n + m]
        <4>1. /\ m \in 1..Len(seq) - (n + 1) + 1
              /\ (n + 1) + m - 1 = n + m
          BY <1>0, <2>0
        <4>2. right[m] = seq[(n + 1) + m - 1]
          BY <3>2, <4>1
        <4> QED
          BY <4>1, <4>2
      <3> QED
        BY <3>2, <3>3, <3>4
    <2>3. /\ base \in Seq(RelayUrls) /\ Len(base) = Len(seq) - 1
          /\ \A m \in 1..Len(seq) - 1 :
                base[m] = IF m <= n - 1 THEN seq[m] ELSE seq[m + 1]
      <3>1. base = left \o right
        BY DEF RemoveAt
      <3> HIDE DEF left, right, base
      <3>2. /\ base \in Seq(RelayUrls)
            /\ Len(base) = Len(left) + Len(right)
            /\ \A m \in 1..Len(left) + Len(right) :
                  base[m] = IF m <= Len(left) THEN left[m]
                                              ELSE right[m - Len(left)]
        BY <2>1, <2>2, <3>1, ConcatProperties
      <3>3. Len(left) + Len(right) = Len(seq) - 1
        BY <1>0, <2>0, <2>1, <2>2
      <3>4. ASSUME NEW m \in 1..Len(seq) - 1
            PROVE  base[m] = IF m <= n - 1 THEN seq[m] ELSE seq[m + 1]
        <4>1. CASE m <= n - 1
          BY <1>0, <2>0, <2>1, <3>2, <3>3, <4>1
        <4>2. CASE ~(m <= n - 1)
          <5>1. m - (n - 1) \in 1..Len(seq) - n /\ n + (m - (n - 1)) = m + 1
            BY <1>0, <2>0, <4>2
          <5>2. base[m] = right[m - (n - 1)]
            BY <2>1, <3>2, <3>3, <4>2
          <5> QED
            BY <2>2, <4>2, <5>1, <5>2
        <4> QED
          BY <4>1, <4>2
      <3> QED
        BY <3>2, <3>3, <3>4
    <2> HIDE DEF base
    <2>4. DOMAIN base = 1..Len(seq) - 1
      BY <2>3
    <2>5. IsInjective(base)
      <3> SUFFICES ASSUME NEW a \in 1..Len(seq) - 1, NEW b \in 1..Len(seq) - 1,
                          base[a] = base[b]
                   PROVE  a = b
        BY <2>4 DEF IsInjective
      <3> DEFINE at(m) == IF m <= n - 1 THEN m ELSE m + 1
      <3>1. /\ at(a) \in 1..Len(seq) /\ at(b) \in 1..Len(seq)
            /\ at(a) = at(b) => a = b
        BY <1>0, <2>0
      <3>2. base[a] = seq[at(a)] /\ base[b] = seq[at(b)]
        BY <2>3
      <3> QED
        BY <1>0, <3>1, <3>2 DEF IsInjective
    <2>6. ToSet(base) \subseteq ToSet(seq)
      <3> SUFFICES ASSUME NEW m \in 1..Len(seq) - 1
                   PROVE  base[m] \in ToSet(seq)
        BY <2>4 DEF ToSet
      <3>1. m \in 1..Len(seq) /\ m + 1 \in 1..Len(seq)
        BY <1>0
      <3> QED
        BY <1>0, <2>3, <3>1 DEF ToSet
    <2> QED
      BY <1>2, <1>4, <2>3, <2>5, <2>6 DEF base
  <1> QED
    BY <1>1, <1>3, <1>4 DEF Upserts

-----------------------------------------------------------------------------
(* The indexes.                                                             *)

IndexTypes ==
    /\ DOMAIN provenance = events
    /\ \A i \in events : provenance[i] \in Seq(RelayUrls)
    /\ relay_index \in [RelayUrls -> SUBSET Ids]
    /\ access_index \subseteq Ids \X Ids

\* An insert, with the removals it causes, keeps the indexes in agreement.
LEMMA IndexedKeeps ==
    ASSUME StoreTypeOK, IndexesAgree, NEW id \in Ids, NEW relay \in RelayUrls,
           NEW gone \in SUBSET events, id \notin gone,
           id \in events => gone = {},
           events' = (events \ gone) \cup {id}, Indexed(id, relay, gone)
    PROVE  IndexTypes' /\ IndexesAgree'
  <1>0. /\ events \subseteq Ids
        /\ relay_index \in [RelayUrls -> SUBSET Ids]
        /\ access_index \subseteq Ids \X Ids
    BY DEF StoreTypeOK
  <1>1. PICK seq \in Upserts(Sources(id), relay) :
           provenance' = [i \in (events \ gone) \cup {id} |->
                            IF i = id THEN seq ELSE provenance[i]]
    BY DEF Indexed
  <1>2. /\ Sources(id) \in Seq(RelayUrls)
        /\ IsInjective(Sources(id))
    <2>1. CASE id \in events
      BY <2>1 DEF StoreTypeOK, IndexesAgree, Sources
    <2>2. CASE id \notin events
      <3>1. Sources(id) = <<>>
        BY <2>2 DEF Sources, NoSources
      <3> QED
        BY <3>1 DEF IsInjective
    <2> QED
      BY <2>1, <2>2
  <1>3. /\ seq \in Seq(RelayUrls) /\ seq # <<>> /\ IsInjective(seq)
        /\ ToSet(seq) \subseteq ToSet(Sources(id)) \cup {relay}
    BY <1>1, <1>2, UpsertFacts
  <1>4. /\ DOMAIN provenance' = events'
        /\ provenance'[id] = seq
        /\ \A i \in events' : i # id => i \in events /\ provenance'[i] = provenance[i]
    BY <1>1
  <1>5. /\ relay_index' \in [RelayUrls -> SUBSET Ids]
        /\ \A r \in RelayUrls : relay_index'[r] =
              (relay_index[r] \ gone) \cup (IF r = relay THEN {id} ELSE {})
    BY <1>0 DEF Indexed
  <1>6. \A r \in RelayUrls : relay_index'[r] \subseteq events'
    BY <1>5 DEF IndexesAgree
  <1>7. ASSUME NEW i \in events'
        PROVE  /\ provenance'[i] \in Seq(RelayUrls)
               /\ provenance'[i] # <<>> /\ IsInjective(provenance'[i])
               /\ \A r \in ToSet(provenance'[i]) : i \in relay_index'[r]
    <2>1. CASE i # id
      <3>1. i \in events /\ i \notin gone /\ provenance'[i] = provenance[i]
        BY <1>4, <2>1
      <3>2. /\ provenance[i] \in Seq(RelayUrls)
            /\ provenance[i] # <<>> /\ IsInjective(provenance[i])
            /\ \A r \in ToSet(provenance[i]) : i \in relay_index[r]
        BY <3>1 DEF StoreTypeOK, IndexesAgree
      <3>3. ToSet(provenance[i]) \subseteq RelayUrls
        BY <3>2 DEF ToSet
      <3>4. \A r \in ToSet(provenance[i]) : i \in relay_index'[r]
        BY <1>5, <3>1, <3>2, <3>3
      <3> QED
        BY <3>1, <3>2, <3>4
    <2>2. CASE i = id
      <3>1. ToSet(Sources(id)) \subseteq RelayUrls
        BY <1>2 DEF ToSet
      <3>2. ASSUME NEW r \in ToSet(Sources(id)) PROVE id \in relay_index'[r]
        <4>1. id \in events /\ gone = {}
          BY <3>2 DEF Sources, NoSources, ToSet
        <4>2. id \in relay_index[r]
          BY <4>1 DEF Sources, IndexesAgree
        <4> QED
          BY <1>5, <3>1, <4>1, <4>2
      <3>3. id \in relay_index'[relay]
        BY <1>5
      <3>4. \A r \in ToSet(seq) : id \in relay_index'[r]
        BY <1>3, <3>2, <3>3
      <3> QED
        BY <1>3, <1>4, <2>2, <3>4
    <2> QED
      BY <2>1, <2>2
  <1>8. /\ access_index' \subseteq events' \X events'
        /\ \A i, j \in events' :
              /\ <<i, j>> \in access_index' \/ <<j, i>> \in access_index'
              /\ <<i, j>> \in access_index' /\ <<j, i>> \in access_index'
                    => i = j
    <2>1. CASE id \in events
      <3>1. events' = events /\ access_index' = access_index
        BY <2>1 DEF Indexed
      <3> QED
        BY <3>1 DEF IndexesAgree
    <2>2. CASE id \notin events
      <3>1. access_index' = AccessRemoved(gone) \cup Stamped(id, events \ gone)
        BY <2>2 DEF Indexed
      <3>2. \A i, j : <<i, j>> \in access_index' <=>
               \/ <<i, j>> \in access_index /\ i \notin gone /\ j \notin gone
               \/ j = id /\ i \in (events \ gone) \cup {id}
        <4>1. \A i, j : <<i, j>> \in AccessRemoved(gone) <=>
                 <<i, j>> \in access_index /\ i \notin gone /\ j \notin gone
          BY DEF AccessRemoved
        <4>2. \A i, j : <<i, j>> \in Stamped(id, events \ gone) <=>
                 j = id /\ i \in (events \ gone) \cup {id}
          BY DEF Stamped
        <4> QED
          BY <3>1, <4>1, <4>2
      <3>3. access_index' \subseteq events' \X events'
        BY <3>1 DEF AccessRemoved, Stamped, IndexesAgree
      <3>4. \A i, j : <<i, j>> \in access_index => i \in events /\ j \in events
        BY DEF IndexesAgree
      <3>5. \A i, j \in events :
               /\ <<i, j>> \in access_index \/ <<j, i>> \in access_index
               /\ <<i, j>> \in access_index /\ <<j, i>> \in access_index => i = j
        BY DEF IndexesAgree
      <3>6. ASSUME NEW i \in events', NEW j \in events'
            PROVE  /\ <<i, j>> \in access_index' \/ <<j, i>> \in access_index'
                   /\ <<i, j>> \in access_index' /\ <<j, i>> \in access_index'
                         => i = j
        BY <2>2, <3>2, <3>4, <3>5
      <3> QED
        BY <3>3, <3>6
    <2> QED
      BY <2>1, <2>2
  <1>9. events' \subseteq Ids
    BY <1>0
  <1> QED
    BY <1>4, <1>5, <1>6, <1>7, <1>8, <1>9 DEF IndexTypes, IndexesAgree

\* A removal keeps the indexes in agreement.
LEMMA UnindexedKeeps ==
    ASSUME StoreTypeOK, IndexesAgree, NEW gone \in SUBSET events,
           events' = events \ gone, Unindexed(gone)
    PROVE  IndexTypes' /\ IndexesAgree'
  <1>0. /\ events \subseteq Ids
        /\ relay_index \in [RelayUrls -> SUBSET Ids]
        /\ access_index \subseteq Ids \X Ids
        /\ DOMAIN provenance = events
    BY DEF StoreTypeOK
  <1>1. /\ DOMAIN provenance' = events'
        /\ \A i \in events' : provenance'[i] = provenance[i]
    BY <1>0, WithoutFacts DEF Unindexed
  <1>2. /\ relay_index' \in [RelayUrls -> SUBSET Ids]
        /\ \A r \in RelayUrls : relay_index'[r] = relay_index[r] \ gone
    BY <1>0 DEF Unindexed
  <1>3. /\ \A r \in RelayUrls : relay_index'[r] \subseteq events'
        /\ \A i \in events' : provenance'[i] \in Seq(RelayUrls)
    BY <1>1, <1>2 DEF IndexesAgree, StoreTypeOK
  <1>4. ASSUME NEW i \in events'
        PROVE  /\ provenance'[i] # <<>> /\ IsInjective(provenance'[i])
               /\ \A r \in ToSet(provenance'[i]) : i \in relay_index'[r]
    <2>1. ToSet(provenance[i]) \subseteq RelayUrls
      BY DEF StoreTypeOK, ToSet
    <2> QED
      BY <1>1, <1>2, <2>1 DEF IndexesAgree
  <1>5. \A i, j : <<i, j>> \in access_index' <=>
               <<i, j>> \in access_index /\ i \notin gone /\ j \notin gone
    BY DEF Unindexed, AccessRemoved
  <1>6. access_index' \subseteq access_index
        /\ access_index' \subseteq events' \X events'
    BY DEF Unindexed, AccessRemoved, IndexesAgree
  <1>7. \A i, j \in events' :
           /\ <<i, j>> \in access_index' \/ <<j, i>> \in access_index'
           /\ <<i, j>> \in access_index' /\ <<j, i>> \in access_index' => i = j
    BY <1>5 DEF IndexesAgree
  <1> QED
    BY <1>0, <1>1, <1>2, <1>3, <1>4, <1>6, <1>7 DEF IndexTypes, IndexesAgree

-----------------------------------------------------------------------------
(* Reasons.                                                                 *)

\* A reason to miss an event stays one while deliveries are only added and
\* the clock moves forward.
LEMMA ExcusedStays ==
    ASSUME NEW i \in Ids, Excused(i), now \in Nat, now' \in Nat, now' >= now,
           delivered \subseteq delivered',
           i \in retired \cup purged => i \in retired' \cup purged'
    PROVE  Excused(i)'
  <1>1. ExpiredAt(i, now) => ExpiredAt(i, now')
    BY EventFacts, NoneAssumption DEF ExpiredAt
  <1> QED
    BY <1>1 DEF Excused

\* A tombstone that applies, by id or by address, has its author's kind:5 or
\* the event's expiry behind it.
LEMMA AppliesExcuses ==
    ASSUME StoreTypeOK, TombsJustified, NEW i \in Ids, Applies(i)
    PROVE  ExpiredAt(i, now) \/ \E k \in delivered : OwnDeletion(k, i)
  <1>1. i \in DOMAIN tombstones /\ tombstones[i].origin \in {"Kind5", "NIP40Expiry"}
    BY DEF Applies, StoreTypeOK, Tombs
  <1> QED
    BY <1>1 DEF TombsJustified, Applies, OwnDeletion

\* An address tombstone that refuses an event is a deletion by its author.
LEMMA AddressExcuses ==
    ASSUME StoreTypeOK, AddrsJustified, NEW i \in Ids,
           AddressTombstoned(Event[i])
    PROVE  \E k \in delivered : OwnDeletion(k, i)
  <1> DEFINE ad == AddressOf(Event[i])
  <1>1. /\ ad \in DOMAIN addr_tombstones
        /\ addr_tombstones[ad].deleted_at >= Event[i].at
        /\ ad[1] = Event[i].kind /\ ad[2] = Event[i].author
        /\ ad[3] = Event[i].d
    BY DEF AddressTombstoned, AddressOf
  <1> HIDE DEF ad
  <1>2. PICK k \in delivered : /\ Event[k].kind = "delete"
                               /\ Event[k].author = ad[2]
                               /\ ad \in Event[k].a
                               /\ Event[k].at = addr_tombstones[ad].deleted_at
    BY <1>1 DEF AddrsJustified
  <1>3. k \in Ids
    BY DEF StoreTypeOK
  <1>4. NamesAddress(k, i)
    BY <1>1, <1>2, <1>3, EventFacts DEF NamesAddress
  <1> QED
    BY <1>1, <1>2, <1>4 DEF OwnDeletion

\* Of two rivals the one that loses is displaced by the other.
LEMMA RivalFacts ==
    ASSUME StoreTypeOK, NEW id \in Ids, NEW j \in Rivals(Event[id]), j # id,
           Event[id].kind \in {"replaceable", "addressable"}
    PROVE  /\ j \in events /\ j \in Ids
           /\ ~Beats(id, j) => Displaces(j, id)
           /\ Beats(id, j) => Displaces(id, j)
  <1>1. /\ j \in events /\ j \in Ids
        /\ Event[j].author = Event[id].author
        /\ Event[j].kind = Event[id].kind
        /\ Event[id].kind = "addressable" /\ Event[id].d # NoD
              => Event[j].d = Event[id].d
    BY DEF Rivals, StoreTypeOK
  <1>2. /\ id \in Nat /\ j \in Nat
        /\ Event[id].at \in Nat /\ Event[j].at \in Nat
    BY <1>1, EventFacts
  <1>3. ~Beats(id, j) => Later(j, id)
    BY <1>1, <1>2 DEF Beats, Later
  <1>4. Beats(id, j) => Later(id, j)
    BY <1>1, <1>2 DEF Beats, Later
  <1> QED
    BY <1>1, <1>3, <1>4 DEF Displaces

\* insert refuses only what may be missing.
LEMMA RefusalExcused ==
    ASSUME StoreInv, NEW id \in Ids, Refuses(id)
    PROVE  Excused(id)'
  <1>0. /\ StoreTypeOK /\ TombsJustified /\ AddrsJustified /\ Accounted
        /\ delivered' = delivered \cup {id} /\ now' = now
    BY DEF StoreInv, Refuses
  <1>1. CASE Event[id].kind = "ephemeral" \/ ExpiredAt(id, now)
    BY <1>0, <1>1 DEF Excused
  <1>2. CASE Applies(id)
    BY <1>0, <1>2, AppliesExcuses DEF Excused
  <1>3. CASE AddressTombstoned(Event[id])
    BY <1>0, <1>3, AddressExcuses DEF Excused
  <1>4. ASSUME Event[id].kind \in {"replaceable", "addressable"},
               NEW head \in Heads(Event[id]), id # head, ~Beats(id, head)
        PROVE  Excused(id)'
    <2>1. head \in Rivals(Event[id])
      BY DEF Heads
    <2>2. head \in events /\ Displaces(head, id)
      BY <1>0, <1>4, <2>1, RivalFacts
    <2>3. head \in delivered'
      BY <1>0, <2>2 DEF Accounted
    <2> QED
      BY <2>2, <2>3 DEF Excused
  <1> QED
    BY <1>1, <1>2, <1>3, <1>4 DEF Refuses

\* The rows that remain, with the deliveries that explain them.
LEMMA JustifiedStays ==
    ASSUME TombsJustified, delivered \subseteq delivered',
           now \in Nat, now' \in Nat, now' >= now,
           DOMAIN tombstones \subseteq Ids,
           DOMAIN tombstones' \subseteq DOMAIN tombstones,
           \A i \in DOMAIN tombstones' : tombstones'[i] = tombstones[i]
    PROVE  TombsJustified'
  <1> SUFFICES ASSUME NEW i \in DOMAIN tombstones'
               PROVE  /\ tombstones'[i].origin = "NIP40Expiry" => ExpiredAt(i, now')
                      /\ tombstones'[i].origin = "Kind5" =>
                            \E k \in delivered' :
                               /\ Event[k].kind = "delete"
                               /\ Event[k].author = tombstones'[i].deleter
                               /\ i \in Event[k].e \/ OwnDeletion(k, i)
    BY DEF TombsJustified
  <1>1. i \in Ids /\ i \in DOMAIN tombstones /\ tombstones'[i] = tombstones[i]
    OBVIOUS
  <1>2. ExpiredAt(i, now) => ExpiredAt(i, now')
    BY <1>1, EventFacts, NoneAssumption DEF ExpiredAt
  <1> QED
    BY <1>1, <1>2 DEF TombsJustified

-----------------------------------------------------------------------------
(* Deletions.                                                               *)

\* Without a stranger's kind:5 the row of an id is its author's, or says that
\* the event expired: it applies.
LEMMA KeptApplies ==
    ASSUME StoreTypeOK, TombsJustified, NEW i \in DOMAIN tombstones,
           \A f \in delivered : ~ForeignDeletion(f, i)
    PROVE  Applies(i)
  BY DEF TombsJustified, ForeignDeletion, OwnDeletion, Applies

\* A kind:5 that stands is not refused.
LEMMA StandingIsObeyed ==
    ASSUME StoreInv, NEW id \in Ids, Refuses(id),
           Event[id].kind = "delete", Stands(id)'
    PROVE  FALSE
  <1>0. /\ StoreTypeOK /\ TombsJustified
        /\ delivered' = delivered \cup {id}
    BY DEF StoreInv, Refuses
  <1>1. ~ExpiredAt(id, now)
    BY DEF Stands, ExpiredAt
  <1>2. ~Applies(id)
    BY <1>0, <1>1, AppliesExcuses DEF Stands
  <1> QED
    BY <1>1, <1>2 DEF Refuses, AddressTombstoned

\* A deletion that binds after a step bound before it.
LEMMA WithdrawnBefore ==
    ASSUME NEW i \in Ids, NEW k \in Ids, Withdrawn(i, k)',
           delivered \subseteq delivered', now \in Nat, now' \in Nat, now' >= now
    PROVE  Withdrawn(i, k)
  <1>1. Event[k].at \in Nat /\ TombstoneMaxAge \in Nat
    BY EventFacts, BudgetAssumption
  <1> QED
    BY <1>1 DEF Withdrawn, Stands

\* A step that drops only old rows, or rows that do not apply, forgets no
\* deletion.
LEMMA DeletionKeptStays ==
    ASSUME StoreInv, delivered \subseteq delivered', delivered' \subseteq Ids,
           now' \in Nat, now' >= now,
           \A i \in DOMAIN tombstones :
              Applies(i) /\ now' - tombstones[i].deleted_at <= TombstoneMaxAge
                 => /\ i \in DOMAIN tombstones'
                    /\ tombstones'[i].deleted_at \in Nat
                    /\ tombstones'[i].deleted_at >= tombstones[i].deleted_at,
           \A ad \in DOMAIN addr_tombstones :
              now' - addr_tombstones[ad].deleted_at <= TombstoneMaxAge
                 => /\ ad \in DOMAIN addr_tombstones'
                    /\ addr_tombstones'[ad].deleted_at \in Nat
                    /\ addr_tombstones'[ad].deleted_at
                          >= addr_tombstones[ad].deleted_at,
           \A k \in delivered' \ delivered, i \in Ids :
              Withdrawn(i, k)' =>
                 /\ i \in Event[k].e =>
                       /\ i \in DOMAIN tombstones'
                       /\ tombstones'[i].deleted_at >= Event[k].at
                 /\ Event[i].kind = "addressable" /\ NamesAddress(k, i) =>
                       /\ AddressOf(Event[i]) \in DOMAIN addr_tombstones'
                       /\ addr_tombstones'[AddressOf(Event[i])].deleted_at
                             >= Event[k].at
    PROVE  DeletionKept'
  <1>0. /\ StoreTypeOK /\ TombsJustified /\ DeletionKept
        /\ now \in Nat /\ delivered \subseteq Ids
        /\ TombstoneMaxAge \in Nat
    BY BudgetAssumption DEF StoreInv, StoreTypeOK
  <1> SUFFICES ASSUME NEW k \in delivered', NEW i \in Ids, Withdrawn(i, k)',
                      \A f \in delivered' : ~ForeignDeletion(f, i)
               PROVE  /\ i \in Event[k].e =>
                            /\ i \in DOMAIN tombstones'
                            /\ tombstones'[i].deleted_at >= Event[k].at
                      /\ Event[i].kind = "addressable" /\ NamesAddress(k, i) =>
                            /\ AddressOf(Event[i]) \in DOMAIN addr_tombstones'
                            /\ addr_tombstones'[AddressOf(Event[i])].deleted_at
                                  >= Event[k].at
    BY DEF DeletionKept
  <1>1. CASE k \in delivered' \ delivered
    BY <1>1
  <1>2. CASE k \in delivered
    <2>0. k \in Ids /\ Event[k].at \in Nat
      BY <1>0, <1>2, EventFacts
    <2>1. /\ Withdrawn(i, k)
          /\ \A f \in delivered : ~ForeignDeletion(f, i)
      BY <1>0, <2>0, WithdrawnBefore
    <2>2. now' - Event[k].at <= TombstoneMaxAge
      BY DEF Withdrawn
    <2>3. ASSUME i \in Event[k].e
          PROVE  /\ i \in DOMAIN tombstones'
                 /\ tombstones'[i].deleted_at >= Event[k].at
      <3>1. /\ i \in DOMAIN tombstones
            /\ tombstones[i].deleted_at >= Event[k].at
        BY <1>0, <1>2, <2>1, <2>3 DEF DeletionKept
      <3>2. Applies(i) /\ tombstones[i].deleted_at \in Nat
        BY <1>0, <2>1, <3>1, KeptApplies DEF StoreTypeOK, Tombs
      <3>3. now' - tombstones[i].deleted_at <= TombstoneMaxAge
        BY <1>0, <2>0, <2>2, <3>1, <3>2
      <3> QED
        BY <2>0, <3>1, <3>2, <3>3
    <2>4. ASSUME Event[i].kind = "addressable", NamesAddress(k, i)
          PROVE  /\ AddressOf(Event[i]) \in DOMAIN addr_tombstones'
                 /\ addr_tombstones'[AddressOf(Event[i])].deleted_at
                       >= Event[k].at
      <3> DEFINE ad == AddressOf(Event[i])
      <3>1. /\ ad \in DOMAIN addr_tombstones
            /\ addr_tombstones[ad].deleted_at >= Event[k].at
        BY <1>0, <1>2, <2>1, <2>4 DEF DeletionKept
      <3> HIDE DEF ad
      <3>2. addr_tombstones[ad].deleted_at \in Nat
        BY <1>0, <3>1 DEF StoreTypeOK, Tombs
      <3>3. now' - addr_tombstones[ad].deleted_at <= TombstoneMaxAge
        BY <1>0, <2>0, <2>2, <3>1, <3>2
      <3> QED
        BY <2>0, <3>1, <3>2, <3>3 DEF ad
    <2> QED
      BY <2>3, <2>4
  <1> QED
    BY <1>1, <1>2

\* An event the author withdrew is not among the stored ones, if those that
\* are new were not under an address tombstone and those a new kind:5 names
\* are gone.
LEMMA DeletionSticksStays ==
    ASSUME StoreInv, DeletionKept', TombstoneExcludes',
           delivered \subseteq delivered', delivered' \subseteq Ids,
           events' \subseteq Ids, now' \in Nat, now' >= now,
           \A i \in events' \ events : ~AddressTombstoned(Event[i]),
           \A i \in events', k \in delivered' \ delivered :
              Event[i].kind = "addressable" /\ Withdrawn(i, k)'
                 => ~NamesAddress(k, i)
    PROVE  DeletionSticks'
  <1>0. /\ StoreTypeOK /\ DeletionKept /\ DeletionSticks
        /\ now \in Nat /\ delivered \subseteq Ids
    BY DEF StoreInv, StoreTypeOK
  <1> SUFFICES ASSUME NEW i \in events', NEW k \in delivered', Withdrawn(i, k)',
                      \A f \in delivered' : ~ForeignDeletion(f, i)
               PROVE  FALSE
    BY DEF DeletionSticks
  <1>1. i \notin Event[k].e
    BY DEF DeletionKept, TombstoneExcludes
  <1>2. Event[i].kind = "addressable" /\ NamesAddress(k, i)
    BY <1>1 DEF Withdrawn, OwnDeletion
  <1>3. k \in delivered
    BY <1>2
  <1>4. Withdrawn(i, k) /\ \A f \in delivered : ~ForeignDeletion(f, i)
    BY <1>0, <1>3, WithdrawnBefore
  <1>5. i \notin events
    BY <1>0, <1>3, <1>4 DEF DeletionSticks
  <1>6. /\ AddressOf(Event[i]) \in DOMAIN addr_tombstones
        /\ addr_tombstones[AddressOf(Event[i])].deleted_at >= Event[k].at
    BY <1>0, <1>2, <1>3, <1>4 DEF DeletionKept
  <1>7. addr_tombstones[AddressOf(Event[i])].deleted_at \in Nat
    BY <1>0, <1>6 DEF StoreTypeOK, Tombs
  <1>8. Event[k].at >= Event[i].at /\ Event[i].d # NoD
    <2>1. PICK ad \in Event[k].a : ad[3] = Event[i].d
      BY <1>2 DEF NamesAddress
    <2>2. ad \in Addresses
      BY EventFacts
    <2>3. ad[3] \in Dtags
      BY <2>2 DEF Addresses
    <2> QED
      BY <1>2, <2>1, <2>3, NoneAssumption, EventFacts DEF NamesAddress
  <1>9. addr_tombstones[AddressOf(Event[i])].deleted_at >= Event[i].at
    BY <1>0, <1>3, <1>6, <1>7, <1>8, EventFacts
  <1> QED
    BY <1>2, <1>5, <1>6, <1>8, <1>9 DEF AddressTombstoned

-----------------------------------------------------------------------------
(* Each call keeps the invariant.                                           *)

\* A refusing insert keeps the invariant.
LEMMA RefusalKeeps ==
    ASSUME StoreInv, NEW id \in Ids, Refuses(id)
    PROVE  StoreInv'
  <1>0. /\ StoreTypeOK /\ TombstoneExcludes /\ IndexesAgree /\ Accounted
        /\ LogTellsAll /\ TombsJustified /\ AddrsJustified
        /\ NoUnjustifiedLoss /\ OneVersion /\ CoverageHonest
        /\ DeletionKept /\ DeletionSticks
    BY DEF StoreInv
  <1>1. /\ delivered' = delivered \cup {id}
        /\ events' = events /\ addr_tombstones' = addr_tombstones
        /\ provenance' = provenance /\ relay_index' = relay_index
        /\ access_index' = access_index /\ coverage' = coverage
        /\ now' = now /\ retired' = retired /\ purged' = purged
        /\ mirror' = mirror /\ forgotten' = forgotten
    BY DEF Refuses
  <1>2. /\ DOMAIN tombstones' \subseteq DOMAIN tombstones
        /\ \A i \in DOMAIN tombstones' : tombstones'[i] = tombstones[i]
        /\ \A i \in DOMAIN tombstones : Applies(i) => i \in DOMAIN tombstones'
    <2>1. CASE tombstones' = tombstones
      BY <2>1
    <2>2. CASE ~Applies(id) /\ tombstones' = Without(tombstones, {id})
      <3>1. /\ DOMAIN tombstones' = DOMAIN tombstones \ {id}
            /\ \A i \in DOMAIN tombstones \ {id} : tombstones'[i] = tombstones[i]
        BY <2>2, WithoutFacts
      <3> QED
        BY <2>2, <3>1
    <2> QED
      BY <2>1, <2>2 DEF Refuses
  <1>3. now \in Nat /\ delivered' \subseteq Ids
    BY <1>0, <1>1 DEF StoreTypeOK
  <1>4. StoreTypeOK'
    BY <1>0, <1>1, <1>2, <1>3 DEF StoreTypeOK
  <1>5. TombstoneExcludes' /\ Accounted' /\ LogTellsAll' /\ OneVersion'
    BY <1>0, <1>1, <1>2
       DEF TombstoneExcludes, Accounted, LogTellsAll, OneVersion
  <1>6. IndexesAgree' /\ CoverageHonest' /\ AddrsJustified'
    BY <1>0, <1>1 DEF IndexesAgree, CoverageHonest, AddrsJustified
  <1>7. TombsJustified'
    BY <1>0, <1>1, <1>2, <1>3, JustifiedStays DEF StoreTypeOK
  <1>8. NoUnjustifiedLoss'
    <2> SUFFICES ASSUME NEW i \in delivered' \ events' PROVE Excused(i)'
      BY DEF NoUnjustifiedLoss
    <2>1. CASE i = id
      BY <2>1, RefusalExcused
    <2>2. CASE i # id
      <3>1. i \in Ids /\ Excused(i)
        BY <1>0, <1>1, <1>3, <2>2 DEF NoUnjustifiedLoss
      <3> QED
        BY <1>1, <1>3, <3>1, ExcusedStays
    <2> QED
      BY <2>1, <2>2
  <1>9. \A k \in delivered' \ delivered, i \in Ids : ~Withdrawn(i, k)'
    BY <1>1, StandingIsObeyed DEF Withdrawn, OwnDeletion
  <1>10. DeletionKept'
    <2>1. \A i \in DOMAIN tombstones : Applies(i) =>
             /\ i \in DOMAIN tombstones'
             /\ tombstones'[i].deleted_at \in Nat
             /\ tombstones'[i].deleted_at >= tombstones[i].deleted_at
      BY <1>0, <1>2 DEF StoreTypeOK, Tombs
    <2>2. \A ad \in DOMAIN addr_tombstones :
             /\ addr_tombstones'[ad].deleted_at \in Nat
             /\ addr_tombstones'[ad].deleted_at >= addr_tombstones[ad].deleted_at
      BY <1>0, <1>1 DEF StoreTypeOK, Tombs
    <2> QED
      BY <1>1, <1>3, <1>9, <2>1, <2>2, DeletionKeptStays
  <1>11. DeletionSticks'
    BY <1>1, <1>3, <1>4, <1>5, <1>9, <1>10, DeletionSticksStays DEF StoreTypeOK
  <1> QED
    BY <1>4, <1>5, <1>6, <1>7, <1>8, <1>10, <1>11 DEF StoreInv

\* A redelivery keeps the invariant.
LEMMA RepeatKeeps ==
    ASSUME StoreInv, NEW id \in Ids, NEW relay \in RelayUrls,
           Repeats(id, relay)
    PROVE  StoreInv'
  <1>0. /\ StoreTypeOK /\ TombstoneExcludes /\ IndexesAgree /\ Accounted
        /\ LogTellsAll /\ TombsJustified /\ AddrsJustified
        /\ NoUnjustifiedLoss /\ OneVersion /\ CoverageHonest
        /\ DeletionKept /\ DeletionSticks
    BY DEF StoreInv
  <1>1. /\ delivered' = delivered
        /\ events' = events /\ addr_tombstones' = addr_tombstones
        /\ coverage' = coverage /\ now' = now
        /\ retired' = retired /\ purged' = purged /\ mirror' = mirror
        /\ forgotten' = forgotten
    BY <1>0 DEF Repeats, Accounted
  <1>2. /\ DOMAIN tombstones' = DOMAIN tombstones
        /\ \A i \in DOMAIN tombstones : tombstones'[i] = tombstones[i]
    <2>1. id \notin DOMAIN tombstones
      BY <1>0 DEF Repeats, TombstoneExcludes
    <2>2. /\ DOMAIN tombstones' = DOMAIN tombstones \ {id}
          /\ \A i \in DOMAIN tombstones \ {id} : tombstones'[i] = tombstones[i]
      <3>1. tombstones' = Without(tombstones, {id})
        BY DEF Repeats
      <3> QED
        BY <3>1, WithoutFacts
    <2> QED
      BY <2>1, <2>2
  <1>3. now \in Nat /\ delivered' \subseteq Ids
    BY <1>0, <1>1 DEF StoreTypeOK
  <1>4. IndexTypes' /\ IndexesAgree'
    <2>1. events' = (events \ {}) \cup {id} /\ Indexed(id, relay, {})
      BY <1>1 DEF Repeats
    <2> QED
      BY <1>0, <2>1, IndexedKeeps
  <1>5. StoreTypeOK'
    BY <1>0, <1>1, <1>2, <1>3, <1>4 DEF StoreTypeOK, IndexTypes
  <1>6. TombstoneExcludes' /\ Accounted' /\ LogTellsAll' /\ OneVersion'
    BY <1>0, <1>1, <1>2
       DEF TombstoneExcludes, Accounted, LogTellsAll, OneVersion
  <1>7. CoverageHonest' /\ AddrsJustified'
    BY <1>0, <1>1 DEF CoverageHonest, AddrsJustified
  <1>8. TombsJustified'
    BY <1>0, <1>1, <1>2, <1>3, JustifiedStays DEF StoreTypeOK
  <1>9. NoUnjustifiedLoss'
    BY <1>0, <1>1 DEF NoUnjustifiedLoss, Excused
  <1>10. DeletionKept'
    <2>1. \A i \in DOMAIN tombstones :
             /\ i \in DOMAIN tombstones'
             /\ tombstones'[i].deleted_at \in Nat
             /\ tombstones'[i].deleted_at >= tombstones[i].deleted_at
      BY <1>0, <1>2 DEF StoreTypeOK, Tombs
    <2>2. \A ad \in DOMAIN addr_tombstones :
             /\ addr_tombstones'[ad].deleted_at \in Nat
             /\ addr_tombstones'[ad].deleted_at >= addr_tombstones[ad].deleted_at
      BY <1>0, <1>1 DEF StoreTypeOK, Tombs
    <2> QED
      BY <1>1, <1>3, <2>1, <2>2, DeletionKeptStays
  <1>11. DeletionSticks'
    BY <1>1, <1>3, <1>5, <1>6, <1>10, DeletionSticksStays DEF StoreTypeOK
  <1> QED
    BY <1>4, <1>5, <1>6, <1>7, <1>8, <1>9, <1>10, <1>11 DEF StoreInv


\* What every stored event brings with it, whatever it removes.
LEMMA StoresKeeps ==
    ASSUME StoreInv, NEW id \in Ids, NEW relay \in RelayUrls,
           NEW gone \in SUBSET events, Stores(id, relay, gone)
    PROVE  /\ IndexTypes' /\ IndexesAgree' /\ Accounted' /\ LogTellsAll'
           /\ CoverageHonest'
           /\ events' \subseteq Ids /\ delivered' \subseteq Ids
           /\ mirror' \subseteq Ids /\ retired' \subseteq Ids
           /\ purged' \subseteq Ids
           /\ coverage' \in [Shapes \X RelayUrls -> Nat] /\ now' \in Nat
           /\ forgotten' \in [Shapes \X RelayUrls -> SUBSET Ids]
  <1>0. /\ StoreTypeOK /\ IndexesAgree /\ Accounted
        /\ LogTellsAll /\ CoverageHonest
    BY DEF StoreInv
  <1>1. /\ id \notin events
        /\ delivered' = delivered \cup {id}
        /\ events' = (events \ gone) \cup {id}
        /\ mirror' = (mirror \ gone) \cup {id}
        /\ retired' = retired \ {id} /\ purged' = purged \ {id}
        /\ coverage' = coverage /\ now' = now /\ forgotten' = forgotten
    BY DEF Stores
  <1>2. IndexTypes' /\ IndexesAgree'
    BY <1>0, <1>1, IndexedKeeps DEF Stores
  <1>3. Accounted' /\ LogTellsAll'
    BY <1>0, <1>1 DEF Accounted, LogTellsAll
  <1>4. CoverageHonest'
    BY <1>0, <1>1 DEF CoverageHonest
  <1> QED
    BY <1>0, <1>1, <1>2, <1>3, <1>4 DEF StoreTypeOK

\* The insert of a kind:5 keeps the invariant.
LEMMA DeletionKeeps ==
    ASSUME StoreInv, NEW id \in Ids, NEW relay \in RelayUrls,
           NEW gone, Stores(id, relay, gone), Deletes(id, gone)
    PROVE  StoreInv'
  <1> DEFINE k5   == Event[id]
             byA  == AddressTargets(k5) \ EventTargets(k5)
             keys == EventTombs(k5) \cup byA
             ads  == {ad \in k5.a : ad[2] = k5.author}
             row  == Row(k5.author, k5.at, "Kind5")
             kept == Without(tombstones, {id})
  <1>0. /\ StoreTypeOK /\ TombstoneExcludes /\ IndexesAgree /\ Accounted
        /\ LogTellsAll /\ TombsJustified /\ AddrsJustified
        /\ NoUnjustifiedLoss /\ OneVersion /\ CoverageHonest
        /\ DeletionKept /\ DeletionSticks
    BY DEF StoreInv
  <1>1. /\ id \notin events
        /\ ~Applies(id) /\ ~AddressTombstoned(k5)
        /\ delivered' = delivered \cup {id}
        /\ events' = (events \ gone) \cup {id}
        /\ retired' = retired \ {id} /\ purged' = purged \ {id}
        /\ now' = now /\ now \in Nat
    BY <1>0 DEF Stores, StoreTypeOK
  <1>2. /\ k5.kind = "delete" /\ k5.at \in Nat /\ k5.author \in Authors
        /\ k5.e \subseteq Ids /\ k5.a \subseteq Addresses /\ id \notin k5.e
    BY EventFacts DEF Deletes
  <1>3. /\ gone = EventTargets(k5) \cup byA
        /\ gone \in SUBSET events
        /\ keys \subseteq k5.e \cup byA
        /\ keys \cap events \subseteq gone
        /\ id \notin keys /\ keys \subseteq Ids
    BY <1>0, <1>1, <1>2
       DEF Deletes, EventTargets, AddressTargets, EventTombs, StoreTypeOK
  <1>4. \A i \in gone : OwnDeletion(id, i)
    BY <1>2, <1>3 DEF EventTargets, AddressTargets, OwnDeletion, NamesAddress
  <1>5. row \in Tombs /\ row.deleted_at = k5.at /\ row.deleter = k5.author
        /\ row.origin = "Kind5"
    BY <1>2 DEF Row, Tombs
  <1>6. /\ DOMAIN kept = DOMAIN tombstones \ {id}
        /\ \A i \in DOMAIN tombstones \ {id} : kept[i] = tombstones[i]
        /\ \A i \in DOMAIN kept : kept[i] \in Tombs
    <2>1. /\ DOMAIN kept = DOMAIN tombstones \ {id}
          /\ \A i \in DOMAIN tombstones \ {id} : kept[i] = tombstones[i]
      BY WithoutFacts
    <2> HIDE DEF kept
    <2> QED
      BY <1>0, <2>1 DEF StoreTypeOK
  <1> HIDE DEF kept, row
  <1>7. /\ DOMAIN tombstones' = DOMAIN kept \cup keys
        /\ \A i \in DOMAIN tombstones' :
              /\ tombstones'[i] \in Tombs
              /\ i \notin DOMAIN kept => tombstones'[i] = row
              /\ i \in DOMAIN kept =>
                    /\ tombstones'[i].deleter = kept[i].deleter
                    /\ tombstones'[i].origin = kept[i].origin
                    /\ tombstones'[i].deleted_at >= kept[i].deleted_at
              /\ i \in keys => tombstones'[i].deleted_at >= row.deleted_at
    <2>1. tombstones' = MergeTombstone(kept, keys, row)
      BY DEF Deletes, kept, row
    <2> HIDE DEF keys
    <2>2. LET m == MergeTombstone(kept, keys, row)
         IN  /\ DOMAIN m = DOMAIN kept \cup keys
             /\ \A k \in DOMAIN m :
                   /\ m[k] \in Tombs
                   /\ k \notin DOMAIN kept => m[k] = row
                   /\ k \in DOMAIN kept =>
                         /\ m[k].deleter = kept[k].deleter
                         /\ m[k].origin = kept[k].origin
                         /\ m[k].deleted_at >= kept[k].deleted_at
                         /\ m[k].deleted_at = kept[k].deleted_at
                               \/ (k \in keys
                                    /\ m[k].deleted_at = row.deleted_at)
                   /\ k \in keys => m[k].deleted_at >= row.deleted_at
      BY <1>5, <1>6, MergeFacts
    <2> QED
      BY <2>1, <2>2
  <1>8. /\ DOMAIN addr_tombstones' = DOMAIN addr_tombstones \cup ads
        /\ \A ad \in DOMAIN addr_tombstones' :
              /\ addr_tombstones'[ad] \in Tombs
              /\ ad \notin DOMAIN addr_tombstones => addr_tombstones'[ad] = row
              /\ ad \in DOMAIN addr_tombstones =>
                    /\ addr_tombstones'[ad].deleted_at
                          >= addr_tombstones[ad].deleted_at
                    /\ addr_tombstones'[ad].deleted_at
                             = addr_tombstones[ad].deleted_at
                          \/ (ad \in ads /\ addr_tombstones'[ad].deleted_at
                                               = row.deleted_at)
              /\ ad \in ads => addr_tombstones'[ad].deleted_at >= row.deleted_at
    <2>1. addr_tombstones' = MergeTombstone(addr_tombstones, ads, row)
      BY DEF Deletes, row
    <2>2. \A ad \in DOMAIN addr_tombstones : addr_tombstones[ad] \in Tombs
      BY <1>0 DEF StoreTypeOK
    <2> HIDE DEF ads
    <2>3. LET m == MergeTombstone(addr_tombstones, ads, row)
         IN  /\ DOMAIN m = DOMAIN addr_tombstones \cup ads
             /\ \A k \in DOMAIN m :
                   /\ m[k] \in Tombs
                   /\ k \notin DOMAIN addr_tombstones => m[k] = row
                   /\ k \in DOMAIN addr_tombstones =>
                         /\ m[k].deleter = addr_tombstones[k].deleter
                         /\ m[k].origin = addr_tombstones[k].origin
                         /\ m[k].deleted_at >= addr_tombstones[k].deleted_at
                         /\ m[k].deleted_at = addr_tombstones[k].deleted_at
                               \/ (k \in ads
                                    /\ m[k].deleted_at = row.deleted_at)
                   /\ k \in ads => m[k].deleted_at >= row.deleted_at
      BY <1>5, <2>2, MergeFacts
    <2> QED
      BY <2>1, <2>3
  <1>9. /\ IndexTypes' /\ IndexesAgree' /\ Accounted' /\ LogTellsAll'
        /\ CoverageHonest'
        /\ events' \subseteq Ids /\ delivered' \subseteq Ids
        /\ mirror' \subseteq Ids /\ retired' \subseteq Ids
        /\ purged' \subseteq Ids
        /\ coverage' \in [Shapes \X RelayUrls -> Nat] /\ now' \in Nat
        /\ forgotten' \in [Shapes \X RelayUrls -> SUBSET Ids]
    BY <1>3, StoresKeeps
  <1>10. StoreTypeOK'
    <2>1. DOMAIN tombstones' \subseteq Ids
      BY <1>0, <1>3, <1>6, <1>7 DEF StoreTypeOK
    <2>2. DOMAIN addr_tombstones' \subseteq Addresses
      BY <1>0, <1>2, <1>8 DEF StoreTypeOK
    <2> QED
      BY <1>7, <1>8, <1>9, <2>1, <2>2 DEF StoreTypeOK, IndexTypes
  <1>11. TombstoneExcludes'
    BY <1>0, <1>1, <1>3, <1>6, <1>7 DEF TombstoneExcludes
  <1>12. OneVersion'
    <2>1. \A i \in events' \ {id} : i \in events
      BY <1>1
    <2> QED
      BY <1>0, <1>2, <2>1 DEF OneVersion, Newer, Later
  <1>13. TombsJustified'
    <2> SUFFICES ASSUME NEW i \in DOMAIN tombstones'
                 PROVE  /\ tombstones'[i].origin = "NIP40Expiry"
                              => ExpiredAt(i, now')
                        /\ tombstones'[i].origin = "Kind5" =>
                              \E k \in delivered' :
                                 /\ Event[k].kind = "delete"
                                 /\ Event[k].author = tombstones'[i].deleter
                                 /\ i \in Event[k].e \/ OwnDeletion(k, i)
      BY DEF TombsJustified
    <2>1. CASE i \in DOMAIN kept
      <3>1. /\ i \in DOMAIN tombstones
            /\ tombstones'[i].deleter = tombstones[i].deleter
            /\ tombstones'[i].origin = tombstones[i].origin
        BY <1>6, <1>7, <2>1
      <3> QED
        BY <1>0, <1>1, <3>1 DEF TombsJustified
    <2>2. CASE i \notin DOMAIN kept
      <3>1. i \in keys /\ tombstones'[i] = row
        BY <1>7, <2>2
      <3>2. i \in k5.e \/ OwnDeletion(id, i)
        BY <1>3, <1>4, <3>1
      <3> QED
        BY <1>1, <1>2, <1>5, <3>1, <3>2
    <2> QED
      BY <2>1, <2>2
  <1>14. AddrsJustified'
    <2> SUFFICES ASSUME NEW ad \in DOMAIN addr_tombstones'
                 PROVE  \E k \in delivered' :
                           /\ Event[k].kind = "delete"
                           /\ Event[k].author = ad[2]
                           /\ ad \in Event[k].a
                           /\ Event[k].at = addr_tombstones'[ad].deleted_at
      BY DEF AddrsJustified
    <2>1. CASE ad \in ads /\ addr_tombstones'[ad].deleted_at = row.deleted_at
      BY <1>1, <1>2, <1>5, <2>1
    <2>2. CASE /\ ad \in DOMAIN addr_tombstones
               /\ addr_tombstones'[ad].deleted_at = addr_tombstones[ad].deleted_at
      BY <1>0, <1>1, <2>2 DEF AddrsJustified
    <2> QED
      BY <1>8, <2>1, <2>2
  <1>15. NoUnjustifiedLoss'
    <2> SUFFICES ASSUME NEW i \in delivered' \ events' PROVE Excused(i)'
      BY DEF NoUnjustifiedLoss
    <2>1. CASE i \in gone
      BY <1>1, <1>4, <2>1 DEF Excused
    <2>2. CASE i \notin gone
      <3>1. i \in Ids /\ i # id /\ Excused(i)
        BY <1>0, <1>1, <1>9, <2>2 DEF NoUnjustifiedLoss
      <3> QED
        BY <1>1, <3>1, ExcusedStays
    <2> QED
      BY <2>1, <2>2
  <1>16. DeletionKept'
    <2>1. ASSUME NEW i \in DOMAIN tombstones, Applies(i)
          PROVE  /\ i \in DOMAIN tombstones'
                 /\ tombstones'[i].deleted_at \in Nat
                 /\ tombstones'[i].deleted_at >= tombstones[i].deleted_at
      <3>1. i \in DOMAIN kept /\ kept[i] = tombstones[i]
        BY <1>1, <1>6, <2>1
      <3> QED
        BY <1>7, <3>1 DEF Tombs
    <2>2. ASSUME NEW ad \in DOMAIN addr_tombstones
          PROVE  /\ ad \in DOMAIN addr_tombstones'
                 /\ addr_tombstones'[ad].deleted_at \in Nat
                 /\ addr_tombstones'[ad].deleted_at
                       >= addr_tombstones[ad].deleted_at
      BY <1>8 DEF Tombs
    <2>3. ASSUME NEW k \in delivered' \ delivered, NEW i \in Ids, Withdrawn(i, k)'
          PROVE  /\ i \in Event[k].e =>
                       /\ i \in DOMAIN tombstones'
                       /\ tombstones'[i].deleted_at >= Event[k].at
                 /\ Event[i].kind = "addressable" /\ NamesAddress(k, i) =>
                       /\ AddressOf(Event[i]) \in DOMAIN addr_tombstones'
                       /\ addr_tombstones'[AddressOf(Event[i])].deleted_at
                             >= Event[k].at
      <3>1. k = id /\ Event[i].author = k5.author
        BY <1>1, <2>3 DEF Withdrawn, OwnDeletion
      <3>2. ASSUME i \in k5.e
            PROVE  /\ i \in DOMAIN tombstones'
                   /\ tombstones'[i].deleted_at >= k5.at
        <4>1. i \in keys
          BY <3>1, <3>2 DEF EventTombs, EventTargets
        <4> QED
          BY <1>5, <1>7, <4>1
      <3>3. ASSUME Event[i].kind = "addressable", NamesAddress(id, i)
            PROVE  /\ AddressOf(Event[i]) \in DOMAIN addr_tombstones'
                   /\ addr_tombstones'[AddressOf(Event[i])].deleted_at >= k5.at
        <4>1. PICK ad \in k5.a : /\ ad[1] = Event[i].kind
                                 /\ ad[2] = Event[i].author
                                 /\ ad[3] = Event[i].d
          BY <3>3 DEF NamesAddress
        <4>2. ad \in Addresses
          BY <1>2
        <4>3. ad = AddressOf(Event[i])
          BY <4>1, <4>2 DEF Addresses, AddressOf
        <4>4. ad \in ads
          BY <3>1, <4>1
        <4> QED
          BY <1>5, <1>8, <4>3, <4>4
      <3> QED
        BY <3>1, <3>2, <3>3
    <2> QED
      BY <1>1, <1>9, <2>1, <2>2, <2>3, DeletionKeptStays
  <1>17. DeletionSticks'
    <2>1. \A i \in events' \ events : ~AddressTombstoned(Event[i])
      BY <1>1
    <2>2. ASSUME NEW i \in events', NEW k \in delivered' \ delivered,
                 Event[i].kind = "addressable", Withdrawn(i, k)',
                 NamesAddress(k, i)
          PROVE  FALSE
      <3>1. k = id /\ Event[i].author = k5.author
        BY <1>1, <2>2 DEF Withdrawn, OwnDeletion
      <3>2. i \in events \ gone
        BY <1>1, <1>2, <2>2
      <3>3. i \in AddressTargets(k5)
        BY <2>2, <3>1, <3>2 DEF AddressTargets, NamesAddress
      <3> QED
        BY <1>3, <3>2, <3>3
    <2> QED
      BY <1>1, <1>9, <1>11, <1>16, <2>1, <2>2, DeletionSticksStays
  <1> QED
    BY <1>9, <1>10, <1>11, <1>12, <1>13, <1>14, <1>15, <1>16, <1>17 DEF StoreInv


\* The insert of any other event keeps the invariant.
LEMMA ReplacementKeeps ==
    ASSUME StoreInv, NEW id \in Ids, NEW relay \in RelayUrls,
           NEW gone, Stores(id, relay, gone), Replaces(id, gone)
    PROVE  StoreInv'
  <1> DEFINE ev == Event[id]
  <1>0. /\ StoreTypeOK /\ TombstoneExcludes /\ IndexesAgree /\ Accounted
        /\ LogTellsAll /\ TombsJustified /\ AddrsJustified
        /\ NoUnjustifiedLoss /\ OneVersion /\ CoverageHonest
        /\ DeletionKept /\ DeletionSticks
    BY DEF StoreInv
  <1>1. /\ id \notin events
        /\ ~Applies(id) /\ ~AddressTombstoned(ev)
        /\ delivered' = delivered \cup {id}
        /\ events' = (events \ gone) \cup {id}
        /\ retired' = retired \ {id} /\ purged' = purged \ {id}
        /\ now' = now /\ now \in Nat
        /\ addr_tombstones' = addr_tombstones
        /\ ev.kind # "delete"
    BY <1>0 DEF Stores, StoreTypeOK, Replaces
  <1>2. /\ gone \in SUBSET events
        /\ \A j \in gone : Displaces(id, j)
    <2>1. CASE gone = {}
      BY <2>1
    <2>2. ASSUME NEW head \in Heads(ev), gone = {head}, Beats(id, head),
                 ev.kind \in {"replaceable", "addressable"}
          PROVE  head \in events /\ Displaces(id, head)
      <3>1. head \in Rivals(ev) /\ head # id
        BY <1>1 DEF Heads, Rivals
      <3> QED
        BY <1>0, <2>2, <3>1, RivalFacts
    <2> QED
      BY <2>1, <2>2 DEF Replaces
  <1>3. /\ DOMAIN tombstones' = DOMAIN tombstones \ {id}
        /\ \A i \in DOMAIN tombstones \ {id} : tombstones'[i] = tombstones[i]
    <2>1. tombstones' = Without(tombstones, {id})
      BY DEF Replaces
    <2> QED
      BY <2>1, WithoutFacts
  <1>4. /\ IndexTypes' /\ IndexesAgree' /\ Accounted' /\ LogTellsAll'
        /\ CoverageHonest'
        /\ events' \subseteq Ids /\ delivered' \subseteq Ids
        /\ mirror' \subseteq Ids /\ retired' \subseteq Ids
        /\ purged' \subseteq Ids
        /\ coverage' \in [Shapes \X RelayUrls -> Nat] /\ now' \in Nat
        /\ forgotten' \in [Shapes \X RelayUrls -> SUBSET Ids]
    BY <1>2, StoresKeeps
  <1>5. StoreTypeOK'
    BY <1>0, <1>1, <1>3, <1>4 DEF StoreTypeOK, IndexTypes
  <1>6. TombstoneExcludes'
    BY <1>0, <1>1, <1>3 DEF TombstoneExcludes
  <1>7. TombsJustified' /\ AddrsJustified'
    <2>1. TombsJustified'
      BY <1>0, <1>1, <1>3, JustifiedStays DEF StoreTypeOK
    <2> QED
      BY <1>0, <1>1, <2>1 DEF AddrsJustified
  <1>8. OneVersion'
    <2>1. ASSUME NEW i \in events \ gone, Newer(i, id) \/ Newer(id, i)
          PROVE  FALSE
      <3>0. i \in Ids /\ i # id
        BY <1>0, <1>1 DEF StoreTypeOK
      <3>1. /\ ev.kind \in {"replaceable", "addressable"}
            /\ Event[i].kind = ev.kind /\ Event[i].author = ev.author
            /\ ev.kind = "addressable" => ev.d # NoD /\ Event[i].d = ev.d
        BY <2>1 DEF Newer, Later
      <3>2. i \in Rivals(ev)
        BY <2>1, <3>1 DEF Rivals
      <3>3. ASSUME NEW k \in Rivals(ev), k # i PROVE FALSE
        <4>1. /\ k \in events /\ k \in Ids
              /\ Event[k].author = ev.author /\ Event[k].kind = ev.kind
              /\ ev.kind = "addressable" => Event[k].d = ev.d
          BY <1>0, <3>1, <3>3 DEF Rivals, StoreTypeOK
        <4>2. /\ Event[k].at \in Nat /\ Event[i].at \in Nat
              /\ k \in Nat /\ i \in Nat
          BY <3>0, <4>1, EventFacts
        <4>3. Newer(k, i) \/ Newer(i, k)
          BY <3>1, <3>3, <4>1, <4>2 DEF Newer, Later
        <4> QED
          BY <1>0, <4>1, <4>3 DEF OneVersion
      <3>4. Rivals(ev) = {i}
        BY <3>2, <3>3
      <3>5. Heads(ev) = {i}
        BY <3>4 DEF Heads
      <3> QED
        BY <2>1, <3>1, <3>5 DEF Replaces
    <2>2. ~Newer(id, id)
      BY EventFacts DEF Newer, Later
    <2> QED
      BY <1>0, <1>1, <2>1, <2>2 DEF OneVersion
  <1>9. NoUnjustifiedLoss'
    <2> SUFFICES ASSUME NEW i \in delivered' \ events' PROVE Excused(i)'
      BY DEF NoUnjustifiedLoss
    <2>1. CASE i \in gone
      BY <1>1, <1>2, <2>1 DEF Excused
    <2>2. CASE i \notin gone
      <3>1. i \in Ids /\ i # id /\ Excused(i)
        BY <1>0, <1>1, <1>4, <2>2 DEF NoUnjustifiedLoss
      <3> QED
        BY <1>1, <3>1, ExcusedStays
    <2> QED
      BY <2>1, <2>2
  <1>10. \A k \in delivered' \ delivered, i \in Ids : ~Withdrawn(i, k)'
    BY <1>1 DEF Withdrawn, OwnDeletion
  <1>11. DeletionKept'
    <2>1. ASSUME NEW i \in DOMAIN tombstones, Applies(i)
          PROVE  /\ i \in DOMAIN tombstones'
                 /\ tombstones'[i].deleted_at \in Nat
                 /\ tombstones'[i].deleted_at >= tombstones[i].deleted_at
      BY <1>0, <1>1, <1>3, <2>1 DEF StoreTypeOK, Tombs
    <2>2. \A ad \in DOMAIN addr_tombstones :
             /\ addr_tombstones'[ad].deleted_at \in Nat
             /\ addr_tombstones'[ad].deleted_at >= addr_tombstones[ad].deleted_at
      BY <1>0, <1>1 DEF StoreTypeOK, Tombs
    <2> QED
      BY <1>1, <1>4, <1>10, <2>1, <2>2, DeletionKeptStays
  <1>12. DeletionSticks'
    <2>1. \A i \in events' \ events : ~AddressTombstoned(Event[i])
      BY <1>1
    <2> QED
      BY <1>1, <1>4, <1>6, <1>10, <1>11, <2>1, DeletionSticksStays
  <1> QED
    BY <1>4, <1>5, <1>6, <1>7, <1>8, <1>9, <1>11, <1>12 DEF StoreInv


\* Reads, coverage rows and the clock: the content stays, time may pass.
LEMMA QuietKeeps ==
    ASSUME StoreInv,
           UNCHANGED <<events, tombstones, addr_tombstones, delivered, mirror,
                       retired, purged>>,
           now' \in Nat, now' >= now, IndexTypes', IndexesAgree',
           coverage' \in [Shapes \X RelayUrls -> Nat],
           forgotten' \in [Shapes \X RelayUrls -> SUBSET Ids], CoverageHonest'
    PROVE  StoreInv'
  <1>0. /\ StoreTypeOK /\ TombstoneExcludes /\ Accounted
        /\ LogTellsAll /\ TombsJustified /\ AddrsJustified
        /\ NoUnjustifiedLoss /\ OneVersion /\ DeletionKept /\ DeletionSticks
        /\ now \in Nat
    BY DEF StoreInv, StoreTypeOK
  <1>1. /\ delivered' = delivered /\ events' = events
        /\ tombstones' = tombstones /\ addr_tombstones' = addr_tombstones
        /\ retired' = retired /\ purged' = purged /\ mirror' = mirror
    OBVIOUS
  <1>2. StoreTypeOK'
    BY <1>0, <1>1 DEF StoreTypeOK, IndexTypes
  <1>3. TombstoneExcludes' /\ Accounted' /\ LogTellsAll' /\ OneVersion'
        /\ AddrsJustified'
    BY <1>0, <1>1
       DEF TombstoneExcludes, Accounted, LogTellsAll, OneVersion, AddrsJustified
  <1>4. TombsJustified'
    BY <1>0, <1>1, JustifiedStays DEF StoreTypeOK
  <1>5. NoUnjustifiedLoss'
    <2> SUFFICES ASSUME NEW i \in delivered' \ events' PROVE Excused(i)'
      BY DEF NoUnjustifiedLoss
    <2>1. i \in Ids /\ Excused(i)
      BY <1>0, <1>1 DEF NoUnjustifiedLoss, StoreTypeOK
    <2> QED
      BY <1>0, <1>1, <2>1, ExcusedStays
  <1>6. DeletionKept'
    <2>1. /\ \A i \in DOMAIN tombstones :
                /\ tombstones'[i].deleted_at \in Nat
                /\ tombstones'[i].deleted_at >= tombstones[i].deleted_at
          /\ \A ad \in DOMAIN addr_tombstones :
                /\ addr_tombstones'[ad].deleted_at \in Nat
                /\ addr_tombstones'[ad].deleted_at >= addr_tombstones[ad].deleted_at
      BY <1>0, <1>1 DEF StoreTypeOK, Tombs
    <2> QED
      BY <1>0, <1>1, <2>1, DeletionKeptStays DEF StoreTypeOK
  <1>7. DeletionSticks'
    BY <1>0, <1>1, <1>3, <1>6, DeletionSticksStays DEF StoreTypeOK
  <1> QED
    BY <1>2, <1>3, <1>4, <1>5, <1>6, <1>7 DEF StoreInv

\* A read changes only the order of last use.
LEMMA GetKeeps ==
    ASSUME StoreInv, NEW id \in Ids, Get(id)
    PROVE  StoreInv'
  <1>0. StoreTypeOK /\ IndexesAgree /\ CoverageHonest
    BY DEF StoreInv
  <1>1. /\ id \in events
        /\ access_index' = AccessRemoved({id}) \cup Stamped(id, events)
        /\ mirror' = mirror
        /\ UNCHANGED <<events, tombstones, addr_tombstones, provenance,
                       relay_index, coverage, now, delivered, retired, purged,
                       forgotten>>
    BY AppendedFacts DEF Get
  <1>2. \A i, j : <<i, j>> \in access_index' <=>
           \/ <<i, j>> \in access_index /\ i # id /\ j # id
           \/ j = id /\ i \in events
    <2>1. \A i, j : <<i, j>> \in AccessRemoved({id}) <=>
             <<i, j>> \in access_index /\ i # id /\ j # id
      BY DEF AccessRemoved
    <2>2. \A i, j : <<i, j>> \in Stamped(id, events) <=> j = id /\ i \in events
      BY <1>1 DEF Stamped
    <2> QED
      BY <1>1, <2>1, <2>2
  <1>3. access_index' \subseteq events \X events
    BY <1>0, <1>1 DEF AccessRemoved, Stamped, IndexesAgree
  <1>4. ASSUME NEW i \in events, NEW j \in events
        PROVE  /\ <<i, j>> \in access_index' \/ <<j, i>> \in access_index'
               /\ <<i, j>> \in access_index' /\ <<j, i>> \in access_index'
                     => i = j
    <2>1. /\ <<i, j>> \in access_index \/ <<j, i>> \in access_index
          /\ <<i, j>> \in access_index /\ <<j, i>> \in access_index => i = j
      BY <1>0 DEF IndexesAgree
    <2>2. /\ <<i, j>> \in access_index' <=>
                \/ <<i, j>> \in access_index /\ i # id /\ j # id
                \/ j = id
          /\ <<j, i>> \in access_index' <=>
                \/ <<j, i>> \in access_index /\ j # id /\ i # id
                \/ i = id
      BY <1>2
    <2> QED
      BY <2>1, <2>2
  <1>5. IndexesAgree'
    BY <1>0, <1>1, <1>3, <1>4 DEF IndexesAgree
  <1>6. IndexTypes'
    BY <1>0, <1>1, <1>3 DEF StoreTypeOK, IndexTypes
  <1>7. CoverageHonest'
    BY <1>0, <1>1 DEF CoverageHonest
  <1> QED
    BY <1>0, <1>1, <1>5, <1>6, <1>7, QuietKeeps DEF StoreTypeOK

\* A recorded row starts afresh: nothing was evicted since.
LEMMA CoverageKeeps ==
    ASSUME StoreInv, NEW s \in Shapes, NEW relay \in RelayUrls,
           RecordCoverage(s, relay)
    PROVE  StoreInv'
  <1>0. StoreTypeOK /\ IndexesAgree /\ CoverageHonest
    BY DEF StoreInv
  <1>1. /\ coverage' = [coverage EXCEPT ![<<s, relay>>] = now]
        /\ forgotten' = [forgotten EXCEPT ![<<s, relay>>] = {}]
        /\ mirror' = mirror
        /\ UNCHANGED <<events, tombstones, addr_tombstones, provenance,
                       relay_index, access_index, now, delivered, retired,
                       purged>>
    BY AppendedFacts DEF RecordCoverage
  <1>2. IndexTypes' /\ IndexesAgree'
    BY <1>0, <1>1 DEF StoreTypeOK, IndexTypes, IndexesAgree
  <1>3. /\ coverage' \in [Shapes \X RelayUrls -> Nat]
        /\ forgotten' \in [Shapes \X RelayUrls -> SUBSET Ids]
    BY <1>0, <1>1 DEF StoreTypeOK
  <1>4. CoverageHonest'
    <2> SUFFICES ASSUME NEW t \in Shapes, NEW r \in RelayUrls,
                        NEW i \in forgotten'[<<t, r>>],
                        coverage'[<<t, r>>] > 0
                 PROVE  Event[i].at > coverage'[<<t, r>>]
      BY DEF CoverageHonest
    <2>1. <<t, r>> # <<s, relay>>
      BY <1>0, <1>1 DEF StoreTypeOK
    <2>2. /\ coverage'[<<t, r>>] = coverage[<<t, r>>]
          /\ forgotten'[<<t, r>>] = forgotten[<<t, r>>]
      BY <1>0, <1>1, <2>1 DEF StoreTypeOK
    <2> QED
      BY <1>0, <2>2 DEF CoverageHonest
  <1> QED
    BY <1>0, <1>1, <1>2, <1>3, <1>4, QuietKeeps DEF StoreTypeOK

\* Time only lets events expire and deletions grow old.
LEMMA TickKeeps ==
    ASSUME StoreInv, Tick \/ UNCHANGED vars
    PROVE  StoreInv'
  <1>0. StoreTypeOK /\ IndexesAgree /\ CoverageHonest
    BY DEF StoreInv
  <1>1. /\ now' \in Nat /\ now' >= now
        /\ mirror' = mirror
        /\ UNCHANGED <<events, tombstones, addr_tombstones, provenance,
                       relay_index, access_index, coverage, delivered, retired,
                       purged, forgotten>>
    BY <1>0, AppendedFacts DEF Tick, vars, StoreTypeOK
  <1>2. IndexTypes' /\ IndexesAgree' /\ CoverageHonest'
    BY <1>0, <1>1 DEF StoreTypeOK, IndexTypes, IndexesAgree, CoverageHonest
  <1> QED
    BY <1>0, <1>1, <1>2, QuietKeeps DEF StoreTypeOK

\* What the host purges, with or without an entry in the log.
LEMMA PurgeKeeps ==
    ASSUME StoreInv, NEW gone \in SUBSET events,
           events' = events \ gone, Unindexed(gone),
           \/ /\ mirror' = mirror \ gone /\ retired' = retired
              /\ purged' = purged \cup gone
           \/ /\ mirror' = mirror /\ retired' = retired \cup gone
              /\ purged' = purged,
           UNCHANGED <<tombstones, addr_tombstones, coverage, now, delivered,
                       forgotten>>
    PROVE  StoreInv'
  <1>0. /\ StoreTypeOK /\ TombstoneExcludes /\ IndexesAgree /\ Accounted
        /\ LogTellsAll /\ TombsJustified /\ AddrsJustified
        /\ NoUnjustifiedLoss /\ OneVersion /\ CoverageHonest
        /\ DeletionKept /\ DeletionSticks /\ now \in Nat
    BY DEF StoreInv, StoreTypeOK
  <1>1. /\ delivered' = delivered /\ now' = now /\ coverage' = coverage
        /\ forgotten' = forgotten
        /\ tombstones' = tombstones /\ addr_tombstones' = addr_tombstones
        /\ events' \subseteq events
    OBVIOUS
  <1>2. IndexTypes' /\ IndexesAgree'
    BY <1>0, UnindexedKeeps
  <1>3. StoreTypeOK'
    BY <1>0, <1>1, <1>2 DEF StoreTypeOK, IndexTypes
  <1>4. TombstoneExcludes' /\ Accounted' /\ LogTellsAll'
    BY <1>0, <1>1 DEF TombstoneExcludes, Accounted, LogTellsAll
  <1>5. OneVersion' /\ AddrsJustified' /\ TombsJustified' /\ DeletionKept'
    BY <1>0, <1>1 DEF OneVersion, AddrsJustified, TombsJustified, DeletionKept,
                      Withdrawn, Stands
  <1>6. CoverageHonest'
    BY <1>0, <1>1 DEF CoverageHonest
  <1>7. NoUnjustifiedLoss'
    <2> SUFFICES ASSUME NEW i \in delivered' \ events' PROVE Excused(i)'
      BY DEF NoUnjustifiedLoss
    <2>1. CASE i \in gone
      BY <2>1 DEF Excused
    <2>2. CASE i \notin gone
      <3>1. i \in Ids /\ Excused(i)
        BY <1>0, <1>1, <2>2 DEF NoUnjustifiedLoss, StoreTypeOK
      <3> QED
        BY <1>0, <1>1, <3>1, ExcusedStays
    <2> QED
      BY <2>1, <2>2
  <1>8. DeletionSticks'
    BY <1>0, <1>1 DEF DeletionSticks, Withdrawn, Stands
  <1> QED
    BY <1>2, <1>3, <1>4, <1>5, <1>6, <1>7, <1>8 DEF StoreInv


\* A collection keeps the invariant.
LEMMA CollectionKeeps ==
    ASSUME StoreInv, NEW reaped \in SUBSET Expired,
           NEW evicted \in SUBSET (events \ reaped), NEW purge \in BOOLEAN,
           Collected(reaped, evicted, purge)
    PROVE  StoreInv'
  <1> DEFINE tombs == [i \in DOMAIN tombstones \cup reaped |->
                         IF i \in reaped THEN Row("none", now, "NIP40Expiry")
                         ELSE tombstones[i]]
             oldIds == IF purge THEN Stale(tombs) ELSE {}
             oldAds == IF purge THEN Stale(addr_tombstones) ELSE {}
  <1>0. /\ StoreTypeOK /\ TombstoneExcludes /\ IndexesAgree /\ Accounted
        /\ LogTellsAll /\ TombsJustified /\ AddrsJustified
        /\ NoUnjustifiedLoss /\ OneVersion /\ CoverageHonest
        /\ DeletionKept /\ DeletionSticks /\ now \in Nat
        /\ events \subseteq Ids
    BY DEF StoreInv, StoreTypeOK
  <1>1. /\ events' = events \ (reaped \cup evicted)
        /\ events' \subseteq events
        /\ retired' = retired \cup evicted
        /\ mirror' = mirror \ reaped
        /\ delivered' = delivered /\ now' = now /\ purged' = purged
        /\ Unindexed(reaped \cup evicted)
    BY AppendedFacts DEF Collected
  <1>2. /\ reaped \subseteq events /\ reaped \subseteq Ids
        /\ evicted \subseteq events /\ evicted \cap reaped = {}
        /\ \A i \in reaped : ExpiredAt(i, now)
        /\ reaped \cap DOMAIN tombstones = {}
    BY <1>0 DEF Expired, TombstoneExcludes
  <1>3. /\ DOMAIN tombs = DOMAIN tombstones \cup reaped
        /\ \A i \in reaped : tombs[i] = Row("none", now, "NIP40Expiry")
        /\ \A i \in DOMAIN tombstones : tombs[i] = tombstones[i]
    BY <1>2
  <1>4. Row("none", now, "NIP40Expiry") \in Tombs
    BY <1>0 DEF Row, Tombs
  <1> HIDE DEF tombs
  <1>5. /\ DOMAIN tombstones' = (DOMAIN tombstones \cup reaped) \ oldIds
        /\ \A i \in DOMAIN tombstones' : tombstones'[i] = tombs[i]
    <2>1. tombstones' = Without(tombs, oldIds)
      BY DEF Collected, tombs
    <2> HIDE DEF oldIds
    <2>2. /\ DOMAIN tombstones' = DOMAIN tombs \ oldIds
          /\ \A i \in DOMAIN tombs \ oldIds : tombstones'[i] = tombs[i]
      BY <2>1, WithoutFacts
    <2> QED
      BY <1>3, <2>2
  <1>6. /\ DOMAIN addr_tombstones' = DOMAIN addr_tombstones \ oldAds
        /\ \A ad \in DOMAIN addr_tombstones' :
              addr_tombstones'[ad] = addr_tombstones[ad]
    <2>1. addr_tombstones' = Without(addr_tombstones, oldAds)
      BY DEF Collected
    <2> HIDE DEF oldAds
    <2>2. /\ DOMAIN addr_tombstones' = DOMAIN addr_tombstones \ oldAds
          /\ \A ad \in DOMAIN addr_tombstones \ oldAds :
                addr_tombstones'[ad] = addr_tombstones[ad]
      BY <2>1, WithoutFacts
    <2> QED
      BY <2>2
  <1>7. /\ \A i \in DOMAIN tombstones \cap oldIds :
              now - tombstones[i].deleted_at > TombstoneMaxAge
        /\ \A ad \in oldAds :
              now - addr_tombstones[ad].deleted_at > TombstoneMaxAge
    BY <1>3 DEF Stale
  <1> HIDE DEF oldIds, oldAds
  <1>8. IndexTypes' /\ IndexesAgree'
    BY <1>0, <1>1, <1>2, UnindexedKeeps
  <1>9. /\ coverage' \in [Shapes \X RelayUrls -> Nat]
        /\ \A s \in Shapes, r \in RelayUrls :
              coverage'[<<s, r>>] = Lowered(s, coverage[<<s, r>>], evicted)
    <2>1. coverage \in [Shapes \X RelayUrls -> Nat] /\ evicted \in SUBSET Ids
      BY <1>0, <1>2 DEF StoreTypeOK
    <2>2. coverage' = [k \in Shapes \X RelayUrls |->
                         Lowered(k[1], coverage[k], evicted)]
      BY <2>1 DEF Collected
    <2>3. ASSUME NEW k \in Shapes \X RelayUrls
          PROVE  Lowered(k[1], coverage[k], evicted) \in Nat
      <3>1. k[1] \in Shapes /\ coverage[k] \in Nat
        BY <2>1
      <3> QED
        BY <2>1, <3>1, LoweredFacts
    <2> QED
      BY <2>2, <2>3
  <1>9a. /\ forgotten' \in [Shapes \X RelayUrls -> SUBSET Ids]
         /\ \A s \in Shapes, r \in RelayUrls :
               forgotten'[<<s, r>>] \subseteq
                  forgotten[<<s, r>>] \cup (evicted \cap Matches[s])
    <2>1. /\ forgotten \in [Shapes \X RelayUrls -> SUBSET Ids]
          /\ evicted \in SUBSET Ids
      BY <1>0, <1>2 DEF StoreTypeOK
    <2>2. forgotten' = [k \in Shapes \X RelayUrls |->
                          IF coverage'[k] = 0 THEN {}
                          ELSE forgotten[k] \cup (evicted \cap Matches[k[1]])]
      BY <2>1 DEF Collected
    <2> QED
      BY <2>1, <2>2
  <1>10. StoreTypeOK'
    <2>1. /\ DOMAIN tombstones' \subseteq Ids
          /\ \A i \in DOMAIN tombstones' : tombstones'[i] \in Tombs
      <3>1. \A i \in DOMAIN tombstones : tombstones[i] \in Tombs /\ i \in Ids
        BY <1>0 DEF StoreTypeOK
      <3> QED
        BY <1>2, <1>3, <1>4, <1>5, <3>1
    <2>2. /\ DOMAIN addr_tombstones' \subseteq Addresses
          /\ \A ad \in DOMAIN addr_tombstones' : addr_tombstones'[ad] \in Tombs
      BY <1>0, <1>6 DEF StoreTypeOK
    <2>3. /\ events' \subseteq Ids /\ now' \in Nat /\ delivered' \subseteq Ids
          /\ mirror' \subseteq Ids /\ retired' \subseteq Ids
          /\ purged' \subseteq Ids
      BY <1>0, <1>1, <1>2 DEF StoreTypeOK
    <2> QED
      BY <1>8, <1>9, <1>9a, <2>1, <2>2, <2>3 DEF StoreTypeOK, IndexTypes
  <1>11. TombstoneExcludes'
    BY <1>0, <1>1, <1>2, <1>5 DEF TombstoneExcludes
  <1>12. Accounted' /\ LogTellsAll' /\ OneVersion'
    BY <1>0, <1>1, <1>2 DEF Accounted, LogTellsAll, OneVersion
  <1>13. TombsJustified'
    <2> SUFFICES ASSUME NEW i \in DOMAIN tombstones'
                 PROVE  /\ tombstones'[i].origin = "NIP40Expiry"
                              => ExpiredAt(i, now')
                        /\ tombstones'[i].origin = "Kind5" =>
                              \E k \in delivered' :
                                 /\ Event[k].kind = "delete"
                                 /\ Event[k].author = tombstones'[i].deleter
                                 /\ i \in Event[k].e \/ OwnDeletion(k, i)
      BY DEF TombsJustified
    <2>1. CASE i \in reaped
      <3>1. tombstones'[i].origin = "NIP40Expiry"
        BY <1>3, <1>5, <2>1 DEF Row
      <3> QED
        BY <1>1, <1>2, <2>1, <3>1
    <2>2. CASE i \notin reaped
      <3>1. i \in DOMAIN tombstones /\ tombstones'[i] = tombstones[i]
        BY <1>3, <1>5, <2>2
      <3> QED
        BY <1>0, <1>1, <3>1 DEF TombsJustified
    <2> QED
      BY <2>1, <2>2
  <1>14. AddrsJustified'
    BY <1>0, <1>1, <1>6 DEF AddrsJustified
  <1>15. NoUnjustifiedLoss'
    <2> SUFFICES ASSUME NEW i \in delivered' \ events' PROVE Excused(i)'
      BY DEF NoUnjustifiedLoss
    <2>1. CASE i \in reaped \cup evicted
      BY <1>1, <1>2, <2>1 DEF Excused
    <2>2. CASE i \notin reaped \cup evicted
      <3>1. i \in Ids /\ Excused(i)
        BY <1>0, <1>1, <2>2 DEF NoUnjustifiedLoss, StoreTypeOK
      <3> QED
        BY <1>0, <1>1, <3>1, ExcusedStays
    <2> QED
      BY <2>1, <2>2
  <1>16. CoverageHonest'
    <2> SUFFICES ASSUME NEW s \in Shapes, NEW r \in RelayUrls,
                        NEW i \in forgotten'[<<s, r>>],
                        coverage'[<<s, r>>] > 0
                 PROVE  Event[i].at > coverage'[<<s, r>>]
      BY DEF CoverageHonest
    <2> DEFINE old == coverage[<<s, r>>]
               new == coverage'[<<s, r>>]
    <2>1. /\ old \in Nat /\ new \in Nat /\ new <= old
          /\ \A j \in evicted \cap Matches[s] : new > 0 => Event[j].at > new
      <3>1. old \in Nat /\ evicted \in SUBSET Ids
        BY <1>0, <1>2 DEF StoreTypeOK
      <3> QED
        BY <1>9, <3>1, LoweredFacts
    <2>2. CASE i \in evicted \cap Matches[s]
      BY <2>1, <2>2
    <2>3. CASE i \notin evicted \cap Matches[s]
      <3>1. i \in forgotten[<<s, r>>] /\ i \in Ids /\ old > 0
        BY <1>0, <1>9a, <2>1, <2>3 DEF StoreTypeOK
      <3>2. Event[i].at > old /\ Event[i].at \in Nat
        BY <1>0, <3>1, EventFacts DEF CoverageHonest
      <3> HIDE DEF old, new
      <3>3. Event[i].at > new
        BY <2>1, <3>2
      <3> QED
        BY <3>3 DEF new
    <2> QED
      BY <2>2, <2>3
  <1>17. DeletionKept'
    <2>1. ASSUME NEW i \in DOMAIN tombstones,
                 now' - tombstones[i].deleted_at <= TombstoneMaxAge
          PROVE  /\ i \in DOMAIN tombstones'
                 /\ tombstones'[i].deleted_at \in Nat
                 /\ tombstones'[i].deleted_at >= tombstones[i].deleted_at
      <3>1. tombstones[i].deleted_at \in Nat /\ TombstoneMaxAge \in Nat
        BY <1>0, BudgetAssumption DEF StoreTypeOK, Tombs
      <3>2. i \notin oldIds
        BY <1>0, <1>1, <1>7, <2>1, <3>1
      <3> QED
        BY <1>3, <1>5, <3>1, <3>2
    <2>2. ASSUME NEW ad \in DOMAIN addr_tombstones,
                 now' - addr_tombstones[ad].deleted_at <= TombstoneMaxAge
          PROVE  /\ ad \in DOMAIN addr_tombstones'
                 /\ addr_tombstones'[ad].deleted_at \in Nat
                 /\ addr_tombstones'[ad].deleted_at
                       >= addr_tombstones[ad].deleted_at
      <3>1. addr_tombstones[ad].deleted_at \in Nat /\ TombstoneMaxAge \in Nat
        BY <1>0, BudgetAssumption DEF StoreTypeOK, Tombs
      <3>2. ad \notin oldAds
        BY <1>0, <1>1, <1>7, <2>2, <3>1
      <3> QED
        BY <1>6, <3>1, <3>2
    <2> QED
      BY <1>0, <1>1, <1>10, <2>1, <2>2, DeletionKeptStays DEF StoreTypeOK
  <1>18. DeletionSticks'
    BY <1>0, <1>1, <1>10, <1>11, <1>17, DeletionSticksStays DEF StoreTypeOK
  <1> QED
    BY <1>8, <1>10, <1>11, <1>12, <1>13, <1>14, <1>15, <1>16, <1>17, <1>18
       DEF StoreInv


-----------------------------------------------------------------------------
(* The theorems.                                                            *)

\* The empty store satisfies the invariant.
LEMMA InitEstablishes == Init => StoreInv
  <1> SUFFICES ASSUME Init PROVE StoreInv
    OBVIOUS
  <1>1. /\ DOMAIN tombstones = {} /\ DOMAIN addr_tombstones = {}
        /\ DOMAIN provenance = {} /\ events = {} /\ delivered = {}
        /\ mirror = {} /\ retired = {} /\ purged = {} /\ access_index = {}
        /\ relay_index = [r \in RelayUrls |-> {}] /\ now = 0
        /\ coverage = [k \in Shapes \X RelayUrls |-> 0]
        /\ forgotten = [k \in Shapes \X RelayUrls |-> {}]
    BY DEF Init
  <1>2. StoreTypeOK
    BY <1>1 DEF StoreTypeOK
  <1>3. TombstoneExcludes /\ IndexesAgree /\ Accounted /\ LogTellsAll
    BY <1>1 DEF TombstoneExcludes, IndexesAgree, Accounted, LogTellsAll
  <1>4. TombsJustified /\ AddrsJustified /\ NoUnjustifiedLoss /\ OneVersion
    BY <1>1 DEF TombsJustified, AddrsJustified, NoUnjustifiedLoss, OneVersion
  <1>5. CoverageHonest /\ DeletionKept /\ DeletionSticks
    BY <1>1 DEF CoverageHonest, DeletionKept, DeletionSticks
  <1> QED
    BY <1>2, <1>3, <1>4, <1>5 DEF StoreInv

\* Every call keeps the invariant.
LEMMA NextKeeps == StoreInv /\ [Next]_vars => StoreInv'
  <1> SUFFICES ASSUME StoreInv, [Next]_vars PROVE StoreInv'
    OBVIOUS
  <1>1. ASSUME NEW relay \in RelayUrls, NEW id \in Serves[relay],
               Insert(id, relay)
        PROVE  StoreInv'
    <2>1. id \in Ids
      BY ServesAssumption
    <2>2. \/ Refuses(id)
          \/ Repeats(id, relay)
          \/ \E gone : /\ Stores(id, relay, gone)
                       /\ Deletes(id, gone) \/ Replaces(id, gone)
      BY <1>1, <2>1, InsertCases
    <2> QED
      BY <2>1, <2>2, RefusalKeeps, RepeatKeeps, DeletionKeeps, ReplacementKeeps
  <1>2. ASSUME NEW gone \in SUBSET events, Purge(gone)
        PROVE  StoreInv'
    <2>1. mirror' = mirror \ gone
      BY <1>2, AppendedFacts DEF Purge
    <2> QED
      BY <1>2, <2>1, PurgeKeeps DEF Purge
  <1>3. ASSUME NEW relay \in RelayUrls, PurgeRelay(relay)
        PROVE  StoreInv'
    <2> DEFINE gone == SeenOnlyOn(relay)
    <2>1. gone \in SUBSET events
      BY DEF SeenOnlyOn
    <2>2. /\ events' = events \ gone /\ Unindexed(gone)
          /\ purged' = purged /\ retired' = retired \cup gone
          /\ mirror' = mirror
          /\ UNCHANGED <<tombstones, addr_tombstones, coverage, now, delivered,
                         forgotten>>
      BY <1>3, AppendedFacts DEF PurgeRelay
    <2> HIDE DEF gone
    <2> QED
      BY <2>1, <2>2, PurgeKeeps
  <1>4. ASSUME NEW pins \in PinSets, GcStep(pins)
        PROVE  StoreInv'
    BY <1>4, GcCases, CollectionKeeps
  <1>5. ASSUME NEW s \in Shapes, NEW relay \in AskedAt[s], RecordCoverage(s, relay)
        PROVE  StoreInv'
    BY <1>5, CoverageKeeps, ShapeAssumption
  <1> QED
    BY <1>1, <1>2, <1>3, <1>4, <1>5, GetKeeps, TickKeeps DEF Next

\* The invariant holds in every reachable state.
LEMMA StoreInvariant == Spec => []StoreInv
  BY InitEstablishes, NextKeeps, PTL DEF Spec

\* The store's maps hold what their Rust types say, and coverage rows never
\* go below zero (mem/mod.rs), for any events and any order of calls.
THEOREM StoreTypeCorrect == Spec => []StoreTypeOK
  <1>1. StoreInv => StoreTypeOK
    BY DEF StoreInv
  <1> QED
    BY <1>1, StoreInvariant, PTL

\* No id is ever both stored and tombstoned (insert.rs:72-89, gc.rs:73-92).
THEOREM TombstonesExclude == Spec => []TombstoneExcludes
  <1>1. StoreInv => TombstoneExcludes
    BY DEF StoreInv
  <1> QED
    BY <1>1, StoreInvariant, PTL

\* Every index lists exactly what is stored, and the access order is total,
\* after any mix of inserts, replacements, deletions, purges and collections
\* (mod.rs:95-107 and 161-173), the provenance cap included.
THEOREM IndexesAlwaysAgree == Spec => []IndexesAgree
  <1>1. StoreInv => IndexesAgree
    BY DEF StoreInv
  <1> QED
    BY <1>1, StoreInvariant, PTL

\* A delivered event is missing only for a reason its author or the host
\* gave, whatever strangers deliver and in whatever order (insert.rs:70-89,
\* insert_kind5.rs:52-55).
THEOREM LossIsJustified == Spec => []NoUnjustifiedLoss
  <1>1. StoreInv => NoUnjustifiedLoss
    BY DEF StoreInv
  <1> QED
    BY <1>1, StoreInvariant, PTL

\* The stored version of a coordinate is the newest delivered one that has no
\* excuse (handle_supersession, insert.rs:239-307).
THEOREM NewestIsKept == Spec => []HeadIsNewest
  <1>1. StoreInv => HeadIsNewest
    BY DEF StoreInv, HeadIsNewest, OneVersion, NoUnjustifiedLoss
  <1> QED
    BY <1>1, StoreInvariant, PTL

\* Replaying the ingest log gives the store plus what retention dropped
\* silently (ingest_log/mod.rs:34-37).
THEOREM LogIsComplete == Spec => []LogTellsAll
  <1>1. StoreInv => LogTellsAll
    BY DEF StoreInv
  <1> QED
    BY <1>1, StoreInvariant, PTL

\* No coverage row claims a second from which an event of its filter was
\* evicted since the row was recorded (lower_coverage_rows, gc.rs:47-52).
THEOREM CoverageIsHonest == Spec => []CoverageHonest
  <1>1. StoreInv => CoverageHonest
    BY DEF StoreInv
  <1> QED
    BY <1>1, StoreInvariant, PTL

\* An event its author deleted by a standing kind:5 is not in the store while
\* the tombstone is young, unless a stranger named the same id
\* (merge_tombstone, insert_kind5.rs:232-253).
THEOREM DeletionsStick == Spec => []DeletionSticks
  <1>1. StoreInv => DeletionSticks
    BY DEF StoreInv
  <1> QED
    BY <1>1, StoreInvariant, PTL
=============================================================================
