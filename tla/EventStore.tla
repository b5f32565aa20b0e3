----------------------------- MODULE EventStore -----------------------------
(***************************************************************************)
(* The event store of nmp-store (crates/nmp-store/src/mem), the in-memory   *)
(* backend that the LMDB one is written to agree with.                      *)
(*                                                                         *)
(* One action is one call of the EventStore trait: the store does all of it *)
(* under one mutex.  Relays deliver any event, any number of times, in any  *)
(* order; the host purges; the collector runs with whatever pins and budget *)
(* its caller has.                                                          *)
(*                                                                         *)
(* Data abstraction.  An event is its id, a number that stands for the hex  *)
(* id (so ids are ordered), with the fields the store reads.  There is one  *)
(* kind number per kind class.  The relay-by-kind and full-text indexes are *)
(* written at exactly the sites where relay_index is and are not kept       *)
(* apart.  Of the ingest log the module keeps what it is for: `mirror` is   *)
(* what a consumer holds that applies every entry.                          *)
(***************************************************************************)
EXTENDS Integers, FiniteSets, Sequences, SequencesExt

CONSTANTS
    Ids,                \* event ids, a finite set of numbers
    Event,              \* id -> the signed event with that id
    Authors,            \* pubkeys
    Dtags,              \* values of a d tag
    NoD,                \* the event carries no d tag
    Never,              \* the event carries no expiration tag
    RelayUrls,          \* relays that deliver events
    Serves,             \* relay -> the ids it holds and may deliver
    MaxProvenance,      \* MAX_PROVENANCE_ENTRIES
    MaxPerStep,         \* GcBudget::max_events_per_step
    MaxTotal,           \* GcBudget::max_total_events
    TombstoneMaxAge,    \* TOMBSTONE_MAX_AGE_SECS
    PinSets,            \* the pin sets the kernel may hand to the collector
    Shapes,             \* filter hashes with a coverage row, all of them open
    Matches,            \* shape -> the ids its filter matches
    AskedAt,            \* shape -> the relays its REQs are sent to
    LastSecond          \* bound on the clock

Classes == {"plain", "replaceable", "addressable", "delete", "ephemeral"}
Addresses == {"replaceable", "addressable"} \X Authors \X Dtags

EventRecords == [author : Authors, kind : Classes, d : Dtags \cup {NoD},
                 at : Nat, e : SUBSET Ids, a : SUBSET Addresses,
                 exp : Nat \cup {Never}]

ASSUME IdsAssumption == Ids \subseteq Nat /\ IsFiniteSet(Ids)
ASSUME NoneAssumption == NoD \notin Dtags /\ Never \notin Nat
\* An id is a hash of the event's content: an event cannot name its own id.
ASSUME EventAssumption ==
    /\ Event \in [Ids -> EventRecords]
    /\ \A i \in Ids : i \notin Event[i].e
ASSUME ServesAssumption == Serves \in [RelayUrls -> SUBSET Ids]
ASSUME BudgetAssumption ==
    /\ MaxProvenance \in Nat \ {0} /\ MaxPerStep \in Nat /\ MaxTotal \in Nat
    /\ TombstoneMaxAge \in Nat /\ LastSecond \in Nat
ASSUME PinAssumption == PinSets \subseteq SUBSET Ids
ASSUME ShapeAssumption == /\ Matches \in [Shapes -> SUBSET Ids]
                          /\ AskedAt \in [Shapes -> SUBSET RelayUrls]

VARIABLES
    events,             \* ids of the stored events
    tombstones,         \* id -> row, for the ids that have one
    addr_tombstones,    \* address -> row
    provenance,         \* stored id -> relays, the primary one first
    relay_index,        \* relay -> ids seen on it
    access_index,       \* pairs of stored ids, <<i, j>>: i not used after j
    coverage,           \* <<shape, relay>> -> covered_through; 0 is no row
    now,                \* the clock, in seconds
    delivered,          \* history: ids some relay delivered
    mirror,             \* history: what the log's consumer holds
    retired,            \* history: ids dropped by a retention removal
    purged,             \* history: ids the host purged by author, id or kind
    forgotten           \* history: <<shape, relay>> -> ids of the shape that
                        \* were evicted since the row was last recorded

vars == <<events, tombstones, addr_tombstones, provenance, relay_index,
          access_index, coverage, now, delivered, mirror, retired,
          purged, forgotten>>

-----------------------------------------------------------------------------
(* Tombstones.                                                              *)

Row(deleter, at, origin) ==
    [deleter |-> deleter, deleted_at |-> at, origin |-> origin]
Tombs == [deleter : Authors \cup {"none"}, deleted_at : Nat,
          origin : {"Kind5", "NIP40Expiry"}]

\* merge_tombstone: the later deletion time wins; deleter and origin stay
\* those of the row that is already there.
MergeTombstone(map, keys, row) ==
    [k \in DOMAIN map \cup keys |->
        IF k \notin DOMAIN map THEN row
        ELSE IF k \in keys /\ row.deleted_at > map[k].deleted_at
             THEN [map[k] EXCEPT !.deleted_at = row.deleted_at]
             ELSE map[k]]

Without(f, keys) == [k \in DOMAIN f \ keys |-> f[k]]

\* Wrong: whoever signed the kind:5 is believed.
AppliesFromAnyone(id) == id \in DOMAIN tombstones

\* A deletion somebody else signed does not bind the author's event.
Applies(id) ==
    /\ id \in DOMAIN tombstones
    /\ tombstones[id].origin = "Kind5"
         => tombstones[id].deleter = Event[id].author

AddressOf(ev) == <<ev.kind, ev.author, ev.d>>

AddressTombstoned(ev) ==
    /\ ev.kind = "addressable"
    /\ ev.d # NoD
    /\ AddressOf(ev) \in DOMAIN addr_tombstones
    /\ addr_tombstones[AddressOf(ev)].deleted_at >= ev.at

-----------------------------------------------------------------------------
(* Replaceable events.                                                      *)

\* The stored events that the incoming one competes with.  An addressable
\* event without a d tag is compared with every address of its author.
Rivals(ev) ==
    {j \in events : /\ Event[j].author = ev.author
                    /\ Event[j].kind = ev.kind
                    /\ ev.kind = "addressable" /\ ev.d # NoD
                         => Event[j].d = ev.d}

\* Wrong: between two versions of one second the greater id is kept.
BeatsHigherId(i, j) ==
    \/ Event[i].at > Event[j].at
    \/ Event[i].at = Event[j].at /\ i > j

\* The newer version wins, and of two of the same second the smaller id.
Beats(i, j) ==
    \/ Event[i].at > Event[j].at
    \/ Event[i].at = Event[j].at /\ i < j

\* The rival that max_by picks.
Heads(ev) == {j \in Rivals(ev) : \A k \in Rivals(ev) \ {j} : Beats(j, k)}

-----------------------------------------------------------------------------
(* The secondary indexes, which every insert and removal maintains.         *)

\* upsert_provenance.  At the cap the new relay takes the place of one that
\* is not the primary (the one seen longest ago; times are not kept).
Upserts(seq, relay) ==
    IF relay \in ToSet(seq) THEN {seq}
    ELSE IF Len(seq) >= MaxProvenance /\ Len(seq) > 1
         THEN {Append(RemoveAt(seq, n), relay) : n \in 2..Len(seq)}
         ELSE {Append(seq, relay)}

NoSources == <<>>
Sources(id) == IF id \in events THEN provenance[id] ELSE NoSources

\* access_index gives every stored id its own sequence number; only their
\* order is read.  access_remove drops ids, access_stamp makes one the latest.
AccessRemoved(gone) ==
    {p \in access_index : p[1] \notin gone /\ p[2] \notin gone}
Stamped(id, others) == {<<i, id>> : i \in others \cup {id}}

\* Wrong: a removed event keeps its place in the relay index.
UnindexedFromAccessOnly(gone) ==
    /\ provenance' = Without(provenance, gone)
    /\ relay_index' = relay_index
    /\ access_index' = AccessRemoved(gone)

\* A removal drops the event from every index.
Unindexed(gone) ==
    /\ provenance' = Without(provenance, gone)
    /\ relay_index' = [r \in RelayUrls |-> relay_index[r] \ gone]
    /\ access_index' = AccessRemoved(gone)

\* An insert of `id` from `relay` that removes the events `gone`.
Indexed(id, relay, gone) ==
    /\ \E seq \in Upserts(Sources(id), relay) :
          provenance' = [i \in (events \ gone) \cup {id} |->
                            IF i = id THEN seq ELSE provenance[i]]
    /\ relay_index' = [r \in RelayUrls |->
          (relay_index[r] \ gone) \cup (IF r = relay THEN {id} ELSE {})]
    /\ access_index' =
          IF id \in events THEN access_index
          ELSE AccessRemoved(gone) \cup Stamped(id, events \ gone)

-----------------------------------------------------------------------------
(* The ingest log.                                                          *)

Inserted(id)      == [op |-> "Inserted", add |-> {id}, drop |-> {}]
\* Wrong: the entry does not say which event went.
ReplacedSilently(id, old) == [op |-> "Inserted", add |-> {id}, drop |-> {}]

Replaced(id, old) == [op |-> "Replaced", add |-> {id}, drop |-> {old}]
Deleted(ids)      == [op |-> "Deleted", add |-> {}, drop |-> ids]

\* The consumer applies what the call appended: the entries that drop events
\* come first.  A Deleted entry stands for a run of entries, one per target.
Appended(entries) ==
    mirror' = (mirror \ UNION {en.drop : en \in entries})
                 \cup UNION {en.add : en \in entries}

-----------------------------------------------------------------------------
(* insert.                                                                  *)

Redelivered(id, relay, kept) ==
    /\ tombstones' = kept
    /\ Indexed(id, relay, {})
    /\ Appended({})
    /\ UNCHANGED <<events, addr_tombstones, retired, purged>>

\* Superseded, tombstoned, expired or ephemeral: nothing is stored.  A
\* foreign tombstone has been dropped by then.
Refused(kept) ==
    /\ tombstones' = kept
    /\ Appended({})
    /\ UNCHANGED <<events, addr_tombstones, provenance, relay_index,
                   access_index, retired, purged>>

Stored(id, relay, gone, kept, entries) ==
    /\ events' = (events \ gone) \cup {id}
    /\ tombstones' = kept
    /\ retired' = retired \ {id}
    /\ purged' = purged \ {id}
    /\ Indexed(id, relay, gone)
    /\ Appended(entries)

\* handle_supersession
Supersede(id, relay, kept) ==
    LET heads == Heads(Event[id])
    IN  \/ /\ heads = {}
           /\ Stored(id, relay, {}, kept, {Inserted(id)})
        \/ \E head \in heads :
              \/ /\ Beats(id, head)
                 /\ Stored(id, relay, {head}, kept, {Replaced(id, head)})
              \/ /\ ~Beats(id, head)
                 /\ Refused(kept)

\* The stored events an `a` tag of the kind:5 names, up to its own second.
AddressTargets(k5) ==
    {i \in events : /\ Event[i].author = k5.author
                    /\ Event[i].at <= k5.at
                    /\ \E ad \in k5.a : /\ ad[1] = Event[i].kind
                                        /\ ad[2] = k5.author
                                        /\ ad[1] = "addressable"
                                              => ad[3] = Event[i].d}

\* The stored events an `e` tag of the kind:5 names.
EventTargets(k5) == {i \in k5.e \cap events : Event[i].author = k5.author}

\* Wrong: a row is written for somebody else's event too.
EventTombsOfAnyone(k5) == k5.e

\* Wrong: the event is removed and nothing remembers that.
NoTombstoneForStored(k5) == k5.e \ events

\* What gets a per-id row: the targets removed, and any id not seen yet.
EventTombs(k5) == EventTargets(k5) \cup (k5.e \ events)

\* handle_kind5_insert
Kind5(id, relay, kept) ==
    LET k5   == Event[id]
        byE  == EventTargets(k5)
        byA  == AddressTargets(k5) \ byE
        row  == Row(k5.author, k5.at, "Kind5")
        ads  == {ad \in k5.a : ad[2] = k5.author}
    IN  /\ addr_tombstones' = MergeTombstone(addr_tombstones, ads, row)
        /\ Stored(id, relay, byE \cup byA,
                  MergeTombstone(kept, EventTombs(k5) \cup byA, row),
                  {Deleted(byE \cup byA), Inserted(id)})

ExpiredAt(id, t) == Event[id].exp # Never /\ Event[id].exp <= t

Insert(id, relay) ==
    /\ delivered' = delivered \cup {id}
    /\ LET ev   == Event[id]
           kept == Without(tombstones, {id})
       IN  \/ /\ \/ ev.kind = "ephemeral"
                 \/ ExpiredAt(id, now)
                 \/ Applies(id)
              /\ Refused(tombstones)
           \/ /\ ev.kind # "ephemeral"
              /\ ~ExpiredAt(id, now)
              /\ ~Applies(id)
              /\ \/ AddressTombstoned(ev) /\ Refused(kept)
                 \/ /\ ~AddressTombstoned(ev)
                    /\ \/ id \in events /\ Redelivered(id, relay, kept)
                       \/ /\ id \notin events
                          /\ \/ ev.kind = "delete" /\ Kind5(id, relay, kept)
                             \/ /\ ev.kind \in {"replaceable", "addressable"}
                                /\ Supersede(id, relay, kept)
                             \/ /\ ev.kind = "plain"
                                /\ Stored(id, relay, {}, kept, {Inserted(id)})
                          /\ ev.kind # "delete" => UNCHANGED addr_tombstones
    /\ UNCHANGED <<coverage, now, forgotten>>

-----------------------------------------------------------------------------
(* Reads, purges, the collector.                                            *)

\* get_by_id: a read makes the event the most recently used one.
Get(id) ==
    /\ id \in events
    /\ access_index' = AccessRemoved({id}) \cup Stamped(id, events)
    /\ Appended({})
    /\ UNCHANGED <<events, tombstones, addr_tombstones, provenance,
                   relay_index, coverage, now, delivered, retired, purged,
                   forgotten>>

\* delete_by_filter by author, id or kind: no tombstone, but the log says it.
Purge(gone) ==
    /\ gone # {}
    /\ events' = events \ gone
    /\ Unindexed(gone)
    /\ Appended({Deleted(gone)})
    /\ purged' = purged \cup gone
    /\ UNCHANGED <<tombstones, addr_tombstones, coverage, now, delivered,
                   retired, forgotten>>

SeenOnlyOn(relay) == {i \in events : provenance[i] = <<relay>>}

\* delete_by_filter(ByRelayOnly): retention, so the log stays silent.
PurgeRelay(relay) ==
    LET gone == SeenOnlyOn(relay)
    IN  /\ gone # {}
        /\ events' = events \ gone
        /\ retired' = retired \cup gone
        /\ Unindexed(gone)
        /\ Appended({})
        /\ UNCHANGED <<tombstones, addr_tombstones, coverage, now, delivered,
                       purged, forgotten>>

Expired == {i \in events : ExpiredAt(i, now)}

\* The first n unpinned events in order of last use.
Oldest(left, pins, n) ==
    {i \in left \ pins :
        Cardinality({j \in left \ pins : <<j, i>> \in access_index}) <= n}

\* Wrong: the bound is not kept from going below zero.
LoweredBelowZero(s, covered, gone) ==
    LET lost == {i \in gone \cap Matches[s] : Event[i].at <= covered}
    IN  IF lost = {} THEN covered ELSE Min({Event[i].at : i \in lost}) - 1

\* Wrong: the row keeps claiming the second of the event that is gone.
LoweredToEvicted(s, covered, gone) ==
    LET lost == {i \in gone \cap Matches[s] : Event[i].at <= covered}
    IN  IF lost = {} THEN covered ELSE Min({Event[i].at : i \in lost})

\* lower_coverage_rows: below the oldest covered event that was evicted; a
\* row that reaches 0 is removed.
Lowered(s, covered, gone) ==
    LET lost == {i \in gone \cap Matches[s] : Event[i].at <= covered}
    IN  IF lost = {} THEN covered
        ELSE LET oldest == Min({Event[i].at : i \in lost})
             IN  IF oldest = 0 THEN 0 ELSE oldest - 1

Stale(map) ==
    {k \in DOMAIN map : now - map[k].deleted_at > TombstoneMaxAge}

\* What one pass leaves behind: `reaped` expired, `evicted` for room, and,
\* if the pass got that far, the old tombstones purged.
Collected(reaped, evicted, purge) ==
    LET tombs == [i \in DOMAIN tombstones \cup reaped |->
                    IF i \in reaped THEN Row("none", now, "NIP40Expiry")
                    ELSE tombstones[i]]
    IN  /\ events' = events \ (reaped \cup evicted)
        /\ tombstones' = Without(tombs, IF purge THEN Stale(tombs) ELSE {})
        /\ addr_tombstones' =
              Without(addr_tombstones,
                      IF purge THEN Stale(addr_tombstones) ELSE {})
        /\ retired' = retired \cup evicted
        /\ coverage' = [k \in DOMAIN coverage |->
                          Lowered(k[1], coverage[k], evicted)]
        /\ forgotten' = [k \in DOMAIN forgotten |->
                           IF coverage'[k] = 0 THEN {}
                           ELSE forgotten[k] \cup (evicted \cap Matches[k[1]])]
        /\ Unindexed(reaped \cup evicted)
        /\ Appended({Deleted(reaped)})
        /\ UNCHANGED <<now, delivered, purged>>

Smaller(m, n) == IF m < n THEN m ELSE n

\* gc_step_with_pins.  The clock is read after each event, so a pass may end
\* within the reaping or within the eviction.
GcStep(pins) ==
    \E reaped \in SUBSET Expired :
        LET left    == events \ reaped
            surplus == IF Cardinality(left) > MaxTotal
                       THEN Smaller(Cardinality(left) - MaxTotal, MaxPerStep)
                       ELSE 0
            full    == Oldest(left, pins, surplus)
        IN  /\ Cardinality(reaped) <= MaxPerStep
            /\ \/ reaped # {} /\ Collected(reaped, {}, FALSE)
               \/ /\ Cardinality(reaped) =
                        Smaller(Cardinality(Expired), MaxPerStep)
                  /\ \/ Collected(reaped, full, TRUE)
                     \/ \E n \in 1..Cardinality(full) :
                           Collected(reaped, Oldest(left, pins, n), FALSE)

\* record_coverage: an unfloored REQ of the shape, or a negentropy session,
\* ended.  Nothing asks whether the store still holds what the relay sent: an
\* event evicted before this moment is covered by the row although it is gone.
RecordCoverage(s, relay) ==
    /\ now > coverage[<<s, relay>>]
    /\ coverage' = [coverage EXCEPT ![<<s, relay>>] = now]
    /\ forgotten' = [forgotten EXCEPT ![<<s, relay>>] = {}]
    /\ Appended({})
    /\ UNCHANGED <<events, tombstones, addr_tombstones, provenance,
                   relay_index, access_index, now, delivered, retired,
                   purged>>

Tick ==
    /\ now < LastSecond
    /\ now' = now + 1
    /\ Appended({})
    /\ UNCHANGED <<events, tombstones, addr_tombstones, provenance,
                   relay_index, access_index, coverage, delivered, retired,
                   purged, forgotten>>

-----------------------------------------------------------------------------

Init ==
    /\ events = {}
    /\ tombstones = <<>>
    /\ addr_tombstones = <<>>
    /\ provenance = <<>>
    /\ relay_index = [r \in RelayUrls |-> {}]
    /\ access_index = {}
    /\ coverage = [k \in Shapes \X RelayUrls |-> 0]
    /\ now = 0
    /\ delivered = {}
    /\ mirror = {}
    /\ retired = {}
    /\ purged = {}
    /\ forgotten = [k \in Shapes \X RelayUrls |-> {}]

Next ==
    \/ \E relay \in RelayUrls : \E id \in Serves[relay] : Insert(id, relay)
    \/ \E id \in Ids : Get(id)
    \/ \E author \in Authors : Purge({i \in events : Event[i].author = author})
    \/ \E id \in Ids : Purge({id} \cap events)
    \/ \E kind \in Classes : Purge({i \in events : Event[i].kind = kind})
    \/ \E relay \in RelayUrls : PurgeRelay(relay)
    \/ \E pins \in PinSets : GcStep(pins)
    \/ \E s \in Shapes : \E relay \in AskedAt[s] : RecordCoverage(s, relay)
    \/ Tick

Spec == Init /\ [][Next]_vars

-----------------------------------------------------------------------------
(* Properties.                                                              *)

\* The store's maps hold what their Rust types say; coverage never drops
\* below zero.
StoreTypeOK ==
    /\ events \subseteq Ids
    /\ DOMAIN tombstones \subseteq Ids
    /\ \A i \in DOMAIN tombstones : tombstones[i] \in Tombs
    /\ DOMAIN addr_tombstones \subseteq Addresses
    /\ \A ad \in DOMAIN addr_tombstones : addr_tombstones[ad] \in Tombs
    /\ DOMAIN provenance = events
    /\ \A i \in events : provenance[i] \in Seq(RelayUrls)
    /\ relay_index \in [RelayUrls -> SUBSET Ids]
    /\ access_index \subseteq Ids \X Ids
    /\ coverage \in [Shapes \X RelayUrls -> Nat]
    /\ now \in Nat
    /\ delivered \subseteq Ids /\ mirror \subseteq Ids
    /\ retired \subseteq Ids /\ purged \subseteq Ids
    /\ forgotten \in [Shapes \X RelayUrls -> SUBSET Ids]

\* An event and its tombstone are never in the store together: every path
\* that stores an event has dropped its row, every path that writes a row has
\* removed the event (insert.rs:72-89, insert_kind5.rs:51-91, gc.rs:73-92).
TombstoneExcludes == events \cap DOMAIN tombstones = {}

\* After any mix of inserts, replacements, deletions, purges and collections
\* each index lists stored events only and misses none (mod.rs:95-107 and
\* 161-173): no dangling id for a reader, no event the collector cannot see,
\* and no tie between two events in the order of eviction.
IndexesAgree ==
    /\ access_index \subseteq events \X events
    /\ \A i, j \in events :
          /\ <<i, j>> \in access_index \/ <<j, i>> \in access_index
          /\ <<i, j>> \in access_index /\ <<j, i>> \in access_index => i = j
    /\ \A r \in RelayUrls : relay_index[r] \subseteq events
    /\ \A i \in events : /\ provenance[i] # <<>>
                         /\ IsInjective(provenance[i])
                         /\ \A r \in ToSet(provenance[i]) : i \in relay_index[r]

\* What the events themselves say, without the store's bookkeeping: j is the
\* newer version at i's coordinate; k is a kind:5 of i's author that names i.
\* An addressable event without a d tag has no coordinate, and the in-memory
\* store compares it with every address of its author (insert.rs:246-247): it
\* may displace any of them, and be displaced by any.
Later(j, i) ==
    /\ Event[i].kind \in {"replaceable", "addressable"}
    /\ Event[j].kind = Event[i].kind
    /\ Event[j].author = Event[i].author
    /\ \/ Event[j].at > Event[i].at
       \/ Event[j].at = Event[i].at /\ j < i
Newer(j, i) ==
    /\ Later(j, i)
    /\ Event[i].kind = "addressable"
          => Event[i].d # NoD /\ Event[j].d = Event[i].d
Displaces(j, i) ==
    /\ Later(j, i)
    /\ Event[i].kind = "addressable"
          => Event[j].d = Event[i].d \/ NoD \in {Event[i].d, Event[j].d}
NamesAddress(k, i) ==
    /\ Event[i].at <= Event[k].at
    /\ \E ad \in Event[k].a : /\ ad[1] = Event[i].kind
                              /\ ad[2] = Event[i].author
                              /\ ad[1] = "addressable" => ad[3] = Event[i].d
OwnDeletion(k, i) ==
    /\ Event[k].kind = "delete"
    /\ Event[k].author = Event[i].author
    /\ i \in Event[k].e \/ NamesAddress(k, i)

Excused(i) ==
    \/ Event[i].kind = "ephemeral"
    \/ ExpiredAt(i, now)
    \/ i \in retired \cup purged
    \/ \E k \in delivered : OwnDeletion(k, i)
    \/ \E j \in delivered : Displaces(j, i)

\* An event some relay delivered is missing only for a reason its author or
\* the host gave: it expired, its author deleted it, a newer version exists,
\* or retention took it.  No order of arrival lets a stranger's kind:5 keep
\* it out (insert.rs:70-89, insert_kind5.rs:52-55).
NoUnjustifiedLoss == \A i \in delivered \ events : Excused(i)

\* The stored version of a replaceable event is the newest one delivered,
\* whatever the order of arrival: a newer one is absent only if excused
\* (handle_supersession, insert.rs:239-307).
HeadIsNewest ==
    \A i \in events, j \in delivered :
        Newer(j, i) => j \notin events /\ Excused(j)

\* Replaying the ingest log gives the store's content plus exactly what
\* retention removed silently (ingest_log/mod.rs:34-37): no replacement,
\* deletion, expiry or purge goes unlogged, and nothing is logged twice.
LogTellsAll == mirror = events \cup retired

\* Between two completed REQs a coverage row never claims a second from which
\* an event of its filter was evicted (gc.rs:47-52): however often the
\* collector comes by, the next REQ, floored at the row, asks for every one of
\* those events again.
CoverageHonest ==
    \A s \in Shapes, r \in RelayUrls : \A i \in forgotten[<<s, r>>] :
        coverage[<<s, r>>] > 0 => Event[i].at > coverage[<<s, r>>]

\* A kind:5 that neither expires nor was deleted itself.
Stands(k) ==
    /\ Event[k].exp = Never
    /\ \A k2 \in delivered : ~OwnDeletion(k2, k)
\* i's author asked for i's removal in a way the store remembers: by id, or
\* by the address of an addressable event.
Withdrawn(i, k) ==
    /\ OwnDeletion(k, i)
    /\ Stands(k)
    /\ i \in Event[k].e \/ Event[i].kind = "addressable"
    /\ now - Event[k].at <= TombstoneMaxAge
ForeignDeletion(k, i) ==
    /\ Event[k].kind = "delete"
    /\ Event[k].author # Event[i].author
    /\ i \in Event[k].e

\* Once its author's kind:5 is in, an event does not come back, whichever of
\* the two arrives first and however often relays deliver it again, until
\* the tombstone is old enough to be purged; only a stranger's kind:5 for
\* the same id can interfere (merge_tombstone, insert_kind5.rs:232-253).
DeletionSticks ==
    \A i \in events, k \in delivered :
        Withdrawn(i, k) => \E f \in delivered : ForeignDeletion(f, i)

\* docs/builder-guide/08-eventstore.md:101: a later redelivery cannot
\* resurrect a deleted event.
DeletionIsFinal ==
    \A i \in events, k \in delivered : ~Withdrawn(i, k)
=============================================================================
