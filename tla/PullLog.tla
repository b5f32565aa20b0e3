------------------------------- MODULE PullLog -------------------------------
(***************************************************************************)
(* The ingest log of nmp-store (mem/ingest_log.rs), the pull-cursor         *)
(* registry and the wakes of the kernel (nmp-core/src/kernel/pull_cursor.rs,*)
(* store_wakeup.rs), the host's page read (nmp-native-runtime/app_mirror.rs)*)
(* and the feed pager (nmp-feed/src/pager.rs).                              *)
(*                                                                         *)
(* Three actors run concurrently.  The actor thread appends, runs the      *)
(* commands of its inbox in order and emits frames.  A host thread reads    *)
(* pages without an actor round trip and posts AdvancePullCursor.  A feed   *)
(* pager reads pages with a position of its own.                            *)
(*                                                                         *)
(* An entry is "hit" or "miss" (an Inserted or Replaced row that the one   *)
(* interest shape of the instance matches or does not) or "Deleted".        *)
(***************************************************************************)
EXTENDS Integers, Sequences, FiniteSets, FiniteSetsExt

CONSTANTS
    Cursors,            \* pull cursors a host opens, each once
    Protected,          \* those opened in mode Protected
    GlobalLog,          \* those with scope GlobalLog; the rest have the shape
    Pagers,             \* feed pagers
    MaxLag,             \* max_lag_entries of a Protected cursor
    MaxCursors,         \* MAX_PULL_CURSORS
    LogMax,             \* DEFAULT_LOG_MAX_ENTRIES
    PageSize,           \* PullLimits::max_entries
    ScanBudget,         \* PullLimits::max_scan_entries
    LastSeq,            \* bound on the entries ever appended
    InboxCap,           \* ACTOR_INBOX_CAPACITY
    Oversize            \* seqs whose event, if the row has one, is by itself
                        \* over the raw byte cap of the hosts

Readers == Cursors \cup Pagers
Shaped == Readers \ GlobalLog
Ops == {"hit", "miss", "Deleted"}

ASSUME ReaderAssumption ==
    /\ IsFiniteSet(Readers) /\ Cursors \cap Pagers = {}
    /\ Protected \subseteq Cursors /\ GlobalLog \subseteq Cursors
ASSUME LimitAssumption ==
    /\ {MaxLag, MaxCursors, LogMax, LastSeq, InboxCap} \subseteq Nat
    /\ {PageSize, ScanBudget} \subseteq Nat \ {0}
    /\ PageSize <= ScanBudget           \* PullCursorSpec::validate
    /\ Oversize \subseteq Nat

VARIABLES
    log,                \* seq -> op, for the entries not trimmed
    ingest_seq,         \* the last sequence number given out
    log_gc_floor,       \* entries up to here were trimmed
    claims,             \* after_seq of each claim the store was handed
    after_seq,          \* registered cursor -> its position
    wakes,              \* cursors with a wake armed
    running,            \* between Start and Stop
    changed,            \* changed_since_emit
    inbox,              \* commands the actor has not run yet
    host,               \* cursor -> what its host thread is doing
    snap,               \* cursor -> the position its host thread copied
    pos,                \* pager -> its position
    seen,               \* history: reader -> entries it was handed
    lost,               \* history: reader -> it knows it has nothing up to here
    rebased,            \* history: reader -> the seqs gaps sent it to
    ops,                \* history: every op ever appended
    promised,           \* history: cursor -> last seq it was to be woken for
    kept                \* history: protected cursors whose lag stayed in bound

storeVars == <<log, ingest_seq, log_gc_floor>>
hostVars == <<host, snap>>
readVars == <<seen, lost, rebased>>
vars == <<storeVars, claims, after_seq, wakes, running, changed, inbox,
          hostVars, pos, readVars, ops, promised, kept>>

Registered == DOMAIN after_seq

HostStates == {"unopened", "idle", "woken", "reading", "refused", "closed"}

TypeOK ==
    /\ ingest_seq \in 0..LastSeq
    /\ log_gc_floor \in 0..ingest_seq
    /\ log \in [log_gc_floor + 1 .. ingest_seq -> Ops]
    /\ claims \in [Registered \cap Protected -> 0..LastSeq + 1]
    /\ Registered \subseteq Cursors
    /\ after_seq \in [Registered -> 0..LastSeq + 1]
    /\ wakes \subseteq Registered
    /\ running \in BOOLEAN /\ changed \in BOOLEAN
    /\ inbox \in Seq([cmd : {"open", "advance", "close"}, c : Cursors,
                      seq : 0..LastSeq + 1])
    /\ host \in [Cursors -> HostStates]
    /\ snap \in [Cursors -> 0..LastSeq + 1]
    /\ pos \in [Pagers -> 0..LastSeq + 1]
    /\ seen \in [Readers -> SUBSET (1..LastSeq)]
    /\ lost \in [Readers -> 0..LastSeq]
    /\ rebased \in [Readers -> SUBSET (1..LastSeq + 1)]
    /\ ops \in Seq(Ops) /\ Len(ops) = ingest_seq
    /\ promised \in [Cursors -> 0..ingest_seq]
    /\ kept \subseteq Protected

Init ==
    /\ log = << >> /\ ingest_seq = 0 /\ log_gc_floor = 0
    /\ claims = << >> /\ after_seq = << >> /\ wakes = {}
    /\ running = FALSE /\ changed = FALSE /\ inbox = << >>
    /\ host = [c \in Cursors |-> "unopened"]
    /\ snap = [c \in Cursors |-> 0]
    /\ pos = [p \in Pagers |-> 0]
    /\ seen = [r \in Readers |-> {}]
    /\ lost = [r \in Readers |-> 0]
    /\ rebased = [r \in Readers |-> {}]
    /\ ops = << >> /\ kept = {}
    /\ promised = [c \in Cursors |-> 0]

-----------------------------------------------------------------------------
(* The log.                                                                 *)

\* Wrong: a claim pins the log however far its cursor has fallen behind.
EligibleForever(latest) == {claims[c] : c \in DOMAIN claims}

\* Wrong: a claim at its bound is dropped.
EligibleBelow(latest) ==
    {claims[c] : c \in {d \in DOMAIN claims : latest - claims[d] < MaxLag}}

\* Claims whose lag is still in bound, measured at this append.
Eligible(latest) ==
    {claims[c] : c \in {d \in DOMAIN claims : latest - claims[d] <= MaxLag}}

\* log_gc_trim: the floor never goes back, leaves LogMax entries, and stays
\* below what the slowest eligible protected cursor has not read.
Floor(latest) ==
    Max({log_gc_floor, Min({Max({0, latest - LogMax})} \cup Eligible(latest))})

\* log_append, once per op of one store mutation.  Each append trims with the
\* latest seq of that moment; Floor grows with it, so the last trim decides.
LogAppend(new) ==
    LET latest == ingest_seq + Len(new)
    IN /\ latest <= LastSeq
       /\ ingest_seq' = latest
       /\ log_gc_floor' = Floor(latest)
       /\ log' = [s \in Floor(latest) + 1 .. latest |->
                    IF s <= ingest_seq THEN log[s] ELSE new[s - ingest_seq]]
       /\ ops' = ops \o new
       /\ kept' = {c \in kept : latest - after_seq[c] <= MaxLag}

\* Wrong: the head is read before the mutation that moves it.
BehindOldHead(latest) == {c \in Registered : after_seq[c] < ingest_seq}

\* rearm_pull_wakes_still_behind
Behind(latest) == {c \in Registered : after_seq[c] < latest}

\* Events in the store: each Deleted row took one out.
Stored ==
    Cardinality({s \in 1..ingest_seq : ops[s] # "Deleted"})
      - Cardinality({s \in 1..ingest_seq : ops[s] = "Deleted"})

\* An accepted event: one Inserted or Replaced row, after the Deleted rows of
\* the events it removed.  note_store_mutation arms the wakes.
Ingest ==
    \E n \in 0..1, op \in {"hit", "miss"} :
        /\ n <= Stored
        /\ LogAppend([i \in 1..n |-> "Deleted"] \o <<op>>)
        /\ wakes' = wakes \cup Behind(ingest_seq + n + 1)
        /\ promised' = [c \in Cursors |->
                IF c \in Registered THEN ingest_seq + n + 1 ELSE promised[c]]
        /\ changed' = TRUE
        /\ UNCHANGED <<claims, after_seq, running, inbox, hostVars, pos,
                       readVars>>

\* The collector and delete_by_filter append Deleted rows outside the accepted
\* path: no wake is armed and no frame becomes due.
Collect ==
    /\ Stored > 0
    /\ LogAppend(<<"Deleted">>)
    /\ UNCHANGED <<claims, after_seq, wakes, running, changed, inbox, hostVars,
                   pos, readVars, promised>>

-----------------------------------------------------------------------------
(* The registry, on the actor thread.                                       *)

\* update_pull_wake
UpdatedWakes(c, seq) ==
    IF seq < ingest_seq THEN wakes \cup {c} ELSE wakes \ {c}

\* publish_retention_claims
Claims(registry) == [c \in DOMAIN registry \cap Protected |-> registry[c]]

OpenPullCursor(cmd) ==
    LET grown == [c \in Registered \cup {cmd.c} |->
                    IF c = cmd.c THEN cmd.seq ELSE after_seq[c]]
    IN /\ cmd.cmd = "open"
       /\ IF cmd.c \notin Registered /\ Cardinality(Registered) >= MaxCursors
          THEN UNCHANGED <<after_seq, wakes, claims, kept>>
          ELSE /\ after_seq' = grown
               /\ wakes' = UpdatedWakes(cmd.c, cmd.seq)
               /\ claims' = Claims(grown)
               /\ kept' = IF /\ cmd.c \in Protected
                             /\ cmd.seq >= log_gc_floor
                             /\ ingest_seq - cmd.seq <= MaxLag
                          THEN kept \cup {cmd.c} ELSE kept

\* Wrong: the command's position is taken as it comes.
AdvancedTo(c, seq) == seq

\* The larger position wins: an old command may come late.
Advanced(c, seq) == Max({after_seq[c], seq})

AdvancePullCursor(cmd) ==
    /\ cmd.cmd = "advance"
    /\ IF cmd.c \notin Registered
       THEN UNCHANGED <<after_seq, wakes, claims>>
       ELSE LET moved == [after_seq EXCEPT ![cmd.c] = Advanced(cmd.c, cmd.seq)]
            IN /\ after_seq' = moved
               /\ wakes' = UpdatedWakes(cmd.c, moved[cmd.c])
               /\ claims' = Claims(moved)
    /\ UNCHANGED kept

\* Wrong: the wake of a withdrawn cursor stays armed.
UnregisterOnly(cmd) ==
    LET shrunk == [c \in Registered \ {cmd.c} |-> after_seq[c]]
    IN /\ cmd.cmd = "close"
       /\ after_seq' = shrunk
       /\ claims' = Claims(shrunk)
       /\ kept' = kept \ {cmd.c}
       /\ UNCHANGED wakes

UnregisterPullCursor(cmd) ==
    LET shrunk == [c \in Registered \ {cmd.c} |-> after_seq[c]]
    IN /\ cmd.cmd = "close"
       /\ after_seq' = shrunk
       /\ wakes' = wakes \ {cmd.c}
       /\ claims' = Claims(shrunk)
       /\ kept' = kept \ {cmd.c}

\* One command of the inbox.  None of the three marks the state changed.
RunCommand ==
    /\ inbox # << >>
    /\ \/ OpenPullCursor(Head(inbox))
       \/ AdvancePullCursor(Head(inbox))
       \/ UnregisterPullCursor(Head(inbox))
    /\ inbox' = Tail(inbox)
    /\ UNCHANGED <<storeVars, running, changed, hostVars, pos, readVars, ops,
                   promised>>

\* Anything else in the kernel that makes a frame due.
OtherChange ==
    /\ ~changed
    /\ changed' = TRUE
    /\ UNCHANGED <<storeVars, claims, after_seq, wakes, running, inbox,
                   hostVars, pos, readVars, ops, promised, kept>>

\* Wrong: a wake is a one-shot edge.
DrainedWakesOnce == {}

\* drain_pull_wakes keeps the wakes of cursors that are still behind.
DrainedWakes == IF wakes = {} THEN {} ELSE Behind(ingest_seq)

\* make_update: the wakes ride the frame to the hosts.
MakeUpdate ==
    /\ changed' = FALSE
    /\ wakes' = DrainedWakes
    /\ host' = [c \in Cursors |->
                  IF c \in wakes /\ host[c] \in {"idle", "refused"}
                  THEN "woken" ELSE host[c]]
    /\ UNCHANGED <<storeVars, claims, after_seq, inbox, snap, pos, readVars,
                   ops, promised, kept>>

\* The flush at the end of a turn of the loop, when flush_due.
Emit == running /\ changed /\ MakeUpdate /\ UNCHANGED running

\* emit_now: Start and Stop send a frame whatever the flags say, and so do the
\* commands that leave `running` as it is.
EmitNow(on) == MakeUpdate /\ running' = on

-----------------------------------------------------------------------------
(* Reading a page.                                                          *)

Gap(after) == log_gc_floor > 0 /\ after < log_gc_floor
FirstAvailable == log_gc_floor + 1

\* scan_log_since_seq: at most `limit` entries after the position.
Scanned(after, limit) == {s \in DOMAIN log : after < s /\ s <= after + limit}

Last(S, after) == Max({after} \cup S)

\* filter_page: the matching rows of a scan, at most n of them.
Hits(S) == {s \in S : log[s] = "hit"}
FirstN(S, n) == {s \in S : Cardinality({t \in S : t <= s}) <= n}

\* Wrong: the position moves over the whole scan though the page is full.
SkippingPage(r, after, n, scan) ==
    LET S == Scanned(after, IF r \in GlobalLog THEN n ELSE scan)
    IN [entries |-> FirstN(IF r \in GlobalLog THEN S ELSE Hits(S), n),
        next |-> Last(S, after)]

\* A page is what the reader is handed and the position to go on from: the
\* last entry handed over when the page is full, else the last one scanned.
Page(r, after, n, scan) ==
    IF r \in GlobalLog
    THEN LET S == Scanned(after, n)
         IN [entries |-> S, next |-> Last(S, after)]
    ELSE LET S == Scanned(after, scan)
             E == FirstN(Hits(S), n)
         IN [entries |-> E,
             next |-> Last(IF Cardinality(E) = n THEN E ELSE S, after)]

\* A Deleted row carries no event.
TooLarge(s) == s \in Oversize /\ log[s] # "Deleted"

\* The page, or the page cut after any entry but the last.
Prefixes(page) ==
    LET short == {s \in page.entries : \E t \in page.entries : s < t}
    IN  {page} \cup {[entries |-> {s \in page.entries : s <= last},
                      next |-> last] : last \in short}

\* encode_page: the byte cap cuts the page somewhere, and before a row that is
\* too large.  Nothing is left when that is the first: RAW_TOO_LARGE.
Cuts(page) ==
    {cut \in Prefixes(page) : \A s \in cut.entries : ~TooLarge(s)}

Handed(r, page) ==
    /\ seen' = [seen EXCEPT ![r] = @ \cup page.entries]
    /\ UNCHANGED <<lost, rebased>>

\* Every consumer takes first_available_seq as its new position.
Rebased(r) ==
    /\ lost' = [lost EXCEPT ![r] = Max({@, log_gc_floor})]
    /\ rebased' = [rebased EXCEPT ![r] = @ \cup {FirstAvailable}]
    /\ UNCHANGED seen

-----------------------------------------------------------------------------
(* The host thread of a cursor.                                             *)

\* CommandSender::send never waits: a full inbox sheds the command.
Posted(cmd, c, seq) ==
    inbox' = IF Len(inbox) < InboxCap
             THEN Append(inbox, [cmd |-> cmd, c |-> c, seq |-> seq])
             ELSE inbox

HostOpen(c) ==
    /\ host[c] = "unopened"
    /\ \E seq \in 0..ingest_seq :
        /\ Posted("open", c, seq)
        /\ lost' = [lost EXCEPT ![c] = seq]
    /\ host' = [host EXCEPT ![c] = "idle"]
    /\ UNCHANGED <<storeVars, claims, after_seq, wakes, running, changed, snap,
                   pos, seen, rebased, ops, promised, kept>>

HostClose(c) ==
    /\ host[c] \in {"idle", "woken", "refused"}
    /\ Posted("close", c, 0)
    /\ host' = [host EXCEPT ![c] = "closed"]
    /\ UNCHANGED <<storeVars, claims, after_seq, wakes, running, changed, snap,
                   pos, readVars, ops, promised, kept>>

\* mirror_pull_page_raw_bytes, step 1: copy the registration.  An id that is
\* not registered is an error and the host goes back to sleep.
Snapshot(c) ==
    /\ host[c] = "woken"
    /\ IF c \in Registered
       THEN /\ host' = [host EXCEPT ![c] = "reading"]
            /\ snap' = [snap EXCEPT ![c] = after_seq[c]]
       ELSE /\ host' = [host EXCEPT ![c] = "idle"]
            /\ UNCHANGED snap
    /\ UNCHANGED <<storeVars, claims, after_seq, wakes, running, changed, inbox,
                   pos, readVars, ops, promised, kept>>

\* Steps 2 to 4: read the log as it is now, then post the new position.  A
\* host drains before it sleeps: it reads again while has_more is set.  Refused,
\* it has no position to post and sleeps until the next wake.
ReadPage(c) ==
    LET pages == Cuts(Page(c, snap[c], PageSize, ScanBudget)) IN
    /\ host[c] = "reading"
    /\ \/ /\ Gap(snap[c])
          /\ Posted("advance", c, FirstAvailable)
          /\ Rebased(c)
          /\ host' = [host EXCEPT ![c] = "woken"]
       \/ /\ ~Gap(snap[c])
          /\ \E page \in pages :
                /\ Posted("advance", c, page.next)
                /\ Handed(c, page)
                /\ host' = [host EXCEPT ![c] =
                              IF page.next < ingest_seq THEN "woken" ELSE "idle"]
       \/ /\ ~Gap(snap[c])
          /\ pages = {}
          /\ host' = [host EXCEPT ![c] = "refused"]
          /\ UNCHANGED <<inbox, readVars>>
    /\ UNCHANGED <<storeVars, claims, after_seq, wakes, running, changed, snap,
                   pos, ops, promised, kept>>

-----------------------------------------------------------------------------
(* A feed pager: one turn of drain's loop, with what is left of its budgets,*)
(* and the rewind that starts the feed again.                               *)

Pull(p) ==
    /\ IF Gap(pos[p])
       THEN /\ pos' = [pos EXCEPT ![p] = FirstAvailable]
            /\ Rebased(p)
       ELSE \E n \in 1..PageSize, scan \in {1, ScanBudget} :
            LET page == Page(p, pos[p], n, scan) IN
            /\ page.next > pos[p]
            /\ pos' = [pos EXCEPT ![p] = page.next]
            /\ Handed(p, page)
    /\ UNCHANGED <<storeVars, claims, after_seq, wakes, running, changed, inbox,
                   hostVars, ops, promised, kept>>

Rewind(p) ==
    /\ pos' = [pos EXCEPT ![p] = 0]
    /\ seen' = [seen EXCEPT ![p] = {}]
    /\ lost' = [lost EXCEPT ![p] = 0]
    /\ rebased' = [rebased EXCEPT ![p] = {}]
    /\ UNCHANGED <<storeVars, claims, after_seq, wakes, running, changed, inbox,
                   hostVars, ops, promised, kept>>

-----------------------------------------------------------------------------
Next ==
    \/ Ingest \/ Collect \/ RunCommand \/ OtherChange
    \/ Emit \/ \E on \in BOOLEAN : EmitNow(on)
    \/ \E c \in Cursors : \/ HostOpen(c) \/ HostClose(c)
                          \/ Snapshot(c) \/ ReadPage(c)
    \/ \E p \in Pagers : Pull(p) \/ Rewind(p)

Spec == Init /\ [][Next]_vars

\* The actor loop turns at least every 250 ms and runs the oldest command and,
\* while it is running, the flush each turn; a woken host thread goes on with its read.
Fairness ==
    /\ WF_vars(RunCommand) /\ WF_vars(Emit)
    /\ \A c \in Cursors : WF_vars(Snapshot(c)) /\ WF_vars(ReadPage(c))

FairSpec == Spec /\ Fairness

-----------------------------------------------------------------------------
(* Properties.                                                              *)

Irrelevant(r, s) == r \in Shaped /\ s <= ingest_seq /\ ops[s] # "hit"
Position(r) == IF r \in Pagers THEN pos[r]
               ELSE IF r \in Registered THEN after_seq[r] ELSE 0

Reached(r, s) ==
    s \in seen[r] \cup rebased[r] \/ s <= lost[r] \/ Irrelevant(r, s)

\* No reader's position passes an entry it was not handed, unless the entry is
\* outside its scope, it asked to start later, or a gap said so; the entry a
\* gap points at is the one exception (see NoEntrySkipped).
SkipsAreReported ==
    \A r \in Readers : \A s \in 1..Position(r) : s <= ingest_seq => Reached(r, s)

\* The promise of PullGap, "never a silent skip": an entry that is still in
\* the log when the gap is reported is not skipped.
NoEntrySkipped ==
    \A r \in Readers : \A s \in 1..Position(r) :
        \/ s > ingest_seq
        \/ s \in seen[r]
        \/ s <= lost[r]
        \/ Irrelevant(r, s)

\* A Protected cursor whose lag was in bound at every append has all it has
\* not read: the trim never passed it, whatever the other cursors do.
ProtectedKeepsItsEntries ==
    \A c \in kept : after_seq[c] >= log_gc_floor

\* A consumer that never reads cannot pin the log: it holds LogMax entries, or
\* the lag a Protected cursor is allowed.
LogStaysBounded ==
    ingest_seq - log_gc_floor <= Max({LogMax, MaxLag})

\* The wake map agrees with the registry after every interleaving: an armed
\* wake belongs to a registered cursor that is behind, and a cursor behind an
\* entry it was to be woken for is armed.
WakesMatchLag ==
    /\ \A c \in wakes : c \in Registered /\ after_seq[c] < ingest_seq
    /\ \A c \in Registered : after_seq[c] < promised[c] => c \in wakes

\* A late AdvancePullCursor never takes a cursor back over entries its host
\* already applied.
CursorNeverRewinds ==
    [][\A c \in Registered : c \in Registered' => after_seq'[c] >= after_seq[c]]_vars

\* While the actor does not stay stopped, every entry that arrived while the
\* cursor was registered reaches its host: handed over, reported lost, or out
\* of scope, unless the host closes or its read was refused because the next
\* row alone is over the raw byte cap (app_mirror.rs:192-196).
EntriesReachTheirHost ==
    []<>running =>
        \A c \in Cursors : []<>(\/ host[c] \in {"closed", "refused"}
                                \/ \A s \in 1..promised[c] : Reached(c, s))

=============================================================================
