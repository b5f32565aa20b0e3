---------------------------- MODULE PullLogProofs ----------------------------
(***************************************************************************)
(* Theorems about the ingest log and the pull-cursor registry, for any      *)
(* number of cursors, any retention bounds and any length of the log.       *)
(***************************************************************************)
EXTENDS PullLog, FiniteSetTheorems, SequenceTheorems, WellFoundedInduction, TLAPS

-----------------------------------------------------------------------------
(* Least and greatest elements.                                             *)

\* A set of naturals that is not empty has a least element, and Min is it.
LEMMA MinNat ==
    ASSUME NEW T \in SUBSET Nat, T # {}
    PROVE  Min(T) \in T /\ \A y \in T : Min(T) <= y
  <1> DEFINE R == {ss \in Nat \X Nat : ss[1] < ss[2]}
  <1>1. IsWellFoundedOn(R, Nat)
    BY NatLessThanWellFounded DEF OpToRel
  <1>2. \E x \in T : \A y \in T : ~(<<y, x>> \in R)
    <2> HIDE DEF R
    <2> QED BY <1>1, WFMin
  <1>3. \E x \in T : \A y \in T : x =< y
    <2>1. PICK x \in T : \A y \in T : ~(<<y, x>> \in R)
      BY <1>2
    <2>2. ASSUME NEW y \in T PROVE x =< y
      <3>1. x \in Nat /\ y \in Nat
        OBVIOUS
      <3>2. y < x => <<y, x>> \in R
        BY <3>1
      <3> QED
        BY <2>1, <3>1, <3>2
    <2> QED
      BY <2>2
  <1> QED
    BY <1>3 DEF Min

\* The greater of two integers.
LEMMA MaxOfTwo ==
    ASSUME NEW a \in Int, NEW b \in Int
    PROVE  /\ Max({a, b}) \in {a, b}
           /\ Max({a, b}) >= a
           /\ Max({a, b}) >= b
  <1>1. \E x \in {a, b} : \A y \in {a, b} : x >= y
    OBVIOUS
  <1> QED
    BY <1>1 DEF Max

\* A bounded set of naturals that is not empty has Max as its greatest
\* element.
LEMMA MaxBounded ==
    ASSUME NEW T \in SUBSET Nat, T # {}, NEW b \in Nat, \A x \in T : x <= b
    PROVE  Max(T) \in T /\ \A y \in T : Max(T) >= y
  <1> DEFINE D == {b - x : x \in T}
  <1>1. D \in SUBSET Nat /\ D # {}
    <2>1. \A x \in T : b - x \in Nat
      OBVIOUS
    <2>2. \E x \in T : b - x \in D
      OBVIOUS
    <2> QED
      BY <2>1, <2>2
  <1>2. Min(D) \in D /\ \A y \in D : Min(D) <= y
    <2> HIDE DEF D
    <2> QED BY <1>1, MinNat
  <1>3. PICK x \in T : Min(D) = b - x
    BY <1>2
  <1>4. \A y \in T : x >= y
    <2> SUFFICES ASSUME NEW y \in T PROVE x >= y
      OBVIOUS
    <2>1. b - y \in D
      OBVIOUS
    <2>2. b - x <= b - y
      BY <1>2, <1>3, <2>1
    <2> QED
      BY <2>2
  <1>5. \E z \in T : \A y \in T : z >= y
    BY <1>4
  <1> QED
    BY <1>5 DEF Max

-----------------------------------------------------------------------------
(* The inductive invariant.                                                 *)

Commands == [cmd : {"open", "advance", "close"}, c : Cursors, seq : Nat]

\* Sequence numbers are numbers, the log is an interval, and the store holds
\* the claims of the registry as it is.
Shape ==
    /\ ingest_seq \in Nat
    /\ log_gc_floor \in Nat
    /\ DOMAIN log = log_gc_floor + 1 .. ingest_seq
    /\ Registered \subseteq Cursors
    /\ after_seq \in [Registered -> Nat]
    /\ claims = Claims(after_seq)
    /\ inbox \in Seq(Commands)
    /\ host \in [Cursors -> HostStates]
    /\ snap \in [Cursors -> Nat]
    /\ promised \in [Cursors -> Nat]
    /\ kept \subseteq Registered \cap Protected

\* A promise is about an entry that is in the log.
PromisesPast == \A c \in Cursors : promised[c] <= ingest_seq

\* A host opens its cursor once, so a registered one is never opened again.
OpenOnce ==
    /\ \A c \in Registered : host[c] # "unopened"
    /\ \A i \in 1..Len(inbox) : inbox[i].cmd = "open" =>
          /\ inbox[i].c \notin Registered
          /\ host[inbox[i].c] # "unopened"
          /\ \A j \in 1..Len(inbox) :
                j # i /\ inbox[j].cmd = "open" => inbox[j].c # inbox[i].c

LogInv == /\ Shape /\ PromisesPast /\ OpenOnce
          /\ WakesMatchLag /\ ProtectedKeepsItsEntries

\* What a trim leaves.
LEMMA FloorFacts ==
    ASSUME Shape, NEW latest \in Nat
    PROVE  /\ Floor(latest) \in Nat
           /\ Floor(latest) >= log_gc_floor
           /\ log_gc_floor <= latest => Floor(latest) <= latest
           /\ latest - Floor(latest) <= Max({LogMax, MaxLag})
           /\ \A c \in Registered \cap Protected :
                 latest - after_seq[c] <= MaxLag
                    => \/ Floor(latest) = log_gc_floor
                       \/ Floor(latest) <= after_seq[c]
  <1>0. /\ LogMax \in Nat /\ MaxLag \in Nat
        /\ log_gc_floor \in Nat
    BY LimitAssumption DEF Shape
  <1> DEFINE cap == Max({0, latest - LogMax})
             T == {cap} \cup Eligible(latest)
  <1>1. cap \in Nat /\ latest - LogMax <= cap /\ cap <= latest
    <2>1. 0 \in Int /\ latest - LogMax \in Int
      BY <1>0
    <2>2. /\ cap \in {0, latest - LogMax}
          /\ cap >= 0 /\ cap >= latest - LogMax
      BY <2>1, MaxOfTwo
    <2> HIDE DEF cap
    <2> QED
      BY <1>0, <2>1, <2>2
  <1>2. /\ DOMAIN claims = Registered \cap Protected
        /\ \A c \in Registered \cap Protected : claims[c] = after_seq[c]
        /\ \A c \in Registered : after_seq[c] \in Nat
    BY DEF Shape, Claims, Registered
  <1>3. \A e \in Eligible(latest) : e \in Nat /\ latest - e <= MaxLag
    BY <1>2 DEF Eligible
  <1> HIDE DEF cap
  <1>4. T \in SUBSET Nat /\ T # {}
    BY <1>1, <1>3
  <1>5. Min(T) \in T /\ \A y \in T : Min(T) <= y
    <2> HIDE DEF T
    <2> QED BY <1>4, MinNat
  <1>6. Floor(latest) = Max({log_gc_floor, Min(T)})
    BY DEF Floor, cap
  <1>7. /\ Floor(latest) \in {log_gc_floor, Min(T)}
        /\ Floor(latest) >= log_gc_floor /\ Floor(latest) >= Min(T)
    <2>1. log_gc_floor \in Int /\ Min(T) \in Int
      BY <1>0, <1>4, <1>5
    <2> HIDE DEF T
    <2> QED
      BY <1>6, <2>1, MaxOfTwo
  <1>8. Max({LogMax, MaxLag}) \in Nat /\ Max({LogMax, MaxLag}) >= LogMax
           /\ Max({LogMax, MaxLag}) >= MaxLag
    <2>1. LogMax \in Int /\ MaxLag \in Int
      BY <1>0
    <2>2. /\ Max({LogMax, MaxLag}) \in {LogMax, MaxLag}
          /\ Max({LogMax, MaxLag}) >= LogMax
          /\ Max({LogMax, MaxLag}) >= MaxLag
      BY <2>1, MaxOfTwo
    <2> QED
      BY <1>0, <2>2
  <1>9. latest - Min(T) <= Max({LogMax, MaxLag})
    <2>1. CASE Min(T) = cap
      BY <1>0, <1>1, <1>8, <2>1
    <2>2. CASE Min(T) \in Eligible(latest)
      BY <1>0, <1>3, <1>8, <2>2
    <2> QED
      BY <1>5, <2>1, <2>2
  <1>10. ASSUME NEW c \in Registered \cap Protected,
                latest - after_seq[c] <= MaxLag
         PROVE  Min(T) <= after_seq[c]
    <2>1. after_seq[c] \in Eligible(latest)
      BY <1>2, <1>10 DEF Eligible
    <2> QED
      BY <1>5, <2>1
  <1>11. Min(T) <= latest
    <2>1. Min(T) <= cap /\ Min(T) \in Nat
      BY <1>4, <1>5
    <2> HIDE DEF T
    <2> QED
      BY <1>1, <2>1
  <1> QED
    <2>1. Min(T) \in Nat
      BY <1>4, <1>5
    <2> HIDE DEF T
    <2> QED
      BY <1>0, <1>7, <1>8, <1>9, <1>10, <1>11, <2>1

-----------------------------------------------------------------------------
(* The store appends.                                                       *)

\* The claims of the registry are what the trim keeps clear of.
LEMMA AppendKeeps ==
    ASSUME LogInv, NEW new, Len(new) \in Nat, LogAppend(new),
           UNCHANGED <<claims, after_seq, inbox, host, snap>>,
           promised' \in [Cursors -> Nat]
    PROVE  /\ Shape' /\ OpenOnce' /\ ProtectedKeepsItsEntries'
           /\ LogStaysBounded'
           /\ ingest_seq' = ingest_seq + Len(new)
  <1> DEFINE latest == ingest_seq + Len(new)
  <1>0. Shape /\ OpenOnce /\ ProtectedKeepsItsEntries
    BY DEF LogInv
  <1>1. latest \in Nat
    BY <1>0 DEF Shape
  <1>2. /\ ingest_seq' = latest
        /\ log_gc_floor' = Floor(latest)
        /\ DOMAIN log' = Floor(latest) + 1 .. latest
        /\ kept' = {c \in kept : latest - after_seq[c] <= MaxLag}
    BY DEF LogAppend
  <1> HIDE DEF latest
  <1>3. Floor(latest) \in Nat /\ latest - Floor(latest) <= Max({LogMax, MaxLag})
    BY <1>0, <1>1, FloorFacts
  <1>4. Shape'
    BY <1>0, <1>1, <1>2, <1>3 DEF Shape, Registered, Claims
  <1>5. OpenOnce'
    BY <1>0 DEF OpenOnce, Registered
  <1>6. ProtectedKeepsItsEntries'
    <2> SUFFICES ASSUME NEW c \in kept' PROVE after_seq[c] >= Floor(latest)
      BY <1>2 DEF ProtectedKeepsItsEntries
    <2>1. /\ c \in kept /\ c \in Registered \cap Protected
          /\ latest - after_seq[c] <= MaxLag
          /\ after_seq[c] \in Nat
      BY <1>0, <1>2 DEF Shape
    <2>2. after_seq[c] >= log_gc_floor /\ log_gc_floor \in Nat
      BY <1>0, <2>1 DEF ProtectedKeepsItsEntries, Shape
    <2>3. Floor(latest) = log_gc_floor \/ Floor(latest) <= after_seq[c]
      BY <1>0, <1>1, <2>1, FloorFacts
    <2> QED
      BY <1>3, <2>1, <2>2, <2>3
  <1>7. LogStaysBounded'
    BY <1>2, <1>3 DEF LogStaysBounded
  <1> QED
    BY <1>2, <1>4, <1>5, <1>6, <1>7 DEF latest

\* A deletion outside the accepted path keeps the invariant and the bound.
LEMMA CollectInv ==
    ASSUME LogInv, Collect
    PROVE  LogInv' /\ LogStaysBounded'
  <1>0. Shape /\ PromisesPast /\ WakesMatchLag
    BY DEF LogInv
  <1>1. /\ LogAppend(<<"Deleted">>) /\ Len(<<"Deleted">>) = 1
        /\ UNCHANGED <<claims, after_seq, wakes, inbox, host, snap, promised>>
    BY DEF Collect, hostVars
  <1>2. promised' \in [Cursors -> Nat]
    BY <1>0, <1>1 DEF Shape
  <1>3. /\ Shape' /\ OpenOnce' /\ ProtectedKeepsItsEntries'
        /\ LogStaysBounded'
        /\ ingest_seq' = ingest_seq + 1
    BY <1>1, <1>2, AppendKeeps
  <1>4. PromisesPast'
    BY <1>0, <1>1, <1>3 DEF PromisesPast, Shape
  <1>5. WakesMatchLag'
    BY <1>0, <1>1, <1>3 DEF WakesMatchLag, Shape, Registered
  <1> QED
    BY <1>3, <1>4, <1>5 DEF LogInv

\* An accepted event keeps the invariant and the bound.
LEMMA IngestInv ==
    ASSUME LogInv, Ingest
    PROVE  LogInv' /\ LogStaysBounded'
  <1>0. Shape /\ PromisesPast /\ WakesMatchLag
    BY DEF LogInv
  <1>1. PICK n \in 0..1, op \in {"hit", "miss"} :
          /\ LogAppend([i \in 1..n |-> "Deleted"] \o <<op>>)
          /\ wakes' = wakes \cup Behind(ingest_seq + n + 1)
          /\ promised' = [c \in Cursors |->
                IF c \in Registered THEN ingest_seq + n + 1 ELSE promised[c]]
          /\ UNCHANGED <<claims, after_seq, inbox, host, snap>>
    BY DEF Ingest, hostVars
  <1> DEFINE new == [i \in 1..n |-> "Deleted"] \o <<op>>
  <1>2. Len(new) = n + 1
    <2>1. [i \in 1..n |-> "Deleted"] \in Seq(Ops)
      BY DEF Ops
    <2>2. Len([i \in 1..n |-> "Deleted"]) = n
      OBVIOUS
    <2>3. <<op>> \in Seq(Ops) /\ Len(<<op>>) = 1
      BY DEF Ops
    <2> QED
      BY <2>1, <2>2, <2>3
  <1>3. promised' \in [Cursors -> Nat]
    BY <1>0, <1>1 DEF Shape
  <1>4. LogAppend(new) /\ Len(new) \in Nat
    BY <1>1, <1>2
  <1> HIDE DEF new
  <1>5. /\ Shape' /\ OpenOnce' /\ ProtectedKeepsItsEntries'
        /\ LogStaysBounded'
        /\ ingest_seq' = ingest_seq + n + 1
    <2>1. /\ Shape' /\ OpenOnce' /\ ProtectedKeepsItsEntries'
          /\ LogStaysBounded'
          /\ ingest_seq' = ingest_seq + Len(new)
      BY <1>1, <1>3, <1>4, AppendKeeps
    <2> QED
      BY <1>0, <1>2, <2>1 DEF Shape
  <1>6. PromisesPast'
    BY <1>0, <1>1, <1>5 DEF PromisesPast, Shape
  <1>7. WakesMatchLag'
    BY <1>0, <1>1, <1>5 DEF WakesMatchLag, Shape, Registered, Behind
  <1> QED
    BY <1>5, <1>6, <1>7 DEF LogInv

-----------------------------------------------------------------------------
(* The registry runs a command.                                             *)

\* The rest of the inbox keeps what held of the whole of it.
LEMMA TailOnce ==
    ASSUME Shape, OpenOnce, inbox # << >>, inbox' = Tail(inbox), UNCHANGED host,
           \/ Registered' \subseteq Registered
           \/ /\ Head(inbox).cmd = "open"
              /\ Registered' \subseteq Registered \cup {Head(inbox).c}
    PROVE  inbox' \in Seq(Commands) /\ OpenOnce'
  <1>1. /\ inbox' \in Seq(Commands) /\ Len(inbox') = Len(inbox) - 1
        /\ Len(inbox) \in Nat \ {0}
        /\ \A i \in 1..Len(inbox') : inbox'[i] = inbox[i + 1]
        /\ Head(inbox) = inbox[1]
    BY DEF Shape
  <1>2. \A c \in Registered' : host'[c] # "unopened"
    BY <1>1 DEF OpenOnce
  <1>3. ASSUME NEW i \in 1..Len(inbox'), inbox'[i].cmd = "open"
        PROVE  /\ inbox'[i].c \notin Registered'
               /\ host'[inbox'[i].c] # "unopened"
               /\ \A j \in 1..Len(inbox') :
                     j # i /\ inbox'[j].cmd = "open" => inbox'[j].c # inbox'[i].c
    <2>1. i + 1 \in 1..Len(inbox) /\ i + 1 # 1 /\ inbox'[i] = inbox[i + 1]
      BY <1>1
    <2>2. /\ inbox[i + 1].c \notin Registered
          /\ host[inbox[i + 1].c] # "unopened"
          /\ \A j \in 1..Len(inbox) :
                j # i + 1 /\ inbox[j].cmd = "open" => inbox[j].c # inbox[i + 1].c
      BY <1>3, <2>1 DEF OpenOnce
    <2>3. inbox[i + 1].c \notin Registered'
      BY <1>1, <2>2
    <2>4. ASSUME NEW j \in 1..Len(inbox'), j # i, inbox'[j].cmd = "open"
          PROVE  inbox'[j].c # inbox'[i].c
      <3>1. j + 1 \in 1..Len(inbox) /\ j + 1 # i + 1 /\ inbox'[j] = inbox[j + 1]
        BY <1>1, <2>4
      <3> QED
        BY <2>1, <2>2, <2>4, <3>1
    <2> QED
      BY <2>1, <2>2, <2>3, <2>4
  <1> QED
    BY <1>1, <1>2, <1>3 DEF OpenOnce

\* A command of the inbox keeps the invariant.
LEMMA CommandInv ==
    ASSUME LogInv, RunCommand
    PROVE  /\ LogInv' /\ (LogStaysBounded => LogStaysBounded')
           /\ \A c \in Registered : c \in Registered' => after_seq'[c] >= after_seq[c]
  <1> DEFINE cmd == Head(inbox)
  <1>0. Shape /\ PromisesPast /\ OpenOnce /\ WakesMatchLag /\ ProtectedKeepsItsEntries
    BY DEF LogInv
  <1>1. /\ inbox # << >> /\ inbox' = Tail(inbox)
        /\ UNCHANGED <<log, ingest_seq, log_gc_floor, host, snap, promised>>
    BY DEF RunCommand, storeVars, hostVars
  <1>2. cmd \in Commands /\ cmd = inbox[1] /\ 1 \in 1..Len(inbox)
    BY <1>0, <1>1 DEF Shape
  <1>3. cmd.c \in Cursors /\ cmd.seq \in Nat
    BY <1>2 DEF Commands
  <1>4. PromisesPast' /\ (LogStaysBounded => LogStaysBounded')
    BY <1>0, <1>1 DEF PromisesPast, LogStaysBounded
  <1>5. /\ Registered \subseteq Cursors
        /\ after_seq \in [Registered -> Nat]
        /\ \A c \in Registered : after_seq[c] \in Nat /\ promised[c] <= ingest_seq
        /\ ingest_seq \in Nat /\ log_gc_floor \in Nat
        /\ claims = Claims(after_seq)
        /\ kept \subseteq Registered \cap Protected
        /\ \A c \in Cursors : promised[c] \in Nat /\ promised[c] <= ingest_seq
    BY <1>0 DEF Shape, PromisesPast
  <1> HIDE DEF cmd
  <1>6. CASE OpenPullCursor(cmd)
    <2>1. cmd.cmd = "open" /\ cmd.c \notin Registered
      BY <1>0, <1>2, <1>6 DEF OpenPullCursor, OpenOnce
    <2>2. CASE UNCHANGED <<after_seq, wakes, claims, kept>>
      <3>1. inbox' \in Seq(Commands) /\ OpenOnce'
        BY <1>0, <1>1, <2>2, TailOnce DEF Registered
      <3>2. Shape'
        BY <1>0, <1>1, <2>2, <3>1 DEF Shape, Registered, Claims
      <3>3. WakesMatchLag' /\ ProtectedKeepsItsEntries'
        BY <1>0, <1>1, <2>2 DEF WakesMatchLag, ProtectedKeepsItsEntries, Registered
      <3>4. \A c \in Registered : after_seq'[c] >= after_seq[c]
        BY <1>5, <2>2
      <3> QED
        BY <1>4, <3>1, <3>2, <3>3, <3>4 DEF LogInv
    <2>3. CASE ~(UNCHANGED <<after_seq, wakes, claims, kept>>)
      <3> DEFINE grown == [c \in Registered \cup {cmd.c} |->
                             IF c = cmd.c THEN cmd.seq ELSE after_seq[c]]
      <3>1. /\ after_seq' = grown
            /\ wakes' = UpdatedWakes(cmd.c, cmd.seq)
            /\ claims' = Claims(grown)
            /\ kept' = IF /\ cmd.c \in Protected
                          /\ cmd.seq >= log_gc_floor
                          /\ ingest_seq - cmd.seq <= MaxLag
                       THEN kept \cup {cmd.c} ELSE kept
        BY <1>6, <2>3 DEF OpenPullCursor
      <3>2. /\ Registered' = Registered \cup {cmd.c}
            /\ after_seq'[cmd.c] = cmd.seq
            /\ \A c \in Registered : after_seq'[c] = after_seq[c]
            /\ after_seq' \in [Registered' -> Nat]
        BY <1>3, <1>5, <2>1, <3>1 DEF Registered
      <3>3. inbox' \in Seq(Commands) /\ OpenOnce'
        BY <1>0, <1>1, <2>1, <3>2, TailOnce DEF cmd
      <3>4. kept' \subseteq Registered' \cap Protected
        BY <1>5, <3>1, <3>2
      <3>5. Shape'
        BY <1>0, <1>1, <1>3, <3>1, <3>2, <3>3, <3>4 DEF Shape
      <3>6. WakesMatchLag'
        BY <1>0, <1>1, <1>3, <1>5, <2>1, <3>1, <3>2 DEF WakesMatchLag, UpdatedWakes
      <3>7. ProtectedKeepsItsEntries'
        BY <1>0, <1>1, <1>5, <3>1, <3>2 DEF ProtectedKeepsItsEntries
      <3> QED
        BY <1>4, <1>5, <3>2, <3>3, <3>5, <3>6, <3>7 DEF LogInv
    <2> QED
      BY <2>2, <2>3
  <1>7. CASE AdvancePullCursor(cmd)
    <2>1. UNCHANGED kept
      BY <1>7 DEF AdvancePullCursor
    <2>2. CASE cmd.c \notin Registered
      <3>1. UNCHANGED <<after_seq, wakes, claims>>
        BY <1>7, <2>2 DEF AdvancePullCursor
      <3>2. inbox' \in Seq(Commands) /\ OpenOnce'
        BY <1>0, <1>1, <3>1, TailOnce DEF Registered
      <3>3. Shape'
        BY <1>0, <1>1, <2>1, <3>1, <3>2 DEF Shape, Registered, Claims
      <3>4. WakesMatchLag' /\ ProtectedKeepsItsEntries'
        BY <1>0, <1>1, <2>1, <3>1
           DEF WakesMatchLag, ProtectedKeepsItsEntries, Registered
      <3>5. \A c \in Registered : after_seq'[c] >= after_seq[c]
        BY <1>5, <3>1
      <3> QED
        BY <1>4, <3>2, <3>3, <3>4, <3>5 DEF LogInv
    <2>3. CASE cmd.c \in Registered
      <3> DEFINE to == Advanced(cmd.c, cmd.seq)
                 moved == [after_seq EXCEPT ![cmd.c] = to]
      <3>1. /\ after_seq' = moved
            /\ wakes' = UpdatedWakes(cmd.c, moved[cmd.c])
            /\ claims' = Claims(moved)
        BY <1>7, <2>3 DEF AdvancePullCursor
      <3>2. to \in Nat /\ to >= after_seq[cmd.c]
        <4>1. after_seq[cmd.c] \in Int /\ cmd.seq \in Int
          BY <1>3, <1>5, <2>3
        <4>2. /\ to \in {after_seq[cmd.c], cmd.seq}
              /\ to >= after_seq[cmd.c]
          BY <4>1, MaxOfTwo DEF Advanced
        <4> QED
          BY <1>3, <1>5, <2>3, <4>2
      <3> HIDE DEF to
      <3>3. /\ Registered' = Registered
            /\ after_seq'[cmd.c] = to /\ moved[cmd.c] = to
            /\ \A c \in Registered \ {cmd.c} : after_seq'[c] = after_seq[c]
            /\ after_seq' \in [Registered' -> Nat]
        BY <1>5, <2>3, <3>1, <3>2 DEF Registered
      <3>4. inbox' \in Seq(Commands) /\ OpenOnce'
        BY <1>0, <1>1, <3>3, TailOnce
      <3>5. Shape'
        BY <1>0, <1>1, <2>1, <3>1, <3>3, <3>4 DEF Shape
      <3>6. WakesMatchLag'
        BY <1>0, <1>1, <1>5, <2>3, <3>1, <3>2, <3>3 DEF WakesMatchLag, UpdatedWakes
      <3>7. ProtectedKeepsItsEntries'
        <4>1. /\ log_gc_floor' = log_gc_floor /\ log_gc_floor \in Nat
              /\ kept' = kept /\ kept \subseteq Registered
              /\ \A d \in kept : after_seq[d] >= log_gc_floor
          BY <1>0, <1>1, <2>1 DEF ProtectedKeepsItsEntries, Shape
        <4>2. ASSUME NEW d \in kept
              PROVE  after_seq'[d] >= log_gc_floor
          <5>1. CASE d = cmd.c
            <6>1. after_seq[d] \in Nat /\ after_seq[d] >= log_gc_floor
              BY <1>5, <2>3, <4>1, <5>1
            <6> QED
              BY <3>2, <3>3, <4>1, <5>1, <6>1
          <5>2. CASE d # cmd.c
            BY <3>3, <4>1, <5>2
          <5> QED
            BY <5>1, <5>2
        <4> QED
          BY <4>1, <4>2 DEF ProtectedKeepsItsEntries
      <3>8. \A c \in Registered : after_seq'[c] >= after_seq[c]
        BY <1>5, <3>2, <3>3
      <3> QED
        BY <1>4, <3>4, <3>5, <3>6, <3>7, <3>8 DEF LogInv
    <2> QED
      BY <2>2, <2>3
  <1>8. CASE UnregisterPullCursor(cmd)
    <2> DEFINE shrunk == [c \in Registered \ {cmd.c} |-> after_seq[c]]
    <2>1. /\ after_seq' = shrunk
          /\ wakes' = wakes \ {cmd.c}
          /\ claims' = Claims(shrunk)
          /\ kept' = kept \ {cmd.c}
      BY <1>8 DEF UnregisterPullCursor
    <2>2. /\ Registered' = Registered \ {cmd.c}
          /\ \A c \in Registered' : after_seq'[c] = after_seq[c]
          /\ after_seq' \in [Registered' -> Nat]
      BY <1>5, <2>1 DEF Registered
    <2>3. inbox' \in Seq(Commands) /\ OpenOnce'
      BY <1>0, <1>1, <2>2, TailOnce
    <2>4. Shape'
      BY <1>0, <1>1, <2>1, <2>2, <2>3 DEF Shape
    <2>5. WakesMatchLag' /\ ProtectedKeepsItsEntries'
      BY <1>0, <1>1, <1>5, <2>1, <2>2 DEF WakesMatchLag, ProtectedKeepsItsEntries
    <2>6. \A c \in Registered : c \in Registered' => after_seq'[c] >= after_seq[c]
      BY <1>5, <2>2
    <2> QED
      BY <1>4, <2>3, <2>4, <2>5, <2>6 DEF LogInv
  <1> QED
    BY <1>6, <1>7, <1>8 DEF RunCommand, cmd

-----------------------------------------------------------------------------
(* Hosts, pagers and frames leave the store and the registry alone.         *)

registryVars == <<log, ingest_seq, log_gc_floor, claims, after_seq, promised,
                  kept>>

\* A step that leaves log and registry alone keeps the invariant.
LEMMA AsideInv ==
    ASSUME LogInv, UNCHANGED registryVars, inbox' \in Seq(Commands), OpenOnce',
           host' \in [Cursors -> HostStates], snap' \in [Cursors -> Nat],
           wakes' = wakes
    PROVE  LogInv' /\ (LogStaysBounded => LogStaysBounded')
  <1>1. Shape'
    BY DEF LogInv, Shape, registryVars, Registered, Claims
  <1>2. PromisesPast' /\ WakesMatchLag' /\ ProtectedKeepsItsEntries'
    BY DEF LogInv, PromisesPast, WakesMatchLag, ProtectedKeepsItsEntries,
           registryVars, Registered
  <1>3. LogStaysBounded => LogStaysBounded'
    BY DEF LogStaysBounded, registryVars
  <1> QED
    BY <1>1, <1>2, <1>3 DEF LogInv

\* Hosts go forward: none becomes unopened.
LEMMA SameInboxOnce ==
    ASSUME Shape, OpenOnce, UNCHANGED <<after_seq, inbox>>,
           \A c \in Cursors : host[c] # "unopened" => host'[c] # "unopened"
    PROVE  inbox' \in Seq(Commands) /\ OpenOnce'
  <1>1. \A i \in 1..Len(inbox) : inbox[i] \in Commands
    BY DEF Shape
  <1>2. \A i \in 1..Len(inbox) : inbox[i].c \in Cursors
    BY <1>1 DEF Commands
  <1> QED
    BY <1>2 DEF Shape, OpenOnce, Registered

\* Posting a command keeps OpenOnce.
LEMMA PostOnce ==
    ASSUME Shape, OpenOnce, NEW verb \in {"open", "advance", "close"},
           NEW c \in Cursors, NEW seq \in Nat, Posted(verb, c, seq),
           UNCHANGED after_seq,
           verb = "open" => host[c] = "unopened",
           host'[c] # "unopened",
           \A d \in Cursors : host[d] # "unopened" => host'[d] # "unopened"
    PROVE  inbox' \in Seq(Commands) /\ OpenOnce'
  <1>0. \A i \in 1..Len(inbox) : inbox[i] \in Commands /\ inbox[i].c \in Cursors
    <2>1. \A i \in 1..Len(inbox) : inbox[i] \in Commands
      BY DEF Shape
    <2> QED
      BY <2>1 DEF Commands
  <1> DEFINE cmd == [cmd |-> verb, c |-> c, seq |-> seq]
  <1>1. cmd \in Commands /\ cmd.cmd = verb /\ cmd.c = c
    BY DEF Commands
  <1>2. CASE inbox' = inbox
    BY <1>2, SameInboxOnce
  <1>3. CASE inbox' = Append(inbox, cmd)
    <2> HIDE DEF cmd
    <2>1. /\ inbox' \in Seq(Commands) /\ Len(inbox') = Len(inbox) + 1
          /\ Len(inbox) \in Nat
          /\ \A i \in 1..Len(inbox) : inbox'[i] = inbox[i]
          /\ inbox'[Len(inbox) + 1] = cmd
      BY <1>1, <1>3 DEF Shape
    <2>2. \A d \in Registered' : host'[d] # "unopened"
      BY DEF OpenOnce, Registered, Shape
    <2>3. verb = "open" =>
             /\ c \notin Registered
             /\ \A i \in 1..Len(inbox) : inbox[i].cmd = "open" => inbox[i].c # c
      BY DEF OpenOnce
    <2>4. ASSUME NEW i \in 1..Len(inbox'), inbox'[i].cmd = "open"
          PROVE  /\ inbox'[i].c \notin Registered
                 /\ host'[inbox'[i].c] # "unopened"
                 /\ \A j \in 1..Len(inbox') : j # i /\ inbox'[j].cmd = "open"
                       => inbox'[j].c # inbox'[i].c
      <3>1. CASE i \in 1..Len(inbox)
        <4>1. /\ inbox[i].c \notin Registered /\ host[inbox[i].c] # "unopened"
              /\ \A j \in 1..Len(inbox) : j # i /\ inbox[j].cmd = "open"
                    => inbox[j].c # inbox[i].c
          BY <2>1, <2>4, <3>1 DEF OpenOnce
        <4> QED
          BY <1>0, <1>1, <2>1, <2>3, <2>4, <3>1, <4>1
      <3>2. CASE i = Len(inbox) + 1
        BY <1>1, <2>1, <2>3, <2>4, <3>2
      <3> QED
        BY <2>1, <3>1, <3>2
    <2> QED
      BY <2>1, <2>2, <2>4 DEF OpenOnce, Registered
  <1> QED
    BY <1>2, <1>3 DEF Posted

\* A page ends at a sequence number.
LEMMA PageNext ==
    ASSUME Shape, NEW r, NEW after \in Nat, NEW n, NEW scan,
           NEW page \in Prefixes(Page(r, after, n, scan))
    PROVE  page.next \in Nat
  <1>0. ingest_seq \in Nat /\ DOMAIN log \in SUBSET Nat
        /\ \A x \in DOMAIN log : x <= ingest_seq
    BY DEF Shape
  <1>1. ASSUME NEW S \in SUBSET DOMAIN log
        PROVE  Last(S, after) \in Nat
    <2> DEFINE T == {after} \cup S
    <2>1. T \in SUBSET Nat /\ T # {} /\ after + ingest_seq \in Nat
      BY <1>0
    <2>2. \A x \in T : x <= after + ingest_seq
      BY <1>0
    <2> HIDE DEF T
    <2>3. Max(T) \in Nat
      BY <2>1, <2>2, MaxBounded
    <2> QED
      BY <2>3 DEF Last, T
  <1>2. \A k : Scanned(after, k) \in SUBSET DOMAIN log
    BY DEF Scanned
  <1>3. \A S \in SUBSET DOMAIN log : FirstN(Hits(S), n) \in SUBSET DOMAIN log
    BY DEF FirstN, Hits
  <1> DEFINE whole == Page(r, after, n, scan)
  <1>4. whole.next \in Nat /\ whole.entries \in SUBSET Nat
    <2>1. CASE r \in GlobalLog
      BY <1>0, <1>1, <1>2, <2>1 DEF Page
    <2>2. CASE r \notin GlobalLog
      <3> DEFINE S == Scanned(after, scan)
                 E == FirstN(Hits(S), n)
      <3>1. S \in SUBSET DOMAIN log /\ E \in SUBSET DOMAIN log
        BY <1>2, <1>3
      <3>2. whole = [entries |-> E,
                     next |-> Last(IF Cardinality(E) = n THEN E ELSE S, after)]
        BY <2>2 DEF Page
      <3> HIDE DEF S, E, whole
      <3> QED
        BY <1>0, <1>1, <3>1, <3>2
    <2> QED
      BY <2>1, <2>2
  <1> HIDE DEF whole
  <1> QED
    BY <1>4 DEF Prefixes, whole

\* The registry is where it was: no cursor goes back.
LEMMA StillThere ==
    ASSUME Shape, UNCHANGED after_seq
    PROVE  \A c \in Registered : after_seq'[c] >= after_seq[c]
  BY DEF Shape

\* No step takes a cursor back.
Forward == \A c \in Registered : c \in Registered' => after_seq'[c] >= after_seq[c]

\* The read of a page keeps the invariant.
LEMMA ReadInv ==
    ASSUME LogInv, NEW c \in Cursors, ReadPage(c)
    PROVE  LogInv' /\ (LogStaysBounded => LogStaysBounded')
  <1>0. Shape /\ OpenOnce
    BY DEF LogInv
  <1>1. /\ host[c] = "reading" /\ UNCHANGED registryVars
        /\ wakes' = wakes /\ snap' = snap
        /\ snap[c] \in Nat /\ log_gc_floor \in Nat
        /\ host \in [Cursors -> HostStates]
    BY <1>0 DEF ReadPage, storeVars, hostVars, registryVars, Shape
  <1>2. \/ \E seq \in Nat : Posted("advance", c, seq)
        \/ inbox' = inbox
    <2>1. CASE Gap(snap[c])
      BY <1>1, <2>1 DEF ReadPage, FirstAvailable
    <2>2. CASE \E page \in Cuts(Page(c, snap[c], PageSize, ScanBudget)) :
                  Posted("advance", c, page.next)
      <3>1. PICK page \in Cuts(Page(c, snap[c], PageSize, ScanBudget)) :
               Posted("advance", c, page.next)
        BY <2>2
      <3>2. page \in Prefixes(Page(c, snap[c], PageSize, ScanBudget))
        BY DEF Cuts
      <3>3. page.next \in Nat
        BY <1>0, <1>1, <3>2, PageNext
      <3> QED
        BY <3>1, <3>3
    <2>3. CASE inbox' = inbox
      BY <2>3
    <2> QED
      BY <2>1, <2>2, <2>3 DEF ReadPage
  <1>3. \E st \in {"woken", "idle", "refused"} : host' = [host EXCEPT ![c] = st]
    BY DEF ReadPage
  <1>4. /\ host' \in [Cursors -> HostStates] /\ host'[c] # "unopened"
        /\ \A d \in Cursors : host[d] # "unopened" => host'[d] # "unopened"
    BY <1>1, <1>3 DEF HostStates
  <1>5. inbox' \in Seq(Commands) /\ OpenOnce'
    <2>1. CASE \E seq \in Nat : Posted("advance", c, seq)
      <3>1. PICK seq \in Nat : Posted("advance", c, seq)
        BY <2>1
      <3> QED
        BY <1>0, <1>1, <1>4, <3>1, PostOnce DEF registryVars
    <2>2. CASE inbox' = inbox
      BY <1>0, <1>1, <1>4, <2>2, SameInboxOnce DEF registryVars
    <2> QED
      BY <1>2, <2>1, <2>2
  <1> QED
    BY <1>0, <1>1, <1>4, <1>5, AsideInv DEF Shape

\* The other steps of a host thread keep the invariant.
LEMMA HostInv ==
    ASSUME LogInv, NEW c \in Cursors, HostOpen(c) \/ HostClose(c) \/ Snapshot(c)
    PROVE  LogInv' /\ (LogStaysBounded => LogStaysBounded')
  <1>0. Shape /\ OpenOnce
    BY DEF LogInv
  <1>1. /\ UNCHANGED registryVars /\ wakes' = wakes
    BY DEF HostOpen, HostClose, Snapshot, storeVars, registryVars
  <1>2. /\ host \in [Cursors -> HostStates] /\ snap \in [Cursors -> Nat]
        /\ ingest_seq \in Nat
        /\ \A d \in Registered : after_seq[d] \in Nat
    BY <1>0 DEF Shape
  <1>3. \E st \in {"idle", "closed", "reading"} : host' = [host EXCEPT ![c] = st]
    BY DEF HostOpen, HostClose, Snapshot
  <1>4. /\ host' \in [Cursors -> HostStates] /\ host'[c] # "unopened"
        /\ \A d \in Cursors : host[d] # "unopened" => host'[d] # "unopened"
    BY <1>2, <1>3 DEF HostStates
  <1>5. snap' \in [Cursors -> Nat]
    BY <1>2 DEF HostOpen, HostClose, Snapshot
  <1>6. inbox' \in Seq(Commands) /\ OpenOnce'
    <2>1. CASE HostOpen(c)
      <3>1. PICK seq \in 0..ingest_seq : Posted("open", c, seq)
        BY <2>1 DEF HostOpen
      <3>2. seq \in Nat /\ host[c] = "unopened"
        BY <1>2, <2>1 DEF HostOpen
      <3> QED
        BY <1>0, <1>1, <1>4, <3>1, <3>2, PostOnce DEF registryVars
    <2>2. CASE HostClose(c)
      <3>1. Posted("close", c, 0)
        BY <2>2 DEF HostClose
      <3> QED
        BY <1>0, <1>1, <1>4, <3>1, PostOnce DEF registryVars
    <2>3. CASE Snapshot(c)
      <3>1. inbox' = inbox
        BY <2>3 DEF Snapshot
      <3> QED
        BY <1>0, <1>1, <1>4, <3>1, SameInboxOnce DEF registryVars
    <2> QED
      BY <2>1, <2>2, <2>3
  <1> QED
    BY <1>1, <1>4, <1>5, <1>6, AsideInv

\* A frame leaves armed exactly the wakes of the cursors that are behind.
LEMMA EmitInv ==
    ASSUME LogInv, MakeUpdate
    PROVE  LogInv' /\ (LogStaysBounded => LogStaysBounded')
  <1>0. Shape /\ OpenOnce /\ WakesMatchLag /\ PromisesPast /\ ProtectedKeepsItsEntries
    BY DEF LogInv
  <1>1. /\ UNCHANGED registryVars /\ UNCHANGED <<inbox, snap>>
        /\ wakes' = DrainedWakes
        /\ host' = [d \in Cursors |->
                      IF d \in wakes /\ host[d] \in {"idle", "refused"}
                      THEN "woken" ELSE host[d]]
    BY DEF MakeUpdate, storeVars, registryVars
  <1>2. /\ host' \in [Cursors -> HostStates]
        /\ \A d \in Cursors : host[d] # "unopened" => host'[d] # "unopened"
    BY <1>0, <1>1 DEF Shape, HostStates
  <1>3. inbox' \in Seq(Commands) /\ OpenOnce'
    BY <1>0, <1>1, <1>2, SameInboxOnce DEF registryVars
  <1>4. Shape'
    BY <1>0, <1>1, <1>2, <1>3 DEF Shape, registryVars, Registered, Claims
  <1>5. PromisesPast' /\ ProtectedKeepsItsEntries'
        /\ (LogStaysBounded => LogStaysBounded')
    BY <1>0, <1>1 DEF PromisesPast, ProtectedKeepsItsEntries, LogStaysBounded,
                      registryVars, Registered
  <1>6. WakesMatchLag'
    <2>1. \A c \in Registered : /\ after_seq[c] \in Nat /\ promised[c] \in Nat
                                /\ promised[c] <= ingest_seq /\ ingest_seq \in Nat
      BY <1>0 DEF Shape, PromisesPast
    <2>2. /\ \A c \in DrainedWakes : c \in Registered /\ after_seq[c] < ingest_seq
          /\ \A c \in Registered : after_seq[c] < promised[c] => c \in DrainedWakes
      BY <1>0, <2>1 DEF WakesMatchLag, DrainedWakes, Behind
    <2> QED
      BY <1>1, <2>2 DEF WakesMatchLag, registryVars, Registered
  <1> QED
    BY <1>3, <1>4, <1>5, <1>6 DEF LogInv

\* Steps that touch neither the registry nor a command.
LEMMA QuietInv ==
    ASSUME LogInv,
           \/ OtherChange
           \/ \E p \in Pagers : Pull(p) \/ Rewind(p)
           \/ UNCHANGED vars
    PROVE  LogInv' /\ (LogStaysBounded => LogStaysBounded')
  <1>1. UNCHANGED registryVars /\ UNCHANGED <<inbox, host, snap, wakes>>
    BY DEF OtherChange, Pull, Rewind, vars, storeVars, hostVars, registryVars
  <1>2. Shape /\ OpenOnce
    BY DEF LogInv
  <1>3. inbox' \in Seq(Commands) /\ OpenOnce'
    BY <1>1, <1>2, SameInboxOnce DEF registryVars
  <1>4. host' \in [Cursors -> HostStates] /\ snap' \in [Cursors -> Nat]
    BY <1>1, <1>2 DEF Shape
  <1> QED
    BY <1>1, <1>3, <1>4, AsideInv

\* The initial state satisfies the invariant.
LEMMA InitInv ==
    ASSUME Init
    PROVE  LogInv /\ LogStaysBounded
  <1>0. LogMax \in Nat /\ MaxLag \in Nat
    BY LimitAssumption
  <1>1. Registered = {}
    BY DEF Init, Registered
  <1>2. Shape
    BY <1>1 DEF Init, Shape, Registered, Claims, HostStates
  <1>3. PromisesPast /\ OpenOnce /\ WakesMatchLag /\ ProtectedKeepsItsEntries
    BY <1>1 DEF Init, PromisesPast, OpenOnce, WakesMatchLag,
                ProtectedKeepsItsEntries
  <1>4. LogStaysBounded
    <2>1. /\ Max({LogMax, MaxLag}) \in {LogMax, MaxLag}
          /\ Max({LogMax, MaxLag}) >= LogMax
      <3>1. LogMax \in Int /\ MaxLag \in Int
        BY <1>0
      <3> QED
        BY <3>1, MaxOfTwo
    <2>2. ingest_seq - log_gc_floor = 0
      BY DEF Init
    <2>3. ASSUME NEW m \in {LogMax, MaxLag} PROVE 0 <= m
      BY <1>0
    <2> QED
      BY <2>1, <2>2, <2>3 DEF LogStaysBounded
  <1> QED
    BY <1>2, <1>3, <1>4 DEF LogInv

\* No step breaks the invariant or takes a cursor back.
LEMMA StepInv ==
    ASSUME LogInv, [Next]_vars
    PROVE  LogInv' /\ (LogStaysBounded => LogStaysBounded') /\ Forward
  <1>0. Shape
    BY DEF LogInv
  <1>1. CASE Ingest
    BY <1>0, <1>1, IngestInv, StillThere DEF Ingest, Forward
  <1>2. CASE Collect
    BY <1>0, <1>2, CollectInv, StillThere DEF Collect, Forward
  <1>3. CASE RunCommand
    BY <1>3, CommandInv DEF Forward
  <1>4. CASE MakeUpdate
    BY <1>0, <1>4, EmitInv, StillThere DEF MakeUpdate, Forward
  <1>5. CASE \E c \in Cursors : HostOpen(c) \/ HostClose(c) \/ Snapshot(c)
    <2>1. UNCHANGED after_seq
      BY <1>5 DEF HostOpen, HostClose, Snapshot
    <2> QED
      BY <1>0, <1>5, <2>1, HostInv, StillThere DEF Forward
  <1>6. CASE \E c \in Cursors : ReadPage(c)
    <2>1. UNCHANGED after_seq
      BY <1>6 DEF ReadPage
    <2> QED
      BY <1>0, <1>6, <2>1, ReadInv, StillThere DEF Forward
  <1>7. CASE \/ OtherChange
             \/ \E p \in Pagers : Pull(p) \/ Rewind(p)
             \/ UNCHANGED vars
    <2>1. UNCHANGED after_seq
      BY <1>7 DEF OtherChange, Pull, Rewind, vars
    <2> QED
      BY <1>0, <1>7, <2>1, QuietInv, StillThere DEF Forward
  <1> QED
    BY <1>1, <1>2, <1>3, <1>4, <1>5, <1>6, <1>7 DEF Next, Emit, EmitNow

\* The invariant and the bound hold in every reachable state.
LEMMA LogInvHolds == Spec => [](LogInv /\ LogStaysBounded)
  <1>1. Init => LogInv /\ LogStaysBounded
    BY InitInv
  <1>2. LogInv /\ LogStaysBounded /\ [Next]_vars => (LogInv /\ LogStaysBounded)'
    BY StepInv
  <1> QED
    BY <1>1, <1>2, PTL DEF Spec

-----------------------------------------------------------------------------
\* The wake map never disagrees with the registry: an armed wake belongs to a
\* registered cursor that is behind, and a cursor that is behind an accepted
\* event is armed, whatever the commands, frames and trims in between
\* (update_pull_wake, rearm_pull_wakes_still_behind, drain_pull_wakes).
THEOREM WakesAgree == Spec => []WakesMatchLag
  <1>1. LogInv => WakesMatchLag
    BY DEF LogInv
  <1> QED
    BY <1>1, LogInvHolds, PTL

\* log_gc_trim never passes a protected cursor whose lag stayed in bound at
\* every append: its unread entries are all in the log.
THEOREM ProtectedKept == Spec => []ProtectedKeepsItsEntries
  <1>1. LogInv => ProtectedKeepsItsEntries
    BY DEF LogInv
  <1> QED
    BY <1>1, LogInvHolds, PTL

\* No set of cursors, however slow, makes the ingest log longer than LogMax
\* entries or the protected lag, whichever is larger (log_append, log_gc_trim).
THEOREM LogBounded == Spec => []LogStaysBounded
  BY LogInvHolds, PTL

\* A cursor's position never goes back, in whatever order the commands of its
\* host are applied (AdvancePullCursor takes the larger position; a cursor is
\* opened once).
THEOREM NeverRewinds == Spec => CursorNeverRewinds
  <1>1. LogInv /\ [Next]_vars => [Forward]_vars
    BY StepInv
  <1>2. [][Forward]_vars => CursorNeverRewinds
    BY DEF CursorNeverRewinds, Forward
  <1>3. Spec => [][Forward]_vars
    BY <1>1, LogInvHolds, PTL DEF Spec
  <1> QED
    BY <1>2, <1>3, PTL

-----------------------------------------------------------------------------
(* What a page covers.  SkipsAreReported is about positions, and a position   *)
(* travels: from a page into the inbox, from the inbox into the registry,    *)
(* from the registry into a host's copy.  The invariant follows it.          *)

\* The greatest element of a scan, or the position it started from.
LEMMA LastFacts ==
    ASSUME NEW b \in Nat, NEW after \in Nat, NEW S \in SUBSET (1..b)
    PROVE  /\ Last(S, after) \in {after} \cup S
           /\ Last(S, after) \in Nat
           /\ Last(S, after) >= after
           /\ \A s \in S : s <= Last(S, after)
  <1> DEFINE T == {after} \cup S
  <1>1. T \in SUBSET Nat /\ T # {} /\ after + b \in Nat
    OBVIOUS
  <1>2. \A x \in T : x <= after + b
    OBVIOUS
  <1>3. Max(T) \in T /\ \A y \in T : Max(T) >= y
    <2> HIDE DEF T
    <2> QED BY <1>1, <1>2, MaxBounded
  <1>4. Last(S, after) = Max(T)
    BY DEF Last
  <1>5. Last(S, after) \in T /\ \A y \in T : Last(S, after) >= y
    BY <1>3, <1>4
  <1>6. Last(S, after) \in Nat /\ Last(S, after) >= after
    BY <1>1, <1>5
  <1>7. \A s \in S : s <= Last(S, after)
    <2>1. \A s \in S : s \in T /\ s \in Nat
      OBVIOUS
    <2> QED
      BY <1>5, <1>6, <2>1
  <1> QED
    BY <1>5, <1>6, <1>7

\* filter_page takes the first n matches: none of them lies behind one that
\* was left out, and when it took other than n it took them all.
LEMMA FirstNFacts ==
    ASSUME NEW b \in Nat, NEW H \in SUBSET (1..b), NEW n \in Nat \ {0}
    PROVE  /\ FirstN(H, n) \subseteq H
           /\ \A e \in FirstN(H, n), s \in H : s <= e => s \in FirstN(H, n)
           /\ Cardinality(FirstN(H, n)) # n => FirstN(H, n) = H
           /\ Cardinality(FirstN(H, n)) = n => FirstN(H, n) # {}
  <1> DEFINE E == FirstN(H, n)
             Upto(s) == {t \in H : t <= s}
  <1>0. E = {s \in H : Cardinality(Upto(s)) <= n}
    BY DEF FirstN
  <1>h. \A s \in H : s \in Nat /\ s <= b
    OBVIOUS
  <1>u. \A s, t : t \in Upto(s) <=> t \in H /\ t <= s
    OBVIOUS
  <1> HIDE DEF E
  <1>1. IsFiniteSet(H)
    <2>1. IsFiniteSet(1..b)
      BY FS_Interval
    <2> QED
      BY <2>1, FS_Subset
  <1>2. \A s \in H : /\ IsFiniteSet(Upto(s))
                     /\ Cardinality(Upto(s)) \in Nat
    <2> SUFFICES ASSUME NEW s \in H
                 PROVE  IsFiniteSet(Upto(s)) /\ Cardinality(Upto(s)) \in Nat
      OBVIOUS
    <2>1. Upto(s) \subseteq H
      OBVIOUS
    <2> HIDE DEF Upto
    <2> QED
      BY <1>1, <2>1, FS_Subset, FS_CardinalityType
  <1>3. E \subseteq H
    BY <1>0
  <1>4. ASSUME NEW e \in E, NEW s \in H, s <= e
        PROVE  s \in E
    <2>1. e \in H /\ Cardinality(Upto(e)) <= n
      BY <1>0
    <2>2. Upto(s) \subseteq Upto(e)
      <3>1. s \in Nat /\ e \in Nat
        BY <1>h, <2>1
      <3>2. ASSUME NEW t \in H, t <= s PROVE t <= e
        <4>1. t \in Nat
          BY <1>h
        <4> QED
          BY <1>4, <3>1, <3>2, <4>1
      <3> QED
        BY <3>2
    <2>3. Cardinality(Upto(s)) <= Cardinality(Upto(e))
      <3>1. IsFiniteSet(Upto(e))
        BY <1>2, <2>1
      <3> HIDE DEF Upto
      <3> QED BY <2>2, <3>1, FS_Subset
    <2>4. Cardinality(Upto(s)) \in Nat /\ Cardinality(Upto(e)) \in Nat
      BY <1>2, <2>1
    <2>5. Cardinality(Upto(s)) <= n
      <3> HIDE DEF Upto, E
      <3> QED BY <2>1, <2>3, <2>4
    <2> QED
      BY <1>0, <2>5
  <1>5. IsFiniteSet(E) /\ Cardinality(E) \in Nat
    BY <1>1, <1>3, FS_Subset, FS_CardinalityType
  <1>6. Cardinality(E) = n => E # {}
    BY FS_EmptySet
  <1>7. ASSUME E # H
        PROVE  Cardinality(E) = n
    <2> DEFINE Rest == H \ E
    <2>1. Rest \in SUBSET Nat /\ Rest # {}
      BY <1>3, <1>7, <1>h
    <2>2. Min(Rest) \in Rest /\ \A y \in Rest : Min(Rest) <= y
      <3> HIDE DEF Rest
      <3> QED BY <2>1, MinNat
    <2>3. PICK z : z = Min(Rest)
      OBVIOUS
    <2>4. z \in H /\ z \notin E /\ \A y \in H : y < z => y \in E
      <3>1. z \in Rest /\ \A y \in Rest : z <= y
        BY <2>2, <2>3
      <3> QED
        BY <3>1
    <2>5. \A e \in E : e < z
      <3> SUFFICES ASSUME NEW e \in E, ~(e < z) PROVE FALSE
        OBVIOUS
      <3>1. e \in Nat /\ z \in Nat
        BY <1>3, <1>h, <2>4
      <3>2. z <= e
        BY <3>1
      <3> QED
        BY <1>4, <2>4, <3>2
    <2>6. Upto(z) = E \cup {z}
      <3>1. \A y \in H : y \in Nat
        BY <1>h
      <3>2. E \cup {z} \subseteq Upto(z)
        <4> HIDE DEF Upto
        <4> QED BY <1>3, <1>u, <2>4, <2>5, <3>1
      <3>3. Upto(z) \subseteq E \cup {z}
        <4> SUFFICES ASSUME NEW y \in H, y <= z, y # z PROVE y \in E
          OBVIOUS
        <4>1. y < z
          BY <2>4, <3>1
        <4> QED
          BY <2>4, <4>1
      <3> QED
        BY <3>2, <3>3
    <2>7. Cardinality(E \cup {z}) = Cardinality(E) + 1
      <3> HIDE DEF E
      <3> QED BY <1>5, <2>4, FS_AddElement
    <2>8. ~(Cardinality(Upto(z)) <= n)
      BY <1>0, <2>4
    <2>9. Cardinality(E) + 1 > n
      <3> HIDE DEF E, Upto
      <3> QED BY <1>5, <2>6, <2>7, <2>8
    <2>10. Cardinality(E) <= n
      <3>1. CASE E = {}
        BY <3>1, FS_EmptySet
      <3>2. CASE E # {}
        <4>1. E \in SUBSET Nat /\ \A x \in E : x <= b
          BY <1>3, <1>h
        <4>2. Max(E) \in E /\ \A y \in E : Max(E) >= y
          <5> HIDE DEF E
          <5> QED BY <3>2, <4>1, MaxBounded
        <4>3. PICK m \in E : \A y \in E : m >= y
          BY <4>2
        <4>4. E \subseteq Upto(m)
          <5>1. \A y \in E : y \in Nat /\ y <= m
            BY <4>1, <4>3
          <5> QED
            BY <1>3, <5>1
        <4>5. m \in H /\ Cardinality(Upto(m)) <= n
          BY <1>0
        <4>6. IsFiniteSet(Upto(m)) /\ Cardinality(Upto(m)) \in Nat
          BY <1>2, <4>5
        <4>7. Cardinality(E) <= Cardinality(Upto(m))
          <5> HIDE DEF E, Upto
          <5> QED BY <4>4, <4>6, FS_Subset
        <4> QED
          <5> HIDE DEF E, Upto
          <5> QED BY <1>5, <4>5, <4>6, <4>7
      <3> QED
        BY <3>1, <3>2
    <2> QED
      <3> HIDE DEF E
      <3> QED BY <1>5, <2>9, <2>10
  <1> QED
    BY <1>3, <1>4, <1>6, <1>7 DEF E


\* Entry s, after the position, is on the page or outside the reader's scope.
Told(r, entries, s) == s \in entries \/ (r \notin GlobalLog /\ log[s] # "hit")

\* A page read without a gap hands over, or rightly leaves out, every entry up
\* to the position it ends at, cut by the byte cap or not.
LEMMA PageFacts ==
    ASSUME Shape, NEW r, NEW after \in Nat, after >= log_gc_floor,
           NEW n \in Nat \ {0}, NEW scan \in Nat,
           NEW page \in Prefixes(Page(r, after, n, scan))
    PROVE  /\ page.entries \subseteq DOMAIN log
           /\ page.next \in Nat
           /\ page.next = after \/ page.next <= ingest_seq
           /\ \A s \in Nat : after < s /\ s <= page.next
                 => s \in DOMAIN log /\ Told(r, page.entries, s)
  <1>0. /\ ingest_seq \in Nat /\ log_gc_floor \in Nat
        /\ \A s \in Nat : s \in DOMAIN log <=> log_gc_floor < s /\ s <= ingest_seq
        /\ DOMAIN log \in SUBSET (1..ingest_seq)
    BY DEF Shape
  <1> DEFINE whole == Page(r, after, n, scan)
  <1>1. /\ whole.entries \subseteq DOMAIN log
        /\ whole.next \in Nat
        /\ whole.next = after \/ whole.next <= ingest_seq
        /\ \A s \in Nat : after < s /\ s <= whole.next
              => s \in DOMAIN log /\ Told(r, whole.entries, s)
        /\ \A e \in whole.entries : \A s \in Nat : after < s /\ s <= e
              => s \in DOMAIN log /\ Told(r, whole.entries, s)
    <2>1. ASSUME NEW k \in Nat
          PROVE  LET S == Scanned(after, k)
                 IN  /\ S \in SUBSET (DOMAIN log)
                     /\ S \in SUBSET (1..ingest_seq)
                     /\ \A m \in S : \A s \in Nat : after < s /\ s <= m
                           => s \in DOMAIN log /\ s \in S
                     /\ \A m \in S : after < m
      <3>1. Scanned(after, k) \in SUBSET (DOMAIN log)
        BY DEF Scanned
      <3>2. ASSUME NEW m \in Scanned(after, k)
            PROVE  m \in Nat /\ m <= ingest_seq /\ m <= after + k /\ after < m
        BY <1>0 DEF Scanned
      <3>3. ASSUME NEW m \in Scanned(after, k), NEW s \in Nat, after < s, s <= m
            PROVE  s \in DOMAIN log /\ s \in Scanned(after, k)
        <4>1. s \in DOMAIN log
          BY <1>0, <3>2, <3>3
        <4>2. s <= after + k
          BY <3>2, <3>3
        <4> QED
          BY <3>3, <4>1, <4>2 DEF Scanned
      <3> QED
        BY <1>0, <3>1, <3>2, <3>3
    <2>2. CASE r \in GlobalLog
      <3> DEFINE S == Scanned(after, n)
      <3>1. whole = [entries |-> S, next |-> Last(S, after)]
        BY <2>2 DEF Page
      <3>2. whole.entries = S /\ whole.next = Last(S, after)
        BY <3>1
      <3>3. /\ S \in SUBSET (DOMAIN log)
            /\ S \in SUBSET (1..ingest_seq)
            /\ \A m \in S : \A s \in Nat : after < s /\ s <= m
                  => s \in DOMAIN log /\ s \in S
        BY <2>1
      <3> HIDE DEF S, whole
      <3>4. Last(S, after) \in {after} \cup S /\ Last(S, after) \in Nat
        BY <1>0, <3>3, LastFacts
      <3>5. \A s \in Nat : after < s /\ s <= Last(S, after)
               => s \in DOMAIN log /\ s \in S
        BY <3>3, <3>4
      <3>6. Last(S, after) = after \/ Last(S, after) <= ingest_seq
        BY <1>0, <3>3, <3>4
      <3> QED
        BY <3>2, <3>3, <3>4, <3>5, <3>6 DEF Told
    <2>3. CASE r \notin GlobalLog
      <3> DEFINE S == Scanned(after, scan)
                 H == Hits(S)
                 E == FirstN(H, n)
                 L == IF Cardinality(E) = n THEN E ELSE S
      <3>1. whole = [entries |-> E, next |-> Last(L, after)]
        BY <2>3 DEF Page
      <3>2. whole.entries = E /\ whole.next = Last(L, after)
        BY <3>1
      <3>3. /\ S \in SUBSET (DOMAIN log)
            /\ S \in SUBSET (1..ingest_seq)
            /\ \A m \in S : \A s \in Nat : after < s /\ s <= m
                  => s \in DOMAIN log /\ s \in S
        BY <2>1
      <3>4. H \in SUBSET S /\ \A s \in S : s \in H <=> log[s] = "hit"
        BY DEF Hits
      <3>5. H \in SUBSET (1..ingest_seq)
        BY <3>3, <3>4
      <3>6. /\ E \subseteq H
            /\ \A e \in E, s \in H : s <= e => s \in E
            /\ Cardinality(E) # n => E = H
        <4> HIDE DEF H
        <4> QED BY <1>0, <3>5, FirstNFacts
      <3>7. L = E \/ (L = S /\ E = H)
        BY <3>6
      <3> HIDE DEF S, H, E, L, whole
      <3>8. L \in SUBSET S /\ L \in SUBSET (1..ingest_seq)
        BY <3>3, <3>4, <3>6, <3>7
      <3>9. Last(L, after) \in {after} \cup L /\ Last(L, after) \in Nat
        BY <1>0, <3>8, LastFacts
      <3>10. ASSUME NEW e \in E \cup L, NEW s \in Nat, after < s, s <= e
             PROVE  s \in DOMAIN log /\ Told(r, E, s)
        <4>1. e \in S
          BY <3>4, <3>6, <3>8
        <4>2. s \in DOMAIN log /\ s \in S
          BY <3>3, <3>10, <4>1
        <4>3. CASE log[s] # "hit"
          BY <2>3, <4>2, <4>3 DEF Told
        <4>4. CASE log[s] = "hit"
          <5>1. s \in H
            BY <3>4, <4>2, <4>4
          <5>2. s \in E
            BY <3>6, <3>7, <3>10, <5>1
          <5> QED
            BY <4>2, <5>2 DEF Told
        <4> QED
          BY <4>3, <4>4
      <3>11. \A s \in Nat : after < s /\ s <= Last(L, after)
               => s \in DOMAIN log /\ Told(r, E, s)
        BY <3>9, <3>10
      <3>12. Last(L, after) = after \/ Last(L, after) <= ingest_seq
        BY <1>0, <3>8, <3>9
      <3>13. E \subseteq DOMAIN log
        BY <3>3, <3>4, <3>6
      <3> QED
        BY <3>2, <3>9, <3>10, <3>11, <3>12, <3>13
    <2> QED
      BY <2>2, <2>3
  <1>2. \/ page = whole
        \/ \E last \in whole.entries :
              page = [entries |-> {s \in whole.entries : s <= last},
                      next |-> last]
    BY DEF Prefixes
  <1> HIDE DEF whole
  <1>3. CASE page = whole
    BY <1>1, <1>3
  <1>4. ASSUME NEW last \in whole.entries,
               page = [entries |-> {s \in whole.entries : s <= last},
                       next |-> last]
        PROVE  /\ page.entries \subseteq DOMAIN log
               /\ page.next \in Nat
               /\ page.next <= ingest_seq
               /\ \A s \in Nat : after < s /\ s <= page.next
                     => s \in DOMAIN log /\ Told(r, page.entries, s)
    <2>1. page.next = last /\ page.entries = {s \in whole.entries : s <= last}
      BY <1>4
    <2>2. last \in Nat /\ last <= ingest_seq
      BY <1>0, <1>1
    <2>3. \A s \in Nat : after < s /\ s <= last
              => s \in DOMAIN log /\ Told(r, page.entries, s)
      BY <1>1, <2>1 DEF Told
    <2> QED
      BY <1>1, <2>1, <2>2, <2>3
  <1> QED
    BY <1>2, <1>3, <1>4


-----------------------------------------------------------------------------
(* Type correctness.  What LogInv does not say of the types yet: every       *)
(* position stays within one of the last entry there can be, and the log     *)
(* holds what was appended.                                                  *)

Bounds ==
    /\ ingest_seq <= LastSeq /\ log_gc_floor <= ingest_seq
    /\ log \in [log_gc_floor + 1 .. ingest_seq -> Ops]
    /\ after_seq \in [Registered -> 0..LastSeq + 1]
    /\ running \in BOOLEAN /\ changed \in BOOLEAN
    /\ inbox \in Seq([cmd : {"open", "advance", "close"}, c : Cursors,
                      seq : 0..LastSeq + 1])
    /\ snap \in [Cursors -> 0..LastSeq + 1]
    /\ pos \in [Pagers -> 0..LastSeq + 1]
    /\ seen \in [Readers -> SUBSET (1..LastSeq)]
    /\ lost \in [Readers -> 0..LastSeq]
    /\ rebased \in [Readers -> SUBSET (1..LastSeq + 1)]
    /\ ops \in Seq(Ops) /\ Len(ops) = ingest_seq

\* The log and the history of appends agree on every entry not trimmed.
Mirrors == \A s \in DOMAIN log : log[s] = ops[s]

\* The invariants imply the type invariant.
LEMMA BoundsType == LogInv /\ Bounds => TypeOK
  <1> SUFFICES ASSUME LogInv, Bounds PROVE TypeOK
    OBVIOUS
  <1>0. Shape /\ PromisesPast /\ WakesMatchLag /\ LastSeq \in Nat
    BY LimitAssumption DEF LogInv
  <1>1. claims \in [Registered \cap Protected -> 0..LastSeq + 1]
    BY <1>0 DEF Shape, Bounds, Claims, Registered
  <1>2. promised \in [Cursors -> 0..ingest_seq]
    BY <1>0 DEF Shape, PromisesPast
  <1>3. ingest_seq \in 0..LastSeq /\ log_gc_floor \in 0..ingest_seq
    BY <1>0 DEF Shape, Bounds
  <1>4. wakes \subseteq Registered /\ kept \subseteq Protected
        /\ Registered \subseteq Cursors /\ host \in [Cursors -> HostStates]
    BY <1>0 DEF Shape, WakesMatchLag
  <1> QED
    BY <1>1, <1>2, <1>3, <1>4 DEF Bounds, TypeOK

\* What an append does to the log and to its history.
LEMMA AppendBounds ==
    ASSUME LogInv, Bounds, Mirrors, NEW new \in Seq(Ops), LogAppend(new)
    PROVE  /\ ingest_seq <= ingest_seq' /\ ingest_seq' \in Nat
           /\ ingest_seq' <= LastSeq /\ log_gc_floor' <= ingest_seq'
           /\ log' \in [log_gc_floor' + 1 .. ingest_seq' -> Ops]
           /\ ops' \in Seq(Ops) /\ Len(ops') = ingest_seq'
           /\ \A s \in 1..ingest_seq : ops'[s] = ops[s]
           /\ Mirrors'
  <1> DEFINE latest == ingest_seq + Len(new)
  <1>0. Shape /\ ingest_seq \in Nat /\ log_gc_floor \in Nat /\ Len(new) \in Nat
    BY DEF LogInv, Shape
  <1>1. /\ latest <= LastSeq
        /\ ingest_seq' = latest
        /\ log_gc_floor' = Floor(latest)
        /\ log' = [s \in Floor(latest) + 1 .. latest |->
                     IF s <= ingest_seq THEN log[s] ELSE new[s - ingest_seq]]
        /\ ops' = ops \o new
    BY DEF LogAppend
  <1>2. latest \in Nat /\ ingest_seq <= latest
    BY <1>0
  <1>3. /\ Floor(latest) \in Nat /\ Floor(latest) >= log_gc_floor
        /\ Floor(latest) <= latest
    <2>1. log_gc_floor <= latest
      BY <1>0, <1>2 DEF Bounds
    <2> HIDE DEF latest
    <2> QED
      BY <1>0, <1>2, <2>1, FloorFacts
  <1>4. /\ ops \in Seq(Ops) /\ Len(ops) = ingest_seq
        /\ log \in [log_gc_floor + 1 .. ingest_seq -> Ops]
    BY DEF Bounds
  <1>5. /\ ops \o new \in Seq(Ops) /\ Len(ops \o new) = latest
        /\ \A s \in 1..latest : (ops \o new)[s] =
              IF s <= ingest_seq THEN ops[s] ELSE new[s - ingest_seq]
    <2> HIDE DEF latest
    <2>1. ops \o new \in Seq(Ops) /\ Len(ops \o new) = Len(ops) + Len(new)
      BY <1>4
    <2>2. Len(ops \o new) = latest
      BY <1>4, <2>1 DEF latest
    <2>3. \A s \in 1..Len(ops) + Len(new) : (ops \o new)[s] =
             IF s <= Len(ops) THEN ops[s] ELSE new[s - Len(ops)]
      BY <1>4
    <2> QED
      BY <1>4, <2>1, <2>2, <2>3
  <1>6. ASSUME NEW s \in Floor(latest) + 1 .. latest
        PROVE  /\ log'[s] \in Ops
               /\ log'[s] = ops'[s]
    <2>1. s \in 1..latest /\ s \in Nat /\ s > log_gc_floor
      BY <1>0, <1>2, <1>3
    <2>2. CASE s <= ingest_seq
      <3>1. s \in DOMAIN log
        BY <1>0, <1>4, <2>1, <2>2
      <3>2. log'[s] = log[s] /\ ops'[s] = ops[s]
        BY <1>1, <1>5, <1>6, <2>1, <2>2
      <3> QED
        BY <1>4, <3>1, <3>2 DEF Mirrors
    <2>3. CASE ~(s <= ingest_seq)
      <3>1. s - ingest_seq \in 1..Len(new)
        BY <1>0, <2>1, <2>3
      <3>2. log'[s] = new[s - ingest_seq] /\ ops'[s] = new[s - ingest_seq]
        BY <1>1, <1>5, <1>6, <2>1, <2>3
      <3> QED
        BY <3>1, <3>2
    <2> QED
      BY <2>2, <2>3
  <1>7. DOMAIN log' = Floor(latest) + 1 .. latest
    BY <1>1
  <1>8. log' \in [log_gc_floor' + 1 .. ingest_seq' -> Ops]
    <2> HIDE DEF latest
    <2>1. log' = [s \in Floor(latest) + 1 .. latest |-> log'[s]]
      BY <1>1, <1>7
    <2> QED
      BY <1>1, <1>6, <2>1
  <1>9. Mirrors'
    BY <1>6, <1>7 DEF Mirrors
  <1>10. \A s \in 1..ingest_seq : ops'[s] = ops[s]
    BY <1>0, <1>1, <1>2, <1>5
  <1> HIDE DEF latest
  <1> QED
    BY <1>1, <1>2, <1>3, <1>5, <1>8, <1>9, <1>10

\* The entries one accepted event appends.
LEMMA NewEntries ==
    ASSUME NEW n \in 0..1, NEW op \in {"hit", "miss"}
    PROVE  [i \in 1..n |-> "Deleted"] \o <<op>> \in Seq(Ops)
  <1>1. [i \in 1..n |-> "Deleted"] \in Seq(Ops)
    BY DEF Ops
  <1>2. <<op>> \in Seq(Ops)
    BY DEF Ops
  <1> QED
    BY <1>1, <1>2

\* Both ways the store appends.
LEMMA StoreBounds ==
    ASSUME LogInv, Bounds, Mirrors, Ingest \/ Collect
    PROVE  /\ ingest_seq <= ingest_seq' /\ ingest_seq' \in Nat
           /\ \A s \in 1..ingest_seq : ops'[s] = ops[s]
           /\ UNCHANGED <<after_seq, inbox, host, snap, pos, seen, lost, rebased>>
           /\ Mirrors' /\ Bounds'
  <1>0. \E new \in Seq(Ops) : LogAppend(new)
    <2>1. CASE Ingest
      <3>1. PICK n \in 0..1, op \in {"hit", "miss"} :
              LogAppend([i \in 1..n |-> "Deleted"] \o <<op>>)
        BY <2>1 DEF Ingest
      <3> QED
        BY <3>1, NewEntries
    <2>2. CASE Collect
      <3>1. LogAppend(<<"Deleted">>) /\ <<"Deleted">> \in Seq(Ops)
        BY <2>2 DEF Collect, Ops
      <3> QED
        BY <3>1
    <2> QED
      BY <2>1, <2>2
  <1>1. PICK new \in Seq(Ops) : LogAppend(new)
    BY <1>0
  <1>2. /\ UNCHANGED <<after_seq, inbox, host, snap, pos, seen, lost, rebased>>
        /\ changed' \in BOOLEAN /\ running' = running
    BY DEF Ingest, Collect, hostVars, readVars, Bounds
  <1>3. /\ ingest_seq <= ingest_seq' /\ ingest_seq' \in Nat
        /\ ingest_seq' <= LastSeq /\ log_gc_floor' <= ingest_seq'
        /\ log' \in [log_gc_floor' + 1 .. ingest_seq' -> Ops]
        /\ ops' \in Seq(Ops) /\ Len(ops') = ingest_seq'
        /\ \A s \in 1..ingest_seq : ops'[s] = ops[s]
        /\ Mirrors'
    BY <1>1, AppendBounds
  <1>4. Bounds'
    BY <1>2, <1>3 DEF Bounds, Registered
  <1> QED
    BY <1>2, <1>3, <1>4


\* A command posted with a position in bounds keeps the inbox in bounds.
LEMMA PostBounds ==
    ASSUME Bounds, NEW verb \in {"open", "advance", "close"},
           NEW c \in Cursors, NEW seq \in 0..LastSeq + 1, Posted(verb, c, seq)
    PROVE  inbox' \in Seq([cmd : {"open", "advance", "close"}, c : Cursors,
                           seq : 0..LastSeq + 1])
  <1> DEFINE T == [cmd : {"open", "advance", "close"}, c : Cursors,
                   seq : 0..LastSeq + 1]
             m == [cmd |-> verb, c |-> c, seq |-> seq]
  <1>1. m \in T /\ inbox \in Seq(T)
    BY DEF Bounds
  <1>2. inbox' \in {inbox, Append(inbox, m)}
    BY DEF Posted
  <1> HIDE DEF T, m
  <1>3. inbox' \in Seq(T)
    BY <1>1, <1>2
  <1> QED
    BY <1>3 DEF T

\* Where a gap sends a reader.
LEMMA GapBounds ==
    ASSUME LogInv, Bounds, NEW r \in Readers, Rebased(r)
    PROVE  /\ FirstAvailable \in 1..LastSeq + 1
           /\ seen' = seen
           /\ lost' \in [Readers -> 0..LastSeq]
           /\ lost'[r] >= lost[r] /\ lost'[r] >= log_gc_floor
           /\ rebased' \in [Readers -> SUBSET (1..LastSeq + 1)]
           /\ rebased'[r] = rebased[r] \cup {FirstAvailable}
           /\ \A q \in Readers : q # r => /\ lost'[q] = lost[q]
                                          /\ rebased'[q] = rebased[q]
  <1>0. /\ ingest_seq \in Nat /\ log_gc_floor \in Nat /\ LastSeq \in Nat
        /\ log_gc_floor <= ingest_seq /\ ingest_seq <= LastSeq
    BY LimitAssumption DEF LogInv, Shape, Bounds
  <1>1. FirstAvailable \in 1..LastSeq + 1
    BY <1>0 DEF FirstAvailable
  <1>2. lost[r] \in 0..LastSeq /\ lost[r] \in Int /\ log_gc_floor \in Int
    BY <1>0 DEF Bounds
  <1>3. PICK m : m = Max({lost[r], log_gc_floor})
    OBVIOUS
  <1>4. m \in {lost[r], log_gc_floor} /\ m >= lost[r] /\ m >= log_gc_floor
    BY <1>2, <1>3, MaxOfTwo
  <1>5. m \in 0..LastSeq
    BY <1>0, <1>2, <1>4
  <1>6. /\ lost' = [lost EXCEPT ![r] = m]
        /\ rebased' = [rebased EXCEPT ![r] = @ \cup {FirstAvailable}]
        /\ seen' = seen
    BY <1>3 DEF Rebased
  <1> QED
    BY <1>1, <1>4, <1>5, <1>6 DEF Bounds

\* What a page adds to what its reader was handed.
LEMMA HandedBounds ==
    ASSUME LogInv, Bounds, NEW r \in Readers, NEW page,
           page.entries \subseteq DOMAIN log, Handed(r, page)
    PROVE  /\ UNCHANGED <<lost, rebased>>
           /\ seen' \in [Readers -> SUBSET (1..LastSeq)]
           /\ seen'[r] = seen[r] \cup page.entries
           /\ \A q \in Readers : q # r => seen'[q] = seen[q]
  <1>0. /\ ingest_seq \in Nat /\ log_gc_floor \in Nat /\ LastSeq \in Nat
        /\ log_gc_floor <= ingest_seq /\ ingest_seq <= LastSeq
        /\ DOMAIN log = log_gc_floor + 1 .. ingest_seq
    BY LimitAssumption DEF LogInv, Shape, Bounds
  <1>1. page.entries \subseteq 1..LastSeq
    BY <1>0
  <1> QED
    BY <1>1 DEF Bounds, Handed

\* A reader that is not told of a gap is at the floor or past it.
LEMMA NoGap ==
    ASSUME Shape, NEW after \in Nat, ~Gap(after)
    PROVE  after >= log_gc_floor
  BY DEF Gap, Shape

\* A page without a gap ends within bounds.
LEMMA PageBounds ==
    ASSUME LogInv, Bounds, NEW after \in 0..LastSeq + 1,
           NEW next \in Nat, next = after \/ next <= ingest_seq
    PROVE  next \in 0..LastSeq + 1
  <1>0. ingest_seq \in Nat /\ LastSeq \in Nat /\ ingest_seq <= LastSeq
    BY LimitAssumption DEF LogInv, Shape, Bounds
  <1> QED
    BY <1>0

\* The commands keep positions in bounds.
LEMMA CommandBounds ==
    ASSUME LogInv, Bounds, RunCommand
    PROVE  /\ Bounds'
           /\ \A c \in Registered' :
                 \/ c \in Registered /\ after_seq'[c] = after_seq[c]
                 \/ Head(inbox).c = c /\ after_seq'[c] = Head(inbox).seq
  <1> DEFINE cmd == Head(inbox)
             T == [cmd : {"open", "advance", "close"}, c : Cursors,
                   seq : 0..LastSeq + 1]
  <1>0. inbox \in Seq(T) /\ inbox # << >> /\ inbox' = Tail(inbox)
    BY DEF Bounds, RunCommand
  <1>1. cmd \in T /\ inbox' \in Seq(T)
    <2> HIDE DEF T
    <2> QED BY <1>0
  <1>2. cmd.c \in Cursors /\ cmd.seq \in 0..LastSeq + 1
    BY <1>1
  <1>3. after_seq \in [Registered -> 0..LastSeq + 1] /\ LastSeq \in Nat
    BY LimitAssumption DEF Bounds
  <1>4. OpenPullCursor(cmd) \/ AdvancePullCursor(cmd) \/ UnregisterPullCursor(cmd)
    BY DEF RunCommand
  <1> HIDE DEF cmd
  <1>5. /\ after_seq' \in [Registered' -> 0..LastSeq + 1]
        /\ \A c \in Registered' :
              \/ c \in Registered /\ after_seq'[c] = after_seq[c]
              \/ cmd.c = c /\ after_seq'[c] = cmd.seq
    <2>1. CASE after_seq' = after_seq
      BY <1>3, <2>1 DEF Registered
    <2>2. CASE after_seq' = [c \in Registered \cup {cmd.c} |->
                               IF c = cmd.c THEN cmd.seq ELSE after_seq[c]]
      BY <1>2, <1>3, <2>2 DEF Registered
    <2>3. CASE after_seq' = [c \in Registered \ {cmd.c} |-> after_seq[c]]
      BY <1>3, <2>3 DEF Registered
    <2>4. CASE /\ cmd.c \in Registered
               /\ after_seq' = [after_seq EXCEPT ![cmd.c] =
                                  Advanced(cmd.c, cmd.seq)]
      <3>1. after_seq[cmd.c] \in Int /\ cmd.seq \in Int
        BY <1>2, <1>3, <2>4
      <3>2. PICK m : m = Advanced(cmd.c, cmd.seq)
        OBVIOUS
      <3>3. m \in {after_seq[cmd.c], cmd.seq}
        BY <3>1, <3>2, MaxOfTwo DEF Advanced
      <3>4. after_seq' = [after_seq EXCEPT ![cmd.c] = m]
        BY <2>4, <3>2
      <3> QED
        BY <1>2, <1>3, <2>4, <3>3, <3>4 DEF Registered
    <2> QED
      BY <1>4, <2>1, <2>2, <2>3, <2>4
         DEF OpenPullCursor, AdvancePullCursor, UnregisterPullCursor
  <1>6. Bounds'
    <2>1. UNCHANGED <<log, ingest_seq, log_gc_floor, running, changed, snap,
                      pos, seen, lost, rebased, ops>>
      BY DEF RunCommand, storeVars, hostVars, readVars
    <2> QED
      BY <1>1, <1>5, <2>1 DEF Bounds
  <1> QED
    BY <1>5, <1>6 DEF cmd


-----------------------------------------------------------------------------
(* No silent skip.  Wherever a position is, on a page that was read, in a    *)
(* command on its way, in the registry or in a host's copy, everything up to *)
(* it has been accounted for to its reader.                                  *)

Covered(r, n) == \A s \in 1..n : Reached(r, s)

Accounted ==
    /\ Mirrors
    /\ \A c \in Registered : Covered(c, after_seq[c])
    /\ \A c \in Cursors : Covered(c, snap[c])
    /\ \A c \in Cursors : host[c] = "unopened" => lost[c] = 0
    /\ \A p \in Pagers : Covered(p, pos[p])
    /\ \A i \in 1..Len(inbox) : Covered(inbox[i].c, inbox[i].seq)

\* What a reader was told is not taken back.
Grows(r) ==
    /\ seen[r] \subseteq seen'[r]
    /\ rebased[r] \subseteq rebased'[r]
    /\ lost[r] <= lost'[r]
    /\ ingest_seq <= ingest_seq'
    /\ \A s \in 1..ingest_seq : ops'[s] = ops[s]

\* What a reader has covered stays covered while its history grows.
LEMMA CoveredStays ==
    ASSUME Bounds, Bounds', NEW r \in Readers, Grows(r),
           ingest_seq \in Nat, ingest_seq' \in Nat
    PROVE  \A n \in Nat : Covered(r, n) => \A s \in 1..n : Reached(r, s)'
  <1> SUFFICES ASSUME NEW s \in Nat \ {0}, Reached(r, s)
               PROVE  Reached(r, s)'
    BY DEF Covered
  <1>1. lost[r] \in Nat /\ lost'[r] \in Nat
    BY LimitAssumption DEF Bounds
  <1>2. CASE s \in seen[r] \cup rebased[r]
    BY <1>2 DEF Grows, Reached
  <1>3. CASE s <= lost[r]
    BY <1>1, <1>3 DEF Grows, Reached
  <1>4. CASE Irrelevant(r, s)
    <2>1. r \in Shaped /\ s \in 1..ingest_seq /\ ops[s] # "hit"
      BY <1>4 DEF Irrelevant
    <2>2. s <= ingest_seq' /\ ops'[s] # "hit"
      BY <2>1 DEF Grows
    <2> QED
      BY <2>1, <2>2 DEF Reached, Irrelevant
  <1> QED
    BY <1>2, <1>3, <1>4 DEF Reached

\* A step that hands positions on, and covers the new ones, keeps account.
LEMMA AccountKept ==
    ASSUME LogInv, LogInv', Bounds, Bounds', Accounted, Mirrors',
           \A c \in Cursors : Grows(c),
           \A c \in Registered' :
              \/ c \in Registered /\ after_seq'[c] = after_seq[c]
              \/ \E i \in 1..Len(inbox) :
                    inbox[i].c = c /\ inbox[i].seq = after_seq'[c],
           \A c \in Cursors :
              \/ snap'[c] = snap[c]
              \/ c \in Registered /\ snap'[c] = after_seq[c],
           \A c \in Cursors : host'[c] = "unopened"
              => host[c] = "unopened" /\ lost'[c] = lost[c],
           \A p \in Pagers : \A s \in 1..pos'[p] : Reached(p, s)',
           \A i \in 1..Len(inbox') :
              \/ \E j \in 1..Len(inbox) : inbox'[i] = inbox[j]
              \/ \A c \in Cursors : inbox'[i].c = c =>
                    \A s \in 1..inbox'[i].seq : Reached(c, s)'
    PROVE  Accounted'
  <1>0. /\ ingest_seq \in Nat /\ ingest_seq' \in Nat
        /\ Cursors \subseteq Readers
        /\ Registered \subseteq Cursors /\ Registered' \subseteq Cursors
        /\ \A c \in Registered : after_seq[c] \in Nat
        /\ \A c \in Cursors : snap[c] \in Nat
        /\ inbox \in Seq(Commands)
    BY DEF LogInv, Shape, Readers
  <1>1. \A i \in 1..Len(inbox) : inbox[i].c \in Cursors /\ inbox[i].seq \in Nat
    <2>1. \A i \in 1..Len(inbox) : inbox[i] \in Commands
      BY <1>0
    <2> QED
      BY <2>1 DEF Commands
  <1>2. \A c \in Cursors : \A n \in Nat :
           Covered(c, n) => \A s \in 1..n : Reached(c, s)'
    BY <1>0, CoveredStays
  <1>3. \A i \in 1..Len(inbox), c \in Cursors : inbox[i].c = c =>
           \A s \in 1..inbox[i].seq : Reached(c, s)'
    BY <1>1, <1>2 DEF Accounted
  <1>4. ASSUME NEW c \in Registered'
        PROVE  Covered(c, after_seq[c])'
    <2>1. CASE c \in Registered /\ after_seq'[c] = after_seq[c]
      <3>1. \A s \in 1..after_seq[c] : Reached(c, s)'
        BY <1>0, <1>2, <2>1 DEF Accounted
      <3> QED
        BY <2>1, <3>1 DEF Covered
    <2>2. CASE \E i \in 1..Len(inbox) :
                  inbox[i].c = c /\ inbox[i].seq = after_seq'[c]
      <3>1. \A s \in 1..after_seq'[c] : Reached(c, s)'
        BY <1>0, <1>3, <2>2
      <3> QED
        BY <3>1 DEF Covered
    <2> QED
      BY <2>1, <2>2
  <1>5. ASSUME NEW c \in Cursors
        PROVE  Covered(c, snap[c])'
    <2>1. \A s \in 1..snap[c] : Reached(c, s)'
      BY <1>0, <1>2 DEF Accounted
    <2>2. c \in Registered => \A s \in 1..after_seq[c] : Reached(c, s)'
      BY <1>0, <1>2 DEF Accounted
    <2>3. \A s \in 1..snap'[c] : Reached(c, s)'
      BY <2>1, <2>2
    <2> QED
      BY <2>3 DEF Covered
  <1>6. \A c \in Cursors : host'[c] = "unopened" => lost'[c] = 0
    BY DEF Accounted
  <1>7. \A p \in Pagers : Covered(p, pos[p])'
    BY DEF Covered
  <1>8. \A i \in 1..Len(inbox') : Covered(inbox[i].c, inbox[i].seq)'
    <2> SUFFICES ASSUME NEW i \in 1..Len(inbox')
                 PROVE  Covered(inbox[i].c, inbox[i].seq)'
      OBVIOUS
    <2>1. inbox' \in Seq(Commands)
      BY DEF LogInv, Shape
    <2>2. inbox'[i] \in Commands
      BY <2>1
    <2>3. PICK c \in Cursors : inbox'[i].c = c
      BY <2>2 DEF Commands
    <2>4. \A s \in 1..inbox'[i].seq : Reached(c, s)'
      <3>1. CASE \E j \in 1..Len(inbox) : inbox'[i] = inbox[j]
        BY <1>3, <2>3, <3>1
      <3> QED
        BY <2>3, <3>1
    <2> QED
      BY <2>3, <2>4 DEF Covered, Reached, Irrelevant
  <1> QED
    BY <1>4, <1>5, <1>6, <1>7, <1>8 DEF Accounted


\* Pagers that do not move keep what they were told.
LEMMA PagersStay ==
    ASSUME LogInv, LogInv', Bounds, Bounds', Accounted, pos' = pos,
           \A p \in Pagers : Grows(p)
    PROVE  \A p \in Pagers : \A s \in 1..pos'[p] : Reached(p, s)'
  <1>1. /\ ingest_seq \in Nat /\ ingest_seq' \in Nat
        /\ Pagers \subseteq Readers
        /\ \A p \in Pagers : pos[p] \in Nat
    BY LimitAssumption DEF LogInv, Shape, Readers, Bounds
  <1>2. \A p \in Pagers : \A n \in Nat :
           Covered(p, n) => \A s \in 1..n : Reached(p, s)'
    BY <1>1, CoveredStays
  <1> QED
    BY <1>1, <1>2 DEF Accounted

\* Nobody was told anything, and the log is as it was.
LEMMA NothingTold ==
    ASSUME LogInv, Bounds,
           UNCHANGED <<log, ingest_seq, ops, seen, lost, rebased>>
    PROVE  (\A r \in Readers : Grows(r)) /\ (Mirrors => Mirrors')
  <1>1. ingest_seq \in Nat /\ \A r \in Readers : lost[r] \in Nat
    BY LimitAssumption DEF LogInv, Shape, Bounds
  <1> QED
    BY <1>1 DEF Grows, Mirrors

\* Appends and trims keep every position accounted for.
LEMMA StoreAccounted ==
    ASSUME LogInv, LogInv', Bounds, Accounted, Ingest \/ Collect
    PROVE  Bounds' /\ Accounted'
  <1>0. Mirrors
    BY DEF Accounted
  <1>1. /\ ingest_seq <= ingest_seq' /\ ingest_seq' \in Nat
        /\ \A s \in 1..ingest_seq : ops'[s] = ops[s]
        /\ UNCHANGED <<after_seq, inbox, host, snap, pos, seen, lost, rebased>>
        /\ Mirrors' /\ Bounds'
    BY <1>0, StoreBounds
  <1>2. \A r \in Readers : lost[r] \in Nat
    BY LimitAssumption DEF Bounds
  <1>3. \A r \in Readers : Grows(r)
    BY <1>1, <1>2 DEF Grows
  <1>4. Cursors \subseteq Readers /\ Pagers \subseteq Readers
    BY DEF Readers
  <1>5. \A p \in Pagers : \A s \in 1..pos'[p] : Reached(p, s)'
    BY <1>1, <1>3, <1>4, PagersStay
  <1>6. Registered' = Registered
    BY <1>1 DEF Registered
  <1>7. \A c \in Cursors : Grows(c)
    BY <1>3, <1>4
  <1>8. /\ \A c \in Registered' :
              c \in Registered /\ after_seq'[c] = after_seq[c]
        /\ \A c \in Cursors : snap'[c] = snap[c]
        /\ \A c \in Cursors : host'[c] = "unopened"
              => host[c] = "unopened" /\ lost'[c] = lost[c]
        /\ \A i \in 1..Len(inbox') :
              \E j \in 1..Len(inbox) : inbox'[i] = inbox[j]
    BY <1>1, <1>6
  <1>9. Accounted'
    BY <1>1, <1>5, <1>7, <1>8, AccountKept
  <1> QED
    BY <1>1, <1>9

\* The commands of the inbox keep every position accounted for.
LEMMA CommandAccounted ==
    ASSUME LogInv, LogInv', Bounds, Accounted, RunCommand
    PROVE  Bounds' /\ Accounted'
  <1>1. /\ Bounds'
        /\ \A c \in Registered' :
              \/ c \in Registered /\ after_seq'[c] = after_seq[c]
              \/ Head(inbox).c = c /\ after_seq'[c] = Head(inbox).seq
    BY CommandBounds
  <1>2. UNCHANGED <<log, ingest_seq, ops, seen, lost, rebased, host, snap, pos>>
    BY DEF RunCommand, storeVars, hostVars, readVars
  <1>3. (\A r \in Readers : Grows(r)) /\ Mirrors'
    BY <1>2, NothingTold DEF Accounted
  <1>4. Cursors \subseteq Readers /\ Pagers \subseteq Readers
    BY DEF Readers
  <1>5. \A p \in Pagers : \A s \in 1..pos'[p] : Reached(p, s)'
    BY <1>1, <1>2, <1>3, <1>4, PagersStay
  <1>6. /\ inbox # << >> /\ inbox' = Tail(inbox) /\ inbox \in Seq(Commands)
    BY DEF RunCommand, LogInv, Shape
  <1>7. /\ Head(inbox) = inbox[1] /\ 1 \in 1..Len(inbox)
        /\ \A i \in 1..Len(inbox') :
              i + 1 \in 1..Len(inbox) /\ inbox'[i] = inbox[i + 1]
    BY <1>6
  <1>8. \A c \in Registered' :
           \/ c \in Registered /\ after_seq'[c] = after_seq[c]
           \/ \E i \in 1..Len(inbox) :
                 inbox[i].c = c /\ inbox[i].seq = after_seq'[c]
    BY <1>1, <1>7
  <1>9. \A i \in 1..Len(inbox') : \E j \in 1..Len(inbox) : inbox'[i] = inbox[j]
    BY <1>7
  <1>10. \A c \in Cursors : Grows(c)
    BY <1>3, <1>4
  <1>11. /\ \A c \in Cursors : snap'[c] = snap[c]
         /\ \A c \in Cursors : host'[c] = "unopened"
               => host[c] = "unopened" /\ lost'[c] = lost[c]
    BY <1>2
  <1>12. Accounted'
    BY <1>1, <1>3, <1>5, <1>8, <1>9, <1>10, <1>11, AccountKept
  <1> QED
    BY <1>1, <1>12

\* Frames, other changes and stuttering.
LEMMA FrameAccounted ==
    ASSUME LogInv, LogInv', Bounds, Accounted,
           \/ Emit \/ OtherChange \/ UNCHANGED vars
           \/ \E on \in BOOLEAN : EmitNow(on)
    PROVE  Bounds' /\ Accounted'
  <1>1. /\ UNCHANGED <<log, ingest_seq, log_gc_floor, ops, seen, lost, rebased,
                       after_seq, inbox, snap, pos>>
        /\ changed' \in BOOLEAN /\ running' \in BOOLEAN
    BY DEF Emit, EmitNow, MakeUpdate, OtherChange, vars, storeVars, hostVars, readVars, Bounds
  <1>2. Bounds'
    BY <1>1 DEF Bounds, Registered
  <1>3. \A c \in Cursors : host'[c] = "unopened" => host[c] = "unopened"
    BY DEF Emit, EmitNow, MakeUpdate, OtherChange, vars, hostVars
  <1>4. (\A r \in Readers : Grows(r)) /\ Mirrors'
    BY <1>1, NothingTold DEF Accounted
  <1>5. Cursors \subseteq Readers /\ Pagers \subseteq Readers
    BY DEF Readers
  <1>6. \A p \in Pagers : \A s \in 1..pos'[p] : Reached(p, s)'
    BY <1>1, <1>2, <1>4, <1>5, PagersStay
  <1>7. \A c \in Cursors : Grows(c)
    BY <1>4, <1>5
  <1>8. Registered' = Registered
    BY <1>1 DEF Registered
  <1>9. /\ \A c \in Registered' :
              c \in Registered /\ after_seq'[c] = after_seq[c]
        /\ \A c \in Cursors : snap'[c] = snap[c]
        /\ \A c \in Cursors : host'[c] = "unopened"
              => host[c] = "unopened" /\ lost'[c] = lost[c]
        /\ \A i \in 1..Len(inbox') :
              \E j \in 1..Len(inbox) : inbox'[i] = inbox[j]
    BY <1>1, <1>3, <1>8
  <1>10. Accounted'
    BY <1>2, <1>4, <1>6, <1>7, <1>9, AccountKept
  <1> QED
    BY <1>2, <1>10


\* What posting puts into the inbox.
LEMMA PostedEntries ==
    ASSUME LogInv, NEW verb \in {"open", "advance", "close"},
           NEW c \in Cursors, NEW seq \in Nat, Posted(verb, c, seq)
    PROVE  \A i \in 1..Len(inbox') :
              \/ \E j \in 1..Len(inbox) : inbox'[i] = inbox[j]
              \/ inbox'[i].c = c /\ inbox'[i].seq = seq
  <1> DEFINE m == [cmd |-> verb, c |-> c, seq |-> seq]
  <1>1. inbox \in Seq(Commands) /\ m \in Commands
    BY DEF LogInv, Shape, Commands
  <1>2. m.c = c /\ m.seq = seq
    OBVIOUS
  <1>3. inbox' \in {inbox, Append(inbox, m)}
    BY DEF Posted
  <1> HIDE DEF m
  <1>4. CASE inbox' = inbox
    BY <1>4
  <1>5. CASE inbox' = Append(inbox, m)
    <2>1. /\ Len(inbox') = Len(inbox) + 1 /\ Len(inbox) \in Nat
          /\ \A i \in 1..Len(inbox) : inbox'[i] = inbox[i]
          /\ inbox'[Len(inbox) + 1] = m
      BY <1>1, <1>5
    <2> SUFFICES ASSUME NEW i \in 1..Len(inbox')
                 PROVE  \/ \E j \in 1..Len(inbox) : inbox'[i] = inbox[j]
                        \/ inbox'[i].c = c /\ inbox'[i].seq = seq
      OBVIOUS
    <2>2. i \in 1..Len(inbox) \/ i = Len(inbox) + 1
      BY <2>1
    <2> QED
      BY <1>2, <2>1, <2>2
  <1> QED
    BY <1>3, <1>4, <1>5

\* A host opens, closes or copies its registration.
LEMMA HostAccounted ==
    ASSUME LogInv, LogInv', Bounds, Accounted, NEW c \in Cursors,
           HostOpen(c) \/ HostClose(c) \/ Snapshot(c)
    PROVE  Bounds' /\ Accounted'
  <1>0. /\ ingest_seq \in Nat /\ LastSeq \in Nat /\ ingest_seq <= LastSeq
        /\ Cursors \subseteq Readers /\ Pagers \subseteq Readers
        /\ Cursors \cap Pagers = {}
        /\ host \in [Cursors -> HostStates]
        /\ \A d \in Registered : after_seq[d] \in 0..LastSeq + 1
    BY LimitAssumption, ReaderAssumption DEF LogInv, Shape, Bounds, Readers
  <1>l. \A r \in Readers : lost[r] \in Nat
    BY <1>0 DEF Bounds
  <1>1. /\ UNCHANGED <<log, ingest_seq, log_gc_floor, ops, seen, rebased,
                       after_seq, running, changed, pos>>
        /\ Registered' = Registered
    BY DEF HostOpen, HostClose, Snapshot, storeVars, readVars, Registered
  <1>2. \E st \in {"idle", "closed", "reading"} : host' = [host EXCEPT ![c] = st]
    BY DEF HostOpen, HostClose, Snapshot
  <1>3. host'[c] # "unopened" /\ \A d \in Cursors : d # c => host'[d] = host[d]
    BY <1>0, <1>2
  <1>4. \E seq \in 0..LastSeq : \E verb \in {"open", "advance", "close"} :
           /\ \/ Posted(verb, c, seq)
              \/ inbox' = inbox
           /\ \/ lost' = lost /\ seq = 0
              \/ lost' = [lost EXCEPT ![c] = seq]
           /\ lost[c] <= lost'[c]
    <2>1. CASE HostOpen(c)
      <3>1. PICK seq \in 0..ingest_seq :
              Posted("open", c, seq) /\ lost' = [lost EXCEPT ![c] = seq]
        BY <2>1 DEF HostOpen
      <3>2. lost[c] = 0
        BY <2>1 DEF HostOpen, Accounted
      <3>3. lost'[c] = seq /\ seq \in 0..LastSeq
        BY <1>0, <3>1 DEF Bounds
      <3>4. lost[c] <= lost'[c]
        BY <3>2, <3>3
      <3> QED
        BY <3>1, <3>3, <3>4
    <2>2. CASE HostClose(c) \/ Snapshot(c)
      <3>1. lost' = lost /\ (Posted("close", c, 0) \/ inbox' = inbox)
        BY <2>2 DEF HostClose, Snapshot, readVars
      <3>2. lost[c] <= lost'[c] /\ 0 \in 0..LastSeq
        BY <1>0, <1>l, <3>1
      <3> QED
        BY <3>1, <3>2
    <2> QED
      BY <2>1, <2>2
  <1>5. PICK seq \in 0..LastSeq, verb \in {"open", "advance", "close"} :
           /\ Posted(verb, c, seq) \/ inbox' = inbox
           /\ \/ lost' = lost /\ seq = 0
              \/ lost' = [lost EXCEPT ![c] = seq]
           /\ lost[c] <= lost'[c]
    BY <1>4
  <1>6. /\ lost' \in [Readers -> 0..LastSeq]
        /\ seq <= lost'[c]
        /\ \A r \in Readers : r # c => lost'[r] = lost[r]
    <2>1. c \in Readers /\ lost \in [Readers -> 0..LastSeq]
      BY <1>0 DEF Bounds
    <2>2. CASE lost' = lost /\ seq = 0
      BY <1>l, <2>1, <2>2
    <2>3. CASE lost' = [lost EXCEPT ![c] = seq]
      BY <1>0, <2>1, <2>3
    <2> QED
      BY <1>5, <2>2, <2>3
  <1>7. snap' = snap \/ (c \in Registered /\ snap' = [snap EXCEPT ![c] = after_seq[c]])
    BY DEF HostOpen, HostClose, Snapshot
  <1>8. inbox' \in Seq([cmd : {"open", "advance", "close"}, c : Cursors,
                        seq : 0..LastSeq + 1])
    <2>1. seq \in 0..LastSeq + 1
      BY <1>0
    <2>2. CASE Posted(verb, c, seq)
      BY <2>1, <2>2, PostBounds
    <2>3. CASE inbox' = inbox
      BY <2>3 DEF Bounds
    <2> QED
      BY <1>5, <2>2, <2>3
  <1>9. snap' \in [Cursors -> 0..LastSeq + 1]
    BY <1>0, <1>7 DEF Bounds
  <1>10. Bounds'
    BY <1>1, <1>6, <1>8, <1>9 DEF Bounds
  <1>11. \A r \in Readers : Grows(r)
    <2>1. \A r \in Readers : lost[r] <= lost'[r]
      BY <1>l, <1>5, <1>6
    <2> QED
      BY <1>0, <1>1, <2>1 DEF Grows
  <1>12. Mirrors'
    BY <1>1 DEF Accounted, Mirrors
  <1>13. \A p \in Pagers : \A s \in 1..pos'[p] : Reached(p, s)'
    BY <1>0, <1>1, <1>10, <1>11, PagersStay
  <1>14. \A i \in 1..Len(inbox') :
           \/ \E j \in 1..Len(inbox) : inbox'[i] = inbox[j]
           \/ \A d \in Cursors : inbox'[i].c = d =>
                 \A s \in 1..inbox'[i].seq : Reached(d, s)'
    <2>1. CASE inbox' = inbox
      BY <2>1
    <2>2. CASE Posted(verb, c, seq)
      <3>1. seq \in Nat
        BY <1>0
      <3>2. \A i \in 1..Len(inbox') :
              \/ \E j \in 1..Len(inbox) : inbox'[i] = inbox[j]
              \/ inbox'[i].c = c /\ inbox'[i].seq = seq
        BY <2>2, <3>1, PostedEntries
      <3>3. \A s \in 1..seq : Reached(c, s)'
        <4>1. lost'[c] \in Nat
          BY <1>0, <1>6
        <4>2. \A s \in 1..seq : s <= lost'[c]
          BY <1>6, <3>1, <4>1
        <4> QED
          BY <4>2 DEF Reached
      <3> QED
        BY <3>2, <3>3
    <2> QED
      BY <1>5, <2>1, <2>2
  <1>15. /\ \A d \in Cursors : Grows(d)
         /\ \A d \in Registered' :
               d \in Registered /\ after_seq'[d] = after_seq[d]
    BY <1>0, <1>1, <1>11
  <1>16. /\ \A d \in Cursors :
               snap'[d] = snap[d] \/ (d \in Registered /\ snap'[d] = after_seq[d])
    BY <1>7 DEF Bounds
  <1>17. \A d \in Cursors : host'[d] = "unopened"
               => host[d] = "unopened" /\ lost'[d] = lost[d]
    BY <1>0, <1>3, <1>6
  <1>18. Accounted'
    BY <1>10, <1>12, <1>13, <1>14, <1>15, <1>16, <1>17, AccountKept
  <1> QED
    BY <1>10, <1>18


\* A gap accounts for everything below the floor, and for the one entry that
\* it names as the new position.
LEMMA GapCovers ==
    ASSUME LogInv, Bounds, NEW r \in Readers, Rebased(r),
           UNCHANGED <<log, ingest_seq, ops>>
    PROVE  /\ FirstAvailable \in 0..LastSeq + 1
           /\ seen' \in [Readers -> SUBSET (1..LastSeq)]
           /\ lost' \in [Readers -> 0..LastSeq]
           /\ rebased' \in [Readers -> SUBSET (1..LastSeq + 1)]
           /\ \A q \in Readers : Grows(q)
           /\ \A s \in 1..FirstAvailable : Reached(r, s)'
  <1>0. /\ log_gc_floor \in Nat /\ LastSeq \in Nat /\ ingest_seq \in Nat
        /\ \A q \in Readers : lost[q] \in Nat
    BY LimitAssumption DEF LogInv, Shape, Bounds
  <1>1. /\ FirstAvailable \in 1..LastSeq + 1
        /\ seen' = seen
        /\ lost' \in [Readers -> 0..LastSeq]
        /\ lost'[r] >= lost[r] /\ lost'[r] >= log_gc_floor
        /\ rebased' \in [Readers -> SUBSET (1..LastSeq + 1)]
        /\ rebased'[r] = rebased[r] \cup {FirstAvailable}
        /\ \A q \in Readers : q # r => /\ lost'[q] = lost[q]
                                       /\ rebased'[q] = rebased[q]
    BY GapBounds
  <1>2. \A q \in Readers : lost'[q] \in Nat
    BY <1>0, <1>1
  <1>3. \A q \in Readers : lost[q] <= lost'[q]
    BY <1>0, <1>1, <1>2
  <1>4. \A q \in Readers : Grows(q)
    <2>1. \A q \in Readers : rebased[q] \subseteq rebased'[q]
      BY <1>1
    <2> QED
      BY <1>0, <1>1, <1>3, <2>1 DEF Grows
  <1>5. ASSUME NEW s \in 1..FirstAvailable
        PROVE  Reached(r, s)'
    <2>1. s = FirstAvailable \/ s <= log_gc_floor
      BY <1>0 DEF FirstAvailable
    <2>2. CASE s = FirstAvailable
      BY <1>1, <2>2 DEF Reached
    <2>3. CASE s <= log_gc_floor
      <3>1. s <= lost'[r]
        BY <1>0, <1>1, <1>2, <2>3
      <3> QED
        BY <3>1 DEF Reached
    <2> QED
      BY <2>1, <2>2, <2>3
  <1>6. seen' \in [Readers -> SUBSET (1..LastSeq)]
    BY <1>1 DEF Bounds
  <1>7. FirstAvailable \in 0..LastSeq + 1
    BY <1>0, <1>1
  <1> QED
    BY <1>1, <1>4, <1>5, <1>6, <1>7

\* A page accounts for everything from the position it was read at to the
\* position it ends at.
LEMMA PageCovers ==
    ASSUME LogInv, Bounds, Mirrors, NEW r \in Readers,
           NEW after \in 0..LastSeq + 1, Covered(r, after), ~Gap(after),
           NEW n \in Nat \ {0}, NEW scan \in Nat,
           NEW page \in Prefixes(Page(r, after, n, scan)), Handed(r, page),
           UNCHANGED <<log, ingest_seq, ops>>
    PROVE  /\ page.next \in 0..LastSeq + 1
           /\ seen' \in [Readers -> SUBSET (1..LastSeq)]
           /\ lost' \in [Readers -> 0..LastSeq]
           /\ rebased' \in [Readers -> SUBSET (1..LastSeq + 1)]
           /\ \A q \in Readers : Grows(q)
           /\ \A s \in 1..page.next : Reached(r, s)'
  <1>a. Shape /\ LastSeq \in Nat
    BY LimitAssumption DEF LogInv
  <1>b. ingest_seq \in Nat /\ log_gc_floor \in Nat
        /\ DOMAIN log = log_gc_floor + 1 .. ingest_seq
    BY <1>a DEF Shape
  <1>c. \A q \in Readers : lost[q] \in Nat
    BY <1>a DEF Bounds
  <1>0. /\ Shape /\ LastSeq \in Nat /\ ingest_seq \in Nat /\ after \in Nat
        /\ \A q \in Readers : lost[q] \in Nat
    BY <1>a, <1>b, <1>c
  <1>1. after >= log_gc_floor
    BY <1>0, NoGap
  <1>2. /\ page.entries \subseteq DOMAIN log
        /\ page.next \in Nat
        /\ page.next = after \/ page.next <= ingest_seq
        /\ \A s \in Nat : after < s /\ s <= page.next
              => s \in DOMAIN log /\ Told(r, page.entries, s)
    BY <1>0, <1>1, PageFacts
  <1>3. page.next \in 0..LastSeq + 1
    BY <1>2, PageBounds
  <1>4. /\ UNCHANGED <<lost, rebased>>
        /\ seen' \in [Readers -> SUBSET (1..LastSeq)]
        /\ seen'[r] = seen[r] \cup page.entries
        /\ \A q \in Readers : q # r => seen'[q] = seen[q]
    BY <1>2, HandedBounds
  <1>5. \A q \in Readers : Grows(q)
    <2>1. \A q \in Readers : seen[q] \subseteq seen'[q]
      BY <1>4
    <2> QED
      BY <1>0, <1>4, <2>1 DEF Grows
  <1>6. ASSUME NEW s \in 1..page.next
        PROVE  Reached(r, s)'
    <2>1. s \in Nat \ {0} /\ s <= page.next
      BY <1>2
    <2>2. CASE s <= after
      <3>1. Reached(r, s)
        BY <1>0, <2>1, <2>2 DEF Covered
      <3> QED
        BY <1>4, <3>1 DEF Reached, Irrelevant
    <2>3. CASE after < s
      <3>1. s \in DOMAIN log /\ Told(r, page.entries, s)
        BY <1>2, <2>1, <2>3
      <3>2. CASE s \in page.entries
        BY <1>4, <3>2 DEF Reached
      <3>3. CASE r \notin GlobalLog /\ log[s] # "hit"
        <4>1. s <= ingest_seq /\ ops[s] # "hit"
          BY <1>b, <2>1, <3>1, <3>3 DEF Mirrors
        <4>2. Irrelevant(r, s)'
          BY <3>3, <4>1 DEF Irrelevant, Shaped
        <4> QED
          BY <4>2 DEF Reached
      <3> QED
        BY <3>1, <3>2, <3>3 DEF Told
    <2> QED
      BY <1>0, <2>1, <2>2, <2>3
  <1>7. lost' \in [Readers -> 0..LastSeq]
        /\ rebased' \in [Readers -> SUBSET (1..LastSeq + 1)]
    BY <1>4 DEF Bounds
  <1> QED
    BY <1>3, <1>4, <1>5, <1>6, <1>7

\* A host reads a page, or learns of a gap, and posts where it got to.
LEMMA ReadAccounted ==
    ASSUME LogInv, LogInv', Bounds, Accounted, NEW c \in Cursors, ReadPage(c)
    PROVE  Bounds' /\ Accounted'
  <1>0. /\ PageSize \in Nat \ {0} /\ ScanBudget \in Nat
        /\ c \in Readers /\ Cursors \subseteq Readers /\ Pagers \subseteq Readers
        /\ snap[c] \in 0..LastSeq + 1
        /\ Covered(c, snap[c]) /\ Mirrors
        /\ host \in [Cursors -> HostStates]
    BY LimitAssumption DEF Readers, Bounds, Accounted, LogInv, Shape
  <1>1. /\ UNCHANGED <<log, ingest_seq, log_gc_floor, ops, after_seq, running,
                       changed, snap, pos>>
        /\ Registered' = Registered
        /\ host[c] = "reading"
    BY DEF ReadPage, storeVars, Registered
  <1>2. \E next \in 0..LastSeq + 1 :
           /\ Posted("advance", c, next) \/ inbox' = inbox
           /\ seen' \in [Readers -> SUBSET (1..LastSeq)]
           /\ lost' \in [Readers -> 0..LastSeq]
           /\ rebased' \in [Readers -> SUBSET (1..LastSeq + 1)]
           /\ \A q \in Readers : Grows(q)
           /\ \A s \in 1..next : Reached(c, s)'
    <2>1. CASE Gap(snap[c])
      <3>1. Posted("advance", c, FirstAvailable) /\ Rebased(c)
        BY <2>1 DEF ReadPage
      <3> QED
        BY <1>0, <1>1, <3>1, GapCovers
    <2>2. CASE /\ ~Gap(snap[c])
               /\ \E page \in Cuts(Page(c, snap[c], PageSize, ScanBudget)) :
                     Posted("advance", c, page.next) /\ Handed(c, page)
      <3>1. PICK page \in Cuts(Page(c, snap[c], PageSize, ScanBudget)) :
              Posted("advance", c, page.next) /\ Handed(c, page)
        BY <2>2
      <3>2. page \in Prefixes(Page(c, snap[c], PageSize, ScanBudget))
        BY DEF Cuts
      <3> QED
        BY <1>0, <1>1, <2>2, <3>1, <3>2, PageCovers
    <2>3. CASE inbox' = inbox /\ UNCHANGED readVars
      <3>1. UNCHANGED <<seen, lost, rebased>>
        BY <2>3 DEF readVars
      <3>2. \A q \in Readers : Grows(q)
        BY <1>1, <3>1, NothingTold DEF Accounted
      <3>3. LastSeq \in Nat /\ 0 \in 0..LastSeq + 1
            /\ \A s \in 1..0 : Reached(c, s)'
        BY LimitAssumption
      <3> QED
        BY <2>3, <3>1, <3>2, <3>3 DEF Bounds
    <2> QED
      BY <2>1, <2>2, <2>3 DEF ReadPage
  <1>3. PICK next \in 0..LastSeq + 1 :
           /\ Posted("advance", c, next) \/ inbox' = inbox
           /\ seen' \in [Readers -> SUBSET (1..LastSeq)]
           /\ lost' \in [Readers -> 0..LastSeq]
           /\ rebased' \in [Readers -> SUBSET (1..LastSeq + 1)]
           /\ \A q \in Readers : Grows(q)
           /\ \A s \in 1..next : Reached(c, s)'
    BY <1>2
  <1>4. inbox' \in Seq([cmd : {"open", "advance", "close"}, c : Cursors,
                        seq : 0..LastSeq + 1])
    BY <1>3, PostBounds DEF Bounds
  <1>5. Bounds'
    BY <1>1, <1>3, <1>4 DEF Bounds
  <1>6. Mirrors'
    BY <1>0, <1>1 DEF Mirrors
  <1>7. \A p \in Pagers : \A s \in 1..pos'[p] : Reached(p, s)'
    BY <1>0, <1>1, <1>3, <1>5, PagersStay
  <1>8. next \in Nat
    BY LimitAssumption
  <1>9. \A i \in 1..Len(inbox') :
           \/ \E j \in 1..Len(inbox) : inbox'[i] = inbox[j]
           \/ \A d \in Cursors : inbox'[i].c = d =>
                 \A s \in 1..inbox'[i].seq : Reached(d, s)'
    <2>1. \A i \in 1..Len(inbox') :
             \/ \E j \in 1..Len(inbox) : inbox'[i] = inbox[j]
             \/ inbox'[i].c = c /\ inbox'[i].seq = next
      <3>1. CASE Posted("advance", c, next)
        BY <1>8, <3>1, PostedEntries
      <3>2. CASE inbox' = inbox
        BY <3>2
      <3> QED
        BY <1>3, <3>1, <3>2
    <2> QED
      BY <1>3, <2>1
  <1>10. \E st \in {"woken", "idle", "refused"} : host' = [host EXCEPT ![c] = st]
    BY DEF ReadPage
  <1>11. \A d \in Cursors : host'[d] = "unopened"
            => host[d] = "unopened" /\ d # c
    BY <1>0, <1>10
  <1>12. \A d \in Cursors : d # c => lost'[d] = lost[d]
    BY <1>0 DEF ReadPage, Rebased, Handed, Bounds, readVars
  <1>13. /\ \A d \in Cursors : Grows(d)
         /\ \A d \in Registered' :
               d \in Registered /\ after_seq'[d] = after_seq[d]
         /\ \A d \in Cursors : snap'[d] = snap[d]
         /\ \A d \in Cursors : host'[d] = "unopened"
               => host[d] = "unopened" /\ lost'[d] = lost[d]
    BY <1>0, <1>1, <1>3, <1>11, <1>12
  <1>14. Accounted'
    BY <1>5, <1>6, <1>7, <1>9, <1>13, AccountKept
  <1> QED
    BY <1>5, <1>14


\* A pager reads on, learns of a gap, or starts again.
LEMMA PagerAccounted ==
    ASSUME LogInv, LogInv', Bounds, Accounted, NEW p \in Pagers,
           Pull(p) \/ Rewind(p)
    PROVE  Bounds' /\ Accounted'
  <1>0. /\ p \in Readers /\ Cursors \subseteq Readers /\ Pagers \subseteq Readers
        /\ p \notin Cursors /\ LastSeq \in Nat /\ ingest_seq \in Nat
        /\ pos[p] \in 0..LastSeq + 1
        /\ Covered(p, pos[p]) /\ Mirrors
    BY LimitAssumption, ReaderAssumption
       DEF Readers, Bounds, Accounted, LogInv, Shape
  <1>1. /\ UNCHANGED <<log, ingest_seq, log_gc_floor, ops, after_seq, running,
                       changed, inbox, host, snap>>
        /\ Registered' = Registered
    BY DEF Pull, Rewind, storeVars, hostVars, Registered
  <1>2. \E next \in 0..LastSeq + 1 :
           /\ pos' = [pos EXCEPT ![p] = next]
           /\ seen' \in [Readers -> SUBSET (1..LastSeq)]
           /\ lost' \in [Readers -> 0..LastSeq]
           /\ rebased' \in [Readers -> SUBSET (1..LastSeq + 1)]
           /\ \A q \in Readers : q # p => Grows(q)
           /\ \A s \in 1..next : Reached(p, s)'
    <2>1. CASE Pull(p) /\ Gap(pos[p])
      <3>1. pos' = [pos EXCEPT ![p] = FirstAvailable] /\ Rebased(p)
        BY <2>1 DEF Pull
      <3> QED
        BY <1>0, <1>1, <3>1, GapCovers
    <2>2. CASE Pull(p) /\ ~Gap(pos[p])
      <3>1. PICK n \in 1..PageSize, scan \in {1, ScanBudget} :
              LET page == Page(p, pos[p], n, scan)
              IN  pos' = [pos EXCEPT ![p] = page.next] /\ Handed(p, page)
        BY <2>2 DEF Pull
      <3>2. n \in Nat \ {0} /\ scan \in Nat
        BY LimitAssumption
      <3>3. Page(p, pos[p], n, scan) \in Prefixes(Page(p, pos[p], n, scan))
        BY DEF Prefixes
      <3>4. PICK page : page = Page(p, pos[p], n, scan)
        OBVIOUS
      <3>5. /\ page \in Prefixes(Page(p, pos[p], n, scan))
            /\ pos' = [pos EXCEPT ![p] = page.next] /\ Handed(p, page)
        BY <3>1, <3>3, <3>4
      <3> QED
        BY <1>0, <1>1, <2>2, <3>2, <3>5, PageCovers
    <2>3. CASE Rewind(p)
      <3>1. /\ pos' = [pos EXCEPT ![p] = 0]
            /\ seen' = [seen EXCEPT ![p] = {}]
            /\ lost' = [lost EXCEPT ![p] = 0]
            /\ rebased' = [rebased EXCEPT ![p] = {}]
        BY <2>3 DEF Rewind
      <3>2. \A q \in Readers : lost[q] \in Nat
        BY <1>0 DEF Bounds
      <3>3. /\ seen' \in [Readers -> SUBSET (1..LastSeq)]
            /\ lost' \in [Readers -> 0..LastSeq]
            /\ rebased' \in [Readers -> SUBSET (1..LastSeq + 1)]
        BY <1>0, <3>1 DEF Bounds
      <3>4. \A q \in Readers : q # p => Grows(q)
        BY <1>0, <1>1, <3>1, <3>2 DEF Grows, Bounds
      <3>5. 0 \in 0..LastSeq + 1 /\ \A s \in 1..0 : Reached(p, s)'
        BY <1>0
      <3> QED
        BY <3>1, <3>3, <3>4, <3>5
    <2> QED
      BY <2>1, <2>2, <2>3
  <1>3. PICK next \in 0..LastSeq + 1 :
           /\ pos' = [pos EXCEPT ![p] = next]
           /\ seen' \in [Readers -> SUBSET (1..LastSeq)]
           /\ lost' \in [Readers -> 0..LastSeq]
           /\ rebased' \in [Readers -> SUBSET (1..LastSeq + 1)]
           /\ \A q \in Readers : q # p => Grows(q)
           /\ \A s \in 1..next : Reached(p, s)'
    BY <1>2
  <1>4. Bounds'
    BY <1>1, <1>3 DEF Bounds
  <1>5. Mirrors'
    BY <1>0, <1>1 DEF Mirrors
  <1>6. ASSUME NEW q \in Pagers
        PROVE  \A s \in 1..pos'[q] : Reached(q, s)'
    <2>1. CASE q = p
      <3>1. pos'[q] = next
        BY <1>3, <2>1 DEF Bounds
      <3> QED
        BY <1>3, <2>1, <3>1
    <2>2. CASE q # p
      <3>1. /\ pos'[q] = pos[q] /\ Covered(q, pos[q]) /\ Grows(q)
            /\ q \in Readers /\ pos[q] \in Nat
        BY <1>0, <1>3, <2>2 DEF Bounds, Accounted
      <3>2. \A n \in Nat : Covered(q, n) => \A s \in 1..n : Reached(q, s)'
        BY <1>0, <1>1, <1>4, <3>1, CoveredStays
      <3> QED
        BY <3>1, <3>2
    <2> QED
      BY <2>1, <2>2
  <1>7. \A d \in Cursors : lost'[d] = lost[d]
    BY <1>0 DEF Pull, Rewind, Rebased, Handed, Bounds
  <1>8. /\ \A d \in Cursors : Grows(d)
        /\ \A d \in Registered' :
              d \in Registered /\ after_seq'[d] = after_seq[d]
        /\ \A d \in Cursors : snap'[d] = snap[d]
        /\ \A d \in Cursors : host'[d] = "unopened"
              => host[d] = "unopened" /\ lost'[d] = lost[d]
        /\ \A i \in 1..Len(inbox') :
              \E j \in 1..Len(inbox) : inbox'[i] = inbox[j]
    BY <1>0, <1>1, <1>3, <1>7
  <1>9. Accounted'
    BY <1>4, <1>5, <1>6, <1>8, AccountKept
  <1> QED
    BY <1>4, <1>9

\* Initially every position is accounted for.
LEMMA InitAccounted ==
    ASSUME Init
    PROVE  Bounds /\ Accounted
  <1>0. LastSeq \in Nat /\ Registered = {} /\ Cursors \subseteq Readers
    BY LimitAssumption DEF Init, Registered, Readers
  <1>1. Bounds
    <2>1. log \in [1..0 -> Ops] /\ after_seq \in [Registered -> 0..LastSeq + 1]
      BY <1>0 DEF Init, Registered
    <2>2. log_gc_floor + 1 .. ingest_seq = 1..0
      BY DEF Init
    <2>3. /\ ingest_seq <= LastSeq /\ log_gc_floor <= ingest_seq
          /\ ops \in Seq(Ops) /\ Len(ops) = ingest_seq
      BY <1>0 DEF Init
    <2>6. changed \in BOOLEAN /\ running \in BOOLEAN
      BY DEF Init
    <2>4. inbox \in Seq([cmd : {"open", "advance", "close"}, c : Cursors,
                         seq : 0..LastSeq + 1])
      BY DEF Init
    <2>5. /\ snap \in [Cursors -> 0..LastSeq + 1]
          /\ pos \in [Pagers -> 0..LastSeq + 1]
          /\ seen \in [Readers -> SUBSET (1..LastSeq)]
          /\ lost \in [Readers -> 0..LastSeq]
          /\ rebased \in [Readers -> SUBSET (1..LastSeq + 1)]
      BY <1>0 DEF Init
    <2> QED
      BY <2>1, <2>2, <2>3, <2>4, <2>5, <2>6 DEF Bounds
  <1>2. Accounted
    <2>1. Mirrors
      BY DEF Init, Mirrors
    <2>2. \A r : Covered(r, 0)
      BY DEF Covered
    <2>3. /\ \A c \in Cursors : snap[c] = 0 /\ lost[c] = 0
          /\ \A p \in Pagers : pos[p] = 0
          /\ Len(inbox) = 0
      BY <1>0 DEF Init
    <2> QED
      BY <1>0, <2>1, <2>2, <2>3 DEF Accounted
  <1> QED
    BY <1>1, <1>2

\* No step leaves a position unaccounted for.
LEMMA StepAccounted ==
    ASSUME LogInv, Bounds, Accounted, [Next]_vars
    PROVE  LogInv' /\ Bounds' /\ Accounted'
  <1>0. LogInv'
    BY StepInv
  <1>1. CASE Ingest \/ Collect
    BY <1>0, <1>1, StoreAccounted
  <1>2. CASE RunCommand
    BY <1>0, <1>2, CommandAccounted
  <1>3. CASE \/ Emit \/ OtherChange \/ UNCHANGED vars
             \/ \E on \in BOOLEAN : EmitNow(on)
    BY <1>0, <1>3, FrameAccounted
  <1>4. ASSUME NEW c \in Cursors, HostOpen(c) \/ HostClose(c) \/ Snapshot(c)
        PROVE  Bounds' /\ Accounted'
    BY <1>0, <1>4, HostAccounted
  <1>5. ASSUME NEW c \in Cursors, ReadPage(c)
        PROVE  Bounds' /\ Accounted'
    BY <1>0, <1>5, ReadAccounted
  <1>6. ASSUME NEW p \in Pagers, Pull(p) \/ Rewind(p)
        PROVE  Bounds' /\ Accounted'
    BY <1>0, <1>6, PagerAccounted
  <1> QED
    BY <1>0, <1>1, <1>2, <1>3, <1>4, <1>5, <1>6 DEF Next

\* The three invariants hold in every reachable state.
LEMMA AccountedHolds == Spec => [](LogInv /\ Bounds /\ Accounted)
  <1>1. Init => LogInv /\ Bounds /\ Accounted
    BY InitInv, InitAccounted
  <1>2. LogInv /\ Bounds /\ Accounted /\ [Next]_vars
           => (LogInv /\ Bounds /\ Accounted)'
    BY StepAccounted
  <1> QED
    BY <1>1, <1>2, PTL DEF Spec

\* Every variable of the log, the registry and the readers keeps its type: no
\* position passes the entry after the newest one, whatever is trimmed, posted
\* late or shed in between.
THEOREM LogTypeCorrect == Spec => []TypeOK
  BY AccountedHolds, BoundsType, PTL

\* No reader skips an entry unknowingly: everything up to its position was
\* handed to it, is out of its scope, lies before where it asked to start, or
\* was reported by a gap.  It holds for every trim between the copy of a
\* position and the read, for commands that come late or are shed by a full
\* inbox, and for pages cut by the entry limit, the scan budget or the byte cap.
THEOREM SkipsReported == Spec => []SkipsAreReported
  <1>1. LogInv /\ Bounds /\ Accounted => SkipsAreReported
    <2> SUFFICES ASSUME Bounds, Accounted, NEW r \in Readers
                 PROVE  \A s \in 1..Position(r) : Reached(r, s)
      BY DEF SkipsAreReported
    <2>1. CASE r \in Pagers
      BY <2>1 DEF Position, Accounted, Covered
    <2>2. CASE r \notin Pagers /\ r \in Registered
      BY <2>2 DEF Position, Accounted, Covered
    <2>3. CASE r \notin Pagers /\ r \notin Registered
      BY <2>3 DEF Position
    <2> QED
      BY <2>1, <2>2, <2>3
  <1> QED
    BY <1>1, AccountedHolds, PTL
=============================================================================
