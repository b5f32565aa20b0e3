-------------------------- MODULE RelayPoolProofs --------------------------
(***************************************************************************)
(* Theorems about the relay pool, its worker threads and the actor's view   *)
(* of them, for any set of subscriptions and any number of generations and  *)
(* faults.                                                                  *)
(***************************************************************************)
EXTENDS RelayPool, SequenceTheorems, FiniteSetTheorems,
        WellFoundedInduction, TLAPS

-----------------------------------------------------------------------------
(* The inductive invariant.                                                 *)

\* The actor's handle is the slot's, and it has one exactly while the pool
\* holds the sender.
Linked ==
    /\ control \in {0, slot.gen}
    /\ slot.tx <=> control # 0

\* Nothing has been heard of a generation before the pool reaches it; a
\* thread that has returned owns nothing; only an open socket has a wire.
Tidy ==
    /\ \A g \in Generations : g > slot.gen =>
          /\ worker[g] = NoWorker
          /\ ~InFlight(relayEvents, g) /\ ~InFlight(poolEvents, g)
    /\ \A g \in Generations :
          worker[g].phase = "done" => worker[g] = Done(worker[g])
    /\ \A g \in Generations :
          worker[g].phase # "connected" =>
              worker[g].wire = <<>> /\ worker[g].owed = <<>>

\* A Shutdown is only ever sent to a generation the pool has given up.
ShutdownsAreFinal ==
    \A g \in Generations :
        slot.gen = g /\ slot.tx => ~Told(worker[g], "Shutdown")

\* The last event of g in a channel.
LastOf(events, g, e) ==
    \E i \in DOMAIN events :
        /\ events[i] = e /\ e.gen = g
        /\ \A j \in DOMAIN events : j > i => events[j].gen # g

\* What a thread says last.
FinalWords == {e \in Events : e.kind # "Connected"
                              /\ (e.kind = "Closed" \/ e.denied)}

\* The thread of an open slot has returned: its last word is on its way to
\* the pool, or the pool has taken it.
LastWordCounts ==
    \A g \in Generations :
        slot.gen = g /\ slot.tx /\ worker[g].phase = "done" =>
            \/ \E e \in FinalWords : LastOf(relayEvents, g, e)
            \/ ~InFlight(relayEvents, g) /\ slot.health = "Closed"

\* A socket is open: the actor knows, or the news is the last of its kind in
\* one of the two channels, or the actor's inbox has made a mess of it.
NewsTravels ==
    \A g \in Generations :
        control = g /\ worker[g].phase = "connected" =>
            \/ LastOf(relayEvents, g, Event("Connected", g, FALSE))
            \/ ~InFlight(relayEvents, g) /\ g \in garbled
            \/ /\ ~InFlight(relayEvents, g)
               /\ LastOf(poolEvents, g, Event("Connected", g, FALSE))
            \/ /\ ~InFlight(relayEvents, g) /\ ~InFlight(poolEvents, g)
               /\ connected

\* The preamble owed to a connection is the next frame to write, or the first
\* one written.
PreambleAhead(w) ==
    w.owed # <<>> =>
        \/ w.wire = <<>> /\ w.pending # <<>> /\ w.pending[1] = Preamble
        \/ w.wire # <<>> /\ w.wire[1] = Preamble

PreamblesAhead == \A g \in Generations : PreambleAhead(worker[g])

\* x occurs in the sequence with no y behind it.
Leaves(seq, x, y) ==
    \E i \in DOMAIN seq : /\ seq[i] = x
                          /\ \A j \in DOMAIN seq : j > i => seq[j] # y
Holds(seq, y) == \E i \in DOMAIN seq : seq[i] = y

\* Behind every REQ for s in the worker's hands there is a CLOSE: in the same
\* stage, in a later one, or (`later`) still with the actor.
Closing(w, s, later) ==
    /\ Leaves(w.inbox, Send(Req(s)), Send(Close(s))) => later
    /\ Leaves(w.pending, Req(s), Close(s)) =>
          Holds(w.inbox, Send(Close(s))) \/ later
    /\ Leaves(w.wire, Req(s), Close(s)) =>
          Holds(w.pending, Close(s)) \/ Holds(w.inbox, Send(Close(s))) \/ later

ClosesFollow ==
    /\ running => queued = <<>>
    /\ \A s \in Subs \ plan :
          /\ ~Leaves(queued, Req(s), Close(s))
          /\ \A g \in Generations :
                control = g => Closing(worker[g], s, Holds(queued, Close(s)))

PoolInv ==
    /\ PoolTypeOK /\ Linked /\ Tidy
    /\ ShutdownsAreFinal /\ LastWordCounts
    /\ NewsTravels /\ PreamblesAhead /\ ClosesFollow


-----------------------------------------------------------------------------
(* Sequences.                                                               *)

\* Induction over the naturals, for a property given as a set.
LEMMA SetInduction ==
    ASSUME NEW T \in SUBSET Nat, 0 \in T, \A n \in T : n + 1 \in T
    PROVE  T = Nat
  <1> DEFINE R == {ss \in Nat \X Nat : ss[1] < ss[2]}
             U == Nat \ T
  <1>1. IsWellFoundedOn(R, Nat)
    BY NatLessThanWellFounded DEF OpToRel
  <1>2. U # {} => \E x \in U : \A y \in U : ~(<<y, x>> \in R)
    <2>1. U \subseteq Nat
      OBVIOUS
    <2> HIDE DEF R, U
    <2> QED BY <1>1, <2>1, WFMin
  <1>3. ASSUME NEW x \in U, \A y \in U : ~(<<y, x>> \in R) PROVE FALSE
    <2>1. x \in Nat /\ x # 0 /\ x - 1 \in Nat /\ x - 1 < x
      OBVIOUS
    <2>2. x - 1 \notin U
      BY <1>3, <2>1
    <2>3. x - 1 \in T
      BY <2>1, <2>2
    <2>4. (x - 1) + 1 \in T
      BY <2>3
    <2> QED
      BY <2>1, <2>4
  <1> QED
    BY <1>2, <1>3

\* Occurrence, and occurrence with nothing behind it, in an appended
\* sequence.
LEMMA AppendHolds ==
    ASSUME NEW S, NEW seq \in Seq(S), NEW e \in S, NEW x, NEW y
    PROVE  /\ Holds(Append(seq, e), y) <=> Holds(seq, y) \/ e = y
           /\ Leaves(Append(seq, e), x, y) <=>
                 e = x \/ (Leaves(seq, x, y) /\ e # y)
  <1> DEFINE new == Append(seq, e)
             n == Len(seq)
  <1>1. /\ n \in Nat /\ DOMAIN seq = 1..n /\ DOMAIN new = 1..n+1
        /\ \A i \in 1..n : new[i] = seq[i]
        /\ new[n+1] = e
    OBVIOUS
  <1> HIDE DEF new, n
  <1>2. Holds(new, y) <=> Holds(seq, y) \/ e = y
    BY <1>1 DEF Holds
  <1>3. Leaves(new, x, y) => e = x \/ (Leaves(seq, x, y) /\ e # y)
    <2> SUFFICES ASSUME NEW i \in 1..n+1, new[i] = x, e # x,
                        \A j \in 1..n+1 : j > i => new[j] # y
                 PROVE  Leaves(seq, x, y) /\ e # y
      BY <1>1 DEF Leaves
    <2>1. i \in 1..n
      BY <1>1
    <2>2. e # y
      BY <1>1, <2>1
    <2>3. \A j \in 1..n : j > i => seq[j] # y
      BY <1>1
    <2> QED
      BY <1>1, <2>1, <2>2, <2>3 DEF Leaves
  <1>4. e = x => Leaves(new, x, y)
    BY <1>1 DEF Leaves
  <1>5. Leaves(seq, x, y) /\ e # y => Leaves(new, x, y)
    <2> SUFFICES ASSUME NEW i \in 1..n, seq[i] = x, e # y,
                        \A j \in 1..n : j > i => seq[j] # y
                 PROVE  Leaves(new, x, y)
      BY <1>1 DEF Leaves
    <2>1. \A j \in 1..n+1 : j > i => new[j] # y
      BY <1>1
    <2> QED
      BY <1>1, <2>1 DEF Leaves
  <1> QED
    BY <1>2, <1>3, <1>4, <1>5 DEF new

\* The same in a concatenation.
LEMMA ConcatHolds ==
    ASSUME NEW S, NEW p \in Seq(S), NEW q \in Seq(S), NEW x, NEW y
    PROVE  /\ Holds(p \o q, y) <=> Holds(p, y) \/ Holds(q, y)
           /\ Leaves(p \o q, x, y) =>
                 Leaves(q, x, y) \/ (Leaves(p, x, y) /\ ~Holds(q, y))
  <1> DEFINE new == p \o q
             m == Len(p)
             n == Len(q)
  <1>1. /\ m \in Nat /\ n \in Nat /\ DOMAIN p = 1..m /\ DOMAIN q = 1..n
        /\ DOMAIN new = 1..m+n
        /\ \A i \in 1..m : new[i] = p[i]
        /\ \A i \in 1..n : m + i \in 1..m+n /\ new[m + i] = q[i]
        /\ \A i \in 1..m+n : i \notin 1..m => i - m \in 1..n /\ new[i] = q[i - m]
    OBVIOUS
  <1> HIDE DEF new, m, n
  <1>2. Holds(new, y) => Holds(p, y) \/ Holds(q, y)
    BY <1>1 DEF Holds
  <1>3. Holds(q, y) => Holds(new, y)
    BY <1>1 DEF Holds
  <1>4. Holds(p, y) => Holds(new, y)
    <2>1. \A i \in 1..m : i \in 1..m+n
      BY <1>1
    <2> QED
      BY <1>1, <2>1 DEF Holds
  <1>5. ASSUME NEW i \in 1..m+n, new[i] = x,
               \A j \in 1..m+n : j > i => new[j] # y
        PROVE  Leaves(q, x, y) \/ (Leaves(p, x, y) /\ ~Holds(q, y))
    <2>1. CASE i \in 1..m
      <3>1. \A j \in 1..m : j > i => p[j] # y
        BY <1>1, <1>5
      <3>2. \A j \in 1..n : q[j] # y
        BY <1>1, <1>5, <2>1
      <3> QED
        BY <1>1, <1>5, <2>1, <3>1, <3>2 DEF Leaves, Holds
    <2>2. CASE i \notin 1..m
      <3>1. i - m \in 1..n /\ q[i - m] = x
        BY <1>1, <1>5, <2>2
      <3>2. \A j \in 1..n : j > i - m => q[j] # y
        BY <1>1, <1>5, <2>2
      <3> QED
        BY <1>1, <3>1, <3>2 DEF Leaves
    <2> QED
      BY <2>1, <2>2
  <1> QED
    BY <1>1, <1>2, <1>3, <1>4, <1>5 DEF Leaves, new

\* The same in a tail.
LEMMA TailHolds ==
    ASSUME NEW S, NEW seq \in Seq(S), seq # <<>>, NEW x, NEW y
    PROVE  /\ Holds(seq, y) <=> Head(seq) = y \/ Holds(Tail(seq), y)
           /\ Leaves(Tail(seq), x, y) => Leaves(seq, x, y)
           /\ Head(seq) = x /\ ~Holds(Tail(seq), y) => Leaves(seq, x, y)
  <1> DEFINE rest == Tail(seq)
             n == Len(seq)
  <1>1. /\ n \in Nat \ {0} /\ DOMAIN seq = 1..n /\ DOMAIN rest = 1..n-1
        /\ \A i \in 1..n-1 : rest[i] = seq[i+1]
        /\ Head(seq) = seq[1]
    OBVIOUS
  <1> HIDE DEF rest, n
  <1>2. \A i \in 1..n : i = 1 \/ (i - 1 \in 1..n-1 /\ rest[i-1] = seq[i])
    BY <1>1
  <1>3. \A i \in 1..n-1 : i + 1 \in 1..n
    BY <1>1
  <1>4. Holds(seq, y) <=> Head(seq) = y \/ Holds(rest, y)
    <2>1. ASSUME NEW i \in 1..n, seq[i] = y PROVE Head(seq) = y \/ Holds(rest, y)
      BY <1>1, <1>2, <2>1 DEF Holds
    <2>2. ASSUME NEW i \in 1..n-1, rest[i] = y PROVE Holds(seq, y)
      BY <1>1, <1>3, <2>2 DEF Holds
    <2>3. 1 \in 1..n
      BY <1>1
    <2> QED
      BY <1>1, <2>1, <2>2, <2>3 DEF Holds
  <1>5. Leaves(rest, x, y) => Leaves(seq, x, y)
    <2> SUFFICES ASSUME NEW i \in 1..n-1, rest[i] = x,
                        \A j \in 1..n-1 : j > i => rest[j] # y
                 PROVE  Leaves(seq, x, y)
      BY <1>1 DEF Leaves
    <2>1. ASSUME NEW j \in 1..n, j > i + 1 PROVE seq[j] # y
      BY <1>1, <1>2, <2>1
    <2> QED
      BY <1>1, <1>3, <2>1 DEF Leaves
  <1>6. Head(seq) = x /\ ~Holds(rest, y) => Leaves(seq, x, y)
    <2> SUFFICES ASSUME seq[1] = x, ~Holds(rest, y) PROVE Leaves(seq, x, y)
      BY <1>1
    <2>1. ASSUME NEW j \in 1..n, j > 1 PROVE seq[j] # y
      BY <1>1, <1>2, <2>1 DEF Holds
    <2>2. 1 \in 1..n
      BY <1>1
    <2> QED
      BY <1>1, <2>1, <2>2 DEF Leaves
  <1> QED
    BY <1>4, <1>5, <1>6 DEF rest

\* A suffix leaves nothing open that the whole does not.
LEMMA SuffixLeaves ==
    ASSUME NEW S, NEW seq \in Seq(S), NEW k \in DOMAIN seq, NEW x, NEW y
    PROVE  /\ SubSeq(seq, k, Len(seq)) \in Seq(S)
           /\ Leaves(SubSeq(seq, k, Len(seq)), x, y) => Leaves(seq, x, y)
  <1> DEFINE sub == SubSeq(seq, k, Len(seq))
             n == Len(seq)
  <1>1. n \in Nat /\ DOMAIN seq = 1..n /\ k \in 1..n
    OBVIOUS
  <1>2. /\ sub \in Seq(S) /\ Len(sub) = n - k + 1
        /\ \A i \in 1..n-k+1 : sub[i] = seq[k + i - 1]
    <2>1. \A i \in k..n : seq[i] \in S
      BY <1>1
    <2>2. /\ sub \in Seq(S)
          /\ Len(sub) = IF k <= n THEN n - k + 1 ELSE 0
          /\ \A i \in 1..n-k+1 : sub[i] = seq[k + i - 1]
      BY <1>1, <2>1, SubSeqProperties
    <2> HIDE DEF sub, n
    <2> QED
      BY <1>1, <2>2
  <1> HIDE DEF sub, n
  <1>3. DOMAIN sub = 1..n-k+1
    BY <1>2
  <1>4. Leaves(sub, x, y) => Leaves(seq, x, y)
    <2> SUFFICES ASSUME NEW i \in 1..n-k+1, sub[i] = x,
                        \A j \in 1..n-k+1 : j > i => sub[j] # y
                 PROVE  Leaves(seq, x, y)
      BY <1>3 DEF Leaves
    <2>1. k + i - 1 \in 1..n /\ seq[k + i - 1] = x
      BY <1>1, <1>2
    <2>2. ASSUME NEW j \in 1..n, j > k + i - 1 PROVE seq[j] # y
      <3>1. j - k + 1 \in 1..n-k+1 /\ j - k + 1 > i /\ k + (j - k + 1) - 1 = j
        BY <1>1, <2>2
      <3> QED
        BY <1>2, <3>1
    <2> QED
      BY <1>1, <2>1, <2>2 DEF Leaves
  <1> QED
    BY <1>2, <1>4 DEF sub, n


\* Frames of different verbs or subscriptions differ.
LEMMA FrameFacts ==
    ASSUME NEW s \in Subs
    PROVE  /\ Req(s) \in Frames /\ Close(s) \in Frames /\ Preamble \in Frames
           /\ Req(s) # Close(s) /\ Preamble # Req(s) /\ Preamble # Close(s)
           /\ \A t : (Req(t) = Req(s) <=> t = s) /\ (Close(t) = Close(s) <=> t = s)
           /\ \A t : Req(t) # Close(s) /\ Close(t) # Req(s)
  BY DEF Req, Close, Preamble, Frames

\* Commands of different kinds differ.
LEMMA CommandFacts ==
    /\ SetReconnectPreamble \in Commands /\ Shutdown \in Commands
    /\ SetReconnectPreamble.op = "SetReconnectPreamble"
    /\ Shutdown.op = "Shutdown"
    /\ \A f \in Frames : Send(f) \in Commands /\ Send(f).op = "Send"
    /\ \A f, h : Send(f) = Send(h) <=> f = h
    /\ \A f : Send(f) # SetReconnectPreamble /\ Send(f) # Shutdown
    /\ \A c \in Commands :
          /\ c.op \in {"Send", "SetReconnectPreamble", "Shutdown"}
          /\ c.frame \in Frames
          /\ c.op = "Send" => c = Send(c.frame)
  <1>1. /\ SetReconnectPreamble \in Commands /\ Shutdown \in Commands
        /\ \A f \in Frames : Send(f) \in Commands
    BY DEF Commands
  <1>2. /\ SetReconnectPreamble.op = "SetReconnectPreamble"
        /\ Shutdown.op = "Shutdown"
        /\ Preamble \in Frames
    BY DEF SetReconnectPreamble, Shutdown, Frames
  <1>3. /\ \A f : Send(f).op = "Send" /\ Send(f).frame = f
        /\ \A f : Send(f) # SetReconnectPreamble /\ Send(f) # Shutdown
    BY DEF Send, SetReconnectPreamble, Shutdown
  <1>4. \A f, h : Send(f) = Send(h) <=> f = h
    BY <1>3
  <1>5. ASSUME NEW c \in Commands
        PROVE  /\ c.op \in {"Send", "SetReconnectPreamble", "Shutdown"}
               /\ c.frame \in Frames
               /\ c.op = "Send" => c = Send(c.frame)
    <2>1. CASE c \in {SetReconnectPreamble, Shutdown}
      BY <1>2, <2>1 DEF SetReconnectPreamble, Shutdown
    <2>2. CASE \E f \in Frames : c = Send(f)
      BY <1>3, <2>2
    <2> QED
      BY <2>1, <2>2 DEF Commands
  <1> QED
    BY <1>1, <1>2, <1>3, <1>4, <1>5


\* One step of SentFrames.
LEMMA WithFrameFacts ==
    ASSUME NEW sent \in Seq(Frames), NEW c \in Commands
    PROVE  /\ WithFrame(sent, c) \in Seq(Frames)
           /\ \A f : Holds(WithFrame(sent, c), f) <=>
                        Holds(sent, f) \/ c = Send(f)
           /\ \A f, h : Leaves(WithFrame(sent, c), f, h) =>
                           \/ c = Send(f)
                           \/ Leaves(sent, f, h) /\ c # Send(h)
  <1>1. CASE c.op = "Send"
    <2> DEFINE fr == c.frame
    <2>1. fr \in Frames /\ \A f : c = Send(f) <=> fr = f
      BY <1>1, CommandFacts
    <2>2. WithFrame(sent, c) = Append(sent, fr)
      BY <1>1 DEF WithFrame
    <2> HIDE DEF fr
    <2> QED
      BY <2>1, <2>2, AppendHolds
  <1>2. CASE c.op # "Send"
    <2>1. WithFrame(sent, c) = sent
      BY <1>2 DEF WithFrame
    <2>2. \A f : c # Send(f)
      BY <1>2 DEF Send
    <2> QED
      BY <2>1, <2>2
  <1> QED
    BY <1>1, <1>2

\* The recursion of SentFrames is defined on every prefix of the inbox.
LEMMA SentExists ==
    ASSUME NEW cmds \in Seq(Commands), NEW n \in 0..Len(cmds)
    PROVE  \E g \in [0..n -> Seq(Frames)] :
              /\ g[0] = <<>>
              /\ \A m \in 1..n : g[m] = WithFrame(g[m - 1], cmds[m])
  <1> DEFINE Upto(k) == \E g \in [0..k -> Seq(Frames)] :
                           /\ g[0] = <<>>
                           /\ \A m \in 1..k : g[m] = WithFrame(g[m - 1], cmds[m])
             T == {k \in Nat : k \in 0..Len(cmds) => Upto(k)}
  <1>1. Len(cmds) \in Nat /\ \A m \in 1..Len(cmds) : cmds[m] \in Commands
    OBVIOUS
  <1>2. Upto(0)
    <2> DEFINE g == [m \in 0..0 |-> <<>>]
    <2>1. g \in [0..0 -> Seq(Frames)] /\ g[0] = <<>>
      OBVIOUS
    <2> HIDE DEF g
    <2> QED
      BY <2>1
  <1>3. ASSUME NEW k \in Nat, k + 1 \in 0..Len(cmds), Upto(k) PROVE Upto(k + 1)
    <2>1. PICK g \in [0..k -> Seq(Frames)] :
             /\ g[0] = <<>>
             /\ \A m \in 1..k : g[m] = WithFrame(g[m - 1], cmds[m])
      BY <1>3
    <2> DEFINE next == WithFrame(g[k], cmds[k + 1])
               h == [m \in 0..k+1 |-> IF m = k + 1 THEN next ELSE g[m]]
    <2>2. next \in Seq(Frames)
      <3>1. k \in 0..k /\ k + 1 \in 1..Len(cmds)
        BY <1>1, <1>3
      <3>2. g[k] \in Seq(Frames) /\ cmds[k + 1] \in Commands
        BY <1>1, <2>1, <3>1
      <3> QED
        BY <3>2, WithFrameFacts
    <2>3. /\ h[k + 1] = next
          /\ \A m \in 0..k : h[m] = g[m]
      BY <1>3
    <2>4. h \in [0..k+1 -> Seq(Frames)]
      <3> HIDE DEF next
      <3> QED
        BY <1>3, <2>1, <2>2
    <2> HIDE DEF h
    <2>5. h[0] = <<>>
      <3>1. 0 \in 0..k
        BY <1>3
      <3> QED
        BY <2>1, <2>3, <3>1
    <2>6. ASSUME NEW m \in 1..k+1 PROVE h[m] = WithFrame(h[m - 1], cmds[m])
      <3>1. CASE m = k + 1
        <4>1. m - 1 = k /\ k \in 0..k
          BY <1>3, <3>1
        <4>2. h[m - 1] = g[k]
          BY <2>3, <4>1
        <4> QED
          BY <2>3, <3>1, <4>2
      <3>2. CASE m # k + 1
        <4>1. m \in 1..k /\ m \in 0..k /\ m - 1 \in 0..k
          BY <1>3, <3>2
        <4> QED
          BY <2>1, <2>3, <4>1
      <3> QED
        BY <3>1, <3>2
    <2> QED
      BY <2>4, <2>5, <2>6
  <1> HIDE DEF Upto
  <1>4. T = Nat
    <2>1. T \in SUBSET Nat /\ 0 \in T
      BY <1>2
    <2>2. \A k \in T : k + 1 \in T
      BY <1>1, <1>3
    <2> HIDE DEF T
    <2> QED
      BY <2>1, <2>2, SetInduction
  <1>5. Upto(n)
    BY <1>1, <1>4
  <1> QED
    BY <1>5 DEF Upto

\* Draining keeps the frames and their order.
LEMMA SentFramesFacts ==
    ASSUME NEW cmds \in Seq(Commands)
    PROVE  /\ SentFrames(cmds) \in Seq(Frames)
           /\ \A f : Holds(SentFrames(cmds), f) <=> Holds(cmds, Send(f))
           /\ \A f, h : Leaves(SentFrames(cmds), f, h)
                           => Leaves(cmds, Send(f), Send(h))
  <1> DEFINE Is(g) == g = [n \in 0..Len(cmds) |->
                             IF n = 0 THEN <<>>
                             ELSE WithFrame(g[n - 1], cmds[n])]
             sent == CHOOSE g : Is(g)
  <1>1. /\ Len(cmds) \in Nat /\ DOMAIN cmds = 1..Len(cmds)
        /\ \A n \in 1..Len(cmds) : cmds[n] \in Commands
    OBVIOUS
  <1>2. \E g : Is(g)
    <2>0. Len(cmds) \in 0..Len(cmds)
      BY <1>1
    <2>1. PICK g \in [0..Len(cmds) -> Seq(Frames)] :
             /\ g[0] = <<>>
             /\ \A m \in 1..Len(cmds) : g[m] = WithFrame(g[m - 1], cmds[m])
      BY <2>0, SentExists
    <2>2. \A n \in 0..Len(cmds) :
             g[n] = IF n = 0 THEN <<>> ELSE WithFrame(g[n - 1], cmds[n])
      BY <1>1, <2>1
    <2> QED
      BY <2>1, <2>2
  <1>3. Is(sent)
    BY <1>2, Zenon
  <1>4. SentFrames(cmds) = sent[Len(cmds)]
    BY DEF SentFrames
  <1>5. /\ sent[0] = <<>>
        /\ \A n \in 1..Len(cmds) : sent[n] = WithFrame(sent[n - 1], cmds[n])
    <2> HIDE DEF sent
    <2>1. /\ 0 \in 0..Len(cmds)
          /\ \A n \in 1..Len(cmds) : n \in 0..Len(cmds) /\ n # 0
      BY <1>1
    <2>2. \A n \in 0..Len(cmds) :
             sent[n] = IF n = 0 THEN <<>> ELSE WithFrame(sent[n - 1], cmds[n])
      BY <1>3
    <2> QED
      BY <2>1, <2>2
  <1> HIDE DEF sent, Is
  <1> DEFINE Held(n, f) == \E i \in 1..n : cmds[i] = Send(f)
             Left(n, f, h) == \E i \in 1..n :
                                 /\ cmds[i] = Send(f)
                                 /\ \A j \in 1..n : j > i => cmds[j] # Send(h)
             Good(n) == /\ sent[n] \in Seq(Frames)
                        /\ \A f : Holds(sent[n], f) <=> Held(n, f)
                        /\ \A f, h : Leaves(sent[n], f, h) => Left(n, f, h)
             T == {n \in Nat : n \in 0..Len(cmds) => Good(n)}
  <1>6. Good(0)
    <2>1. sent[0] \in Seq(Frames)
      BY <1>5
    <2> QED
      BY <1>5, <2>1 DEF Holds, Leaves
  <1>7. ASSUME NEW n \in Nat, n + 1 \in 0..Len(cmds), Good(n) PROVE Good(n + 1)
    <2>1. n + 1 \in 1..Len(cmds) /\ (n + 1) - 1 = n
      BY <1>1, <1>7
    <2>2. /\ cmds[n + 1] \in Commands
          /\ sent[n + 1] = WithFrame(sent[n], cmds[n + 1])
      BY <1>1, <1>5, <2>1
    <2>3. \A f : Held(n + 1, f) <=> Held(n, f) \/ cmds[n + 1] = Send(f)
      BY <1>7
    <2>4. \A f, h : cmds[n + 1] = Send(f) => Left(n + 1, f, h)
      BY <1>7
    <2>5. \A f, h : Left(n, f, h) /\ cmds[n + 1] # Send(h) => Left(n + 1, f, h)
      BY <1>7
    <2>6. /\ sent[n] \in Seq(Frames)
          /\ \A f : Holds(sent[n], f) <=> Held(n, f)
          /\ \A f, h : Leaves(sent[n], f, h) => Left(n, f, h)
      BY <1>7
    <2> HIDE DEF Held, Left
    <2>7. /\ sent[n + 1] \in Seq(Frames)
          /\ \A f : Holds(sent[n + 1], f) <=>
                       Holds(sent[n], f) \/ cmds[n + 1] = Send(f)
          /\ \A f, h : Leaves(sent[n + 1], f, h) =>
                          \/ cmds[n + 1] = Send(f)
                          \/ Leaves(sent[n], f, h) /\ cmds[n + 1] # Send(h)
      <3> DEFINE old == sent[n]
                 c == cmds[n + 1]
      <3>1. old \in Seq(Frames) /\ c \in Commands /\ sent[n + 1] = WithFrame(old, c)
        BY <2>2, <2>6
      <3> HIDE DEF old, c
      <3>2. /\ WithFrame(old, c) \in Seq(Frames)
            /\ \A f : Holds(WithFrame(old, c), f) <=>
                         Holds(old, f) \/ c = Send(f)
            /\ \A f, h : Leaves(WithFrame(old, c), f, h) =>
                            \/ c = Send(f)
                            \/ Leaves(old, f, h) /\ c # Send(h)
        BY <3>1, WithFrameFacts
      <3> QED
        BY <3>1, <3>2 DEF old, c
    <2>8. \A f : Holds(sent[n + 1], f) <=> Held(n + 1, f)
      BY <2>3, <2>6, <2>7
    <2>9. \A f, h : Leaves(sent[n + 1], f, h) => Left(n + 1, f, h)
      BY <2>4, <2>5, <2>6, <2>7
    <2> QED
      BY <2>7, <2>8, <2>9
  <1> HIDE DEF Good
  <1>8. T = Nat
    <2>1. T \in SUBSET Nat /\ 0 \in T
      BY <1>6
    <2>2. \A n \in T : n + 1 \in T
      BY <1>1, <1>7
    <2> HIDE DEF T
    <2> QED
      BY <2>1, <2>2, SetInduction
  <1>9. Good(Len(cmds))
    BY <1>1, <1>8
  <1>10. /\ \A f : Holds(cmds, Send(f)) <=> Held(Len(cmds), f)
         /\ \A f, h : Leaves(cmds, Send(f), Send(h)) <=> Left(Len(cmds), f, h)
    BY <1>1 DEF Holds, Leaves
  <1> HIDE DEF Held, Left
  <1> QED
    BY <1>4, <1>9, <1>10 DEF Good


\* The fields of an event.
LEMMA EventFacts ==
    ASSUME NEW g \in Generations, NEW d \in BOOLEAN,
           NEW k \in {"Connected", "Failed", "Closed"}
    PROVE  /\ Event(k, g, d) \in Events
           /\ Event(k, g, d).gen = g /\ Event(k, g, d).kind = k
           /\ Event(k, g, d).denied = d
  BY DEF Event, Events

\* What sending an event does to a channel.
LEMMA ChannelAppend ==
    ASSUME NEW events \in Seq(Events), NEW e \in Events, NEW g
    PROVE  /\ Append(events, e) \in Seq(Events)
           /\ InFlight(Append(events, e), g) <=> InFlight(events, g) \/ e.gen = g
           /\ e.gen = g => LastOf(Append(events, e), g, e)
           /\ \A x : e.gen # g /\ LastOf(events, g, x)
                        => LastOf(Append(events, e), g, x)
  <1> DEFINE new == Append(events, e)
             n == Len(events)
  <1>1. /\ n \in Nat /\ DOMAIN events = 1..n /\ DOMAIN new = 1..n+1
        /\ \A i \in 1..n : new[i] = events[i]
        /\ new[n+1] = e
    OBVIOUS
  <1>0. new \in Seq(Events)
    OBVIOUS
  <1> HIDE DEF new, n
  <1>2. InFlight(new, g) <=> InFlight(events, g) \/ e.gen = g
    BY <1>1 DEF InFlight
  <1>3. e.gen = g => LastOf(new, g, e)
    BY <1>1 DEF LastOf
  <1>4. ASSUME NEW x, e.gen # g, LastOf(events, g, x) PROVE LastOf(new, g, x)
    <2>1. PICK i \in 1..n : /\ events[i] = x /\ x.gen = g
                            /\ \A j \in 1..n : j > i => events[j].gen # g
      BY <1>1, <1>4 DEF LastOf
    <2>2. \A j \in 1..n+1 : j > i => new[j].gen # g
      BY <1>1, <1>4, <2>1
    <2> QED
      BY <1>1, <2>1, <2>2 DEF LastOf
  <1> QED
    BY <1>0, <1>2, <1>3, <1>4 DEF new

\* What receiving an event does to a channel.
LEMMA ChannelTail ==
    ASSUME NEW events \in Seq(Events), events # <<>>, NEW g
    PROVE  /\ Head(events) \in Events /\ Tail(events) \in Seq(Events)
           /\ InFlight(events, g) <=>
                 Head(events).gen = g \/ InFlight(Tail(events), g)
           /\ \A x : LastOf(events, g, x) =>
                 \/ LastOf(Tail(events), g, x)
                 \/ Head(events) = x /\ ~InFlight(Tail(events), g)
  <1> DEFINE rest == Tail(events)
             n == Len(events)
  <1>0. Head(events) \in Events /\ rest \in Seq(Events)
    OBVIOUS
  <1>1. /\ n \in Nat \ {0} /\ DOMAIN events = 1..n /\ DOMAIN rest = 1..n-1
        /\ \A i \in 1..n-1 : rest[i] = events[i+1]
        /\ Head(events) = events[1]
    OBVIOUS
  <1> HIDE DEF rest, n
  <1>2. \A i \in 1..n : i = 1 \/ (i - 1 \in 1..n-1 /\ rest[i-1] = events[i])
    BY <1>1
  <1>3. (\A i \in 1..n-1 : i + 1 \in 1..n) /\ 1 \in 1..n
    BY <1>1
  <1>4. InFlight(events, g) => Head(events).gen = g \/ InFlight(rest, g)
    BY <1>1, <1>2 DEF InFlight
  <1>5. Head(events).gen = g => InFlight(events, g)
    BY <1>1, <1>3 DEF InFlight
  <1>6. InFlight(rest, g) => InFlight(events, g)
    BY <1>1, <1>3 DEF InFlight
  <1>7. ASSUME NEW x, LastOf(events, g, x)
        PROVE  LastOf(rest, g, x) \/ (Head(events) = x /\ ~InFlight(rest, g))
    <2>1. PICK i \in 1..n : /\ events[i] = x /\ x.gen = g
                            /\ \A j \in 1..n : j > i => events[j].gen # g
      BY <1>1, <1>7 DEF LastOf
    <2>2. \A j \in 1..n-1 : j + 1 > i => rest[j].gen # g
      BY <1>1, <1>3, <2>1
    <2>3. CASE i = 1
      <3>1. \A j \in 1..n-1 : rest[j].gen # g
        BY <1>1, <2>2, <2>3
      <3> QED
        BY <1>1, <2>1, <2>3, <3>1 DEF InFlight
    <2>4. CASE i # 1
      <3>1. i - 1 \in 1..n-1 /\ rest[i - 1] = x
        BY <1>2, <2>1, <2>4
      <3>2. \A j \in 1..n-1 : j > i - 1 => rest[j].gen # g
        BY <1>1, <2>2
      <3> QED
        BY <1>1, <2>1, <3>1, <3>2 DEF LastOf
    <2> QED
      BY <2>3, <2>4
  <1> QED
    BY <1>0, <1>4, <1>5, <1>6, <1>7 DEF rest

\* What taking the i-th event out of a channel does: the last event of g stays
\* the last one, or was the only one, or was taken ahead of an older one.
LEMMA ChannelTake ==
    ASSUME NEW events \in Seq(Events), NEW i \in DOMAIN events, NEW g
    PROVE  LET rest == RemoveAt(events, i)
           IN  /\ events[i] \in Events /\ rest \in Seq(Events)
               /\ Len(rest) = Len(events) - 1
               /\ InFlight(events, g) <=> events[i].gen = g \/ InFlight(rest, g)
               /\ \A x : LastOf(events, g, x) =>
                     \/ LastOf(rest, g, x)
                     \/ events[i] = x /\ ~InFlight(rest, g)
                     \/ /\ events[i] = x
                        /\ \E j \in 1..(i - 1) : events[j].gen = g
                        /\ \A j \in (i + 1)..Len(events) : events[j].gen # g
  <1> DEFINE n == Len(events)
             front == SubSeq(events, 1, i - 1)
             back == SubSeq(events, i + 1, n)
             rest == front \o back
  <1>1. n \in Nat /\ DOMAIN events = 1..n /\ i \in 1..n /\ events[i] \in Events
        /\ \A j \in 1..n : events[j] \in Events
    OBVIOUS
  <1>2. /\ front \in Seq(Events) /\ Len(front) = i - 1
        /\ \A j \in 1..(i - 1) : front[j] = events[j]
    <2>1. \A j \in 1..(i - 1) : events[j] \in Events
      BY <1>1
    <2>2. /\ front \in Seq(Events)
          /\ Len(front) = IF 1 <= i - 1 THEN (i - 1) - 1 + 1 ELSE 0
          /\ \A j \in 1..((i - 1) - 1 + 1) : front[j] = events[1 + j - 1]
      BY <1>1, <2>1, SubSeqProperties
    <2> HIDE DEF front, n
    <2> QED
      BY <1>1, <2>2
  <1>3. /\ back \in Seq(Events) /\ Len(back) = n - i
        /\ \A j \in 1..(n - i) : back[j] = events[i + j]
    <2>1. \A j \in (i + 1)..n : events[j] \in Events
      BY <1>1
    <2>2. /\ back \in Seq(Events)
          /\ Len(back) = IF i + 1 <= n THEN n - (i + 1) + 1 ELSE 0
          /\ \A j \in 1..(n - (i + 1) + 1) : back[j] = events[(i + 1) + j - 1]
      BY <1>1, <2>1, SubSeqProperties
    <2> HIDE DEF back, n
    <2>3. Len(back) = n - i
      BY <1>1, <2>2
    <2>4. ASSUME NEW j \in 1..(n - i) PROVE back[j] = events[i + j]
      <3>1. j \in 1..(n - (i + 1) + 1) /\ (i + 1) + j - 1 = i + j
        BY <1>1
      <3> QED
        BY <2>2, <3>1
    <2> QED
      BY <2>2, <2>3, <2>4
  <1>4. /\ rest \in Seq(Events) /\ Len(rest) = Len(front) + Len(back)
        /\ \A j \in 1..(Len(front) + Len(back)) :
              rest[j] = IF j <= Len(front) THEN front[j] ELSE back[j - Len(front)]
    <2> HIDE DEF front, back
    <2> QED
      BY <1>2, <1>3, ConcatProperties
  <1>5. RemoveAt(events, i) = rest
    BY DEF RemoveAt
  <1> HIDE DEF front, back, rest, n
  <1>6. /\ Len(rest) = n - 1 /\ DOMAIN rest = 1..(n - 1)
    BY <1>1, <1>2, <1>3, <1>4
  <1>7. ASSUME NEW j \in 1..(n - 1)
        PROVE  rest[j] = IF j < i THEN events[j] ELSE events[j + 1]
    <2>0. rest[j] = IF j <= i - 1 THEN front[j] ELSE back[j - (i - 1)]
      BY <1>1, <1>2, <1>3, <1>4
    <2>1. CASE j < i
      BY <1>1, <1>2, <2>0, <2>1
    <2>2. CASE ~(j < i)
      <3>1. j - (i - 1) \in 1..(n - i) /\ i + (j - (i - 1)) = j + 1
        BY <1>1, <2>2
      <3>2. rest[j] = back[j - (i - 1)]
        BY <1>1, <2>0, <2>2
      <3> QED
        BY <1>3, <2>2, <3>1, <3>2
    <2> QED
      BY <2>1, <2>2
  <1>8. ASSUME NEW k \in 1..n, k # i
        PROVE  \E j \in 1..(n - 1) :
                  /\ j = (IF k < i THEN k ELSE k - 1) /\ rest[j] = events[k]
    <2>1. CASE k < i
      BY <1>1, <1>7, <2>1
    <2>2. CASE k > i
      <3>1. k - 1 \in 1..(n - 1) /\ ~(k - 1 < i) /\ (k - 1) + 1 = k
        BY <1>1, <2>2
      <3> QED
        BY <1>1, <1>7, <2>2, <3>1
    <2> QED
      BY <1>1, <1>8, <2>1, <2>2
  <1>9. \A j \in 1..(n - 1) : \E k \in 1..n : k # i /\ rest[j] = events[k]
    <2> TAKE j \in 1..(n - 1)
    <2>1. CASE j < i
      BY <1>1, <1>7, <2>1
    <2>2. CASE ~(j < i)
      <3>1. j + 1 \in 1..n /\ j + 1 # i
        BY <1>1, <2>2
      <3> QED
        BY <1>7, <2>2, <3>1
    <2> QED
      BY <2>1, <2>2
  <1>10. InFlight(events, g) <=> events[i].gen = g \/ InFlight(rest, g)
    <2>1. InFlight(events, g) => events[i].gen = g \/ InFlight(rest, g)
      BY <1>1, <1>6, <1>8 DEF InFlight
    <2>2. InFlight(rest, g) => InFlight(events, g)
      BY <1>1, <1>6, <1>9 DEF InFlight
    <2>3. events[i].gen = g => InFlight(events, g)
      BY <1>1 DEF InFlight
    <2> QED
      BY <2>1, <2>2, <2>3
  <1>11. ASSUME NEW x, LastOf(events, g, x)
         PROVE  \/ LastOf(rest, g, x)
                \/ events[i] = x /\ ~InFlight(rest, g)
                \/ /\ events[i] = x
                   /\ \E j \in 1..(i - 1) : events[j].gen = g
                   /\ \A j \in (i + 1)..n : events[j].gen # g
    <2>1. PICK k \in 1..n : /\ events[k] = x /\ x.gen = g
                            /\ \A j \in 1..n : j > k => events[j].gen # g
      BY <1>1, <1>11 DEF LastOf
    <2>2. CASE k # i
      <3> DEFINE m == IF k < i THEN k ELSE k - 1
      <3>1. m \in 1..(n - 1) /\ rest[m] = x
        BY <1>8, <2>1, <2>2
      <3>2. ASSUME NEW j \in 1..(n - 1), j > m PROVE rest[j].gen # g
        <4>1. CASE j < i
          <5>1. j \in 1..n /\ j > k /\ rest[j] = events[j]
            BY <1>1, <1>7, <2>2, <3>2, <4>1
          <5> QED
            BY <2>1, <5>1
        <4>2. CASE ~(j < i)
          <5>1. j + 1 \in 1..n /\ j + 1 > k /\ rest[j] = events[j + 1]
            BY <1>1, <1>7, <2>2, <3>2, <4>2
          <5> QED
            BY <2>1, <5>1
        <4> QED
          BY <4>1, <4>2
      <3> HIDE DEF m
      <3> QED
        BY <1>6, <2>1, <3>1, <3>2 DEF LastOf
    <2>3. CASE k = i /\ \E j \in 1..(i - 1) : events[j].gen = g
      BY <1>1, <2>1, <2>3
    <2>4. CASE k = i /\ \A j \in 1..(i - 1) : events[j].gen # g
      <3>1. \A j \in 1..n : j # i => events[j].gen # g
        BY <1>1, <2>1, <2>4
      <3>2. ~InFlight(rest, g)
        BY <1>6, <1>9, <3>1 DEF InFlight
      <3> QED
        BY <2>1, <2>4, <3>2
    <2> QED
      BY <2>2, <2>3, <2>4
  <1> QED
    BY <1>1, <1>4, <1>5, <1>6, <1>10, <1>11 DEF n

-----------------------------------------------------------------------------
(* What a worker thread may do.                                             *)

\* The fields of a worker.
LEMMA WorkerFacts ==
    ASSUME NEW w \in Workers
    PROVE  /\ w.inbox \in Seq(Commands) /\ w.pending \in Seq(Frames)
           /\ w.wire \in Seq(Frames)
           /\ w.preamble \in {<<>>, <<Preamble>>}
           /\ w.owed \in {<<>>, <<Preamble>>}
           /\ w.preamble \in Seq(Frames)
  <1>1. /\ w.inbox \in Seq(Commands) /\ w.pending \in Seq(Frames)
        /\ w.wire \in Seq(Frames)
        /\ w.preamble \in {<<>>, <<Preamble>>}
        /\ w.owed \in {<<>>, <<Preamble>>}
    BY DEF Workers
  <1>2. <<>> \in Seq(Frames) /\ <<Preamble>> \in Seq(Frames)
    <2>1. Preamble \in Frames
      BY DEF Frames
    <2> HIDE DEF Preamble
    <2> QED
      BY <2>1
  <1> QED
    BY <1>1, <1>2

\* A worker not yet born or ended holds nothing.
LEMMA NoWorkerFacts ==
    ASSUME NEW w
    PROVE  /\ NoWorker \in Workers /\ Done(w) \in Workers
           /\ Done(w).phase = "done" /\ NoWorker.phase = "unborn"
           /\ Done(w).wire = <<>> /\ Done(w).owed = <<>>
           /\ Done(w).pending = <<>> /\ Done(w).inbox = <<>>
           /\ Done(Done(w)) = Done(w)
           /\ PreambleAhead(Done(w)) /\ PreambleAhead(NoWorker)
           /\ \A s, later : Closing(Done(w), s, later)
           /\ \A s, later : Closing(NoWorker, s, later)
           /\ \A op : ~Told(Done(w), op) /\ ~Told(NoWorker, op)
  <1>1. /\ NoWorker \in Workers /\ Done(w) \in Workers
        /\ Done(w).phase = "done" /\ NoWorker.phase = "unborn"
        /\ Done(w).wire = <<>> /\ Done(w).owed = <<>>
        /\ Done(w).pending = <<>> /\ Done(w).inbox = <<>>
        /\ NoWorker.wire = <<>> /\ NoWorker.owed = <<>>
        /\ NoWorker.pending = <<>> /\ NoWorker.inbox = <<>>
        /\ Done(Done(w)) = Done(w)
    <2>1. <<>> \in Seq(Commands) /\ <<>> \in Seq(Frames)
      OBVIOUS
    <2>2. /\ Done(w) = [phase |-> "done", inbox |-> <<>>, pending |-> <<>>,
                        preamble |-> <<>>, owed |-> <<>>, wire |-> <<>>]
          /\ Done(Done(w)) = Done(w)
      BY DEF NoWorker, Done
    <2>3. Done(w) \in Workers /\ NoWorker \in Workers
      BY <2>1, <2>2 DEF NoWorker, Workers
    <2> QED
      BY <2>2, <2>3 DEF NoWorker
  <1>2. \A x, y : ~Leaves(<<>>, x, y)
    BY DEF Leaves
  <1> QED
    BY <1>1, <1>2 DEF PreambleAhead, Closing, Told

\* Draining the inbox moves its frames behind the pending ones.
LEMMA DrainedFacts ==
    ASSUME NEW w \in Workers
    PROVE  /\ Drained(w) \in Workers
           /\ Drained(w).phase = w.phase /\ Drained(w).inbox = <<>>
           /\ Drained(w).wire = w.wire /\ Drained(w).owed = w.owed
           /\ Drained(w).pending = w.pending \o SentFrames(w.inbox)
           /\ Drained(w).pending \in Seq(Frames)
           /\ \A op : ~Told(Drained(w), op)
           /\ PreambleAhead(w) => PreambleAhead(Drained(w))
           /\ \A s \in Subs, later \in BOOLEAN :
                 Closing(w, s, later) => Closing(Drained(w), s, later)
  <1> DEFINE d == Drained(w)
             sent == SentFrames(w.inbox)
  <1>0. /\ w.inbox \in Seq(Commands) /\ w.pending \in Seq(Frames)
        /\ sent \in Seq(Frames)
    BY WorkerFacts, SentFramesFacts
  <1>1. /\ d.phase = w.phase /\ d.inbox = <<>> /\ d.wire = w.wire
        /\ d.owed = w.owed /\ d.pending = w.pending \o sent
        /\ d.preamble \in {<<>>, <<Preamble>>}
        /\ d = [phase |-> d.phase, inbox |-> d.inbox, pending |-> d.pending,
                preamble |-> d.preamble, owed |-> d.owed, wire |-> d.wire]
    <2>1. w = [phase |-> w.phase, inbox |-> w.inbox, pending |-> w.pending,
               preamble |-> w.preamble, owed |-> w.owed, wire |-> w.wire]
          /\ w.preamble \in {<<>>, <<Preamble>>}
      BY DEF Workers
    <2> DEFINE pre == IF Told(w, "SetReconnectPreamble")
                      THEN <<Preamble>> ELSE w.preamble
               more == w.pending \o sent
    <2>2. d = [w EXCEPT !.pending = more, !.preamble = pre, !.inbox = <<>>]
      BY DEF Drained
    <2>3. pre \in {<<>>, <<Preamble>>}
      BY <2>1
    <2> HIDE DEF d, pre, more
    <2>4. d = [phase |-> w.phase, inbox |-> <<>>, pending |-> more,
               preamble |-> pre, owed |-> w.owed, wire |-> w.wire]
      BY <2>1, <2>2
    <2> QED
      BY <2>3, <2>4 DEF more
  <1>2. \A op : ~Told(d, op)
    BY <1>1 DEF Told
  <1> HIDE DEF d, sent
  <1>3. d.pending \in Seq(Frames)
    BY <1>0, <1>1
  <1>4. d \in Workers
    <2>1. /\ w.phase \in {"unborn", "dialing", "connected", "waiting", "done"}
          /\ w.owed \in {<<>>, <<Preamble>>} /\ w.wire \in Seq(Frames)
      BY DEF Workers
    <2>2. d.inbox \in Seq(Commands)
      BY <1>1
    <2> QED
      BY <1>1, <1>3, <2>1, <2>2 DEF Workers
  <1>5. PreambleAhead(w) => PreambleAhead(d)
    <2>1. w.pending # <<>> => d.pending # <<>> /\ d.pending[1] = w.pending[1]
      BY <1>0, <1>1
    <2> QED
      BY <1>1, <2>1 DEF PreambleAhead
  <1>6. ASSUME NEW s \in Subs, NEW later \in BOOLEAN, Closing(w, s, later)
        PROVE  Closing(d, s, later)
    <2>1. /\ Holds(sent, Close(s)) <=> Holds(w.inbox, Send(Close(s)))
          /\ Leaves(sent, Req(s), Close(s)) =>
                Leaves(w.inbox, Send(Req(s)), Send(Close(s)))
      BY <1>0, SentFramesFacts DEF sent
    <2>2. /\ Holds(d.pending, Close(s)) <=>
                Holds(w.pending, Close(s)) \/ Holds(sent, Close(s))
          /\ Leaves(d.pending, Req(s), Close(s)) =>
                \/ Leaves(sent, Req(s), Close(s))
                \/ Leaves(w.pending, Req(s), Close(s)) /\ ~Holds(sent, Close(s))
      <3> DEFINE p == w.pending
      <3>1. p \in Seq(Frames) /\ d.pending = p \o sent
        BY <1>0, <1>1
      <3> HIDE DEF p
      <3>2. /\ Holds(p \o sent, Close(s)) <=>
                  Holds(p, Close(s)) \/ Holds(sent, Close(s))
            /\ Leaves(p \o sent, Req(s), Close(s)) =>
                  \/ Leaves(sent, Req(s), Close(s))
                  \/ Leaves(p, Req(s), Close(s)) /\ ~Holds(sent, Close(s))
        BY <1>0, <3>1, ConcatHolds
      <3> QED
        BY <3>1, <3>2 DEF p
    <2>3. ~Leaves(d.inbox, Send(Req(s)), Send(Close(s)))
      BY <1>1 DEF Leaves
    <2> QED
      BY <1>1, <1>6, <2>1, <2>2, <2>3 DEF Closing
  <1> QED
    BY <1>1, <1>2, <1>3, <1>4, <1>5, <1>6 DEF d, sent


\* A worker by its fields.
LEMMA WorkerFields ==
    ASSUME NEW w \in Workers
    PROVE  /\ w = [phase |-> w.phase, inbox |-> w.inbox, pending |-> w.pending,
                   preamble |-> w.preamble, owed |-> w.owed, wire |-> w.wire]
           /\ w.phase \in {"unborn", "dialing", "connected", "waiting", "done"}
  BY DEF Workers

\* A worker that loses its socket keeps every CLOSE behind its REQ.
LEMMA WaitingFacts ==
    ASSUME NEW w \in Workers, NEW p \in Seq(Frames),
           \A s \in Subs : Leaves(p, Req(s), Close(s))
                              => Leaves(w.pending, Req(s), Close(s))
    PROVE  LET v == Waiting([w EXCEPT !.pending = p])
           IN  /\ v \in Workers /\ v.phase = "waiting"
               /\ v.wire = <<>> /\ v.owed = <<>> /\ v.inbox = w.inbox
               /\ \A s \in Subs, later \in BOOLEAN :
                     Closing(w, s, later) => Closing(v, s, later)
  <1> DEFINE v == Waiting([w EXCEPT !.pending = p])
  <1>1. v = [phase |-> "waiting", inbox |-> w.inbox, pending |-> p,
             preamble |-> w.preamble, owed |-> <<>>, wire |-> <<>>]
    <2>1. w = [phase |-> w.phase, inbox |-> w.inbox, pending |-> w.pending,
               preamble |-> w.preamble, owed |-> w.owed, wire |-> w.wire]
      BY WorkerFields
    <2> DEFINE u == [w EXCEPT !.pending = p]
    <2>2. u = [phase |-> w.phase, inbox |-> w.inbox, pending |-> p,
               preamble |-> w.preamble, owed |-> w.owed, wire |-> w.wire]
      BY <2>1
    <2>3. v = [u EXCEPT !.phase = "waiting", !.wire = <<>>, !.owed = <<>>]
      BY DEF Waiting
    <2> HIDE DEF u, v
    <2> QED
      BY <2>2, <2>3
  <1> HIDE DEF v
  <1>2. v \in Workers
    <2>1. w.inbox \in Seq(Commands) /\ w.preamble \in {<<>>, <<Preamble>>}
      BY WorkerFacts
    <2>2. <<>> \in Seq(Frames)
      OBVIOUS
    <2> QED
      BY <1>1, <2>1, <2>2 DEF Workers
  <1>3. ASSUME NEW s \in Subs, NEW later \in BOOLEAN, Closing(w, s, later)
        PROVE  Closing(v, s, later)
    <2>1. v.inbox = w.inbox /\ v.pending = p /\ v.wire = <<>>
      BY <1>1
    <2>2. ~Leaves(<<>>, Req(s), Close(s))
      BY DEF Leaves
    <2> QED
      BY <1>3, <2>1, <2>2 DEF Closing
  <1>4. v.phase = "waiting" /\ v.wire = <<>> /\ v.owed = <<>> /\ v.inbox = w.inbox
    BY <1>1
  <1> QED
    BY <1>2, <1>3, <1>4 DEF v

\* The same, with nothing cut off.
LEMMA WaitingSame ==
    ASSUME NEW w \in Workers
    PROVE  /\ Waiting(w) \in Workers /\ Waiting(w).phase = "waiting"
           /\ Waiting(w).wire = <<>> /\ Waiting(w).owed = <<>>
           /\ Waiting(w).inbox = w.inbox
           /\ \A s \in Subs, later \in BOOLEAN :
                 Closing(w, s, later) => Closing(Waiting(w), s, later)
  <1> DEFINE p == w.pending
  <1>1. p \in Seq(Frames)
    BY WorkerFacts
  <1>2. [w EXCEPT !.pending = p] = w
    BY WorkerFields
  <1>3. \A s \in Subs : Leaves(p, Req(s), Close(s))
                           => Leaves(w.pending, Req(s), Close(s))
    OBVIOUS
  <1> HIDE DEF p
  <1> QED
    BY <1>1, <1>2, <1>3, WaitingFacts

\* A new connection has the preamble in front.
LEMMA PreambledFacts ==
    ASSUME NEW w \in Workers
    PROVE  /\ Preambled(w) \in Workers /\ Preambled(w).phase = "connected"
           /\ Preambled(w).inbox = w.inbox
           /\ PreambleAhead(Preambled(w))
           /\ \A s \in Subs, later \in BOOLEAN :
                 Closing(w, s, later) => Closing(Preambled(w), s, later)
  <1> DEFINE v == Preambled(w)
             pre == w.preamble
             p == w.pending
  <1>0. /\ pre \in {<<>>, <<Preamble>>} /\ pre \in Seq(Frames)
        /\ p \in Seq(Frames) /\ w.inbox \in Seq(Commands)
    BY WorkerFacts
  <1>1. v = [phase |-> "connected", inbox |-> w.inbox, pending |-> pre \o p,
             preamble |-> pre, owed |-> pre, wire |-> <<>>]
    <2>1. w = [phase |-> w.phase, inbox |-> w.inbox, pending |-> w.pending,
               preamble |-> w.preamble, owed |-> w.owed, wire |-> w.wire]
      BY WorkerFields
    <2> DEFINE both == pre \o p
    <2>2. v = [w EXCEPT !.phase = "connected", !.pending = both, !.owed = pre,
                        !.wire = <<>>]
      BY DEF Preambled
    <2> HIDE DEF both, v
    <2>3. v = [phase |-> "connected", inbox |-> w.inbox, pending |-> both,
               preamble |-> w.preamble, owed |-> pre, wire |-> <<>>]
      BY <2>1, <2>2
    <2> QED
      BY <2>3 DEF both
  <1> HIDE DEF v, pre, p
  <1>2. pre \o p \in Seq(Frames) /\ <<>> \in Seq(Frames)
    BY <1>0
  <1>3. v \in Workers
    BY <1>0, <1>1, <1>2 DEF Workers
  <1>4. PreambleAhead(v)
    <2>1. CASE pre = <<>>
      BY <1>1, <2>1 DEF PreambleAhead
    <2>2. CASE pre = <<Preamble>>
      <3>1. pre \o p # <<>> /\ (pre \o p)[1] = Preamble
        <4>0. Len(pre) = 1 /\ pre[1] = Preamble /\ Len(p) \in Nat
          BY <1>0, <2>2
        <4>1. 1 \in 1..Len(pre) + Len(p)
          BY <4>0
        <4>2. /\ Len(pre \o p) = Len(pre) + Len(p)
              /\ \A i \in 1..Len(pre) + Len(p) :
                    (pre \o p)[i] = IF i <= Len(pre) THEN pre[i]
                                                    ELSE p[i - Len(pre)]
          BY <1>0, ConcatProperties
        <4>3. (pre \o p)[1] = pre[1] /\ Len(pre \o p) # 0
          BY <4>0, <4>1, <4>2
        <4> QED
          BY <1>2, <4>0, <4>3
      <3> QED
        BY <1>1, <3>1 DEF PreambleAhead
    <2> QED
      BY <1>0, <2>1, <2>2
  <1>5. ASSUME NEW s \in Subs, NEW later \in BOOLEAN, Closing(w, s, later)
        PROVE  Closing(v, s, later)
    <2>1. v.inbox = w.inbox /\ v.pending = pre \o p /\ v.wire = <<>>
      BY <1>1
    <2>2. ~Leaves(<<>>, Req(s), Close(s))
      BY DEF Leaves
    <2>3. ~Leaves(pre, Req(s), Close(s))
      <3>1. Preamble # Req(s)
        BY FrameFacts
      <3> HIDE DEF Preamble
      <3> QED
        BY <1>0, <3>1 DEF Leaves
    <2>4. Leaves(pre \o p, Req(s), Close(s)) => Leaves(p, Req(s), Close(s))
      BY <1>0, <2>3, ConcatHolds
    <2> QED
      BY <1>5, <2>1, <2>2, <2>4 DEF Closing, p
  <1>6. v.phase = "connected" /\ v.inbox = w.inbox
    BY <1>1
  <1> QED
    BY <1>3, <1>4, <1>5, <1>6 DEF v

\* Everything drained is written.
LEMMA FlushedFacts ==
    ASSUME NEW w \in Workers, w.inbox = <<>>
    PROVE  LET v == [w EXCEPT !.wire = @ \o w.pending, !.pending = <<>>]
           IN  /\ v \in Workers /\ v.phase = w.phase /\ v.inbox = <<>>
               /\ PreambleAhead(w) => PreambleAhead(v)
               /\ \A s \in Subs, later \in BOOLEAN :
                     Closing(w, s, later) => Closing(v, s, later)
  <1> DEFINE v == [w EXCEPT !.wire = @ \o w.pending, !.pending = <<>>]
             old == w.wire
             p == w.pending
  <1>0. /\ old \in Seq(Frames) /\ p \in Seq(Frames)
        /\ w.owed \in {<<>>, <<Preamble>>} /\ w.preamble \in {<<>>, <<Preamble>>}
        /\ <<>> \in Seq(Frames) /\ <<>> \in Seq(Commands)
    BY WorkerFacts
  <1>1. v = [phase |-> w.phase, inbox |-> <<>>, pending |-> <<>>,
             preamble |-> w.preamble, owed |-> w.owed, wire |-> old \o p]
    <2>1. w = [phase |-> w.phase, inbox |-> w.inbox, pending |-> w.pending,
               preamble |-> w.preamble, owed |-> w.owed, wire |-> w.wire]
      BY WorkerFields
    <2> DEFINE both == old \o p
    <2>2. v = [w EXCEPT !.wire = both, !.pending = <<>>]
      OBVIOUS
    <2> HIDE DEF both, v
    <2>3. v = [phase |-> w.phase, inbox |-> w.inbox, pending |-> <<>>,
               preamble |-> w.preamble, owed |-> w.owed, wire |-> both]
      BY <2>1, <2>2
    <2> QED
      BY <2>3 DEF both
  <1> HIDE DEF v, old, p
  <1>2. old \o p \in Seq(Frames)
    BY <1>0
  <1>3. v \in Workers
    BY <1>0, <1>1, <1>2, WorkerFields DEF Workers
  <1>4. PreambleAhead(w) => PreambleAhead(v)
    <2>1. /\ old # <<>> => old \o p # <<>> /\ (old \o p)[1] = old[1]
          /\ old = <<>> => old \o p = p
      BY <1>0
    <2> QED
      BY <1>1, <2>1 DEF PreambleAhead, old, p
  <1>5. ASSUME NEW s \in Subs, NEW later \in BOOLEAN, Closing(w, s, later)
        PROVE  Closing(v, s, later)
    <2>1. v.inbox = <<>> /\ v.pending = <<>> /\ v.wire = old \o p
      BY <1>1
    <2>2. /\ ~Leaves(<<>>, Req(s), Close(s))
          /\ ~Leaves(<<>>, Send(Req(s)), Send(Close(s)))
          /\ ~Holds(<<>>, Send(Close(s)))
      BY DEF Leaves, Holds
    <2>3. Leaves(old \o p, Req(s), Close(s)) =>
             \/ Leaves(p, Req(s), Close(s))
             \/ Leaves(old, Req(s), Close(s)) /\ ~Holds(p, Close(s))
      BY <1>0, ConcatHolds
    <2> QED
      BY <1>5, <2>1, <2>2, <2>3 DEF Closing, old, p
  <1>6. v.phase = w.phase /\ v.inbox = <<>>
    BY <1>1
  <1> QED
    BY <1>3, <1>4, <1>5, <1>6 DEF v

\* wait_before_reconnect takes the first command.
LEMMA AbsorbedFacts ==
    ASSUME NEW w \in Workers, w.inbox # <<>>, w.phase = "waiting",
           w.wire = <<>>, w.owed = <<>>
    PROVE  LET v == Absorbed(w, Head(w.inbox))
           IN  /\ v \in Workers /\ v.wire = <<>> /\ v.owed = <<>>
               /\ \/ v.phase = "done" /\ v = Done(v) /\ Told(w, "Shutdown")
                  \/ v.phase = "waiting" /\ v.inbox = Tail(w.inbox)
               /\ \A s \in Subs, later \in BOOLEAN :
                     Closing(w, s, later) => Closing(v, s, later)
  <1> DEFINE c == Head(w.inbox)
             v == Absorbed(w, c)
             in == w.inbox
             rest == Tail(in)
             p == w.pending
  <1>0. /\ in \in Seq(Commands) /\ c \in Commands /\ rest \in Seq(Commands)
        /\ p \in Seq(Frames) /\ w.preamble \in {<<>>, <<Preamble>>}
        /\ <<>> \in Seq(Frames)
        /\ c.op \in {"Send", "SetReconnectPreamble", "Shutdown"}
        /\ c.frame \in Frames /\ (c.op = "Send" => c = Send(c.frame))
    BY WorkerFacts, CommandFacts
  <1>1. CASE c.op = "Shutdown"
    <2>1. v = Done(w)
      BY <1>1 DEF Absorbed
    <2>2. Told(w, "Shutdown")
      BY <1>0, <1>1 DEF Told
    <2> HIDE DEF v
    <2>3. /\ v \in Workers /\ v.wire = <<>> /\ v.owed = <<>>
          /\ v.phase = "done" /\ v = Done(v)
          /\ \A s, later : Closing(v, s, later)
      BY <2>1, NoWorkerFacts
    <2> QED
      BY <2>2, <2>3 DEF v
  <1>2. ASSUME NEW q \in Seq(Frames), NEW pre \in {<<>>, <<Preamble>>},
               v = [phase |-> "waiting", inbox |-> rest, pending |-> q,
                    preamble |-> pre, owed |-> <<>>, wire |-> <<>>],
               \/ q = p /\ \A f : c # Send(f)
               \/ c = Send(c.frame) /\ q = Append(p, c.frame)
        PROVE  /\ v \in Workers /\ v.wire = <<>> /\ v.owed = <<>>
               /\ v.phase = "waiting" /\ v.inbox = rest
               /\ \A s \in Subs, later \in BOOLEAN :
                     Closing(w, s, later) => Closing(v, s, later)
    <2> HIDE DEF v, c, rest, p, in
    <2>1. /\ v \in Workers /\ v.wire = <<>> /\ v.owed = <<>>
          /\ v.phase = "waiting" /\ v.inbox = rest /\ v.pending = q
      BY <1>0, <1>2 DEF Workers
    <2>2. ASSUME NEW s \in Subs, NEW later \in BOOLEAN, Closing(w, s, later)
          PROVE  Closing(v, s, later)
      <3>1. /\ Leaves(in, Send(Req(s)), Send(Close(s))) => later
            /\ Leaves(p, Req(s), Close(s)) =>
                  Holds(in, Send(Close(s))) \/ later
        BY <2>2 DEF Closing, in, p
      <3>2. /\ Holds(in, Send(Close(s))) <=>
                  c = Send(Close(s)) \/ Holds(rest, Send(Close(s)))
            /\ Leaves(rest, Send(Req(s)), Send(Close(s))) =>
                  Leaves(in, Send(Req(s)), Send(Close(s)))
            /\ c = Send(Req(s)) /\ ~Holds(rest, Send(Close(s))) =>
                  Leaves(in, Send(Req(s)), Send(Close(s)))
        <4>1. in # <<>> /\ c = Head(in) /\ rest = Tail(in)
          BY DEF in, c, rest
        <4> QED
          BY <1>0, <4>1, TailHolds
      <3>3. Leaves(q, Req(s), Close(s)) =>
               \/ c = Send(Req(s))
               \/ Leaves(p, Req(s), Close(s)) /\ c # Send(Close(s))
        <4>1. CASE q = p /\ \A f : c # Send(f)
          BY <4>1
        <4>2. CASE c = Send(c.frame) /\ q = Append(p, c.frame)
          <5> DEFINE fr == c.frame
          <5>1. fr \in Frames /\ c = Send(fr) /\ q = Append(p, fr)
            BY <1>0, <4>2
          <5> HIDE DEF fr
          <5>2. Leaves(q, Req(s), Close(s)) =>
                   fr = Req(s) \/ (Leaves(p, Req(s), Close(s)) /\ fr # Close(s))
            BY <1>0, <5>1, AppendHolds
          <5> QED
            BY <5>1, <5>2, CommandFacts
        <4> QED
          BY <1>2, <4>1, <4>2
      <3>4. ~Leaves(<<>>, Req(s), Close(s))
        BY DEF Leaves
      <3> QED
        BY <2>1, <3>1, <3>2, <3>3, <3>4 DEF Closing
    <2> QED
      BY <2>1, <2>2
  <1>3. CASE c.op = "Send"
    <2>1. v = [phase |-> "waiting", inbox |-> rest, pending |-> Append(p, c.frame),
               preamble |-> w.preamble, owed |-> <<>>, wire |-> <<>>]
      <3>1. w = [phase |-> w.phase, inbox |-> w.inbox, pending |-> w.pending,
                 preamble |-> w.preamble, owed |-> w.owed, wire |-> w.wire]
        BY WorkerFields
      <3> DEFINE more == Append(p, c.frame)
      <3>2. v = [w EXCEPT !.inbox = rest, !.pending = more]
        BY <1>3 DEF Absorbed
      <3> HIDE DEF more, v, rest, c
      <3>3. v = [phase |-> w.phase, inbox |-> rest, pending |-> more,
                 preamble |-> w.preamble, owed |-> w.owed, wire |-> w.wire]
        BY <3>1, <3>2
      <3> QED
        BY <3>3 DEF more
    <2>2. Append(p, c.frame) \in Seq(Frames) /\ c = Send(c.frame)
      BY <1>0, <1>3
    <2> HIDE DEF v, c, rest, p, in
    <2>3. /\ v \in Workers /\ v.wire = <<>> /\ v.owed = <<>>
          /\ v.phase = "waiting" /\ v.inbox = rest
          /\ \A s \in Subs, later \in BOOLEAN :
                Closing(w, s, later) => Closing(v, s, later)
      BY <1>0, <1>2, <2>1, <2>2
    <2> QED
      BY <2>3 DEF v, c, rest, in
  <1>4. CASE c.op = "SetReconnectPreamble"
    <2>1. v = [phase |-> "waiting", inbox |-> rest, pending |-> p,
               preamble |-> <<Preamble>>, owed |-> <<>>, wire |-> <<>>]
      <3>1. w = [phase |-> w.phase, inbox |-> w.inbox, pending |-> w.pending,
                 preamble |-> w.preamble, owed |-> w.owed, wire |-> w.wire]
        BY WorkerFields
      <3>2. v = [w EXCEPT !.inbox = rest, !.preamble = <<Preamble>>]
        BY <1>4 DEF Absorbed
      <3> HIDE DEF v, rest, c
      <3>3. v = [phase |-> w.phase, inbox |-> rest, pending |-> p,
                 preamble |-> <<Preamble>>, owed |-> w.owed, wire |-> w.wire]
        BY <3>1, <3>2
      <3> QED
        BY <3>3
    <2>2. \A f : c # Send(f)
      BY <1>4 DEF Send
    <2> HIDE DEF v, c, rest, p, in
    <2>3. /\ v \in Workers /\ v.wire = <<>> /\ v.owed = <<>>
          /\ v.phase = "waiting" /\ v.inbox = rest
          /\ \A s \in Subs, later \in BOOLEAN :
                Closing(w, s, later) => Closing(v, s, later)
      BY <1>0, <1>2, <2>1, <2>2
    <2> QED
      BY <2>3 DEF v, c, rest, in
  <1> QED
    BY <1>0, <1>1, <1>3, <1>4


\* What a step leaves in the worker's hands.
Sound(old, w) ==
    /\ w \in Workers /\ w.phase # "unborn"
    /\ w.phase = "done" => w = Done(w)
    /\ w.phase # "connected" => w.wire = <<>> /\ w.owed = <<>>
    /\ PreambleAhead(w)
    /\ Told(w, "Shutdown") => Told(old, "Shutdown")
    /\ \A s \in Subs, later \in BOOLEAN :
          Closing(old, s, later) => Closing(w, s, later)

\* What a step of the thread of g tells the pool.
Moves(g, w) ==
    /\ worker[g].phase \notin {"unborn", "done"}
    /\ worker' = [worker EXCEPT ![g] = w]
    /\ \/ /\ relayEvents' = relayEvents
          /\ w.phase = "connected" => worker[g].phase = "connected"
          /\ w.phase = "done" => Told(worker[g], "Shutdown")
       \/ \E e \in Events :
             /\ e.gen = g
             /\ relayEvents' = Append(relayEvents, e)
             /\ w.phase = "connected" => e = Event("Connected", g, FALSE)
             /\ w.phase = "done" => e \in FinalWords
    /\ spent' \in 0..MaxEvents /\ lost' \in BOOLEAN
    /\ UNCHANGED <<slot, toActor, actor, kernel>>

\* A worker may end or wait at any time.
LEMMA SoundEnds ==
    ASSUME NEW old \in Workers
    PROVE  /\ Sound(old, Done(old))
           /\ Sound(old, Waiting(old))
  <1>1. Sound(old, Done(old))
    BY NoWorkerFacts DEF Sound
  <1>2. PreambleAhead(Waiting(old)) /\ (Told(Waiting(old), "Shutdown") => Told(old, "Shutdown"))
    BY WaitingSame DEF PreambleAhead, Told
  <1> QED
    BY <1>1, <1>2, WaitingSame DEF Sound

\* A failure is a sound move of its worker.
LEMMA FailingMoves ==
    ASSUME PoolTypeOK, NEW g \in Generations, NEW denied \in BOOLEAN,
           NEW w, Sound(worker[g], Done(w)), Sound(worker[g], Waiting(w)),
           Waiting(w).phase = "waiting", Failing(g, w, denied),
           worker[g].phase \notin {"unborn", "done"},
           spent' \in 0..MaxEvents, UNCHANGED <<slot, toActor, actor, kernel>>
    PROVE  \E v : Moves(g, v) /\ Sound(worker[g], v)
  <1> DEFINE e == Event("Failed", g, denied)
             v == IF denied THEN Done(w) ELSE Waiting(w)
  <1>1. /\ e \in Events /\ e.gen = g
        /\ relayEvents' = Append(relayEvents, e)
    BY EventFacts DEF Failing, Emit
  <1>2. v.phase # "connected" /\ (v.phase = "done" => e \in FinalWords)
    BY EventFacts, NoWorkerFacts DEF FinalWords
  <1>3. worker' = [worker EXCEPT ![g] = v] /\ lost' \in BOOLEAN
    BY DEF Failing, PoolTypeOK
  <1>4. Sound(worker[g], v)
    OBVIOUS
  <1> HIDE DEF e, v
  <1>5. Moves(g, v)
    BY <1>1, <1>2, <1>3 DEF Moves
  <1> QED
    BY <1>4, <1>5

\* Every step of a worker and every fault of its socket is a sound move.
LEMMA WorkerMoves ==
    ASSUME PoolTypeOK, Tidy, PreamblesAhead, NEW g \in Generations,
           WorkerStep(g) \/ SocketFault(g)
    PROVE  \E w : Moves(g, w) /\ Sound(worker[g], w)
  <1> DEFINE old == worker[g]
  <1>0. /\ old \in Workers /\ PreambleAhead(old)
        /\ lost \in BOOLEAN /\ spent \in 0..MaxEvents
    BY DEF PoolTypeOK, PreamblesAhead
  <1>1. Spend => spent' \in 0..MaxEvents
    BY <1>0, PoolAssumption DEF Spend
  <1>2. CASE Dial(g)
    <2> DEFINE w == Preambled(old)
               e == Event("Connected", g, FALSE)
    <2>1. /\ old.phase = "dialing" /\ worker' = [worker EXCEPT ![g] = w]
          /\ relayEvents' = Append(relayEvents, e)
          /\ UNCHANGED <<slot, toActor, actor, kernel, spent, lost>>
      BY <1>2 DEF Dial, Emit
    <2>2. /\ w \in Workers /\ w.phase = "connected" /\ w.inbox = old.inbox
          /\ PreambleAhead(w)
          /\ \A s \in Subs, later \in BOOLEAN :
                Closing(old, s, later) => Closing(w, s, later)
      BY <1>0, PreambledFacts
    <2>3. e \in Events /\ e.gen = g
      BY EventFacts
    <2> HIDE DEF w, old
    <2>4. Sound(old, w)
      BY <2>2 DEF Sound, Told
    <2>5. Moves(g, w)
      BY <1>0, <2>1, <2>2, <2>3 DEF Moves, old
    <2> QED
      BY <2>4, <2>5 DEF old
  <1>3. CASE ObeyShutdown(g)
    <2> DEFINE w == Done(old)
               e == Event("Closed", g, FALSE)
    <2>1. /\ old.phase = "connected" /\ worker' = [worker EXCEPT ![g] = w]
          /\ relayEvents' = Append(relayEvents, e) /\ lost' = TRUE
          /\ UNCHANGED <<slot, toActor, actor, kernel, spent>>
      BY <1>3 DEF ObeyShutdown, Emit
    <2>2. Sound(old, w) /\ w.phase = "done"
      BY <1>0, SoundEnds, NoWorkerFacts
    <2>3. e \in Events /\ e.gen = g /\ e \in FinalWords
      BY EventFacts DEF FinalWords
    <2> HIDE DEF w, e
    <2>4. Moves(g, w)
      BY <1>0, <2>1, <2>2, <2>3 DEF Moves
    <2> QED
      BY <2>2, <2>4
  <1>4. CASE Flush(g)
    <2> DEFINE d == Drained(old)
               w == [d EXCEPT !.wire = @ \o d.pending, !.pending = <<>>]
    <2>1. /\ old.phase = "connected" /\ worker' = [worker EXCEPT ![g] = w]
          /\ UNCHANGED <<slot, relayEvents, toActor, actor, kernel, spent,
                         lost>>
      BY <1>4 DEF Flush
    <2>2. /\ d \in Workers /\ d.phase = old.phase /\ d.inbox = <<>>
          /\ PreambleAhead(d)
          /\ \A s \in Subs, later \in BOOLEAN :
                Closing(old, s, later) => Closing(d, s, later)
      BY <1>0, DrainedFacts
    <2>3. /\ w \in Workers /\ w.phase = "connected" /\ w.inbox = <<>>
          /\ PreambleAhead(w)
          /\ \A s \in Subs, later \in BOOLEAN :
                Closing(d, s, later) => Closing(w, s, later)
      <3> HIDE DEF d
      <3> QED
        BY <2>1, <2>2, FlushedFacts
    <2> HIDE DEF w, d
    <2>4. Sound(old, w)
      BY <2>2, <2>3 DEF Sound, Told
    <2>5. Moves(g, w)
      BY <1>0, <2>1, <2>3 DEF Moves
    <2> QED
      BY <2>4, <2>5
  <1>5. CASE AbsorbWhileWaiting(g)
    <2> DEFINE w == Absorbed(old, Head(old.inbox))
    <2>1. /\ old.phase = "waiting" /\ old.inbox # <<>>
          /\ worker' = [worker EXCEPT ![g] = w]
          /\ lost' \in BOOLEAN
          /\ UNCHANGED <<slot, relayEvents, toActor, actor, kernel, spent>>
      BY <1>5, <1>0 DEF AbsorbWhileWaiting
    <2>2. old.wire = <<>> /\ old.owed = <<>>
      BY <2>1 DEF Tidy
    <2>3. /\ w \in Workers /\ w.wire = <<>> /\ w.owed = <<>>
          /\ \/ w.phase = "done" /\ w = Done(w) /\ Told(old, "Shutdown")
             \/ w.phase = "waiting" /\ w.inbox = Tail(old.inbox)
          /\ \A s \in Subs, later \in BOOLEAN :
                Closing(old, s, later) => Closing(w, s, later)
      <3> HIDE DEF old
      <3> QED
        BY <1>0, <2>1, <2>2, AbsorbedFacts
    <2> HIDE DEF w
    <2>4. Told(w, "Shutdown") => Told(old, "Shutdown")
      <3>1. CASE w = Done(w)
        BY <3>1, NoWorkerFacts
      <3>2. CASE w.inbox = Tail(old.inbox)
        <4> DEFINE in == old.inbox
        <4>1. in \in Seq(Commands) /\ in # <<>>
          BY <1>0, <2>1, WorkerFacts
        <4>2. \A i \in DOMAIN Tail(in) : i + 1 \in DOMAIN in /\ Tail(in)[i] = in[i + 1]
          BY <4>1
        <4> HIDE DEF in
        <4>3. w.inbox = Tail(in) /\ in = old.inbox
          BY <3>2 DEF in
        <4> HIDE DEF old
        <4> QED
          BY <4>2, <4>3 DEF Told
      <3> QED
        BY <2>3, <3>1, <3>2
    <2>5. Sound(old, w)
      BY <2>3, <2>4 DEF Sound, PreambleAhead
    <2>6. Moves(g, w)
      BY <1>0, <2>1, <2>3 DEF Moves
    <2> QED
      BY <2>5, <2>6
  <1>6. CASE Redial(g)
    <2> DEFINE w == [old EXCEPT !.phase = "dialing"]
    <2>1. /\ old.phase = "waiting"
          /\ worker' = [worker EXCEPT ![g] = w]
          /\ UNCHANGED <<slot, relayEvents, toActor, actor, kernel, spent,
                         lost>>
      BY <1>6 DEF Redial, PoolTypeOK
    <2>2. old.wire = <<>> /\ old.owed = <<>>
      BY <2>1 DEF Tidy
    <2>3. /\ w \in Workers /\ w.phase = "dialing" /\ w.inbox = old.inbox
          /\ w.pending = old.pending /\ w.wire = <<>> /\ w.owed = <<>>
      <3> HIDE DEF old
      <3> QED
        BY <1>0, <2>2 DEF Workers
    <2> HIDE DEF w, old
    <2>4. Sound(old, w)
      BY <2>2, <2>3 DEF Sound, PreambleAhead, Told, Closing
    <2>5. Moves(g, w)
      BY <1>0, <2>1, <2>3 DEF Moves, old
    <2> QED
      BY <2>4, <2>5 DEF old
  <1>7. ASSUME NEW denied \in BOOLEAN, DialFails(g, denied) \/ ReadFails(g, denied)
        PROVE  \E w : Moves(g, w) /\ Sound(worker[g], w)
    <2>1. /\ old.phase \notin {"unborn", "done"} /\ Spend
          /\ Failing(g, old, denied)
          /\ UNCHANGED <<slot, toActor, actor, kernel>>
      BY <1>7 DEF DialFails, ReadFails
    <2>2. Sound(old, Done(old)) /\ Sound(old, Waiting(old))
          /\ Waiting(old).phase = "waiting"
      BY <1>0, SoundEnds, WaitingSame
    <2> QED
      BY <1>1, <2>1, <2>2, FailingMoves
  <1>8. CASE WriteFails(g)
    <2> DEFINE d == Drained(old)
    <2>1. /\ old.phase = "connected" /\ Spend
          /\ UNCHANGED <<slot, toActor, actor, kernel>>
      BY <1>8 DEF WriteFails
    <2>2. PICK k \in DOMAIN d.pending :
             Failing(g, [d EXCEPT !.pending = Unwritten(d.pending, k)], FALSE)
      BY <1>8 DEF WriteFails
    <2>3. /\ d \in Workers /\ d.inbox = <<>> /\ d.pending \in Seq(Frames)
          /\ \A s \in Subs, later \in BOOLEAN :
                Closing(old, s, later) => Closing(d, s, later)
      BY <1>0, DrainedFacts
    <2> DEFINE p == Unwritten(d.pending, k)
               cut == [d EXCEPT !.pending = p]
    <2> HIDE DEF d
    <2>4. /\ p \in Seq(Frames)
          /\ \A s \in Subs : Leaves(p, Req(s), Close(s))
                                => Leaves(d.pending, Req(s), Close(s))
      <3> DEFINE all == d.pending
      <3>1. all \in Seq(Frames) /\ k \in DOMAIN all
        BY <2>2, <2>3
      <3> HIDE DEF all
      <3>2. /\ SubSeq(all, k, Len(all)) \in Seq(Frames)
            /\ \A s \in Subs : Leaves(SubSeq(all, k, Len(all)), Req(s), Close(s))
                                  => Leaves(all, Req(s), Close(s))
        BY <3>1, SuffixLeaves
      <3> QED
        BY <3>2 DEF all, Unwritten
    <2> HIDE DEF p
    <2>5. LET v == Waiting(cut)
          IN  /\ v \in Workers /\ v.phase = "waiting"
              /\ v.wire = <<>> /\ v.owed = <<>> /\ v.inbox = d.inbox
              /\ \A s \in Subs, later \in BOOLEAN :
                    Closing(d, s, later) => Closing(v, s, later)
      BY <2>3, <2>4, WaitingFacts
    <2> HIDE DEF cut
    <2>6. Sound(old, Waiting(cut))
      BY <2>3, <2>5 DEF Sound, PreambleAhead, Told
    <2>7. Sound(old, Done(cut))
      BY NoWorkerFacts DEF Sound
    <2>8. Failing(g, cut, FALSE)
      BY <2>2 DEF cut, p
    <2> QED
      BY <1>1, <2>1, <2>5, <2>6, <2>7, <2>8, FailingMoves
  <1>9. CASE FlushFails(g)
    <2> DEFINE d == Drained(old)
               w == Waiting([d EXCEPT !.pending = <<>>])
    <2>1. /\ old.phase = "connected" /\ Spend
          /\ worker' = [worker EXCEPT ![g] = w]
          /\ UNCHANGED <<slot, relayEvents, toActor, actor, kernel, lost>>
      BY <1>9 DEF FlushFails
    <2>2. /\ d \in Workers /\ d.inbox = <<>>
          /\ \A s \in Subs, later \in BOOLEAN :
                Closing(old, s, later) => Closing(d, s, later)
      BY <1>0, DrainedFacts
    <2>3. /\ w \in Workers /\ w.phase = "waiting"
          /\ w.wire = <<>> /\ w.owed = <<>> /\ w.inbox = d.inbox
          /\ \A s \in Subs, later \in BOOLEAN :
                Closing(d, s, later) => Closing(w, s, later)
      <3> HIDE DEF d
      <3>1. /\ <<>> \in Seq(Frames)
            /\ \A s \in Subs : ~Leaves(<<>>, Req(s), Close(s))
        BY DEF Leaves
      <3> QED
        BY <2>2, <3>1, WaitingFacts
    <2> HIDE DEF d, w
    <2>4. Sound(old, w)
      BY <2>2, <2>3 DEF Sound, PreambleAhead, Told
    <2>5. Moves(g, w)
      BY <1>0, <1>1, <2>1, <2>3 DEF Moves
    <2> QED
      BY <2>4, <2>5
  <1> QED
    BY <1>2, <1>3, <1>4, <1>5, <1>6, <1>7, <1>8, <1>9 DEF WorkerStep, SocketFault


-----------------------------------------------------------------------------
(* Each thread's steps keep the invariant.                                  *)

\* A sound move keeps the invariant.
LEMMA MovesKeep ==
    ASSUME PoolInv, NEW g \in Generations, NEW w, Moves(g, w),
           Sound(worker[g], w)
    PROVE  PoolInv'
  <1>0. /\ PoolTypeOK /\ Linked /\ Tidy /\ ShutdownsAreFinal /\ LastWordCounts
        /\ NewsTravels /\ PreamblesAhead /\ ClosesFollow
        /\ worker \in [Generations -> Workers]
        /\ relayEvents \in Seq(Events) /\ slot.gen \in Nat
        /\ g \in Nat
    BY DEF PoolInv, PoolTypeOK, Generations
  <1>1. /\ worker' = [worker EXCEPT ![g] = w]
        /\ spent' \in 0..MaxEvents /\ lost' \in BOOLEAN
        /\ slot' = slot /\ poolEvents' = poolEvents /\ control' = control
        /\ staged' = staged /\ garbled' = garbled
        /\ connected' = connected /\ running' = running
        /\ configured' = configured /\ queued' = queued
        /\ plan' = plan /\ rows' = rows
    BY DEF Moves, toActor, actor, kernel
  <1>2. /\ worker'[g] = w
        /\ \A h \in Generations : h # g => worker'[h] = worker[h]
        /\ worker' \in [Generations -> Workers]
    BY <1>0, <1>1 DEF Sound
  <1>3. /\ ~(g > slot.gen) /\ worker[g].phase # "done"
    BY <1>0 DEF Moves, PoolTypeOK
  <1>4. /\ relayEvents' \in Seq(Events)
        /\ \A h : h # g => /\ InFlight(relayEvents', h) <=> InFlight(relayEvents, h)
                           /\ \A x : LastOf(relayEvents, h, x)
                                        => LastOf(relayEvents', h, x)
    <2>1. CASE relayEvents' = relayEvents
      BY <1>0, <2>1
    <2>2. ASSUME NEW e \in Events, e.gen = g,
                 relayEvents' = Append(relayEvents, e)
          PROVE  /\ relayEvents' \in Seq(Events)
                 /\ \A h : h # g =>
                       /\ InFlight(relayEvents', h) <=> InFlight(relayEvents, h)
                       /\ \A x : LastOf(relayEvents, h, x)
                                    => LastOf(relayEvents', h, x)
      <3>1. Append(relayEvents, e) \in Seq(Events)
        BY <1>0, ChannelAppend
      <3>2. ASSUME NEW h, h # g
            PROVE  /\ InFlight(relayEvents', h) <=> InFlight(relayEvents, h)
                   /\ \A x : LastOf(relayEvents, h, x)
                                => LastOf(relayEvents', h, x)
        <4>1. /\ InFlight(Append(relayEvents, e), h) <=>
                    InFlight(relayEvents, h) \/ e.gen = h
              /\ \A x : e.gen # h /\ LastOf(relayEvents, h, x)
                           => LastOf(Append(relayEvents, e), h, x)
          BY <1>0, ChannelAppend
        <4> QED
          BY <2>2, <3>2, <4>1
      <3> QED
        BY <2>2, <3>1, <3>2
    <2> QED
      BY <2>1, <2>2 DEF Moves
  <1>5. PoolTypeOK'
    <2>1. \A h \in Generations : worker'[h].phase = "unborn" <=> h > slot.gen
      BY <1>0, <1>2, <1>3 DEF PoolTypeOK, Sound
    <2> QED
      BY <1>0, <1>1, <1>2, <1>4, <2>1 DEF PoolTypeOK
  <1>6. Linked'
    BY <1>0, <1>1 DEF Linked
  <1>7. Tidy'
    <2>1. ASSUME NEW h \in Generations, h > slot.gen
          PROVE  /\ worker'[h] = NoWorker
                 /\ ~InFlight(relayEvents', h) /\ ~InFlight(poolEvents', h)
      BY <1>0, <1>1, <1>2, <1>3, <1>4, <2>1 DEF Tidy
    <2>2. ASSUME NEW h \in Generations
          PROVE  /\ worker'[h].phase = "done" => worker'[h] = Done(worker'[h])
                 /\ worker'[h].phase # "connected" =>
                       worker'[h].wire = <<>> /\ worker'[h].owed = <<>>
      BY <1>0, <1>2 DEF Tidy, Sound
    <2> QED
      BY <1>1, <2>1, <2>2 DEF Tidy
  <1>8. ShutdownsAreFinal'
    BY <1>0, <1>1, <1>2 DEF ShutdownsAreFinal, Sound
  <1>9. LastWordCounts'
    <2> SUFFICES ASSUME NEW h \in Generations, slot.gen = h, slot.tx,
                        worker'[h].phase = "done"
                 PROVE  \/ \E e \in FinalWords : LastOf(relayEvents', h, e)
                        \/ ~InFlight(relayEvents', h) /\ slot.health = "Closed"
      BY <1>1 DEF LastWordCounts
    <2>1. CASE h # g
      BY <1>0, <1>2, <1>4, <2>1 DEF LastWordCounts
    <2>2. CASE h = g
      <3>1. w.phase = "done" /\ ~Told(worker[g], "Shutdown")
        BY <1>0, <1>2, <2>2 DEF ShutdownsAreFinal
      <3>2. PICK e \in Events : /\ e.gen = g /\ e \in FinalWords
                                /\ relayEvents' = Append(relayEvents, e)
        BY <3>1 DEF Moves
      <3>3. LastOf(relayEvents', g, e)
        BY <1>0, <3>2, ChannelAppend
      <3> QED
        BY <2>2, <3>2, <3>3
    <2> QED
      BY <2>1, <2>2
  <1>10. NewsTravels'
    <2> SUFFICES ASSUME NEW h \in Generations, control = h,
                        worker'[h].phase = "connected"
                 PROVE  \/ LastOf(relayEvents', h, Event("Connected", h, FALSE))
                        \/ ~InFlight(relayEvents', h) /\ h \in garbled
                        \/ /\ ~InFlight(relayEvents', h)
                           /\ LastOf(poolEvents, h, Event("Connected", h, FALSE))
                        \/ /\ ~InFlight(relayEvents', h)
                           /\ ~InFlight(poolEvents, h) /\ connected
      BY <1>1 DEF NewsTravels
    <2>1. CASE worker[h].phase = "connected" /\
               (h # g \/ relayEvents' = relayEvents)
      BY <1>0, <1>4, <2>1 DEF NewsTravels
    <2>2. CASE \E e \in Events : /\ e.gen = g /\ h = g
                                 /\ relayEvents' = Append(relayEvents, e)
                                 /\ e = Event("Connected", g, FALSE)
      BY <1>0, <2>2, ChannelAppend
    <2> QED
      BY <1>2, <2>1, <2>2 DEF Moves
  <1>11. PreamblesAhead'
    BY <1>0, <1>2 DEF PreamblesAhead, Sound
  <1>12. ClosesFollow'
    <2>1. ASSUME NEW s \in Subs \ plan, NEW h \in Generations, control = h
          PROVE  Closing(worker'[h], s, Holds(queued, Close(s)))
      <3>1. Closing(worker[h], s, Holds(queued, Close(s)))
        BY <1>0, <2>1 DEF ClosesFollow
      <3>2. Holds(queued, Close(s)) \in BOOLEAN
        BY DEF Holds
      <3> QED
        BY <1>2, <3>1, <3>2 DEF Sound
    <2> QED
      BY <1>0, <1>1, <2>1 DEF ClosesFollow
  <1> QED
    BY <1>5, <1>6, <1>7, <1>8, <1>9, <1>10, <1>11, <1>12 DEF PoolInv

\* A turn of the translator keeps the invariant.
LEMMA TranslateKeeps ==
    ASSUME PoolInv, Translate
    PROVE  PoolInv'
  <1> DEFINE e == Head(relayEvents)
  <1>0. /\ PoolTypeOK /\ Linked /\ Tidy /\ ShutdownsAreFinal /\ LastWordCounts
        /\ NewsTravels /\ PreamblesAhead /\ ClosesFollow
        /\ relayEvents \in Seq(Events) /\ poolEvents \in Seq(Events)
        /\ slot \in [gen : 0..MaxGen, tx : BOOLEAN,
                     health : {"Connecting", "Connected", "Reconnecting", "Closed"}]
    BY DEF PoolInv, PoolTypeOK
  <1>1. /\ relayEvents # <<>> /\ relayEvents' = Tail(relayEvents)
        /\ worker' = worker /\ control' = control
        /\ connected' = connected /\ running' = running
        /\ configured' = configured /\ queued' = queued
        /\ plan' = plan /\ rows' = rows /\ spent' = spent /\ staged' = staged
    BY DEF Translate, actor, kernel
  <1>2. /\ e \in Events /\ relayEvents' \in Seq(Events)
        /\ \A g : /\ InFlight(relayEvents, g) <=>
                        e.gen = g \/ InFlight(relayEvents', g)
                  /\ \A x : LastOf(relayEvents, g, x) =>
                        \/ LastOf(relayEvents', g, x)
                        \/ e = x /\ ~InFlight(relayEvents', g)
    BY <1>0, <1>1, ChannelTail
  <1>3. /\ e.gen = slot.gen =>
              /\ slot' = [slot EXCEPT !.health = Health(slot, e)]
              /\ \/ /\ poolEvents' = Append(poolEvents, e)
                    /\ garbled' = garbled \ {e.gen} /\ lost' = lost
                 \/ /\ poolEvents' = poolEvents
                    /\ garbled' = garbled \cup {e.gen}
                    /\ lost' = (lost \/ e.kind = "Connected")
        /\ e.gen # slot.gen => /\ slot' = slot /\ poolEvents' = poolEvents
                               /\ garbled' = garbled /\ lost' = lost
    BY DEF Translate, Offered
  <1> HIDE DEF e
  <1>4. Health(slot, e) \in {"Connecting", "Connected", "Reconnecting", "Closed"}
    <2>1. e.kind \in {"Connected", "Failed", "Closed"}
      BY <1>2 DEF Events, Event
    <2>2. slot.health \in {"Connecting", "Connected", "Reconnecting", "Closed"}
      BY <1>0
    <2> QED
      BY <2>1, <2>2 DEF Health
  <1>5. /\ slot' \in [gen : 0..MaxGen, tx : BOOLEAN,
                      health : {"Connecting", "Connected", "Reconnecting", "Closed"}]
        /\ slot'.gen = slot.gen /\ slot'.tx = slot.tx
        /\ slot'.health = IF e.gen = slot.gen THEN Health(slot, e)
                          ELSE slot.health
    BY <1>0, <1>3, <1>4
  <1>6. /\ poolEvents' \in Seq(Events) /\ Len(poolEvents') >= Len(poolEvents)
        /\ garbled' \subseteq Generations /\ lost' \in BOOLEAN
        /\ \A g : e.gen # g /\ ~InFlight(poolEvents, g)
                     => ~InFlight(poolEvents', g)
        /\ e.gen = slot.gen =>
              LastOf(poolEvents', slot.gen, e) \/ slot.gen \in garbled'
    <2>0. /\ e.gen \in Generations /\ garbled \subseteq Generations
          /\ lost \in BOOLEAN
      BY <1>0, <1>2 DEF PoolTypeOK, Events, Event
    <2>1. /\ Append(poolEvents, e) \in Seq(Events)
          /\ \A g : InFlight(Append(poolEvents, e), g) <=>
                       InFlight(poolEvents, g) \/ e.gen = g
          /\ e.gen = slot.gen => LastOf(Append(poolEvents, e), slot.gen, e)
      BY <1>0, <1>2, ChannelAppend
    <2>2. Len(Append(poolEvents, e)) = Len(poolEvents) + 1 /\ Len(poolEvents) \in Nat
      BY <1>0, <1>2
    <2>3. CASE poolEvents' = Append(poolEvents, e) /\ garbled' = garbled \ {e.gen}
               /\ lost' = lost
      BY <2>0, <2>1, <2>2, <2>3
    <2>4. CASE poolEvents' = poolEvents /\ garbled' = garbled \cup {e.gen}
               /\ lost' = (lost \/ e.kind = "Connected")
      BY <1>0, <2>0, <2>2, <2>4
    <2>5. CASE e.gen # slot.gen /\ poolEvents' = poolEvents /\ garbled' = garbled
               /\ lost' = lost
      BY <1>0, <2>0, <2>2, <2>5
    <2> QED
      BY <1>3, <2>3, <2>4, <2>5
  <1>7. PoolTypeOK'
    <2>1. staged' \in 0..Len(poolEvents')
      <3>1. staged \in 0..Len(poolEvents) /\ Len(poolEvents) \in Nat
            /\ Len(poolEvents') \in Nat
        BY <1>0, <1>6 DEF PoolTypeOK
      <3> QED
        BY <1>1, <1>6, <3>1
    <2> QED
      BY <1>0, <1>1, <1>2, <1>5, <1>6, <2>1 DEF PoolTypeOK
  <1>8. Linked' /\ ShutdownsAreFinal' /\ PreamblesAhead' /\ ClosesFollow'
    BY <1>0, <1>1, <1>5
       DEF Linked, ShutdownsAreFinal, PreamblesAhead, ClosesFollow
  <1>9. Tidy'
    <2>1. ASSUME NEW g \in Generations, g > slot.gen
          PROVE  ~InFlight(relayEvents', g) /\ ~InFlight(poolEvents', g)
      <3>1. ~InFlight(relayEvents, g) /\ ~InFlight(poolEvents, g)
        BY <1>0, <2>1 DEF Tidy
      <3>2. ~InFlight(relayEvents', g) /\ e.gen # g
        BY <1>2, <3>1
      <3> QED
        BY <1>6, <3>1, <3>2
    <2> QED
      BY <1>0, <1>1, <1>5, <2>1 DEF Tidy
  <1>10. LastWordCounts'
    <2> SUFFICES ASSUME NEW g \in Generations, slot.gen = g, slot.tx,
                        worker[g].phase = "done"
                 PROVE  \/ \E x \in FinalWords : LastOf(relayEvents', g, x)
                        \/ ~InFlight(relayEvents', g) /\ slot'.health = "Closed"
      BY <1>1, <1>5 DEF LastWordCounts
    <2>1. CASE ~InFlight(relayEvents, g) /\ slot.health = "Closed"
      BY <1>2, <1>5, <2>1
    <2>2. ASSUME NEW x \in FinalWords, LastOf(relayEvents, g, x)
          PROVE  \/ LastOf(relayEvents', g, x)
                 \/ ~InFlight(relayEvents', g) /\ slot'.health = "Closed"
      <3>1. CASE LastOf(relayEvents', g, x)
        BY <3>1
      <3>2. CASE e = x /\ ~InFlight(relayEvents', g)
        <4>1. e.gen = g
          BY <2>2, <3>2 DEF LastOf
        <4>2. Health(slot, e) = "Closed"
          <5>1. e.kind # "Connected" /\ (e.kind = "Closed" \/ e.denied)
            BY <3>2 DEF FinalWords
          <5>2. CASE e.kind = "Closed"
            BY <5>2 DEF Health
          <5>3. CASE e.kind = "Failed" /\ e.denied = TRUE
            BY <5>3 DEF Health
          <5>4. e.kind \in {"Connected", "Failed", "Closed"} /\ e.denied \in BOOLEAN
            BY <1>2 DEF Events, Event
          <5> QED
            BY <5>1, <5>2, <5>3, <5>4
        <4> QED
          BY <1>5, <3>2, <4>1, <4>2
      <3> QED
        BY <1>2, <2>2, <3>1, <3>2
    <2> QED
      BY <1>0, <2>1, <2>2 DEF LastWordCounts
  <1>11. NewsTravels'
    <2> SUFFICES ASSUME NEW g \in Generations, control = g,
                        worker[g].phase = "connected"
                 PROVE  LET news == Event("Connected", g, FALSE)
                        IN  \/ LastOf(relayEvents', g, news)
                            \/ ~InFlight(relayEvents', g) /\ g \in garbled'
                            \/ /\ ~InFlight(relayEvents', g)
                               /\ LastOf(poolEvents', g, news)
                            \/ /\ ~InFlight(relayEvents', g)
                               /\ ~InFlight(poolEvents', g) /\ connected
      BY <1>1 DEF NewsTravels
    <2> DEFINE news == Event("Connected", g, FALSE)
    <2>0. slot.gen = g
      BY <1>0 DEF Linked, Generations
    <2>1. news \in Events /\ news.gen = g
      BY EventFacts
    <2> HIDE DEF news
    <2>2. \/ LastOf(relayEvents, g, news)
          \/ ~InFlight(relayEvents, g) /\ g \in garbled
          \/ ~InFlight(relayEvents, g) /\ LastOf(poolEvents, g, news)
          \/ ~InFlight(relayEvents, g) /\ ~InFlight(poolEvents, g) /\ connected
      BY <1>0 DEF NewsTravels, news
    <2>3. CASE ~InFlight(relayEvents, g)
      <3>1. e.gen # g /\ ~InFlight(relayEvents', g)
        BY <1>2, <2>3
      <3>2. poolEvents' = poolEvents /\ garbled' = garbled
        BY <1>3, <2>0, <3>1
      <3>3. ~LastOf(relayEvents, g, news)
        BY <2>3 DEF LastOf, InFlight
      <3> QED
        BY <2>2, <3>1, <3>2, <3>3 DEF news
    <2>4. CASE LastOf(relayEvents', g, news)
      BY <2>4 DEF news
    <2>5. CASE e = news /\ ~InFlight(relayEvents', g)
      <3>1. LastOf(poolEvents', g, news) \/ g \in garbled'
        BY <1>6, <2>0, <2>1, <2>5
      <3> QED
        BY <2>5, <3>1 DEF news
    <2> QED
      BY <1>2, <2>2, <2>3, <2>4, <2>5
  <1> QED
    BY <1>7, <1>8, <1>9, <1>10, <1>11 DEF PoolInv


-----------------------------------------------------------------------------
(* What the actor hands to a worker.                                        *)

\* The frames of a set of subscriptions, in some order.
LEMMA SetToSeqFacts ==
    ASSUME NEW S, IsFiniteSet(S)
    PROVE  SetToSeq(S) \in [1..Cardinality(S) -> S] /\ Cardinality(S) \in Nat
  <1>1. Cardinality(S) \in Nat /\ ExistsBijection(1..Cardinality(S), S)
    BY FS_CardinalityType
  <1>2. \E f \in [1..Cardinality(S) -> S] : IsInjective(f)
    <2>1. PICK f : f \in Bijection(1..Cardinality(S), S)
      BY <1>1 DEF ExistsBijection
    <2>2. f \in [1..Cardinality(S) -> S] /\ IsInjective(f)
      BY <2>1 DEF Bijection, Injection, IsInjective
    <2> QED
      BY <2>2
  <1> QED
    BY <1>1, <1>2 DEF SetToSeq

\* The CLOSEs of a set of rows are frames.
LEMMA ClosesOfRows ==
    ASSUME NEW S \in SUBSET Subs
    PROVE  LET rs == SetToSeq(S)
           IN  [i \in DOMAIN rs |-> Close(rs[i])] \in Seq(Frames)
  <1> DEFINE rs == SetToSeq(S)
             n == Cardinality(S)
             cs == [i \in DOMAIN rs |-> Close(rs[i])]
  <1>1. IsFiniteSet(S)
    BY PoolAssumption, FS_Subset
  <1>2. rs \in [1..n -> S] /\ n \in Nat
    BY <1>1, SetToSeqFacts
  <1> HIDE DEF rs, n
  <1>3. \A i \in 1..n : Close(rs[i]) \in Frames
    BY <1>2 DEF Frames
  <1>4. cs \in [1..n -> Frames]
    BY <1>2, <1>3
  <1> HIDE DEF cs
  <1>5. cs \in Seq(Frames)
    BY <1>2, <1>4
  <1> QED
    BY <1>5 DEF cs, rs

\* A replay sends REQs of planned subscriptions only.
LEMMA ReplayFacts ==
    ASSUME plan \subseteq Subs, NEW again \in BOOLEAN
    PROVE  /\ Replayed(again) \in Seq(Frames)
           /\ \A s \in Subs \ plan : ~Holds(Replayed(again), Req(s))
  <1> DEFINE ps == SetToSeq(plan)
             n == Cardinality(plan)
             reqs == [i \in DOMAIN ps |-> Req(ps[i])]
  <1>1. IsFiniteSet(plan)
    BY PoolAssumption, FS_Subset
  <1>2. ps \in [1..n -> plan] /\ n \in Nat
    BY <1>1, SetToSeqFacts
  <1>3. Replayed(again) = IF again /\ running THEN reqs ELSE <<>>
    BY DEF Replayed
  <1> HIDE DEF ps, n
  <1>4. \A i \in 1..n : Req(ps[i]) \in Frames
    BY <1>2 DEF Frames
  <1>5. reqs \in [1..n -> Frames]
    BY <1>2, <1>4
  <1>6. \A i \in 1..n : reqs[i] = Req(ps[i]) /\ ps[i] \in plan
    BY <1>2
  <1> HIDE DEF reqs
  <1>7. reqs \in Seq(Frames) /\ DOMAIN reqs = 1..n
    BY <1>2, <1>5
  <1>8. ASSUME NEW s \in Subs \ plan PROVE ~Holds(reqs, Req(s))
    <2>1. \A i \in 1..n : reqs[i] # Req(s)
      BY <1>6, FrameFacts
    <2> QED
      BY <1>7, <2>1 DEF Holds
  <1>9. <<>> \in Seq(Frames) /\ \A x : ~Holds(<<>>, x)
    BY DEF Holds
  <1> QED
    BY <1>3, <1>7, <1>8, <1>9

\* Wrapping frames in commands keeps their order.
LEMMA SendsFacts ==
    ASSUME NEW frames \in Seq(Frames)
    PROVE  /\ Sends(frames) \in Seq(Commands)
           /\ \A i \in DOMAIN Sends(frames) : Sends(frames)[i].op = "Send"
           /\ \A f : Holds(Sends(frames), Send(f)) <=> Holds(frames, f)
           /\ \A f, h : Leaves(Sends(frames), Send(f), Send(h))
                           <=> Leaves(frames, f, h)
  <1> DEFINE n == Len(frames)
             cs == [i \in DOMAIN frames |-> Send(frames[i])]
  <1>1. n \in Nat /\ DOMAIN frames = 1..n /\ \A i \in 1..n : frames[i] \in Frames
    OBVIOUS
  <1> HIDE DEF n
  <1>2. \A i \in 1..n : Send(frames[i]) \in Commands /\ Send(frames[i]).op = "Send"
    BY <1>1, CommandFacts
  <1>3. cs \in [1..n -> Commands] /\ \A i \in 1..n : cs[i] = Send(frames[i])
    BY <1>1, <1>2
  <1>4. Sends(frames) = cs
    BY DEF Sends
  <1> HIDE DEF cs
  <1>5. cs \in Seq(Commands) /\ DOMAIN cs = 1..n
    BY <1>1, <1>3
  <1>6. \A i \in 1..n : \A f : cs[i] = Send(f) <=> frames[i] = f
    BY <1>3, CommandFacts
  <1>7. \A f : Holds(cs, Send(f)) <=> Holds(frames, f)
    BY <1>1, <1>5, <1>6 DEF Holds
  <1>8. \A f, h : Leaves(cs, Send(f), Send(h)) <=> Leaves(frames, f, h)
    BY <1>1, <1>5, <1>6 DEF Leaves
  <1> QED
    BY <1>2, <1>3, <1>4, <1>5, <1>7, <1>8

\* A worker with more commands in its inbox.
Given(w, cmds) == [w EXCEPT !.inbox = w.inbox \o cmds]

\* What posting commands does to a worker.
LEMMA GivenFacts ==
    ASSUME NEW w \in Workers, NEW cmds \in Seq(Commands)
    PROVE  /\ Given(w, cmds) \in Workers
           /\ Given(w, cmds).inbox = w.inbox \o cmds
           /\ Given(w, cmds).phase = w.phase
           /\ Given(w, cmds).pending = w.pending
           /\ Given(w, cmds).wire = w.wire /\ Given(w, cmds).owed = w.owed
           /\ Told(Given(w, cmds), "Shutdown") =>
                 \/ Told(w, "Shutdown")
                 \/ \E i \in DOMAIN cmds : cmds[i].op = "Shutdown"
  <1> DEFINE old == w.inbox
             in == old \o cmds
             v == [w EXCEPT !.inbox = in]
  <1>1. w = [phase |-> w.phase, inbox |-> w.inbox, pending |-> w.pending,
             preamble |-> w.preamble, owed |-> w.owed, wire |-> w.wire]
    BY WorkerFields
  <1>2. old \in Seq(Commands)
    BY WorkerFacts
  <1>3. in \in Seq(Commands)
    <2> HIDE DEF old
    <2> QED
      BY <1>2
  <1>4. (\E i \in DOMAIN in : in[i].op = "Shutdown") =>
           \/ \E i \in DOMAIN old : old[i].op = "Shutdown"
           \/ \E i \in DOMAIN cmds : cmds[i].op = "Shutdown"
    <2> HIDE DEF old
    <2> DEFINE m == Len(old)
               n == Len(cmds)
    <2>1. /\ m \in Nat /\ n \in Nat /\ DOMAIN old = 1..m /\ DOMAIN cmds = 1..n
          /\ DOMAIN in = 1..m+n
          /\ \A i \in 1..m : in[i] = old[i]
          /\ \A i \in 1..m+n : i \notin 1..m => i - m \in 1..n /\ in[i] = cmds[i - m]
      BY <1>2
    <2> HIDE DEF m, n, in
    <2> QED
      BY <2>1
  <1> HIDE DEF in
  <1>5. v = [phase |-> w.phase, inbox |-> in, pending |-> w.pending,
             preamble |-> w.preamble, owed |-> w.owed, wire |-> w.wire]
    BY <1>1
  <1>6. Given(w, cmds) = v
    BY DEF Given, in
  <1> HIDE DEF v
  <1>7. v \in Workers
    BY <1>3, <1>5, WorkerFacts, WorkerFields DEF Workers
  <1>8. /\ v.inbox = in /\ v.phase = w.phase /\ v.pending = w.pending
        /\ v.wire = w.wire /\ v.owed = w.owed
    BY <1>5
  <1>9. Told(v, "Shutdown") =>
           \/ Told(w, "Shutdown")
           \/ \E i \in DOMAIN cmds : cmds[i].op = "Shutdown"
    BY <1>4, <1>8 DEF Told, old
  <1> QED
    BY <1>6, <1>7, <1>8, <1>9 DEF in, old

\* New commands may carry the CLOSE that was still with the actor.
LEMMA GivenCloses ==
    ASSUME NEW w \in Workers, NEW cmds \in Seq(Commands), NEW s \in Subs,
           NEW before \in BOOLEAN, NEW after \in BOOLEAN,
           Closing(w, s, before),
           before => after \/ Holds(cmds, Send(Close(s))),
           Leaves(cmds, Send(Req(s)), Send(Close(s))) => after
    PROVE  Closing(Given(w, cmds), s, after)
  <1> DEFINE in == w.inbox
             v == Given(w, cmds)
  <1>1. in \in Seq(Commands)
    BY WorkerFacts
  <1>2. v.inbox = in \o cmds /\ v.pending = w.pending /\ v.wire = w.wire
    BY GivenFacts
  <1> HIDE DEF v
  <1>3. /\ Leaves(in, Send(Req(s)), Send(Close(s))) => before
        /\ Leaves(w.pending, Req(s), Close(s)) =>
              Holds(in, Send(Close(s))) \/ before
        /\ Leaves(w.wire, Req(s), Close(s)) =>
              Holds(w.pending, Close(s)) \/ Holds(in, Send(Close(s))) \/ before
    BY DEF Closing
  <1> HIDE DEF in
  <1>4. /\ Holds(in \o cmds, Send(Close(s))) <=>
              Holds(in, Send(Close(s))) \/ Holds(cmds, Send(Close(s)))
        /\ Leaves(in \o cmds, Send(Req(s)), Send(Close(s))) =>
              \/ Leaves(cmds, Send(Req(s)), Send(Close(s)))
              \/ /\ Leaves(in, Send(Req(s)), Send(Close(s)))
                 /\ ~Holds(cmds, Send(Close(s)))
    BY <1>1, ConcatHolds
  <1>5. Closing(v, s, after)
    BY <1>2, <1>3, <1>4 DEF Closing
  <1> QED
    BY <1>5 DEF v


-----------------------------------------------------------------------------
(* What the actor's steps keep.                                             *)

\* The part of PoolInv that is about threads and channels.
Structure ==
    /\ PoolTypeOK /\ Linked /\ Tidy /\ ShutdownsAreFinal /\ LastWordCounts
    /\ NewsTravels /\ PreamblesAhead

\* The actor's and the kernel's own variables, and its inbox.
HostTypes ==
    /\ staged \in 0..Len(poolEvents) /\ garbled \subseteq Generations
    /\ connected \in BOOLEAN /\ running \in BOOLEAN /\ configured \in BOOLEAN
    /\ queued \in Seq(Frames)
    /\ plan \subseteq Subs /\ rows \subseteq Subs
    /\ spent \in 0..MaxEvents /\ lost \in BOOLEAN

\* At most the inbox of a running worker differs.
Alike(w, v) ==
    /\ v \in Workers
    /\ v.phase = w.phase /\ v.pending = w.pending
    /\ v.wire = w.wire /\ v.owed = w.owed
    /\ w.phase \in {"done", "unborn"} => v = w

\* A step that only posts commands, or closes the slot, keeps the structure.
LEMMA AlikeKeeps ==
    ASSUME Structure, HostTypes',
           slot' \in [gen : 0..MaxGen, tx : BOOLEAN,
                      health : {"Connecting", "Connected", "Reconnecting", "Closed"}],
           slot'.gen = slot.gen, slot'.tx => slot.tx,
           slot'.health = slot.health \/ slot'.health = "Closed",
           worker' \in [Generations -> Workers],
           \A h \in Generations : Alike(worker[h], worker'[h]),
           relayEvents' = relayEvents, poolEvents' \in Seq(Events),
           \A h : InFlight(poolEvents', h) => InFlight(poolEvents, h),
           Linked', ShutdownsAreFinal', NewsTravels'
    PROVE  Structure'
  <1>0. /\ PoolTypeOK /\ Linked /\ Tidy /\ ShutdownsAreFinal /\ LastWordCounts
        /\ NewsTravels /\ PreamblesAhead
        /\ relayEvents \in Seq(Events) /\ slot.gen \in Nat
    BY DEF Structure, PoolTypeOK
  <1>1. PoolTypeOK'
    <2>1. control' \in 0..slot'.gen
      BY DEF Linked
    <2>2. \A h \in Generations : worker'[h].phase = "unborn" <=> h > slot'.gen
      BY <1>0 DEF PoolTypeOK, Alike
    <2> QED
      BY <1>0, <2>1, <2>2 DEF PoolTypeOK, HostTypes
  <1>2. Tidy'
    <2>1. ASSUME NEW h \in Generations, h > slot'.gen
          PROVE  /\ worker'[h] = NoWorker
                 /\ ~InFlight(relayEvents', h) /\ ~InFlight(poolEvents', h)
      <3>1. /\ worker[h] = NoWorker /\ ~InFlight(relayEvents, h)
            /\ ~InFlight(poolEvents, h)
        BY <1>0, <2>1 DEF Tidy
      <3>2. worker[h].phase = "unborn"
        BY <3>1, NoWorkerFacts
      <3>3. worker'[h] = worker[h]
        BY <3>2 DEF Alike
      <3> QED
        BY <3>1, <3>3
    <2>2. ASSUME NEW h \in Generations, worker'[h].phase = "done"
          PROVE  worker'[h] = Done(worker'[h])
      <3>1. worker'[h] = worker[h] /\ worker[h].phase = "done"
        BY <2>2 DEF Alike
      <3> QED
        BY <1>0, <3>1 DEF Tidy
    <2>3. ASSUME NEW h \in Generations, worker'[h].phase # "connected"
          PROVE  worker'[h].wire = <<>> /\ worker'[h].owed = <<>>
      <3>1. /\ worker[h].phase # "connected"
            /\ worker'[h].wire = worker[h].wire /\ worker'[h].owed = worker[h].owed
        BY <2>3 DEF Alike
      <3> QED
        BY <1>0, <3>1 DEF Tidy
    <2> QED
      BY <2>1, <2>2, <2>3 DEF Tidy
  <1>3. LastWordCounts'
    BY <1>0 DEF LastWordCounts, Alike
  <1>4. PreamblesAhead'
    BY <1>0 DEF PreamblesAhead, PreambleAhead, Alike
  <1> QED
    BY <1>1, <1>2, <1>3, <1>4 DEF Structure

\* A fresh generation.
LEMMA FreshKeeps ==
    ASSUME Structure, HostTypes', NEW g \in Generations, g = slot.gen + 1,
           slot' = [gen |-> g, tx |-> TRUE, health |-> "Connecting"],
           control' = g, NEW v \in Workers,
           v.phase = "dialing", v.wire = <<>>, v.owed = <<>>,
           ~Told(v, "Shutdown"),
           worker' = [worker EXCEPT ![g] = v],
           relayEvents' = relayEvents, poolEvents' = poolEvents,
           staged' = staged, garbled' = garbled
    PROVE  Structure'
  <1>0. /\ PoolTypeOK /\ Linked /\ Tidy /\ PreamblesAhead
        /\ relayEvents \in Seq(Events) /\ poolEvents \in Seq(Events)
        /\ worker \in [Generations -> Workers] /\ slot.gen \in Nat
        /\ g \in Nat /\ g \in 0..MaxGen
    BY PoolAssumption DEF Structure, PoolTypeOK, Generations
  <1>1. /\ worker'[g] = v /\ worker' \in [Generations -> Workers]
        /\ \A h \in Generations : h # g => worker'[h] = worker[h]
    BY <1>0
  <1>2. /\ slot'.gen = g /\ slot'.tx = TRUE /\ slot'.health = "Connecting"
        /\ slot' \in [gen : 0..MaxGen, tx : BOOLEAN,
                      health : {"Connecting", "Connected", "Reconnecting", "Closed"}]
    BY <1>0
  <1>3. PoolTypeOK'
    <2>1. control' \in 0..slot'.gen
      BY <1>0, <1>2
    <2>2. ASSUME NEW h \in Generations
          PROVE  worker'[h].phase = "unborn" <=> h > slot'.gen
      <3>1. worker[h].phase = "unborn" <=> h > slot.gen
        BY <1>0 DEF PoolTypeOK
      <3>2. h \in Nat
        BY PoolAssumption DEF Generations
      <3> QED
        BY <1>0, <1>1, <1>2, <3>1, <3>2
    <2> QED
      BY <1>0, <1>1, <1>2, <2>1, <2>2 DEF PoolTypeOK, HostTypes
  <1>4. Linked'
    BY <1>0, <1>2 DEF Linked
  <1>5. Tidy'
    <2>1. ASSUME NEW h \in Generations, h > slot'.gen
          PROVE  /\ worker'[h] = NoWorker
                 /\ ~InFlight(relayEvents', h) /\ ~InFlight(poolEvents', h)
      <3>1. h \in Nat /\ h > slot.gen /\ h # g
        BY <1>0, <1>2, <2>1 DEF Generations
      <3> QED
        BY <1>0, <1>1, <3>1 DEF Tidy
    <2>2. ASSUME NEW h \in Generations
          PROVE  /\ worker'[h].phase = "done" => worker'[h] = Done(worker'[h])
                 /\ worker'[h].phase # "connected" =>
                       worker'[h].wire = <<>> /\ worker'[h].owed = <<>>
      BY <1>0, <1>1 DEF Tidy
    <2> QED
      BY <2>1, <2>2 DEF Tidy
  <1>6. ShutdownsAreFinal'
    BY <1>1, <1>2 DEF ShutdownsAreFinal
  <1>7. LastWordCounts'
    BY <1>1, <1>2 DEF LastWordCounts
  <1>8. NewsTravels'
    BY <1>1 DEF NewsTravels
  <1>9. PreamblesAhead'
    BY <1>0, <1>1 DEF PreamblesAhead, PreambleAhead
  <1> QED
    BY <1>3, <1>4, <1>5, <1>6, <1>7, <1>8, <1>9 DEF Structure

\* What Pool::send and its siblings change.
LEMMA PostedFacts ==
    ASSUME Structure, control # 0, NEW cmds \in Seq(Commands)
    PROVE  LET P == Posted(worker, slot, control, cmds)
           IN  /\ control \in Generations /\ control = slot.gen /\ slot.tx
               /\ P \in [Generations -> Workers]
               /\ \A h \in Generations : Alike(worker[h], P[h])
               /\ \A h \in Generations : h # control => P[h] = worker[h]
               /\ \/ P[control] = Given(worker[control], cmds)
                  \/ P[control] = worker[control] /\ worker[control].phase = "done"
  <1> DEFINE P == Posted(worker, slot, control, cmds)
             w == worker[control]
             v == Given(w, cmds)
  <1>1. control \in Generations /\ control = slot.gen /\ slot.tx
    BY DEF Structure, Linked, PoolTypeOK, Generations
  <1>2. worker \in [Generations -> Workers] /\ w \in Workers
    BY <1>1 DEF Structure, PoolTypeOK
  <1>3. w.phase # "unborn"
    BY <1>1 DEF Structure, PoolTypeOK, Generations
  <1>4. \A h \in Generations : worker[h] \in Workers /\ Alike(worker[h], worker[h])
    BY <1>2 DEF Alike
  <1>5. CASE w.phase = "done"
    <2>1. P = worker
      BY <1>1, <1>5 DEF Posted
    <2> QED
      BY <1>1, <1>2, <1>4, <1>5, <2>1
  <1>6. CASE w.phase # "done"
    <2>1. P = [worker EXCEPT ![control] = v]
      BY <1>1, <1>2, <1>6 DEF Posted, Given
    <2>2. v \in Workers /\ Alike(w, v)
      <3> HIDE DEF w
      <3> QED
        BY <1>2, <1>3, <1>6, GivenFacts DEF Alike
    <2> HIDE DEF P, v
    <2>3. /\ P[control] = v /\ P \in [Generations -> Workers]
          /\ \A h \in Generations : h # control => P[h] = worker[h]
      BY <1>1, <1>2, <2>1, <2>2
    <2>4. \A h \in Generations : Alike(worker[h], P[h])
      BY <1>4, <2>2, <2>3
    <2> QED
      BY <1>1, <2>3, <2>4 DEF P, v
  <1> QED
    BY <1>5, <1>6


\* Nothing about an open socket changes while nobody reads a channel.
LEMMA NewsSame ==
    ASSUME NewsTravels, control' = control \/ control' = 0,
           \A h \in Generations : worker'[h].phase = worker[h].phase,
           relayEvents' = relayEvents, poolEvents' = poolEvents,
           staged' = staged, garbled' = garbled,
           connected' = connected \/ control' = 0
    PROVE  NewsTravels'
  <1> SUFFICES ASSUME NEW g \in Generations, control' = g,
                      worker'[g].phase = "connected"
               PROVE  \/ LastOf(relayEvents, g, Event("Connected", g, FALSE))
                      \/ ~InFlight(relayEvents, g) /\ g \in garbled
                      \/ /\ ~InFlight(relayEvents, g)
                         /\ LastOf(poolEvents, g, Event("Connected", g, FALSE))
                      \/ /\ ~InFlight(relayEvents, g) /\ ~InFlight(poolEvents, g)
                         /\ connected'
    BY DEF NewsTravels
  <1>1. control' # 0
    BY DEF Generations
  <1>2. control = g /\ connected' = connected
    BY <1>1
  <1>3. worker[g].phase = "connected"
    OBVIOUS
  <1> QED
    BY <1>2, <1>3 DEF NewsTravels

\* The transport and the handle stay as they are.
LEMMA IdleKeeps ==
    ASSUME Structure, HostTypes', slot' = slot, worker' = worker,
           control' = control, relayEvents' = relayEvents,
           poolEvents' = poolEvents, staged' = staged, garbled' = garbled,
           connected' = connected \/ control' = 0
    PROVE  Structure'
  <1>1. /\ PoolTypeOK /\ Linked /\ ShutdownsAreFinal /\ NewsTravels
        /\ worker \in [Generations -> Workers] /\ poolEvents \in Seq(Events)
        /\ slot \in [gen : 0..MaxGen, tx : BOOLEAN,
                     health : {"Connecting", "Connected", "Reconnecting", "Closed"}]
    BY DEF Structure, PoolTypeOK
  <1>2. Linked' /\ ShutdownsAreFinal'
    BY <1>1 DEF Linked, ShutdownsAreFinal
  <1>3. NewsTravels'
    <2>1. \A h \in Generations : worker'[h].phase = worker[h].phase
      OBVIOUS
    <2>2. control' = control \/ control' = 0
      OBVIOUS
    <2> QED
      BY <1>1, <2>1, <2>2, NewsSame
  <1>4. \A h \in Generations : Alike(worker[h], worker'[h])
    BY <1>1 DEF Alike
  <1> QED
    BY <1>1, <1>2, <1>3, <1>4, AlikeKeeps

\* Frames go to the worker whose handle the actor holds.
LEMMA PostKeeps ==
    ASSUME Structure, HostTypes', control # 0, NEW cmds \in Seq(Commands),
           \A i \in DOMAIN cmds : cmds[i].op # "Shutdown",
           worker' = Posted(worker, slot, control, cmds),
           slot' = slot, control' = control, relayEvents' = relayEvents,
           poolEvents' \in Seq(Events),
           \A h : InFlight(poolEvents', h) => InFlight(poolEvents, h),
           NewsTravels'
    PROVE  Structure'
  <1>1. /\ PoolTypeOK /\ Linked /\ ShutdownsAreFinal
        /\ slot \in [gen : 0..MaxGen, tx : BOOLEAN,
                     health : {"Connecting", "Connected", "Reconnecting", "Closed"}]
        /\ worker \in [Generations -> Workers]
    BY DEF Structure, PoolTypeOK
  <1>2. /\ control \in Generations /\ control = slot.gen
        /\ worker' \in [Generations -> Workers]
        /\ \A h \in Generations : Alike(worker[h], worker'[h])
        /\ \/ worker'[control] = Given(worker[control], cmds)
           \/ worker'[control] = worker[control]
    BY PostedFacts
  <1>3. Linked'
    BY <1>1 DEF Linked
  <1>4. ShutdownsAreFinal'
    <2>1. ASSUME slot.tx PROVE ~Told(worker'[control], "Shutdown")
      <3>1. ~Told(worker[control], "Shutdown") /\ worker[control] \in Workers
        BY <1>1, <1>2, <2>1 DEF ShutdownsAreFinal
      <3>2. ~Told(Given(worker[control], cmds), "Shutdown")
        BY <3>1, GivenFacts
      <3> QED
        BY <1>2, <3>1, <3>2
    <2> QED
      BY <1>2, <2>1 DEF ShutdownsAreFinal
  <1> QED
    BY <1>1, <1>2, <1>3, <1>4, AlikeKeeps

\* Closing a slot.
LEMMA ShutKeeps ==
    ASSUME Structure, HostTypes', control # 0, NEW frames \in Seq(Frames),
           Shut(frames), relayEvents' = relayEvents, poolEvents' = poolEvents,
           staged' = staged, garbled' = garbled
    PROVE  Structure'
  <1> DEFINE cmds == Append(Sends(frames), Shutdown)
  <1>1. /\ PoolTypeOK /\ NewsTravels /\ poolEvents \in Seq(Events)
        /\ slot \in [gen : 0..MaxGen, tx : BOOLEAN,
                     health : {"Connecting", "Connected", "Reconnecting", "Closed"}]
    BY DEF Structure, PoolTypeOK
  <1>2. cmds \in Seq(Commands)
    <2> DEFINE cs == Sends(frames)
    <2>1. cs \in Seq(Commands) /\ Shutdown \in Commands
      BY SendsFacts, CommandFacts
    <2>2. cmds = Append(cs, Shutdown)
      OBVIOUS
    <2> HIDE DEF cs, cmds
    <2> QED
      BY <2>1, <2>2
  <1>3. /\ slot' = Closed(slot, control) /\ control' = 0
        /\ worker' = Posted(worker, slot, control, cmds)
    BY DEF Shut
  <1> HIDE DEF cmds
  <1>4. /\ control = slot.gen
        /\ worker' \in [Generations -> Workers]
        /\ \A h \in Generations : Alike(worker[h], worker'[h])
    BY <1>2, <1>3, PostedFacts
  <1>5. /\ slot' \in [gen : 0..MaxGen, tx : BOOLEAN,
                      health : {"Connecting", "Connected", "Reconnecting", "Closed"}]
        /\ slot'.gen = slot.gen /\ slot'.tx = FALSE /\ slot'.health = "Closed"
    <2>1. slot' = [slot EXCEPT !.tx = FALSE, !.health = "Closed"]
      BY <1>3, <1>4 DEF Closed
    <2> QED
      BY <1>1, <2>1
  <1>6. Linked' /\ ShutdownsAreFinal'
    BY <1>3, <1>5 DEF Linked, ShutdownsAreFinal
  <1>7. NewsTravels'
    BY <1>1, <1>3, <1>4, NewsSame DEF Alike
  <1> QED
    BY <1>1, <1>4, <1>5, <1>6, <1>7, AlikeKeeps

\* ensure_open of a slot that is not live.
LEMMA Reopened ==
    ASSUME Structure, CanOpen, ~Live(slot)
    PROVE  LET sl == EnsureOpen(slot)
               dialing == [NoWorker EXCEPT !.phase = "dialing"]
           IN  /\ sl.gen = slot.gen + 1 /\ sl.gen \in Generations
               /\ sl = [gen |-> sl.gen, tx |-> TRUE, health |-> "Connecting"]
               /\ Spawned(worker, sl) = [worker EXCEPT ![sl.gen] = dialing]
               /\ dialing \in Workers /\ dialing.phase = "dialing"
               /\ dialing.wire = <<>> /\ dialing.owed = <<>>
               /\ ~Told(dialing, "Shutdown")
               /\ \A s \in Subs, later \in BOOLEAN : Closing(dialing, s, later)
  <1> DEFINE sl == EnsureOpen(slot)
             dialing == [NoWorker EXCEPT !.phase = "dialing"]
             g == slot.gen + 1
  <1>1. sl = [gen |-> g, tx |-> TRUE, health |-> "Connecting"]
    BY DEF EnsureOpen
  <1>2. slot.gen \in Nat /\ g \in Generations /\ g > slot.gen
    BY PoolAssumption DEF CanOpen, Structure, PoolTypeOK, Generations
  <1>3. worker \in [Generations -> Workers] /\ worker[g] = NoWorker
    BY <1>2 DEF Structure, PoolTypeOK, Tidy
  <1>4. sl.gen = g
    BY <1>1
  <1>5. Spawned(worker, sl) = [worker EXCEPT ![g].phase = "dialing"]
    BY <1>3, <1>4, NoWorkerFacts DEF Spawned
  <1>6. [worker EXCEPT ![g].phase = "dialing"] = [worker EXCEPT ![g] = dialing]
    BY <1>2, <1>3
  <1>7. dialing = [phase |-> "dialing", inbox |-> <<>>, pending |-> <<>>,
                   preamble |-> <<>>, owed |-> <<>>, wire |-> <<>>]
    BY DEF NoWorker
  <1> HIDE DEF dialing, sl, g
  <1>8. dialing \in Workers
    <2>1. <<>> \in Seq(Commands) /\ <<>> \in Seq(Frames)
      OBVIOUS
    <2> QED
      BY <1>7, <2>1 DEF Workers
  <1>9. /\ dialing.inbox = <<>> /\ dialing.pending = <<>>
        /\ dialing.wire = <<>> /\ dialing.owed = <<>> /\ dialing.phase = "dialing"
    BY <1>7
  <1>10. /\ ~Told(dialing, "Shutdown")
         /\ \A s \in Subs, later \in BOOLEAN : Closing(dialing, s, later)
    <2>1. \A x, y : ~Leaves(<<>>, x, y)
      BY DEF Leaves
    <2> QED
      BY <1>9, <2>1 DEF Told, Closing
  <1> QED
    BY <1>1, <1>2, <1>4, <1>5, <1>6, <1>8, <1>9, <1>10 DEF sl, dialing, g


\* send_all_outbound with no handle: the frames go to a fresh generation.
LEMMA RouteFresh ==
    ASSUME Structure, control = 0, NEW frames \in Seq(Frames), Route(frames)
    PROVE  LET g == slot.gen + 1
               dialing == [NoWorker EXCEPT !.phase = "dialing"]
           IN  /\ g \in Generations /\ control' = g
               /\ slot' = [gen |-> g, tx |-> TRUE, health |-> "Connecting"]
               /\ worker' = [worker EXCEPT ![g] = Given(dialing, Sends(frames))]
               /\ dialing \in Workers /\ dialing.phase = "dialing"
               /\ dialing.wire = <<>> /\ dialing.owed = <<>>
               /\ ~Told(dialing, "Shutdown")
               /\ \A s \in Subs, later \in BOOLEAN : Closing(dialing, s, later)
  <1> DEFINE g == slot.gen + 1
             dialing == [NoWorker EXCEPT !.phase = "dialing"]
             sl == EnsureOpen(slot)
             cmds == Sends(frames)
             W == [worker EXCEPT ![g] = dialing]
  <1>1. CanOpen /\ slot' = sl /\ control' = sl.gen
        /\ worker' = Posted(Spawned(worker, sl), sl, sl.gen, cmds)
    BY DEF Route
  <1>2. ~Live(slot)
    BY DEF Structure, Linked, Live
  <1>3. /\ sl.gen = g /\ g \in Generations
        /\ sl = [gen |-> sl.gen, tx |-> TRUE, health |-> "Connecting"]
        /\ Spawned(worker, sl) = [worker EXCEPT ![sl.gen] = dialing]
        /\ dialing \in Workers /\ dialing.phase = "dialing"
        /\ dialing.wire = <<>> /\ dialing.owed = <<>>
        /\ ~Told(dialing, "Shutdown")
        /\ \A s \in Subs, later \in BOOLEAN : Closing(dialing, s, later)
    BY <1>1, <1>2, Reopened
  <1> HIDE DEF sl, dialing, cmds, g
  <1>4. worker \in [Generations -> Workers]
    BY DEF Structure, PoolTypeOK
  <1>5. W[g] = dialing /\ W \in [Generations -> Workers]
    BY <1>3, <1>4
  <1>6. worker' = Posted(W, sl, g, cmds)
    BY <1>1, <1>3
  <1>7. Posted(W, sl, g, cmds) = [W EXCEPT ![g].inbox = @ \o cmds]
    <2>1. sl.gen = g /\ sl.tx /\ W[g].phase # "done"
      BY <1>3, <1>5
    <2> HIDE DEF W
    <2> QED
      BY <2>1 DEF Posted
  <1>8. [W EXCEPT ![g].inbox = @ \o cmds] = [worker EXCEPT ![g] = Given(dialing, cmds)]
    BY <1>3, <1>4, <1>5 DEF Given
  <1>9. worker' = [worker EXCEPT ![g] = Given(dialing, cmds)]
    BY <1>6, <1>7, <1>8
  <1>10. slot' = [gen |-> g, tx |-> TRUE, health |-> "Connecting"] /\ control' = g
    BY <1>1, <1>3
  <1> QED
    BY <1>3, <1>9, <1>10 DEF g, dialing, cmds

\* ... with a handle: they go to its worker.
LEMMA RouteSame ==
    ASSUME Structure, control # 0, NEW frames, Route(frames)
    PROVE  /\ slot' = slot /\ control' = control
           /\ worker' = Posted(worker, slot, control, Sends(frames))
  <1>1. /\ slot' = slot /\ control' = control
        /\ worker' = Posted(Spawned(worker, slot), slot, control, Sends(frames))
    BY DEF Route
  <1>2. control \in Generations /\ control = slot.gen
    BY DEF Structure, Linked, PoolTypeOK, Generations
  <1>3. worker[slot.gen].phase # "unborn"
    BY <1>2 DEF Structure, PoolTypeOK, Generations
  <1>4. Spawned(worker, slot) = worker
    BY <1>3 DEF Spawned
  <1> QED
    BY <1>1, <1>4

\* Routing frames, with the open it may need, keeps the structure.
LEMMA RouteKeeps ==
    ASSUME Structure, HostTypes', NEW frames \in Seq(Frames), Route(frames),
           relayEvents' = relayEvents, poolEvents' = poolEvents,
           staged' = staged, garbled' = garbled,
           connected' = connected
    PROVE  Structure'
  <1> DEFINE cmds == Sends(frames)
  <1>1. cmds \in Seq(Commands) /\ \A i \in DOMAIN cmds : cmds[i].op # "Shutdown"
    BY SendsFacts
  <1>2. CASE control = 0
    <2> DEFINE g == slot.gen + 1
               dialing == [NoWorker EXCEPT !.phase = "dialing"]
               v == Given(dialing, cmds)
    <2>1. /\ g \in Generations /\ control' = g
          /\ slot' = [gen |-> g, tx |-> TRUE, health |-> "Connecting"]
          /\ worker' = [worker EXCEPT ![g] = v]
          /\ dialing \in Workers /\ dialing.phase = "dialing"
          /\ dialing.wire = <<>> /\ dialing.owed = <<>>
          /\ ~Told(dialing, "Shutdown")
      BY <1>2, RouteFresh
    <2> HIDE DEF dialing, cmds
    <2>2. /\ v \in Workers /\ v.phase = "dialing" /\ v.wire = <<>>
          /\ v.owed = <<>> /\ ~Told(v, "Shutdown")
      BY <1>1, <2>1, GivenFacts
    <2>3. g = slot.gen + 1
      OBVIOUS
    <2> HIDE DEF v, g
    <2> QED
      BY <2>1, <2>2, <2>3, FreshKeeps
  <1>3. CASE control # 0
    <2>1. /\ slot' = slot /\ control' = control
          /\ worker' = Posted(worker, slot, control, cmds)
      BY <1>3, RouteSame
    <2> HIDE DEF cmds
    <2>2. NewsTravels /\ poolEvents \in Seq(Events)
      BY DEF Structure, PoolTypeOK
    <2>3. \A h \in Generations : worker'[h].phase = worker[h].phase
      <3>1. \A h \in Generations : Alike(worker[h], worker'[h])
        BY <1>1, <1>3, <2>1, PostedFacts
      <3> QED
        BY <3>1 DEF Alike
    <2>4. NewsTravels'
      BY <2>1, <2>2, <2>3, NewsSame
    <2> QED
      BY <1>1, <1>3, <2>1, <2>2, <2>4, PostKeeps
  <1> QED
    BY <1>2, <1>3

\* A posted CLOSE stays behind every REQ of its subscription.
LEMMA PostCloses ==
    ASSUME Structure, control # 0, NEW cmds \in Seq(Commands), NEW s \in Subs,
           NEW before \in BOOLEAN, NEW after \in BOOLEAN,
           Closing(worker[control], s, before),
           before => after \/ Holds(cmds, Send(Close(s))),
           Leaves(cmds, Send(Req(s)), Send(Close(s))) => after
    PROVE  Closing(Posted(worker, slot, control, cmds)[control], s, after)
  <1> DEFINE w == worker[control]
             v == Posted(worker, slot, control, cmds)[control]
  <1>1. /\ control \in Generations
        /\ v = Given(w, cmds) \/ (v = w /\ w.phase = "done")
    BY PostedFacts
  <1>2. w \in Workers /\ (w.phase = "done" => w = Done(w))
    BY <1>1 DEF Structure, PoolTypeOK, Tidy
  <1> HIDE DEF w, v
  <1>3. Closing(Given(w, cmds), s, after)
    BY <1>2, GivenCloses DEF w
  <1>4. ASSUME w.phase = "done" PROVE Closing(w, s, after)
    BY <1>2, <1>4, NoWorkerFacts
  <1> QED
    BY <1>1, <1>3, <1>4 DEF v

\* Routing frames keeps a CLOSE behind every REQ of a closed subscription.
LEMMA RouteCloses ==
    ASSUME Structure, NEW frames \in Seq(Frames), Route(frames), NEW s \in Subs,
           NEW before \in BOOLEAN, NEW after \in BOOLEAN,
           control # 0 => Closing(worker[control], s, before),
           before => after \/ Holds(frames, Close(s)),
           Leaves(frames, Req(s), Close(s)) => after
    PROVE  \A g \in Generations : control' = g => Closing(worker'[g], s, after)
  <1> DEFINE cmds == Sends(frames)
  <1>1. /\ cmds \in Seq(Commands)
        /\ before => after \/ Holds(cmds, Send(Close(s)))
        /\ Leaves(cmds, Send(Req(s)), Send(Close(s))) => after
    BY SendsFacts
  <1>2. CASE control = 0
    <2> DEFINE g == slot.gen + 1
               dialing == [NoWorker EXCEPT !.phase = "dialing"]
               v == Given(dialing, cmds)
    <2>1. /\ g \in Generations /\ control' = g
          /\ worker' = [worker EXCEPT ![g] = v]
          /\ dialing \in Workers /\ Closing(dialing, s, before)
      BY <1>2, RouteFresh
    <2> HIDE DEF dialing, cmds, g
    <2>2. Closing(v, s, after)
      BY <1>1, <2>1, GivenCloses
    <2> HIDE DEF v
    <2>3. worker \in [Generations -> Workers]
      BY DEF Structure, PoolTypeOK
    <2>4. worker'[g] = v
      BY <2>1, <2>3
    <2> QED
      BY <2>1, <2>2, <2>4
  <1>3. CASE control # 0
    <2>1. /\ control' = control
          /\ worker' = Posted(worker, slot, control, cmds)
      BY <1>3, RouteSame
    <2> HIDE DEF cmds
    <2>2. Closing(Posted(worker, slot, control, cmds)[control], s, after)
      BY <1>1, <1>3, PostCloses
    <2> QED
      BY <2>1, <2>2
  <1> QED
    BY <1>2, <1>3


-----------------------------------------------------------------------------
(* The actor's actions, one by one.                                         *)

\* The invariant is the structure and the order of the CLOSEs.
LEMMA InvParts == PoolInv <=> Structure /\ ClosesFollow
  BY DEF PoolInv, Structure

\* A command or fault stays within its bound.
LEMMA SpendFacts ==
    ASSUME PoolTypeOK, Spend
    PROVE  spent' \in 0..MaxEvents
  BY PoolAssumption DEF Spend, PoolTypeOK

\* The structure includes the types.
LEMMA HostFacts ==
    ASSUME Structure
    PROVE  HostTypes /\ PoolTypeOK
  BY DEF Structure, PoolTypeOK, HostTypes

\* Nothing occurs in the empty sequence.
LEMMA EmptyFacts ==
    /\ <<>> \in Seq(Frames)
    /\ \A x, y : ~Holds(<<>>, x) /\ ~Leaves(<<>>, x, y)
  BY DEF Holds, Leaves

\* A CLOSE known to come later may come later still.
LEMMA ClosingMono ==
    ASSUME NEW w, NEW s, NEW a \in BOOLEAN, NEW b \in BOOLEAN,
           Closing(w, s, a), a => b
    PROVE  Closing(w, s, b)
  BY DEF Closing

\* The plan and the queue stay, and so does the worker the actor talks to.
LEMMA QuietCloses ==
    ASSUME ClosesFollow, plan' = plan, queued' = queued,
           running' => queued = <<>>,
           \A g \in Generations :
              control' = g => control = g /\ worker'[g] = worker[g]
    PROVE  ClosesFollow'
  BY DEF ClosesFollow

\* Nothing is left with the actor.
LEMMA EmptyCloses ==
    ASSUME queued' = <<>>,
           \A s \in Subs \ plan' : \A g \in Generations :
              control' = g => Closing(worker'[g], s, FALSE)
    PROVE  ClosesFollow'
  <1>1. ASSUME NEW s \in Subs \ plan'
        PROVE  ~Leaves(queued', Req(s), Close(s))
    BY EmptyFacts
  <1>2. ASSUME NEW s \in Subs \ plan', NEW g \in Generations, control' = g
        PROVE  Closing(worker'[g], s, Holds(queued', Close(s)))
    <2>1. Closing(worker'[g], s, FALSE)
      BY <1>2
    <2> QED
      BY <2>1 DEF Closing
  <1> QED
    BY <1>1, <1>2 DEF ClosesFollow

\* Dispatching the frames of a plan change keeps the invariant.
LEMMA DispatchKeeps ==
    ASSUME PoolInv, NEW frames \in Seq(Frames), Dispatch(frames),
           running' = running, connected' = connected,
           configured' = configured, spent' \in 0..MaxEvents, lost' = lost,
           plan' \subseteq Subs, rows' \subseteq Subs,
           relayEvents' = relayEvents, poolEvents' = poolEvents,
           staged' = staged, garbled' = garbled,
           \A s \in Subs \ plan' :
              /\ ~Leaves(frames, Req(s), Close(s))
              /\ s \notin plan \/ Holds(frames, Close(s))
    PROVE  PoolInv'
  <1> DEFINE all == queued \o frames
  <1>0. Structure /\ ClosesFollow /\ HostTypes
    BY InvParts, HostFacts
  <1>1. queued \in Seq(Frames)
    BY <1>0 DEF HostTypes
  <1>2. all \in Seq(Frames)
    BY <1>1
  <1>3. ASSUME NEW s \in Subs \ plan'
        PROVE  /\ ~Leaves(all, Req(s), Close(s))
               /\ Holds(queued, Close(s)) => Holds(all, Close(s))
               /\ s \notin plan \/ Holds(all, Close(s))
    <2>1. /\ Holds(all, Close(s)) <=> Holds(queued, Close(s)) \/ Holds(frames, Close(s))
          /\ Leaves(all, Req(s), Close(s)) =>
                \/ Leaves(frames, Req(s), Close(s))
                \/ Leaves(queued, Req(s), Close(s)) /\ ~Holds(frames, Close(s))
      BY <1>1, ConcatHolds
    <2>2. s \notin plan => ~Leaves(queued, Req(s), Close(s))
      BY <1>0 DEF ClosesFollow
    <2> QED
      BY <2>1, <2>2
  <1>4. ASSUME NEW s \in Subs \ plan', NEW g \in Generations, control = g
        PROVE  Closing(worker[g], s, Holds(all, Close(s)))
    <2>1. CASE s \notin plan
      <3>1. Closing(worker[g], s, Holds(queued, Close(s)))
        BY <1>0, <1>4, <2>1 DEF ClosesFollow
      <3>2. Holds(queued, Close(s)) \in BOOLEAN /\ Holds(all, Close(s)) \in BOOLEAN
        BY DEF Holds
      <3> HIDE DEF all
      <3> QED
        BY <1>3, <3>1, <3>2, ClosingMono
    <2>2. CASE Holds(all, Close(s))
      BY <2>2 DEF Closing
    <2> QED
      BY <1>3, <2>1, <2>2
  <1>5. control # 0 => control \in Generations
    BY <1>0 DEF Structure, PoolTypeOK, Linked, Generations
  <1>6. CASE running
    <2>1. Route(all) /\ queued' = <<>>
      BY <1>6 DEF Dispatch
    <2> HIDE DEF all
    <2>2. HostTypes'
      BY <1>0, <2>1, EmptyFacts DEF HostTypes
    <2>3. Structure'
      BY <1>0, <1>2, <2>1, <2>2, RouteKeeps
    <2>4. ASSUME NEW s \in Subs \ plan'
          PROVE  \A g \in Generations : control' = g => Closing(worker'[g], s, FALSE)
      <3> DEFINE before == Holds(all, Close(s))
      <3>1. before \in BOOLEAN /\ (before => FALSE \/ Holds(all, Close(s)))
        BY DEF Holds
      <3>2. control # 0 => Closing(worker[control], s, before)
        BY <1>4, <1>5
      <3>3. Leaves(all, Req(s), Close(s)) => FALSE
        BY <1>3
      <3> HIDE DEF before
      <3> QED
        BY <1>0, <1>2, <2>1, <3>1, <3>2, <3>3, RouteCloses
    <2>5. ClosesFollow'
      BY <2>1, <2>4, EmptyCloses
    <2> QED
      BY <2>3, <2>5 DEF PoolInv, Structure
  <1>7. CASE ~running
    <2>1. queued' = all /\ slot' = slot /\ worker' = worker /\ control' = control
      BY <1>7 DEF Dispatch
    <2> HIDE DEF all
    <2>2. HostTypes'
      BY <1>0, <1>2, <2>1 DEF HostTypes
    <2>3. Structure'
      BY <1>0, <2>1, <2>2, IdleKeeps
    <2>4. ClosesFollow'
      <3>1. ASSUME NEW s \in Subs \ plan'
            PROVE  /\ ~Leaves(queued', Req(s), Close(s))
                   /\ \A g \in Generations : control' = g =>
                         Closing(worker'[g], s, Holds(queued', Close(s)))
        BY <1>3, <1>4, <2>1
      <3>2. ~running'
        BY <1>7
      <3> QED
        BY <3>1, <3>2 DEF ClosesFollow
    <2> QED
      BY <2>3, <2>4 DEF PoolInv, Structure
  <1> QED
    BY <1>6, <1>7

\* Occurrence in a sequence of one frame.
LEMMA OneFrame ==
    ASSUME NEW f \in Frames
    PROVE  /\ <<f>> \in Seq(Frames)
           /\ \A x : Holds(<<f>>, x) <=> f = x
           /\ \A x, y : Leaves(<<f>>, x, y) <=> f = x
  BY DEF Holds, Leaves

\* Opening an interest keeps the invariant.
LEMMA OpenInterestKeeps ==
    ASSUME PoolInv, NEW s \in Subs, OpenInterest(s)
    PROVE  PoolInv'
  <1> DEFINE f == Req(s)
  <1>0. PoolTypeOK /\ plan \subseteq Subs /\ rows \subseteq Subs
    BY DEF PoolInv, PoolTypeOK
  <1>1. /\ Spend /\ plan' = plan \cup {s} /\ rows' = rows \cup {s}
        /\ Dispatch(<<f>>) /\ relayEvents' = relayEvents
        /\ poolEvents' = poolEvents /\ staged' = staged
        /\ garbled' = garbled /\ connected' = connected
        /\ running' = running /\ configured' = configured /\ lost' = lost
    BY DEF OpenInterest, toActor
  <1>2. spent' \in 0..MaxEvents
    BY <1>0, <1>1, SpendFacts
  <1>3. f \in Frames /\ \A x \in Subs \ plan' : f # Req(x)
    BY <1>1, FrameFacts
  <1> HIDE DEF f
  <1>4. <<f>> \in Seq(Frames) /\ \A x \in Subs \ plan' : ~Leaves(<<f>>, Req(x), Close(x))
    BY <1>3, OneFrame
  <1>5. \A x \in Subs \ plan' :
           /\ ~Leaves(<<f>>, Req(x), Close(x))
           /\ x \notin plan \/ Holds(<<f>>, Close(x))
    BY <1>1, <1>4
  <1>6. plan' \subseteq Subs /\ rows' \subseteq Subs
    BY <1>0, <1>1
  <1> QED
    BY <1>1, <1>2, <1>4, <1>5, <1>6, DispatchKeeps

\* Closing an interest keeps the invariant.
LEMMA CloseInterestKeeps ==
    ASSUME PoolInv, NEW s \in Subs, CloseInterest(s)
    PROVE  PoolInv'
  <1> DEFINE f == Close(s)
  <1>0. PoolTypeOK /\ plan \subseteq Subs /\ rows \subseteq Subs
    BY DEF PoolInv, PoolTypeOK
  <1>1. /\ Spend /\ plan' = plan \ {s} /\ rows' = rows \ {s}
        /\ Dispatch(<<f>>) /\ relayEvents' = relayEvents
        /\ poolEvents' = poolEvents /\ staged' = staged
        /\ garbled' = garbled /\ connected' = connected
        /\ running' = running /\ configured' = configured /\ lost' = lost
    BY DEF CloseInterest, toActor
  <1>2. spent' \in 0..MaxEvents
    BY <1>0, <1>1, SpendFacts
  <1>3. f \in Frames /\ \A x \in Subs : f # Req(x) /\ (x = s => f = Close(x))
    BY FrameFacts
  <1> HIDE DEF f
  <1>4. /\ <<f>> \in Seq(Frames)
        /\ \A x \in Subs : ~Leaves(<<f>>, Req(x), Close(x))
        /\ Holds(<<f>>, Close(s))
    BY <1>3, OneFrame
  <1>5. \A x \in Subs \ plan' :
           /\ ~Leaves(<<f>>, Req(x), Close(x))
           /\ x \notin plan \/ Holds(<<f>>, Close(x))
    BY <1>1, <1>4
  <1>6. plan' \subseteq Subs /\ rows' \subseteq Subs
    BY <1>0, <1>1
  <1> QED
    BY <1>1, <1>2, <1>4, <1>5, <1>6, DispatchKeeps


\* Start keeps the invariant.
LEMMA StartKeeps ==
    ASSUME PoolInv, Start
    PROVE  PoolInv'
  <1>0. /\ Structure /\ ClosesFollow /\ HostTypes /\ PoolTypeOK
        /\ queued \in Seq(Frames) /\ spent \in 0..MaxEvents
    BY InvParts, HostFacts DEF HostTypes
  <1>1. /\ running' = TRUE /\ queued' = <<>> /\ relayEvents' = relayEvents
        /\ poolEvents' = poolEvents /\ staged' = staged
        /\ garbled' = garbled /\ connected' = connected
        /\ configured' = configured /\ plan' = plan /\ rows' = rows
        /\ lost' = lost
    BY DEF Start, toActor, kernel
  <1>2. spent' \in 0..MaxEvents
    <2>1. CASE running
      BY <1>0, <2>1, SpendFacts DEF Start
    <2>2. CASE ~running
      BY <1>0, <2>2 DEF Start
    <2> QED
      BY <2>1, <2>2
  <1>3. HostTypes'
    BY <1>0, <1>1, <1>2, EmptyFacts DEF HostTypes
  <1>4. ASSUME NEW s \in Subs \ plan, NEW g \in Generations, control = g
        PROVE  Closing(worker[g], s, Holds(queued, Close(s)))
    BY <1>0, <1>4 DEF ClosesFollow
  <1>5. CASE Route(queued)
    <2>1. Structure'
      BY <1>0, <1>1, <1>3, <1>5, RouteKeeps
    <2>2. ASSUME NEW s \in Subs \ plan'
          PROVE  \A g \in Generations : control' = g => Closing(worker'[g], s, FALSE)
      <3> DEFINE before == Holds(queued, Close(s))
      <3>0. control # 0 => control \in Generations
        BY <1>0 DEF Structure, PoolTypeOK, Linked, Generations
      <3>1. before \in BOOLEAN /\ (before => FALSE \/ Holds(queued, Close(s)))
        BY DEF Holds
      <3>2. control # 0 => Closing(worker[control], s, before)
        BY <1>1, <1>4, <3>0
      <3>3. Leaves(queued, Req(s), Close(s)) => FALSE
        BY <1>0, <1>1 DEF ClosesFollow
      <3> HIDE DEF before
      <3> QED
        BY <1>0, <1>5, <3>1, <3>2, <3>3, RouteCloses
    <2> QED
      BY <1>1, <2>1, <2>2, EmptyCloses, InvParts DEF PoolInv, Structure
  <1>6. CASE queued = <<>> /\ UNCHANGED <<slot, worker, control>>
    <2>1. Structure'
      BY <1>0, <1>1, <1>3, <1>6, IdleKeeps
    <2>2. ClosesFollow'
      BY <1>0, <1>1, <1>6, QuietCloses
    <2> QED
      BY <2>1, <2>2 DEF PoolInv, Structure
  <1> QED
    BY <1>5, <1>6 DEF Start

\* AddRelay keeps the invariant.
LEMMA AddRelayKeeps ==
    ASSUME PoolInv, AddRelay
    PROVE  PoolInv'
  <1>0. Structure /\ ClosesFollow /\ HostTypes /\ PoolTypeOK
    BY InvParts, HostFacts
  <1>1. /\ configured' = TRUE /\ Route(<<>>) /\ Spend
        /\ relayEvents' = relayEvents /\ poolEvents' = poolEvents
        /\ staged' = staged /\ garbled' = garbled
        /\ connected' = connected /\ running' = running /\ queued' = queued
        /\ plan' = plan /\ rows' = rows /\ lost' = lost
    BY DEF AddRelay, EnsureWorker, toActor, kernel
  <1>2. spent' \in 0..MaxEvents
    BY <1>0, <1>1, SpendFacts
  <1>3. HostTypes'
    BY <1>0, <1>1, <1>2 DEF HostTypes
  <1>4. Structure'
    BY <1>0, <1>1, <1>3, EmptyFacts, RouteKeeps
  <1>5. ASSUME NEW s \in Subs \ plan
        PROVE  \A g \in Generations :
                  control' = g => Closing(worker'[g], s, Holds(queued, Close(s)))
    <2> DEFINE later == Holds(queued, Close(s))
               none == <<>>
    <2>0. control # 0 => control \in Generations
      BY <1>0 DEF Structure, PoolTypeOK, Linked, Generations
    <2>1. later \in BOOLEAN /\ (later => later \/ Holds(none, Close(s)))
      BY DEF Holds
    <2>2. control # 0 => Closing(worker[control], s, later)
      BY <1>0, <2>0 DEF ClosesFollow
    <2>3. /\ none \in Seq(Frames) /\ Route(none)
          /\ Leaves(none, Req(s), Close(s)) => later
      BY <1>1, EmptyFacts
    <2> HIDE DEF later, none
    <2>4. \A g \in Generations : control' = g => Closing(worker'[g], s, later)
      BY <1>0, <2>1, <2>2, <2>3, RouteCloses
    <2> QED
      BY <2>4 DEF later
  <1>6. ClosesFollow'
    BY <1>0, <1>1, <1>5 DEF ClosesFollow
  <1> QED
    BY <1>4, <1>6 DEF PoolInv, Structure

\* The worker of the control, if any, is shut down.
LEMMA ShuttingKeeps ==
    ASSUME PoolInv, HostTypes', NEW frames \in Seq(Frames),
           \/ control = 0 /\ UNCHANGED <<slot, worker, control>>
           \/ control # 0 /\ Shut(frames),
           relayEvents' = relayEvents, poolEvents' = poolEvents,
           staged' = staged, garbled' = garbled,
           plan' = plan, queued' = queued, running' => running
    PROVE  PoolInv'
  <1>0. Structure /\ ClosesFollow
    BY InvParts
  <1>1. control' = 0
    BY DEF Shut
  <1>2. Structure'
    <2>1. CASE control = 0 /\ UNCHANGED <<slot, worker, control>>
      BY <1>0, <1>1, <2>1, IdleKeeps
    <2>2. CASE control # 0 /\ Shut(frames)
      BY <1>0, <2>2, ShutKeeps
    <2> QED
      BY <2>1, <2>2
  <1>3. ClosesFollow'
    <2>1. \A g \in Generations : control' # g
      BY <1>1 DEF Generations
    <2>2. running' => queued = <<>>
      BY <1>0 DEF ClosesFollow
    <2> QED
      BY <1>0, <2>1, <2>2, QuietCloses
  <1> QED
    BY <1>2, <1>3 DEF PoolInv, Structure

\* Stop keeps the invariant.
LEMMA StopKeeps ==
    ASSUME PoolInv, Stop
    PROVE  PoolInv'
  <1> DEFINE closes == LET rs == SetToSeq(rows)
                       IN [i \in DOMAIN rs |-> Close(rs[i])]
  <1>0. Structure /\ HostTypes /\ PoolTypeOK /\ rows \subseteq Subs
    BY InvParts, HostFacts DEF HostTypes
  <1>1. /\ Spend /\ running' = FALSE /\ connected' = FALSE /\ rows' = {}
        /\ relayEvents' = relayEvents /\ poolEvents' = poolEvents
        /\ staged' = staged /\ garbled' = garbled
        /\ configured' = configured /\ queued' = queued
        /\ plan' = plan /\ lost' = lost
        /\ \/ control = 0 /\ UNCHANGED <<slot, worker, control>>
           \/ control # 0 /\ Shut(closes)
    BY DEF Stop, toActor
  <1>2. closes \in Seq(Frames)
    BY <1>0, ClosesOfRows
  <1> HIDE DEF closes
  <1>3. spent' \in 0..MaxEvents
    BY <1>0, <1>1, SpendFacts
  <1>4. HostTypes'
    BY <1>0, <1>1, <1>3 DEF HostTypes
  <1> QED
    BY <1>1, <1>2, <1>4, ShuttingKeeps

\* RemoveRelay keeps the invariant.
LEMMA RemoveRelayKeeps ==
    ASSUME PoolInv, RemoveRelay
    PROVE  PoolInv'
  <1> DEFINE none == <<>>
  <1>0. HostTypes /\ PoolTypeOK
    BY InvParts, HostFacts
  <1>1. /\ Spend /\ configured' = FALSE /\ relayEvents' = relayEvents
        /\ poolEvents' = poolEvents /\ staged' = staged
        /\ garbled' = garbled /\ connected' = connected
        /\ running' = running /\ queued' = queued
        /\ plan' = plan /\ rows' = {} /\ lost' = lost
        /\ \/ control = 0 /\ UNCHANGED <<slot, worker, control>>
           \/ control # 0 /\ Shut(none)
    BY DEF RemoveRelay, toActor
  <1>2. spent' \in 0..MaxEvents /\ none \in Seq(Frames)
    BY <1>0, <1>1, SpendFacts
  <1>3. HostTypes'
    BY <1>0, <1>1, <1>2 DEF HostTypes
  <1> HIDE DEF none
  <1> QED
    BY <1>1, <1>2, <1>3, ShuttingKeeps

\* The idle sweep keeps the invariant.
LEMMA SweepIdleKeeps ==
    ASSUME PoolInv, SweepIdle
    PROVE  PoolInv'
  <1> DEFINE none == <<>>
  <1>0. HostTypes
    BY InvParts, HostFacts
  <1>1. /\ control # 0 /\ Shut(none) /\ connected' = FALSE
        /\ relayEvents' = relayEvents /\ poolEvents' = poolEvents
        /\ staged' = staged /\ garbled' = garbled
        /\ running' = running /\ configured' = configured /\ queued' = queued
        /\ plan' = plan /\ rows' = rows /\ spent' = spent /\ lost' = lost
    BY DEF SweepIdle, toActor, kernel
  <1>2. none \in Seq(Frames)
    OBVIOUS
  <1>3. HostTypes'
    BY <1>0, <1>1 DEF HostTypes
  <1> HIDE DEF none
  <1> QED
    BY <1>1, <1>2, <1>3, ShuttingKeeps


\* A reconnect on the host's request keeps the invariant.
LEMMA ReconnectRelaysKeeps ==
    ASSUME PoolInv, ReconnectRelays
    PROVE  PoolInv'
  <1>0. Structure /\ ClosesFollow /\ HostTypes /\ PoolTypeOK
    BY InvParts, HostFacts
  <1>1. /\ control # 0 /\ CanOpen /\ Spend
        /\ slot' = EnsureOpen(slot) /\ worker' = Spawned(worker, slot')
        /\ control' = slot'.gen
        /\ relayEvents' = relayEvents /\ poolEvents' = poolEvents
        /\ staged' = staged /\ garbled' = garbled
        /\ connected' = connected /\ running' = running
        /\ configured' = configured /\ queued' = queued
        /\ plan' = plan /\ rows' = rows /\ lost' = lost
    BY DEF ReconnectRelays, Adopted, toActor, kernel
  <1>2. spent' \in 0..MaxEvents
    BY <1>0, <1>1, SpendFacts
  <1>3. HostTypes'
    BY <1>0, <1>1, <1>2 DEF HostTypes
  <1>4. control = slot.gen /\ control \in Generations
    BY <1>0, <1>1 DEF Structure, PoolTypeOK, Linked, Generations
  <1>5. running' => queued = <<>>
    BY <1>0, <1>1 DEF ClosesFollow
  <1>6. CASE Live(slot)
    <2>1. slot' = slot
      BY <1>1, <1>6 DEF EnsureOpen
    <2>2. worker[slot.gen].phase # "unborn"
      BY <1>0, <1>4 DEF PoolTypeOK, Generations
    <2>3. worker' = worker /\ control' = control
      BY <1>1, <1>4, <2>1, <2>2 DEF Spawned
    <2>4. Structure'
      BY <1>0, <1>1, <1>3, <2>1, <2>3, IdleKeeps
    <2>5. ClosesFollow'
      BY <1>0, <1>1, <1>5, <2>3, QuietCloses
    <2> QED
      BY <2>4, <2>5 DEF PoolInv, Structure
  <1>7. CASE ~Live(slot)
    <2> DEFINE g == slot'.gen
               dialing == [NoWorker EXCEPT !.phase = "dialing"]
    <2>1. /\ g = slot.gen + 1 /\ g \in Generations
          /\ slot' = [gen |-> g, tx |-> TRUE, health |-> "Connecting"]
          /\ worker' = [worker EXCEPT ![g] = dialing]
          /\ dialing \in Workers /\ dialing.phase = "dialing"
          /\ dialing.wire = <<>> /\ dialing.owed = <<>>
          /\ ~Told(dialing, "Shutdown")
          /\ \A s \in Subs, later \in BOOLEAN : Closing(dialing, s, later)
      BY <1>0, <1>1, <1>7, Reopened
    <2>2. control' = g
      BY <1>1
    <2> HIDE DEF g, dialing
    <2>3. Structure'
      BY <1>0, <1>1, <1>3, <2>1, <2>2, FreshKeeps
    <2>4. worker'[g] = dialing
      BY <1>0, <2>1 DEF PoolTypeOK
    <2>5. ASSUME NEW s \in Subs \ plan
          PROVE  Closing(dialing, s, Holds(queued, Close(s)))
      <3>1. Holds(queued, Close(s)) \in BOOLEAN
        BY DEF Holds
      <3> QED
        BY <2>1, <3>1
    <2>6. ClosesFollow'
      BY <1>0, <1>1, <1>5, <2>2, <2>4, <2>5 DEF ClosesFollow
    <2> QED
      BY <2>3, <2>6 DEF PoolInv, Structure
  <1> QED
    BY <1>6, <1>7

\* Registering a preamble keeps the invariant.
LEMMA RegisterPreambleKeeps ==
    ASSUME PoolInv, RegisterPreamble
    PROVE  PoolInv'
  <1> DEFINE c == SetReconnectPreamble
             cmds == <<c>>
  <1>0. /\ Structure /\ ClosesFollow /\ HostTypes /\ PoolTypeOK /\ NewsTravels
        /\ poolEvents \in Seq(Events)
    BY InvParts, HostFacts DEF PoolTypeOK, Structure
  <1>1. /\ control # 0 /\ Spend
        /\ worker' = Posted(worker, slot, control, cmds)
        /\ slot' = slot /\ relayEvents' = relayEvents
        /\ poolEvents' = poolEvents /\ control' = control
        /\ staged' = staged /\ garbled' = garbled
        /\ connected' = connected /\ running' = running
        /\ configured' = configured /\ queued' = queued
        /\ plan' = plan /\ rows' = rows /\ lost' = lost
    BY DEF RegisterPreamble, toActor, actor, kernel
  <1>2. HostTypes'
    BY <1>0, <1>1, SpendFacts DEF HostTypes
  <1>3. c \in Commands /\ c.op # "Shutdown" /\ \A f : c # Send(f)
    BY CommandFacts
  <1> HIDE DEF c
  <1>4. /\ cmds \in Seq(Commands) /\ DOMAIN cmds = {1} /\ cmds[1] = c
    BY <1>3
  <1> HIDE DEF cmds
  <1>5. \A f, h : ~Holds(cmds, Send(f)) /\ ~Leaves(cmds, Send(f), Send(h))
    BY <1>3, <1>4 DEF Holds, Leaves
  <1>6. /\ control \in Generations
        /\ \A h \in Generations : Alike(worker[h], worker'[h])
    BY <1>0, <1>1, <1>4, PostedFacts
  <1>7. NewsTravels'
    BY <1>0, <1>1, <1>6, NewsSame DEF Alike
  <1>8. Structure'
    <2>1. \A i \in DOMAIN cmds : cmds[i].op # "Shutdown"
      BY <1>3, <1>4
    <2> QED
      BY <1>0, <1>1, <1>2, <1>4, <1>7, <2>1, PostKeeps
  <1>9. ASSUME NEW s \in Subs \ plan
        PROVE  Closing(worker'[control], s, Holds(queued, Close(s)))
    <2> DEFINE later == Holds(queued, Close(s))
    <2>1. later \in BOOLEAN
      BY DEF Holds
    <2>2. Closing(worker[control], s, later)
      BY <1>0, <1>6 DEF ClosesFollow
    <2> HIDE DEF later
    <2>3. Closing(Posted(worker, slot, control, cmds)[control], s, later)
      BY <1>0, <1>1, <1>4, <1>5, <2>1, <2>2, PostCloses
    <2> QED
      BY <1>1, <2>3 DEF later
  <1>10. ClosesFollow'
    BY <1>0, <1>1, <1>9 DEF ClosesFollow
  <1> QED
    BY <1>8, <1>10 DEF PoolInv, Structure

\* Moving an event from the inbox to the backlog keeps the invariant.
LEMMA StageKeeps ==
    ASSUME PoolInv, Stage
    PROVE  PoolInv'
  <1>0. PoolTypeOK /\ poolEvents \in Seq(Events) /\ staged \in 0..Len(poolEvents)
    BY DEF PoolInv, PoolTypeOK
  <1>1. /\ staged' = staged + 1 /\ staged < Len(poolEvents)
        /\ slot' = slot /\ worker' = worker /\ relayEvents' = relayEvents
        /\ poolEvents' = poolEvents /\ garbled' = garbled
        /\ control' = control /\ connected' = connected /\ running' = running
        /\ configured' = configured /\ queued' = queued
        /\ plan' = plan /\ rows' = rows /\ spent' = spent /\ lost' = lost
    BY DEF Stage, actor, kernel
  <1>2. staged' \in 0..Len(poolEvents')
    <2>1. Len(poolEvents) \in Nat
      BY <1>0
    <2> QED
      BY <1>0, <1>1, <2>1
  <1>3. PoolTypeOK'
    BY <1>0, <1>1, <1>2 DEF PoolTypeOK
  <1> QED
    BY <1>1, <1>3 DEF PoolInv, Linked, Tidy, ShutdownsAreFinal, LastWordCounts,
       NewsTravels, PreamblesAhead, ClosesFollow

\* The actor takes an event: what is left still tells the truth, or is known
\* not to.
LEMMA ReadNews ==
    ASSUME Structure, NEW i, NEW kind, Serve(i, kind),
           relayEvents' = relayEvents, control' = control,
           \A h \in Generations : worker'[h].phase = worker[h].phase,
           Current(poolEvents[i]) =>
              connected' = (poolEvents[i].kind = "Connected"),
           ~Current(poolEvents[i]) => connected' = connected
    PROVE  /\ NewsTravels' /\ poolEvents' \in Seq(Events)
           /\ \A h : InFlight(poolEvents', h) => InFlight(poolEvents, h)
  <1> DEFINE e == poolEvents[i]
  <1>0. /\ NewsTravels /\ poolEvents \in Seq(Events) /\ i \in DOMAIN poolEvents
        /\ poolEvents' = RemoveAt(poolEvents, i)
        /\ garbled' = IF Overtakes(i) THEN garbled \cup {e.gen} ELSE garbled
    BY DEF Structure, PoolTypeOK, Serve, Serveable
  <1>1. /\ poolEvents' \in Seq(Events)
        /\ \A g : /\ InFlight(poolEvents, g) <=>
                        e.gen = g \/ InFlight(poolEvents', g)
                  /\ \A x : LastOf(poolEvents, g, x) =>
                        \/ LastOf(poolEvents', g, x)
                        \/ e = x /\ ~InFlight(poolEvents', g)
                        \/ /\ e = x
                           /\ \E j \in 1..(i - 1) : poolEvents[j].gen = g
                           /\ \A j \in (i + 1)..Len(poolEvents) :
                                 poolEvents[j].gen # g
    BY <1>0, ChannelTake
  <1>2. /\ control # 0 /\ control = e.gen => connected' = (e.kind = "Connected")
        /\ ~(control # 0 /\ control = e.gen) => connected' = connected
    BY DEF Current
  <1>3. Overtakes(i) <=>
           /\ \E j \in 1..(i - 1) : poolEvents[j].gen = e.gen
           /\ \A j \in (i + 1)..Len(poolEvents) : poolEvents[j].gen # e.gen
    BY DEF Overtakes
  <1> HIDE DEF e
  <1>4. NewsTravels'
    <2> SUFFICES ASSUME NEW g \in Generations, control = g,
                        worker[g].phase = "connected"
                 PROVE  LET news == Event("Connected", g, FALSE)
                        IN  \/ LastOf(relayEvents, g, news)
                            \/ ~InFlight(relayEvents, g) /\ g \in garbled'
                            \/ /\ ~InFlight(relayEvents, g)
                               /\ LastOf(poolEvents', g, news)
                            \/ /\ ~InFlight(relayEvents, g)
                               /\ ~InFlight(poolEvents', g) /\ connected'
      BY DEF NewsTravels
    <2> DEFINE news == Event("Connected", g, FALSE)
    <2>1. news.kind = "Connected" /\ news.gen = g
      BY EventFacts
    <2>2. control # 0
      BY DEF Generations
    <2> HIDE DEF news
    <2>3. \/ LastOf(relayEvents, g, news)
          \/ ~InFlight(relayEvents, g) /\ g \in garbled
          \/ ~InFlight(relayEvents, g) /\ LastOf(poolEvents, g, news)
          \/ ~InFlight(relayEvents, g) /\ ~InFlight(poolEvents, g) /\ connected
      BY <1>0 DEF NewsTravels, news
    <2>4. CASE ~InFlight(relayEvents, g) /\ LastOf(poolEvents, g, news)
      <3>1. CASE LastOf(poolEvents', g, news)
        BY <2>4, <3>1 DEF news
      <3>2. CASE e = news /\ ~InFlight(poolEvents', g)
        <4>1. connected' = TRUE
          BY <1>2, <2>1, <2>2, <3>2
        <4> QED
          BY <2>4, <3>2, <4>1
      <3>3. CASE /\ e = news
                 /\ \E j \in 1..(i - 1) : poolEvents[j].gen = g
                 /\ \A j \in (i + 1)..Len(poolEvents) : poolEvents[j].gen # g
        <4>1. Overtakes(i) /\ e.gen = g
          BY <1>3, <2>1, <3>3
        <4>2. g \in garbled'
          BY <1>0, <4>1
        <4> QED
          BY <2>4, <4>2
      <3> QED
        BY <1>1, <2>4, <3>1, <3>2, <3>3
    <2>5. CASE ~InFlight(relayEvents, g) /\ ~InFlight(poolEvents, g) /\ connected
      <3>1. e.gen # g /\ ~InFlight(poolEvents', g)
        BY <1>1, <2>5
      <3>2. connected' = connected
        BY <1>2, <3>1
      <3> QED
        BY <2>5, <3>1, <3>2
    <2>6. CASE ~InFlight(relayEvents, g) /\ g \in garbled
      <3>1. g \in garbled'
        BY <1>0, <2>6
      <3> QED
        BY <2>6, <3>1
    <2> QED
      BY <2>3, <2>4, <2>5, <2>6 DEF news
  <1> QED
    BY <1>1, <1>4

\* What serving an event leaves of the inbox.
LEMMA ServeFacts ==
    ASSUME PoolTypeOK, NEW i, NEW kind, Serve(i, kind)
    PROVE  /\ staged' \in 0..Len(poolEvents') /\ garbled' \subseteq Generations
           /\ poolEvents[i].kind = kind
  <1>0. /\ poolEvents \in Seq(Events) /\ i \in DOMAIN poolEvents
        /\ i \in {1, staged + 1} /\ staged \in 0..Len(poolEvents)
        /\ poolEvents' = RemoveAt(poolEvents, i) /\ poolEvents[i].kind = kind
        /\ staged' = IF i <= staged THEN staged - 1 ELSE staged
        /\ garbled' \in {garbled, garbled \cup {poolEvents[i].gen}}
        /\ garbled \subseteq Generations
    BY DEF PoolTypeOK, Serve, Serveable
  <1>1. /\ Len(poolEvents') = Len(poolEvents) - 1 /\ poolEvents[i] \in Events
    BY <1>0, ChannelTake
  <1>2. poolEvents[i].gen \in Generations
    BY <1>1 DEF Events, Event
  <1>3. staged' \in 0..Len(poolEvents')
    <2>1. Len(poolEvents) \in Nat /\ i \in 1..Len(poolEvents)
      BY <1>0
    <2> QED
      BY <1>0, <1>1, <2>1
  <1> QED
    BY <1>0, <1>2, <1>3

\* The actor takes an event and talks to nobody.
LEMMA DroppedKeeps ==
    ASSUME Structure, ClosesFollow, HostTypes', NEW i, NEW kind,
           Serve(i, kind), slot' = slot, worker' = worker,
           relayEvents' = relayEvents, control' = control,
           plan' = plan, queued' = queued, running' = running,
           Current(poolEvents[i]) =>
              connected' = (poolEvents[i].kind = "Connected"),
           ~Current(poolEvents[i]) => connected' = connected
    PROVE  PoolInv'
  <1>1. /\ Linked /\ ShutdownsAreFinal
        /\ worker \in [Generations -> Workers]
        /\ slot \in [gen : 0..MaxGen, tx : BOOLEAN,
                     health : {"Connecting", "Connected", "Reconnecting", "Closed"}]
    BY DEF Structure, PoolTypeOK
  <1>2. Linked' /\ ShutdownsAreFinal'
    BY <1>1 DEF Linked, ShutdownsAreFinal
  <1>3. \A h \in Generations : Alike(worker[h], worker'[h])
    BY <1>1 DEF Alike
  <1>4. \A h \in Generations : worker'[h].phase = worker[h].phase
    OBVIOUS
  <1>5. /\ NewsTravels' /\ poolEvents' \in Seq(Events)
        /\ \A h : InFlight(poolEvents', h) => InFlight(poolEvents, h)
    BY <1>4, ReadNews
  <1>6. Structure'
    BY <1>1, <1>2, <1>3, <1>5, AlikeKeeps
  <1>7. ClosesFollow'
    <2>1. running' => queued = <<>>
      BY DEF ClosesFollow
    <2> QED
      BY <2>1, QuietCloses
  <1> QED
    BY <1>6, <1>7 DEF PoolInv, Structure

\* Handling Opened keeps the invariant.
LEMMA HandleOpenedKeeps ==
    ASSUME PoolInv, NEW i, HandleOpened(i)
    PROVE  PoolInv'
  <1> DEFINE e == poolEvents[i]
             cmds == Sends(Replayed(connected))
  <1>0. /\ Structure /\ ClosesFollow /\ HostTypes /\ PoolTypeOK
        /\ plan \subseteq Subs /\ connected \in BOOLEAN
    BY InvParts, HostFacts DEF HostTypes
  <1>1. /\ Serve(i, "Connected")
        /\ slot' = slot /\ relayEvents' = relayEvents /\ control' = control
        /\ running' = running /\ configured' = configured /\ queued' = queued
        /\ plan' = plan /\ spent' = spent /\ lost' = lost
    BY DEF HandleOpened
  <1>4. /\ e.kind = "Connected" /\ staged' \in 0..Len(poolEvents')
        /\ garbled' \subseteq Generations
    BY <1>0, <1>1, ServeFacts
  <1>2. CASE Current(e)
    <2>1. /\ control # 0 /\ connected' = TRUE
          /\ worker' = Posted(worker, slot, control, cmds)
          /\ rows' \in {rows, rows \cup plan}
      BY <1>2 DEF HandleOpened, Current
    <2>2. /\ Replayed(connected) \in Seq(Frames)
          /\ \A s \in Subs \ plan : ~Holds(Replayed(connected), Req(s))
      BY <1>0, ReplayFacts
    <2>3. /\ cmds \in Seq(Commands)
          /\ \A k \in DOMAIN cmds : cmds[k].op # "Shutdown"
          /\ \A s \in Subs \ plan : ~Holds(cmds, Send(Req(s)))
      BY <2>2, SendsFacts
    <2> HIDE DEF cmds
    <2>4. HostTypes'
      BY <1>0, <1>1, <1>4, <2>1 DEF HostTypes
    <2>5. /\ control \in Generations
          /\ \A h \in Generations : Alike(worker[h], worker'[h])
      BY <1>0, <2>1, <2>3, PostedFacts
    <2>6. \A h \in Generations : worker'[h].phase = worker[h].phase
      BY <2>5 DEF Alike
    <2>7. connected' = (e.kind = "Connected")
      BY <1>4, <2>1
    <2>8. /\ NewsTravels' /\ poolEvents' \in Seq(Events)
          /\ \A h : InFlight(poolEvents', h) => InFlight(poolEvents, h)
      BY <1>0, <1>1, <1>2, <2>6, <2>7, ReadNews
    <2>9. Structure'
      BY <1>0, <1>1, <2>1, <2>3, <2>4, <2>8, PostKeeps
    <2>10. ASSUME NEW s \in Subs \ plan
           PROVE  Closing(worker'[control], s, Holds(queued, Close(s)))
      <3> DEFINE later == Holds(queued, Close(s))
      <3>1. later \in BOOLEAN
        BY DEF Holds
      <3>2. Closing(worker[control], s, later)
        BY <1>0, <2>5 DEF ClosesFollow
      <3>3. ~Leaves(cmds, Send(Req(s)), Send(Close(s)))
        BY <2>3 DEF Leaves, Holds
      <3> HIDE DEF later
      <3>4. Closing(Posted(worker, slot, control, cmds)[control], s, later)
        BY <1>0, <2>1, <2>3, <3>1, <3>2, <3>3, PostCloses
      <3> QED
        BY <2>1, <3>4 DEF later
    <2>11. ClosesFollow'
      BY <1>0, <1>1, <2>10 DEF ClosesFollow
    <2> QED
      BY <2>9, <2>11 DEF PoolInv, Structure
  <1>3. CASE ~Current(e)
    <2>1. connected' = connected /\ worker' = worker /\ rows' = rows
      BY <1>3 DEF HandleOpened
    <2>2. HostTypes'
      BY <1>0, <1>1, <1>4, <2>1 DEF HostTypes
    <2> QED
      BY <1>0, <1>1, <1>3, <2>1, <2>2, DroppedKeeps
  <1> QED
    BY <1>2, <1>3

\* Handling Failed or Closed keeps the invariant.
LEMMA HandleEndedKeeps ==
    ASSUME PoolInv, NEW i, HandleFailed(i) \/ HandleClosed(i)
    PROVE  PoolInv'
  <1> DEFINE e == poolEvents[i]
  <1>0. /\ Structure /\ ClosesFollow /\ HostTypes /\ PoolTypeOK
        /\ rows \subseteq Subs /\ connected \in BOOLEAN /\ lost \in BOOLEAN
    BY InvParts, HostFacts DEF HostTypes
  <1> DEFINE kind == IF HandleFailed(i) THEN "Failed" ELSE "Closed"
  <1>1. /\ Serve(i, kind) /\ kind # "Connected"
        /\ slot' = slot /\ worker' = worker /\ relayEvents' = relayEvents
        /\ control' = control /\ running' = running
        /\ configured' = configured /\ queued' = queued
        /\ plan' = plan /\ spent' = spent
        /\ connected' = (connected /\ ~Current(e))
        /\ lost' \in BOOLEAN /\ rows' \subseteq Subs
    <2>1. CASE HandleFailed(i)
      BY <1>0, <2>1 DEF HandleFailed, kernel
    <2>2. CASE ~HandleFailed(i) /\ HandleClosed(i)
      BY <1>0, <2>2 DEF HandleClosed
    <2> QED
      BY <2>1, <2>2
  <1> HIDE DEF kind
  <1>5. /\ e.kind # "Connected" /\ staged' \in 0..Len(poolEvents')
        /\ garbled' \subseteq Generations
    BY <1>0, <1>1, ServeFacts
  <1>2. HostTypes'
    BY <1>0, <1>1, <1>5 DEF HostTypes
  <1>3. CASE Current(e)
    <2>1. connected' = (e.kind = "Connected")
      BY <1>1, <1>3, <1>5
    <2> QED
      BY <1>0, <1>1, <1>2, <1>3, <2>1, DroppedKeeps
  <1>4. CASE ~Current(e)
    <2>1. connected' = connected
      BY <1>0, <1>1, <1>4
    <2> QED
      BY <1>0, <1>1, <1>2, <1>4, <2>1, DroppedKeeps
  <1> QED
    BY <1>3, <1>4

-----------------------------------------------------------------------------
(* The invariant, and what it says.                                         *)

\* The initial state satisfies the invariant.
LEMMA PoolInit == Init => PoolInv
  <1> SUFFICES ASSUME Init PROVE PoolInv
    OBVIOUS
  <1>1. /\ slot = [gen |-> 0, tx |-> FALSE, health |-> "Closed"]
        /\ worker = [g \in Generations |-> NoWorker]
        /\ relayEvents = <<>> /\ poolEvents = <<>>
        /\ staged = 0 /\ garbled = {}
        /\ control = 0 /\ connected = FALSE /\ running = FALSE
        /\ configured = FALSE /\ queued = <<>>
        /\ plan = {} /\ rows = {} /\ spent = 0 /\ lost = FALSE
    BY DEF Init
  <1>2. /\ \A g \in Generations : worker[g] = NoWorker
        /\ worker \in [Generations -> Workers]
    BY <1>1, NoWorkerFacts
  <1>3. /\ slot.gen = 0 /\ slot.tx = FALSE
        /\ slot \in [gen : 0..MaxGen, tx : BOOLEAN,
                     health : {"Connecting", "Connected", "Reconnecting", "Closed"}]
    BY <1>1, PoolAssumption
  <1>4. \A g \in Generations : g \in Nat /\ g > 0 /\ g # 0
    BY DEF Generations
  <1>5. <<>> \in Seq(Events) /\ <<>> \in Seq(Frames) /\ 0 \in 0..MaxEvents
    BY PoolAssumption
  <1>6. PoolTypeOK
    <2>1. \A g \in Generations : worker[g].phase = "unborn" <=> g > slot.gen
      BY <1>2, <1>3, <1>4, NoWorkerFacts
    <2>2. control \in 0..slot.gen
      BY <1>1, <1>3
    <2>3. /\ relayEvents \in Seq(Events) /\ poolEvents \in Seq(Events)
          /\ staged \in 0..Len(poolEvents) /\ garbled \subseteq Generations
      BY <1>1, <1>5
    <2>4. /\ connected \in BOOLEAN /\ running \in BOOLEAN
          /\ configured \in BOOLEAN /\ lost \in BOOLEAN
          /\ queued \in Seq(Frames) /\ spent \in 0..MaxEvents
          /\ plan \subseteq Subs /\ rows \subseteq Subs
      BY <1>1, <1>5
    <2> QED
      BY <1>2, <1>3, <2>1, <2>2, <2>3, <2>4 DEF PoolTypeOK
  <1>7. Tidy
    <2>1. \A g : ~InFlight(<<>>, g)
      BY DEF InFlight
    <2>2. NoWorker.phase = "unborn" /\ NoWorker.wire = <<>> /\ NoWorker.owed = <<>>
      BY DEF NoWorker
    <2> QED
      BY <1>1, <1>2, <2>1, <2>2 DEF Tidy
  <1>8. /\ Linked /\ ShutdownsAreFinal /\ LastWordCounts /\ NewsTravels
    BY <1>1, <1>3, <1>4 DEF Linked, ShutdownsAreFinal, LastWordCounts, NewsTravels
  <1>9. PreamblesAhead
    BY <1>2, NoWorkerFacts DEF PreamblesAhead
  <1>10. ClosesFollow
    BY <1>1, <1>4, EmptyFacts DEF ClosesFollow
  <1> QED
    BY <1>6, <1>7, <1>8, <1>9, <1>10 DEF PoolInv

\* Every step keeps the invariant.
LEMMA PoolNext == PoolInv /\ [Next]_vars => PoolInv'
  <1> SUFFICES ASSUME PoolInv, [Next]_vars PROVE PoolInv'
    OBVIOUS
  <1>1. ASSUME NEW g \in Generations, WorkerStep(g) \/ SocketFault(g)
        PROVE  PoolInv'
    <2>1. PoolTypeOK /\ Tidy /\ PreamblesAhead
      BY DEF PoolInv
    <2>2. PICK w : Moves(g, w) /\ Sound(worker[g], w)
      BY <1>1, <2>1, WorkerMoves
    <2> QED
      BY <2>2, MovesKeep
  <1>2. CASE Translate
    BY <1>2, TranslateKeeps
  <1>3. CASE HandleRelayEvent
    BY <1>3, HandleOpenedKeeps, HandleEndedKeeps DEF HandleRelayEvent
  <1>7. CASE Stage
    BY <1>7, StageKeeps
  <1>4. CASE SweepIdle
    BY <1>4, SweepIdleKeeps
  <1>5. CASE HostCommand
    BY <1>5, OpenInterestKeeps, CloseInterestKeeps, StartKeeps, StopKeeps,
       AddRelayKeeps, RemoveRelayKeeps, ReconnectRelaysKeeps,
       RegisterPreambleKeeps DEF HostCommand
  <1>6. CASE UNCHANGED vars
    BY <1>6 DEF vars, transport, toActor, actor, kernel, PoolInv, PoolTypeOK, Linked,
       Tidy, ShutdownsAreFinal, LastWordCounts, NewsTravels, PreamblesAhead,
       ClosesFollow
  <1> QED
    BY <1>1, <1>2, <1>3, <1>4, <1>5, <1>6, <1>7 DEF Next

\* The inductive invariant holds in every reachable state.
THEOREM PoolInvariant == Spec => []PoolInv
  BY PoolInit, PoolNext, PTL DEF Spec

\* The pool, the workers and the actor keep the shapes they are declared with,
\* and the actor's handle never runs ahead of the slot (pool/inner.rs).
THEOREM PoolTypeCorrect == Spec => []PoolTypeOK
  <1>1. PoolInv => PoolTypeOK
    BY DEF PoolInv
  <1> QED
    BY <1>1, PoolInvariant, PTL

\* A slot whose worker thread has returned, and been heard, is not live: the
\* next ensure_open starts a new generation (pool/inner.rs ensure_open).
THEOREM DeadWorkersAreReplaceable == Spec => []DeadWorkerIsReplaceable
  <1>1. PoolInv => DeadWorkerIsReplaceable
    <2> SUFFICES ASSUME PoolInv, NEW g \in Generations, slot.gen = g,
                        worker[g].phase = "done", ~InFlight(relayEvents, g)
                 PROVE  ~Live(slot)
      BY DEF DeadWorkerIsReplaceable
    <2>1. \A e : ~LastOf(relayEvents, g, e)
      BY DEF LastOf, InFlight
    <2> QED
      BY <2>1 DEF PoolInv, LastWordCounts, Live
  <1> QED
    BY <1>1, PoolInvariant, PTL

\* The actor knows of every open socket of the slot once no event of it is on
\* its way, unless the newest one was shed or let past an older one
\* (relay_reconnect.rs, dispatch/relay_events.rs, actor/inbox.rs).
THEOREM ConnectionsAreKnown == Spec => []ConnectedIsKnown
  <1>1. PoolInv => ConnectedIsKnown
    <2> SUFFICES ASSUME PoolInv, NEW g \in Generations, control # 0,
                        slot.gen = g, worker[g].phase = "connected",
                        ~InFlight(relayEvents, g), ~InFlight(poolEvents, g),
                        g \notin garbled
                 PROVE  control = g /\ connected
      BY DEF ConnectedIsKnown
    <2>1. control = g
      BY DEF PoolInv, Linked
    <2>2. \A e : ~LastOf(relayEvents, g, e) /\ ~LastOf(poolEvents, g, e)
      BY DEF LastOf, InFlight
    <2> QED
      BY <2>1, <2>2 DEF PoolInv, NewsTravels
  <1> QED
    BY <1>1, PoolInvariant, PTL

\* A connection opened with a registered preamble carries it before anything
\* else (relay_worker/mod.rs, the REQ-before-EVENT guarantee).
THEOREM PreambleGoesFirst == Spec => []PreambleFirst
  <1>1. PoolInv => PreambleFirst
    BY DEF PoolInv, PreamblesAhead, PreambleAhead, PreambleFirst
  <1> QED
    BY <1>1, PoolInvariant, PTL

\* A subscription the host has closed is not left open at the relay once the
\* frames on their way have been written (socket_io.rs flush_relay_writes).
THEOREM ClosedSubscriptionsClose == Spec => []NoOrphanSubscription
  <1>1. PoolInv => NoOrphanSubscription
    <2> SUFFICES ASSUME PoolInv, NEW g \in Generations, control = g,
                        worker[g].phase = "connected", queued = <<>>,
                        worker[g].inbox = <<>>, worker[g].pending = <<>>,
                        NEW s \in LiveSubs, s \notin plan
                 PROVE  FALSE
      BY DEF NoOrphanSubscription
    <2>1. control # 0
      BY DEF Generations
    <2>2. s \in Subs /\ Leaves(worker[g].wire, Req(s), Close(s))
      BY <2>1 DEF LiveSubs, OpenAt, Leaves
    <2>3. Closing(worker[g], s, Holds(queued, Close(s)))
      BY <2>2 DEF PoolInv, ClosesFollow
    <2> QED
      BY <2>2, <2>3, EmptyFacts DEF Closing
  <1> QED
    BY <1>1, PoolInvariant, PTL
=============================================================================
