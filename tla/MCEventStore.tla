---------------------------- MODULE MCEventStore ----------------------------
(* Model-checking instances of EventStore.                                  *)
EXTENDS EventStore, TLC

Ev(author, kind, d, at, e, a, exp) ==
    [author |-> author, kind |-> kind, d |-> d, at |-> at, e |-> e, a |-> a,
     exp |-> exp]

\* Two versions of one article, its author's kind:5 for the article's address
\* and for the note, a stranger's kind:5, and the note, which expires.
ArticleEvents ==
    1 :> Ev("alice", "addressable", "x", 0, {}, {}, Never)
 @@ 2 :> Ev("alice", "addressable", "x", 0, {}, {}, Never)
 @@ 3 :> Ev("alice", "delete", NoD, 0, {5},
            {<<"addressable", "alice", "x">>}, Never)
 @@ 4 :> Ev("bob", "delete", NoD, 2, {1, 5}, {}, Never)
 @@ 5 :> Ev("alice", "plain", NoD, 1, {}, {}, 1)

\* A second relay holds the note as well.
ArticleServes == "r1" :> {1, 2, 3, 4, 5} @@ "r2" :> {5}

ArticlePins == {{}, {2}}
\* The shape is asked for at the relay that holds what it matches.
ArticleAsked == [s \in {"notes"} |-> {"r1"}]
ArticleMatches == [s \in {"notes"} |-> {1, 4}]

\* A note, its author's kind:5 and a stranger's.
StrangerEvents ==
    1 :> Ev("alice", "plain", NoD, 1, {}, {}, Never)
 @@ 2 :> Ev("alice", "delete", NoD, 1, {1}, {}, Never)
 @@ 3 :> Ev("bob", "delete", NoD, 1, {1}, {}, Never)

StrangerServes == "r1" :> {1, 2, 3}
NoMatches == <<>>
=============================================================================
