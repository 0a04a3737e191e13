---------------------------- MODULE MCCatalogScan ----------------------------
(* An instance of CatalogScan for TLC: two requests over two upstreams, one of *)
(* which answers in every way modelled, and a store with room for one of them. *)
EXTENDS CatalogScan

CONSTANTS q1, q2, k1, k2

L(rows, total, paged, offsets, limits, cap, ceiling) ==
    [rows |-> rows, total |-> total, paged |-> paged, offsets |-> offsets,
     limits |-> limits, cap |-> cap, ceiling |-> ceiling]

Plain == L(2, TRUE, FALSE, TRUE, TRUE, 2, 2)
TheLists == {Plain,
             L(3, TRUE, FALSE, TRUE, TRUE, 2, 2),    \* needs two requests
             L(3, FALSE, FALSE, FALSE, TRUE, 2, 2),  \* ignores the offset
             L(3, TRUE, FALSE, FALSE, TRUE, 2, 2),
             L(3, TRUE, FALSE, TRUE, FALSE, 2, 2),   \* ignores the limit
             L(2, FALSE, TRUE, TRUE, TRUE, 2, 2),
             L(2, TRUE, TRUE, TRUE, TRUE, 1, 1),     \* refuses wide windows
             L(2, TRUE, TRUE, TRUE, TRUE, 1, 2)}     \* caps its pages

ASSUME ListsAreOrderly == \A l \in Lists : Orderly(l)

VARIABLE focus

\* "pages": one request after the other, over every kind of upstream.
\* "sharing": two requests at once, which share fills and compete for the store,
\* while an entry expires under a waiter or a request is answered early.
MCInit == /\ Init /\ lists[k2] = Plain
          /\ \/ focus = "pages" /\ now = 0
             \/ focus = "sharing" /\ lists[k1] = L(3, TRUE, FALSE, TRUE, TRUE, 2, 2)
\* Somebody waits for a fill: the moment to let its entry expire.
Awaited == \E t \in Tasks : task[t].pc = "waiting" /\ ~fills[task[t].fill].done
MCNext == /\ Next
          /\ focus' = focus
          /\ \A q \in Requests : task'[<<q, k2>>].failed => Cancelled(q)
          /\ req'[q1].pc # "draining"
          /\ focus = "pages" => req'[q2].pc = "idle"
          /\ focus = "sharing" => now' <= 1 /\ Len(fills') < MaxFills
          /\ focus = "sharing" /\ now' # now => Awaited
MCSpec == MCInit /\ [][MCNext]_<<vars, focus>>
==============================================================================
