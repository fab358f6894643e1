---------------------------- MODULE OfflineQueue ----------------------------
(***************************************************************************)
(* OfflineQueue and its replay by the orchestrator: operations put off     *)
(* while offline, replayed by passes of process_queue.  A pass marks the   *)
(* first pending item and awaits its replay; everything between two awaits *)
(* is one step of the event loop, so passes started by several sync        *)
(* requests interleave at the replays only.  All items are enqueued with   *)
(* one priority (process_offline), so the order is that of arrival.        *)
(***************************************************************************)
EXTENDS Naturals, Sequences, FiniteSets

CONSTANTS
    Items,
    Passes,         \* passes of process_queue under way at once
    MaxRetries,     \* max_retries
    MaxItems,       \* max_items of a pass
    NoItem

ASSUME BoundsAssumption == MaxRetries \in Nat \ {0} /\ MaxItems \in Nat \ {0}
ASSUME ItemsAssumption == NoItem \notin Items

VARIABLES
    item,       \* item[i]; "new" before it is enqueued, "gone" once cleared, "lost" by a restart
    order,      \* the items in the order they were enqueued, the deleted ones included
    pass,       \* pass[w]: the item whose replay it awaits, and how many it may still take
    attempts    \* attempts[i]: replays begun (history)

vars == <<item, order, pass, attempts>>

Status == {"new", "pending", "syncing", "synced", "failed", "gone", "lost"}

TypeOK ==
    /\ item \in [Items -> [status: Status, retries: 0..MaxRetries]]
    /\ \A k \in DOMAIN order : order[k] \in Items
    /\ pass \in [Passes -> [item: Items \cup {NoItem}, left: 0..MaxItems]]
    /\ attempts \in [Items -> Nat]

Idle == [item |-> NoItem, left |-> 0]

Init ==
    /\ item = [i \in Items |-> [status |-> "new", retries |-> 0]]
    /\ order = <<>>
    /\ pass = [w \in Passes |-> Idle]
    /\ attempts = [i \in Items |-> 0]

\* dequeue that leaves the item pending until its replay is over.
DequeuedUnmarked(it) == it

Dequeued(it) == [it EXCEPT !.status = "syncing"]

\* A status that is none of QueueStatus.
MarkSyncedUnlisted(it) == [it EXCEPT !.status = "completed"]

MarkSynced(it) == [it EXCEPT !.status = "synced"]

\* mark_failed without its count.
MarkFailedUncounted(it) == [it EXCEPT !.status = "pending"]

\* A failed item is pending again until its retries are used up.
MarkFailed(it) ==
    [it EXCEPT !.retries = @ + 1,
               !.status = IF it.retries + 1 >= MaxRetries THEN "failed" ELSE "pending"]

Present(i) == item[i].status \in {"pending", "syncing", "synced", "failed"}

\* Whether or not the item is still in the queue.
MarkedAbsent(items, i, it) == [items EXCEPT ![i] = it]

\* The mark of an item that was cleared meanwhile does nothing.
Marked(items, i, it) == IF Present(i) THEN [items EXCEPT ![i] = it] ELSE items

Eligible(items, i) == items[i].status = "pending" /\ items[i].retries < MaxRetries

\* The loop of process_queue up to its next await: w takes the first eligible
\* item of items, or ends when there is none or it has taken its share.
Take(w, items, left) ==
    LET eligible == {k \in DOMAIN order : Eligible(items, order[k])}
    IN  \/ /\ left = 0 \/ eligible = {}
           /\ item' = items
           /\ pass' = [pass EXCEPT ![w] = Idle]
           /\ UNCHANGED attempts
        \/ /\ left # 0
           /\ \E k \in eligible :
                 /\ \A l \in eligible : k <= l
                 /\ item' = [items EXCEPT ![order[k]] = Dequeued(@)]
                 /\ pass' = [pass EXCEPT ![w] = [item |-> order[k], left |-> left]]
                 /\ attempts' = [attempts EXCEPT ![order[k]] = @ + 1]

------------------------------------------------------------------------------
Enqueue(i) ==
    /\ item[i].status = "new"
    /\ item' = [item EXCEPT ![i].status = "pending"]
    /\ order' = Append(order, i)
    /\ UNCHANGED <<pass, attempts>>

\* offline_queue.sync starts a pass.
Sync(w) ==
    /\ pass[w].item = NoItem
    /\ Take(w, item, MaxItems)
    /\ UNCHANGED order

\* The replay came back without an error.
Replayed(w) ==
    LET i == pass[w].item
    IN  /\ i # NoItem
        /\ Take(w, Marked(item, i, MarkSynced(item[i])), pass[w].left - 1)
        /\ UNCHANGED order

\* It came back with one, which may be that it needs a confirmation, or raised.
ReplayFails(w) ==
    LET i == pass[w].item
    IN  /\ i # NoItem
        /\ Take(w, Marked(item, i, MarkFailed(item[i])), pass[w].left - 1)
        /\ UNCHANGED order

\* The task of the pass is cancelled at its await: the tool's timeout, or the
\* client gone.  CancelledError is no Exception, and nothing is marked.
Cancelled(w) ==
    /\ pass[w].item # NoItem
    /\ pass' = [pass EXCEPT ![w] = Idle]
    /\ UNCHANGED <<item, order, attempts>>

\* offline_queue.clear, of everything or of one status.
Clear(statuses) ==
    /\ item' = [i \in Items |-> IF Present(i) /\ item[i].status \in statuses
                                THEN [item[i] EXCEPT !.status = "gone"] ELSE item[i]]
    /\ UNCHANGED <<order, pass, attempts>>

\* The queue lives in memory.
Restart ==
    /\ item' = [i \in Items |-> IF Present(i) THEN [item[i] EXCEPT !.status = "lost"] ELSE item[i]]
    /\ pass' = [w \in Passes |-> Idle]
    /\ UNCHANGED <<order, attempts>>

Clearable == {{s} : s \in {"pending", "syncing", "synced", "failed"}} \cup {Status}

Next ==
    \/ \E i \in Items : Enqueue(i)
    \/ \E w \in Passes : Sync(w) \/ Replayed(w) \/ ReplayFails(w) \/ Cancelled(w)
    \/ \E statuses \in Clearable : Clear(statuses)
    \/ Restart

Spec == Init /\ [][Next]_vars

------------------------------------------------------------------------------
(* Properties                                                              *)

\* Concurrent passes never replay one item at the same time (dequeue,
\* offline_queue.py:98-103, called between the awaits of process_queue).
OnePassPerItem ==
    \A v, w \in Passes : v # w /\ pass[v].item # NoItem => pass[v].item # pass[w].item

\* An operation is replayed at most max_retries times, over all passes, cancelled
\* ones included (offline_queue.py:100, 122-134).
ReplaysBounded == \A i \in Items : attempts[i] <= MaxRetries

\* An item that was cleared, synced or failed for good comes back to no pass, and a
\* late answer of a pass does not revive it (mark_synced, mark_failed).
SettledStaysSettled ==
    [][\A i \in Items :
         item[i].status \in {"synced", "failed", "gone", "lost"} =>
             item[i]'.status \in {item[i].status, "gone", "lost"}]_vars

=============================================================================
