------------------------- MODULE OfflineQueueProofs -------------------------
(***************************************************************************)
(* What the replay of deferred operations keeps to, for any number of      *)
(* items and concurrent passes, any max_retries and any max_items.         *)
(***************************************************************************)
EXTENDS OfflineQueue, SequenceTheorems, TLAPS

Item == [status: Status, retries: 0..MaxRetries]

\* What an item has cost: every replay begun was either counted against it or
\* is the one that is under way or settled it.
Paid(it, n) ==
    /\ it.status = "new" => it.retries = 0 /\ n = 0
    /\ it.status = "pending" => n = it.retries /\ it.retries < MaxRetries
    /\ it.status = "syncing" => n = it.retries + 1 /\ it.retries < MaxRetries
    /\ n <= MaxRetries

\* The item a pass awaits is still being replayed, unless it was cleared.
Awaited(w) ==
    pass[w].item # NoItem => item[pass[w].item].status \in {"syncing", "gone"} /\ pass[w].left # 0

Distinct(v, w) == pass[v].item # NoItem /\ pass[v].item = pass[w].item => v = w

Inv ==
    /\ item \in [Items -> Item]
    /\ order \in Seq(Items)
    /\ pass \in [Passes -> [item: Items \cup {NoItem}, left: 0..MaxItems]]
    /\ attempts \in [Items -> Nat]
    /\ \A i \in Items : Paid(item[i], attempts[i])
    /\ \A w \in Passes : Awaited(w)
    /\ \A v, w \in Passes : Distinct(v, w)

------------------------------------------------------------------------------
LEMMA MarkFailedItem ==
    ASSUME NEW it \in Item, it.retries < MaxRetries
    PROVE  /\ MarkFailed(it) \in Item
           /\ MarkFailed(it).retries = it.retries + 1
           /\ MarkFailed(it).status = IF it.retries + 1 >= MaxRetries THEN "failed" ELSE "pending"
<1> DEFINE r == it.retries + 1
           st == IF r >= MaxRetries THEN "failed" ELSE "pending"
<1>1. r \in 0..MaxRetries /\ st \in Status
  BY BoundsAssumption DEF Item, Status
<1>2. MarkFailed(it) = [it EXCEPT !.retries = r, !.status = st]
  BY DEF MarkFailed
<1> HIDE DEF r, st
<1>3. MarkFailed(it) \in Item /\ MarkFailed(it).retries = r /\ MarkFailed(it).status = st
  BY <1>1, <1>2 DEF Item
<1> QED BY <1>3 DEF r, st

LEMMA OrderedItems == ASSUME Inv, NEW k \in DOMAIN order PROVE order[k] \in Items
BY ElementOfSeq DEF Inv

\* Once the item of w's replay is marked, w takes another one or ends.
LEMMA TakeStep ==
    ASSUME Inv, UNCHANGED order,
           NEW w \in Passes, NEW items, NEW left \in 0..MaxItems,
           items \in [Items -> Item],
           \A i \in Items : Paid(items[i], attempts[i]),
           \A v \in Passes \ {w} : pass[v].item # NoItem => items[pass[v].item] = item[pass[v].item],
           Take(w, items, left)
    PROVE  Inv'
<1>1. CASE item' = items /\ pass' = [pass EXCEPT ![w] = Idle] /\ UNCHANGED attempts
  <2>1. 0 \in 0..MaxItems
    BY BoundsAssumption
  <2>2. pass' \in [Passes -> [item: Items \cup {NoItem}, left: 0..MaxItems]]
    BY <1>1, <2>1 DEF Inv, Idle
  <2>3. pass'[w] = Idle /\ \A v \in Passes \ {w} : pass'[v] = pass[v]
    BY <1>1 DEF Inv
  <2>4. \A v \in Passes : Awaited(v)'
    BY <1>1, <2>3 DEF Inv, Awaited, Idle
  <2>5. ASSUME NEW u \in Passes, NEW v \in Passes PROVE Distinct(u, v)'
    <3>1. pass'[w].item = NoItem /\ Distinct(u, v)
      BY <2>3 DEF Inv, Idle
    <3> QED BY <2>3, <3>1 DEF Distinct
  <2> QED BY <1>1, <2>2, <2>4, <2>5 DEF Inv
<1>2. ASSUME NEW k \in DOMAIN order, Eligible(items, order[k]), left # 0,
             item' = [items EXCEPT ![order[k]] = Dequeued(@)],
             pass' = [pass EXCEPT ![w] = [item |-> order[k], left |-> left]],
             attempts' = [attempts EXCEPT ![order[k]] = @ + 1]
      PROVE  Inv'
  <2> DEFINE i == order[k]
  <2>1. i \in Items
    BY OrderedItems
  <2> HIDE DEF i
  <2>2. items[i].status = "pending" /\ items[i].retries < MaxRetries
        /\ items[i] \in Item /\ attempts[i] = items[i].retries
    BY <1>2, <2>1 DEF Eligible, Paid, i
  <2>3. Dequeued(items[i]) \in Item /\ Dequeued(items[i]).status = "syncing"
        /\ Dequeued(items[i]).retries = items[i].retries
    BY <2>2 DEF Dequeued, Item, Status
  <2>4. item' \in [Items -> Item] /\ item'[i] = Dequeued(items[i])
        /\ \A j \in Items \ {i} : item'[j] = items[j]
    BY <1>2, <2>1, <2>3 DEF i
  <2>5. attempts' \in [Items -> Nat] /\ attempts'[i] = attempts[i] + 1
        /\ \A j \in Items \ {i} : attempts'[j] = attempts[j]
    BY <1>2, <2>1 DEF Inv, i
  <2>6. \A j \in Items : Paid(item'[j], attempts'[j])
    <3>1. Paid(item'[i], attempts'[i])
      BY <2>2, <2>3, <2>4, <2>5, BoundsAssumption DEF Paid, Item
    <3>2. ASSUME NEW j \in Items \ {i} PROVE Paid(item'[j], attempts'[j])
      BY <2>4, <2>5
    <3> QED BY <3>1, <3>2
  <2>7. pass' \in [Passes -> [item: Items \cup {NoItem}, left: 0..MaxItems]]
        /\ pass'[w] = [item |-> i, left |-> left]
        /\ \A v \in Passes \ {w} : pass'[v] = pass[v]
    BY <1>2, <2>1 DEF Inv, i
  \* A pending item is awaited by no other pass.
  <2>8. ASSUME NEW v \in Passes \ {w}, pass[v].item # NoItem PROVE pass[v].item # i /\ pass[v].item \in Items
    BY <2>2, <2>8 DEF Inv, Awaited
  <2>9. \A v \in Passes : Awaited(v)'
    <3>1. Awaited(w)'
      BY <1>2, <2>3, <2>4, <2>7 DEF Awaited
    <3>2. ASSUME NEW v \in Passes \ {w} PROVE Awaited(v)'
      BY <2>4, <2>7, <2>8 DEF Inv, Awaited
    <3> QED BY <3>1, <3>2
  <2>10. ASSUME NEW u \in Passes, NEW v \in Passes PROVE Distinct(u, v)'
    <3>1. pass'[w].item = i /\ Distinct(u, v)
      BY <2>7 DEF Inv
    <3>2. CASE u # w /\ v # w
      BY <2>7, <3>1, <3>2 DEF Distinct
    <3>3. CASE u = w \/ v = w
      BY <2>7, <2>8, <3>1, <3>3 DEF Distinct
    <3> QED BY <3>2, <3>3
  <2> QED BY <2>4, <2>5, <2>6, <2>7, <2>9, <2>10 DEF Inv
<1> QED BY <1>1, <1>2 DEF Take

\* The answer of w's replay, whatever it is.
LEMMA AnsweredStep ==
    ASSUME Inv, UNCHANGED order,
           NEW w \in Passes, pass[w].item # NoItem,
           NEW it \in Item,
           item[pass[w].item].status = "syncing" => Paid(it, attempts[pass[w].item]),
           Take(w, Marked(item, pass[w].item, it), pass[w].left - 1)
    PROVE  Inv'
<1> DEFINE i == pass[w].item
           items == Marked(item, i, it)
<1>1. i \in Items /\ item[i].status \in {"syncing", "gone"} /\ pass[w].left - 1 \in 0..MaxItems
  BY BoundsAssumption DEF Inv, Awaited
<1>2. items = IF item[i].status = "syncing" THEN [item EXCEPT ![i] = it] ELSE item
  BY <1>1 DEF Marked, Present
<1>3. items \in [Items -> Item] /\ \A j \in Items \ {i} : items[j] = item[j]
  BY <1>1, <1>2 DEF Inv
<1>4. \A j \in Items : Paid(items[j], attempts[j])
  BY <1>1, <1>2 DEF Inv
<1>5. \A v \in Passes \ {w} : pass[v].item # NoItem => items[pass[v].item] = item[pass[v].item]
  BY <1>1, <1>3 DEF Inv, Distinct
<1> HIDE DEF items
<1> QED BY <1>1, <1>3, <1>4, <1>5, TakeStep DEF items

\* Passes stay or end, and items only come in or go.
LEMMA QuietStep ==
    ASSUME Inv,
           item' \in [Items -> Item], order' \in Seq(Items), UNCHANGED attempts,
           pass' \in [Passes -> [item: Items \cup {NoItem}, left: 0..MaxItems]],
           \A i \in Items : Paid(item'[i], attempts[i]),
           \A w \in Passes : pass'[w] = Idle \/ pass'[w] = pass[w],
           \A w \in Passes : pass'[w].item # NoItem =>
               item'[pass'[w].item].status \in {item[pass'[w].item].status, "gone"}
    PROVE  Inv'
<1>1. \A w \in Passes : pass'[w].item # NoItem => pass'[w] = pass[w]
  BY DEF Idle
<1>2. ASSUME NEW w \in Passes PROVE Awaited(w)'
  <2>1. Awaited(w)
    BY DEF Inv
  <2> QED BY <1>1, <2>1 DEF Awaited
<1>3. ASSUME NEW v \in Passes, NEW w \in Passes PROVE Distinct(v, w)'
  <2>1. Distinct(v, w)
    BY DEF Inv
  <2> QED BY <1>1, <2>1 DEF Distinct
<1> QED BY <1>2, <1>3 DEF Inv

------------------------------------------------------------------------------
LEMMA InvInit == Init => Inv
<1> SUFFICES ASSUME Init PROVE Inv
  OBVIOUS
<1>1. 0 \in 0..MaxRetries /\ 0 \in 0..MaxItems
  BY BoundsAssumption
<1>2. <<>> \in Seq(Items)
  BY EmptySeq
<1> QED BY <1>1, <1>2, BoundsAssumption DEF Init, Inv, Item, Status, Idle, Paid, Awaited, Distinct

LEMMA InvNext == Inv /\ [Next]_vars => Inv'
<1> SUFFICES ASSUME Inv, [Next]_vars PROVE Inv'
  OBVIOUS
<1>1. ASSUME NEW i \in Items, Enqueue(i) PROVE Inv'
  <2>1. order' \in Seq(Items)
    BY <1>1, AppendProperties DEF Enqueue, Inv
  <2>2. item[i].status = "new" /\ item[i].retries = 0 /\ attempts[i] = 0
    BY <1>1 DEF Enqueue, Inv, Paid
  <2>3. item' \in [Items -> Item] /\ item'[i].status = "pending" /\ item'[i].retries = 0
        /\ \A j \in Items \ {i} : item'[j] = item[j]
    BY <1>1, <2>2 DEF Enqueue, Inv, Item, Status
  <2>4. \A j \in Items : Paid(item'[j], attempts[j])
    <3>1. Paid(item'[i], attempts[i])
      BY <2>2, <2>3, BoundsAssumption DEF Paid
    <3> QED BY <2>3, <3>1 DEF Inv
  <2>5. \A w \in Passes : pass[w].item # NoItem => pass[w].item # i /\ pass[w].item \in Items
    BY <2>2 DEF Inv, Awaited
  <2>6. pass' = pass /\ attempts' = attempts
    BY <1>1 DEF Enqueue
  <2>7. \A w \in Passes : pass'[w].item # NoItem =>
            item'[pass'[w].item].status \in {item[pass'[w].item].status, "gone"}
    BY <2>3, <2>5, <2>6
  <2>8. pass' \in [Passes -> [item: Items \cup {NoItem}, left: 0..MaxItems]]
    BY <2>6 DEF Inv
  <2> QED BY <2>1, <2>3, <2>4, <2>6, <2>7, <2>8, QuietStep
<1>2. ASSUME NEW w \in Passes, Sync(w) PROVE Inv'
  <2>1. MaxItems \in 0..MaxItems
    BY BoundsAssumption
  <2>2. item \in [Items -> Item] /\ \A i \in Items : Paid(item[i], attempts[i])
    BY DEF Inv
  <2> QED BY <1>2, <2>1, <2>2, TakeStep DEF Sync
<1>3. ASSUME NEW w \in Passes, Replayed(w) PROVE Inv'
  <2> DEFINE i == pass[w].item
             it == MarkSynced(item[i])
  <2>1. i # NoItem /\ i \in Items /\ item[i] \in Item
    BY <1>3 DEF Replayed, Inv
  <2>2. it \in Item /\ it.status = "synced"
    BY <2>1 DEF MarkSynced, Item, Status
  <2>3. Paid(it, attempts[i])
    BY <2>1, <2>2 DEF Inv, Paid
  <2> HIDE DEF it
  <2> QED BY <1>3, <2>1, <2>2, <2>3, AnsweredStep DEF Replayed, it
<1>4. ASSUME NEW w \in Passes, ReplayFails(w) PROVE Inv'
  <2> DEFINE i == pass[w].item
             it == MarkFailed(item[i])
  <2>1. i # NoItem /\ i \in Items /\ item[i] \in Item /\ item[i].status \in {"syncing", "gone"}
    BY <1>4 DEF ReplayFails, Inv, Awaited
  <2>2. CASE item[i].status = "syncing"
    <3>1. /\ item[i].retries \in 0..MaxRetries /\ item[i].retries < MaxRetries
          /\ attempts[i] = item[i].retries + 1 /\ attempts[i] <= MaxRetries
      BY <2>1, <2>2 DEF Inv, Paid, Item
    <3>2. /\ it.retries = item[i].retries + 1
          /\ it.status = IF item[i].retries + 1 >= MaxRetries THEN "failed" ELSE "pending"
          /\ it \in Item
      BY <2>1, <3>1, MarkFailedItem
    <3>3. Paid(it, attempts[i])
      BY <3>1, <3>2, BoundsAssumption DEF Paid
    <3> HIDE DEF it
    <3> QED BY <1>4, <2>1, <3>2, <3>3, AnsweredStep DEF ReplayFails, it
  <2>3. CASE item[i].status = "gone"
    <3>1. Marked(item, i, it) = item /\ Marked(item, i, item[i]) = item
      BY <2>1, <2>3 DEF Marked, Present
    <3>2. Take(w, Marked(item, i, item[i]), pass[w].left - 1) /\ UNCHANGED order
      BY <1>4, <3>1 DEF ReplayFails
    <3> QED BY <2>1, <2>3, <3>2, AnsweredStep
  <2> QED BY <2>1, <2>2, <2>3
<1>5. ASSUME NEW w \in Passes, Cancelled(w) PROVE Inv'
  <2>1. 0 \in 0..MaxItems
    BY BoundsAssumption
  <2>2. pass' \in [Passes -> [item: Items \cup {NoItem}, left: 0..MaxItems]]
        /\ \A v \in Passes : pass'[v] = Idle \/ pass'[v] = pass[v]
    BY <1>5, <2>1 DEF Cancelled, Inv, Idle
  <2>3. item' = item /\ order' = order /\ attempts' = attempts
    BY <1>5 DEF Cancelled
  <2> QED BY <2>2, <2>3, QuietStep DEF Inv
<1>6. ASSUME NEW statuses, Clear(statuses) PROVE Inv'
  <2>1. \A i \in Items : item'[i] = item[i] \/ item'[i] = [item[i] EXCEPT !.status = "gone"]
    BY <1>6 DEF Clear
  <2>2. item' \in [Items -> Item]
    BY <1>6 DEF Clear, Inv, Item, Status
  <2>3. \A i \in Items : item'[i] = item[i] \/ item'[i].status = "gone"
    BY <2>1 DEF Inv, Item
  <2>4. \A i \in Items : Paid(item'[i], attempts[i])
    BY <2>3 DEF Inv, Paid
  <2>5. order' = order /\ pass' = pass /\ attempts' = attempts
    BY <1>6 DEF Clear
  <2>6. \A w \in Passes : pass'[w].item # NoItem =>
            item'[pass'[w].item].status \in {item[pass'[w].item].status, "gone"}
    BY <2>3, <2>5 DEF Inv
  <2> QED BY <2>2, <2>4, <2>5, <2>6, QuietStep DEF Inv
<1>7. CASE Restart
  <2>1. item' \in [Items -> Item]
    BY <1>7 DEF Restart, Inv, Item, Status
  <2>2. \A i \in Items : item'[i] = item[i] \/ item'[i].status = "lost"
    BY <1>7 DEF Restart, Inv, Item
  <2>3. \A i \in Items : Paid(item'[i], attempts[i])
    BY <2>2 DEF Inv, Paid
  <2>4. 0 \in 0..MaxItems
    BY BoundsAssumption
  <2>5. pass' = [w \in Passes |-> Idle] /\ order' = order /\ attempts' = attempts
    BY <1>7 DEF Restart
  <2>6. pass' \in [Passes -> [item: Items \cup {NoItem}, left: 0..MaxItems]]
        /\ \A w \in Passes : pass'[w] = Idle /\ pass'[w].item = NoItem
    BY <2>4, <2>5 DEF Idle
  <2> QED BY <2>1, <2>3, <2>5, <2>6, QuietStep DEF Inv
<1>8. CASE UNCHANGED vars
  BY <1>8 DEF vars, Inv, Awaited, Distinct
<1> QED BY <1>1, <1>2, <1>3, <1>4, <1>5, <1>6, <1>7, <1>8 DEF Next

LEMMA Invariance == Spec => []Inv
BY InvInit, InvNext, PTL DEF Spec

------------------------------------------------------------------------------
\* Items, passes and counts are of the types the model declares.
THEOREM QueueTypeCorrect == Spec => []TypeOK
<1>1. Inv => TypeOK
  BY OrderedItems DEF Inv, TypeOK, Item
<1> QED BY <1>1, Invariance, PTL

\* Passes that interleave at the awaits of their replays never replay one item at
\* the same time, however many there are (OfflineQueue.process_queue).
THEOREM OneReplayAtATime == Spec => []OnePassPerItem
<1>1. Inv => OnePassPerItem
  BY DEF Inv, Distinct, OnePassPerItem
<1> QED BY <1>1, Invariance, PTL

\* No operation is replayed more than max_retries times, over all passes.
THEOREM BoundedReplays == Spec => []ReplaysBounded
<1>1. Inv => ReplaysBounded
  BY DEF Inv, Paid, ReplaysBounded
<1> QED BY <1>1, Invariance, PTL

\* A late answer revives no item that was synced, given up, cleared or lost.
THEOREM SettledIsFinal == Spec => SettledStaysSettled
<1> DEFINE Settled(i) == item[i].status \in {"synced", "failed", "gone", "lost"}
           Stays == \A i \in Items :
               item[i].status \in {"synced", "failed", "gone", "lost"} =>
                   item[i]'.status \in {item[i].status, "gone", "lost"}
<1>1. Inv /\ [Next]_vars => [Stays]_vars
  <2> SUFFICES ASSUME Inv, Next, NEW i \in Items, Settled(i)
               PROVE  item'[i].status \in {item[i].status, "gone", "lost"}
    OBVIOUS
  <2>1. ASSUME NEW w \in Passes, NEW items, NEW left, items[i] = item[i], Take(w, items, left),
               items \in [Items -> Item]
        PROVE  item'[i] = item[i]
    <3>1. CASE item' = items
      BY <2>1, <3>1
    <3>2. ASSUME NEW k \in DOMAIN order, Eligible(items, order[k]),
                 item' = [items EXCEPT ![order[k]] = Dequeued(@)]
          PROVE  item'[i] = item[i]
      BY <2>1, <3>2 DEF Eligible
    <3> QED BY <2>1, <3>1, <3>2 DEF Take
  <2>2. ASSUME NEW w \in Passes, pass[w].item # NoItem, NEW it \in Item,
               Take(w, Marked(item, pass[w].item, it), pass[w].left - 1)
        PROVE  item'[i] = item[i]
    <3> DEFINE items == Marked(item, pass[w].item, it)
    <3>1. pass[w].item \in Items /\ item[pass[w].item].status \in {"syncing", "gone"}
      BY <2>2 DEF Inv, Awaited
    <3>2. items \in [Items -> Item] /\ items[i] = item[i]
      BY <3>1 DEF Marked, Present, Inv
    <3> HIDE DEF items
    <3> QED BY <2>1, <2>2, <3>2 DEF items
  <2>3. ASSUME NEW w \in Passes, Replayed(w) PROVE item'[i] = item[i]
    <3>1. pass[w].item # NoItem /\ item[pass[w].item] \in Item
      BY <2>3 DEF Replayed, Inv
    <3>2. MarkSynced(item[pass[w].item]) \in Item
      BY <3>1 DEF MarkSynced, Item, Status
    <3> QED BY <2>2, <2>3, <3>1, <3>2 DEF Replayed
  <2>4. ASSUME NEW w \in Passes, ReplayFails(w) PROVE item'[i] = item[i]
    <3> DEFINE j == pass[w].item
    <3>1. j # NoItem /\ j \in Items /\ item[j] \in Item /\ item[j].status \in {"syncing", "gone"}
      BY <2>4 DEF ReplayFails, Inv, Awaited
    <3>2. CASE item[j].status = "syncing"
      <4>1. item[j].retries \in 0..MaxRetries /\ item[j].retries < MaxRetries
        BY <3>1, <3>2 DEF Inv, Paid, Item
      <4>2. MarkFailed(item[j]) \in Item
        BY <3>1, <4>1, MarkFailedItem
      <4> QED BY <2>2, <2>4, <3>1, <4>2 DEF ReplayFails
    <3>3. CASE item[j].status = "gone"
      <4>1. Take(w, item, pass[w].left - 1)
        BY <2>4, <3>3 DEF ReplayFails, Marked, Present
      <4> QED BY <2>1, <4>1 DEF Inv
    <3> QED BY <3>1, <3>2, <3>3
  <2>5. ASSUME NEW w \in Passes, Sync(w) PROVE item'[i] = item[i]
    BY <2>1, <2>5 DEF Sync, Inv
  <2>6. ASSUME NEW j \in Items, Enqueue(j) PROVE item'[i] = item[i]
    BY <2>6 DEF Enqueue, Inv
  <2>7. ASSUME NEW statuses, Clear(statuses) PROVE item'[i].status \in {item[i].status, "gone"}
    BY <2>7 DEF Clear, Inv, Item
  <2>8. CASE Restart
    BY <2>8 DEF Restart, Inv, Item
  <2>9. ASSUME NEW w \in Passes, Cancelled(w) PROVE item'[i] = item[i]
    BY <2>9 DEF Cancelled
  <2> QED BY <2>3, <2>4, <2>5, <2>6, <2>7, <2>8, <2>9 DEF Next
<1> QED BY <1>1, Invariance, PTL DEF Spec, SettledStaysSettled

------------------------------------------------------------------------------
(* What the replays of an item have come to                                *)

\* An item was given up only after max_retries replays that all failed, and
\* every replay but the last one was counted as a failure.
Accounted(it, n) ==
    /\ it.status = "failed" => n = MaxRetries /\ it.retries = MaxRetries
    /\ it.status = "synced" => n = it.retries + 1
    /\ it.retries <= n /\ n <= it.retries + 1

EveryReplayCounts == \A i \in Items : Accounted(item[i], attempts[i])

\* An item in the middle of a replay that no pass awaits.
Stranded(i) == item[i].status = "syncing" /\ \A w \in Passes : pass[w].item # i

\* A replay is left without its pass only when that pass is cancelled at its
\* await; and then no pass takes the item up again, it can only be cleared or
\* lost.
CancelledReplayStrands ==
    [][\A i \in Items :
         /\ Stranded(i) => Stranded(i)' \/ item[i]'.status \in {"gone", "lost"}
         /\ ~Stranded(i) /\ Stranded(i)' =>
                \E w \in Passes : pass[w].item = i /\ Cancelled(w)]_vars

Held(i) == \E w \in Passes : pass[w].item = i

\* The loop of process_queue leaves item i alone or begins its replay.
LEMMA TakeOutcome ==
    ASSUME Inv, NEW w \in Passes, NEW items \in [Items -> Item], NEW left, NEW i \in Items,
           Take(w, items, left)
    PROVE  /\ \A v \in Passes \ {w} : pass'[v] = pass[v]
           /\ \/ item'[i] = items[i] /\ attempts'[i] = attempts[i] /\ pass'[w].item # i
              \/ /\ items[i].status = "pending" /\ item'[i].status = "syncing"
                 /\ pass'[w].item = i
<1>1. CASE item' = items /\ pass' = [pass EXCEPT ![w] = Idle] /\ UNCHANGED attempts
  <2>1. pass'[w] = Idle /\ \A v \in Passes \ {w} : pass'[v] = pass[v]
    BY <1>1 DEF Inv
  <2> QED BY <1>1, <2>1, ItemsAssumption DEF Idle
<1>2. ASSUME NEW k \in DOMAIN order, Eligible(items, order[k]),
             item' = [items EXCEPT ![order[k]] = Dequeued(@)],
             pass' = [pass EXCEPT ![w] = [item |-> order[k], left |-> left]],
             attempts' = [attempts EXCEPT ![order[k]] = @ + 1]
      PROVE  /\ \A v \in Passes \ {w} : pass'[v] = pass[v]
             /\ \/ item'[i] = items[i] /\ attempts'[i] = attempts[i] /\ pass'[w].item # i
                \/ /\ items[i].status = "pending" /\ item'[i].status = "syncing"
                   /\ pass'[w].item = i
  <2>1. pass'[w].item = order[k] /\ \A v \in Passes \ {w} : pass'[v] = pass[v]
    BY <1>2 DEF Inv
  <2>2. CASE order[k] = i
    <3>1. items[i].status = "pending" /\ item'[i] = Dequeued(items[i]) /\ items[i] \in Item
      BY <1>2, <2>2 DEF Eligible
    <3>2. Dequeued(items[i]).status = "syncing"
      BY <3>1 DEF Dequeued, Item
    <3> QED BY <2>1, <2>2, <3>1, <3>2
  <2>3. CASE order[k] # i
    BY <1>2, <2>1, <2>3 DEF Inv
  <2> QED BY <2>2, <2>3
<1> QED BY <1>1, <1>2 DEF Take

\* Item i, its count and its pass are left alone, or the pass is cancelled.
LeftAlone(i) ==
    /\ item'[i] = item[i] /\ attempts'[i] = attempts[i]
    /\ Held(i)' => Held(i)
    /\ item[i].status = "syncing" /\ Held(i) =>
           Held(i)' \/ \E w \in Passes : pass[w].item = i /\ Cancelled(w)

Withdrawn(i) ==
    /\ item'[i].status \in {"gone", "lost"}
    /\ item'[i].retries = item[i].retries /\ attempts'[i] = attempts[i]

Begun(i) ==
    item'[i].status = "syncing" /\ Held(i)' /\ (item[i].status = "pending" \/ Held(i))

Answered(i) ==
    /\ Held(i) /\ item[i].status = "syncing"
    /\ item'[i] \in {MarkSynced(item[i]), MarkFailed(item[i])}
    /\ attempts'[i] = attempts[i]

ItemCourse(i) ==
    \/ LeftAlone(i)
    \/ Withdrawn(i)
    \/ item[i].status = "new" /\ item'[i].status = "pending"
    \/ Begun(i)
    \/ Answered(i)

\* The answer of w's replay, whatever it is.
LEMMA AnswerOutcome ==
    ASSUME Inv, NEW w \in Passes, pass[w].item # NoItem, NEW it,
           item[pass[w].item].status = "syncing" =>
               it \in Item /\ it \in {MarkSynced(item[pass[w].item]), MarkFailed(item[pass[w].item])},
           Take(w, Marked(item, pass[w].item, it), pass[w].left - 1),
           NEW i \in Items
    PROVE  ItemCourse(i)
<1> DEFINE j == pass[w].item
           items == Marked(item, j, it)
<1>1. j \in Items /\ item[j].status \in {"syncing", "gone"}
  BY DEF Inv, Awaited
<1>2. items = IF item[j].status = "syncing" THEN [item EXCEPT ![j] = it] ELSE item
  BY <1>1 DEF Marked, Present
<1>3. items \in [Items -> Item] /\ \A k \in Items \ {j} : items[k] = item[k]
  BY <1>1, <1>2 DEF Inv
<1>4. item[j].status = "syncing" => items[j] = it
  BY <1>1, <1>2 DEF Inv
<1>5. item[j].status = "gone" => items[j] = item[j]
  BY <1>2
<1> HIDE DEF items
<1>6. /\ \A v \in Passes \ {w} : pass'[v] = pass[v]
      /\ \/ item'[i] = items[i] /\ attempts'[i] = attempts[i] /\ pass'[w].item # i
         \/ /\ items[i].status = "pending" /\ item'[i].status = "syncing"
            /\ pass'[w].item = i
  BY <1>3, TakeOutcome DEF items
<1>7. CASE i # j
  <2>1. items[i] = item[i] /\ pass[w].item # i
    BY <1>3, <1>7
  <2> QED BY <1>6, <2>1 DEF ItemCourse, LeftAlone, Begun, Held
<1>8. CASE i = j /\ item[j].status = "syncing"
  <2>1. Held(i)
    BY <1>8 DEF Held
  <2>2. items[i] \in {MarkSynced(item[i]), MarkFailed(item[i])}
    BY <1>4, <1>8
  <2> QED BY <1>6, <1>8, <2>1, <2>2 DEF ItemCourse, Answered, Begun, Held
<1>9. CASE i = j /\ item[j].status = "gone"
  BY <1>5, <1>6, <1>9 DEF ItemCourse, Withdrawn
<1> QED BY <1>1, <1>7, <1>8, <1>9

LEMMA ItemStep == ASSUME Inv, [Next]_vars, NEW i \in Items PROVE ItemCourse(i)
<1>1. ASSUME NEW j \in Items, Enqueue(j) PROVE ItemCourse(i)
  BY <1>1 DEF Enqueue, Inv, Item, ItemCourse, LeftAlone, Held
<1>2. ASSUME NEW w \in Passes, Sync(w) PROVE ItemCourse(i)
  <2>1. item \in [Items -> Item] /\ Take(w, item, MaxItems) /\ pass[w].item # i
    BY <1>2, ItemsAssumption DEF Sync, Inv
  <2> QED BY <2>1, TakeOutcome DEF ItemCourse, LeftAlone, Begun, Held
<1>3. ASSUME NEW w \in Passes, Replayed(w) PROVE ItemCourse(i)
  <2>1. pass[w].item # NoItem /\ item[pass[w].item] \in Item
    BY <1>3 DEF Replayed, Inv
  <2>2. MarkSynced(item[pass[w].item]) \in Item
    BY <2>1 DEF MarkSynced, Item, Status
  <2> QED BY <1>3, <2>1, <2>2, AnswerOutcome DEF Replayed
<1>4. ASSUME NEW w \in Passes, ReplayFails(w) PROVE ItemCourse(i)
  <2>1. pass[w].item # NoItem /\ item[pass[w].item] \in Item
    BY <1>4 DEF ReplayFails, Inv
  <2>2. item[pass[w].item].status = "syncing" => MarkFailed(item[pass[w].item]) \in Item
    BY <2>1, MarkFailedItem DEF Inv, Paid
  <2> QED BY <1>4, <2>1, <2>2, AnswerOutcome DEF ReplayFails
<1>5. ASSUME NEW w \in Passes, Cancelled(w) PROVE ItemCourse(i)
  <2>1. /\ item' = item /\ attempts' = attempts
        /\ pass'[w].item = NoItem /\ \A v \in Passes \ {w} : pass'[v] = pass[v]
    BY <1>5 DEF Cancelled, Idle, Inv
  <2> QED BY <1>5, <2>1, ItemsAssumption DEF ItemCourse, LeftAlone, Held
<1>6. ASSUME NEW statuses, Clear(statuses) PROVE ItemCourse(i)
  BY <1>6 DEF Clear, Inv, Item, ItemCourse, LeftAlone, Withdrawn, Held
<1>7. CASE Restart
  <2>1. attempts' = attempts /\ (item'[i] = item[i] \/ item'[i] = [item[i] EXCEPT !.status = "lost"])
        /\ (item[i].status = "syncing" => item'[i] = [item[i] EXCEPT !.status = "lost"])
    BY <1>7 DEF Restart, Present
  <2>2. item[i] \in Item /\ ~Held(i)'
    BY <1>7, ItemsAssumption DEF Restart, Idle, Inv, Held
  <2> QED BY <2>1, <2>2 DEF ItemCourse, LeftAlone, Withdrawn, Item
<1>8. CASE UNCHANGED vars
  BY <1>8 DEF vars, ItemCourse, LeftAlone, Held
<1> QED BY <1>1, <1>2, <1>3, <1>4, <1>5, <1>6, <1>7, <1>8 DEF Next

\* An operation is given up only after max_retries replays that all failed: no
\* clearing, cancellation or late answer uses up a retry (mark_failed).
THEOREM GivenUpAfterRetries == Spec => []EveryReplayCounts
<1>1. Init => EveryReplayCounts
  BY DEF Init, EveryReplayCounts, Accounted
<1>2. Inv /\ Inv' /\ EveryReplayCounts /\ [Next]_vars => EveryReplayCounts'
  <2> SUFFICES ASSUME Inv, Inv', EveryReplayCounts, [Next]_vars, NEW i \in Items
               PROVE  Accounted(item'[i], attempts'[i])
    BY DEF EveryReplayCounts
  <2>1. /\ item[i] \in Item /\ attempts[i] \in Nat /\ Paid(item[i], attempts[i])
        /\ item'[i] \in Item /\ attempts'[i] \in Nat /\ Paid(item'[i], attempts'[i])
        /\ Accounted(item[i], attempts[i])
    BY DEF Inv, EveryReplayCounts
  <2>2. MaxRetries \in Nat /\ item[i].retries \in Nat /\ item'[i].retries \in Nat
    BY <2>1, BoundsAssumption DEF Item
  <2>3. CASE LeftAlone(i) \/ Withdrawn(i)
    BY <2>1, <2>2, <2>3 DEF LeftAlone, Withdrawn, Accounted
  <2>4. CASE item'[i].status \in {"pending", "syncing"}
    BY <2>1, <2>2, <2>4 DEF Paid, Accounted
  <2>5. CASE Answered(i)
    <3>1. attempts[i] = item[i].retries + 1 /\ attempts'[i] = attempts[i] /\ item[i].retries < MaxRetries
      BY <2>1, <2>5 DEF Paid, Answered
    <3>2. CASE item'[i] = MarkSynced(item[i])
      <4>1. item'[i].status = "synced" /\ item'[i].retries = item[i].retries
        BY <2>1, <3>2 DEF MarkSynced, Item
      <4> QED BY <2>2, <3>1, <4>1 DEF Accounted
    <3>3. CASE item'[i] = MarkFailed(item[i])
      <4>1. /\ item'[i].retries = item[i].retries + 1
            /\ item'[i].status = IF item[i].retries + 1 >= MaxRetries THEN "failed" ELSE "pending"
        BY <2>1, <3>1, <3>3, MarkFailedItem
      <4> QED BY <2>2, <3>1, <4>1 DEF Accounted
    <3> QED BY <2>5, <3>2, <3>3 DEF Answered
  <2> QED BY <2>3, <2>4, <2>5, ItemStep DEF ItemCourse, Begun
<1> QED BY <1>1, <1>2, Invariance, PTL DEF Spec

\* A cancelled replay leaves its item in the middle of it for good, and nothing
\* else does: CancelledError passes the except of process_queue, and dequeue only
\* looks at pending items.
THEOREM StrandedByCancellation == Spec => CancelledReplayStrands
<1>1. Inv /\ [Next]_vars =>
          [\A i \in Items :
             /\ Stranded(i) => Stranded(i)' \/ item[i]'.status \in {"gone", "lost"}
             /\ ~Stranded(i) /\ Stranded(i)' =>
                    \E w \in Passes : pass[w].item = i /\ Cancelled(w)]_vars
  <2> SUFFICES ASSUME Inv, [Next]_vars, NEW i \in Items
               PROVE  /\ Stranded(i) => Stranded(i)' \/ item'[i].status \in {"gone", "lost"}
                      /\ ~Stranded(i) /\ Stranded(i)' =>
                             \E w \in Passes : pass[w].item = i /\ Cancelled(w)
    OBVIOUS
  <2>1. Stranded(i) <=> item[i].status = "syncing" /\ ~Held(i)
    BY DEF Stranded, Held
  <2>2. Stranded(i)' <=> item'[i].status = "syncing" /\ ~Held(i)'
    BY DEF Stranded, Held
  <2>3. Answered(i) => item'[i].status # "syncing"
    <3> SUFFICES ASSUME Answered(i) PROVE item'[i].status # "syncing"
      OBVIOUS
    <3>1. item[i] \in Item /\ item[i].retries < MaxRetries
      BY DEF Answered, Inv, Paid
    <3>2. MarkSynced(item[i]).status = "synced" /\ MarkFailed(item[i]).status \in {"failed", "pending"}
      BY <3>1, MarkFailedItem DEF MarkSynced, Item
    <3> QED BY <3>2 DEF Answered
  <2> QED BY <2>1, <2>2, <2>3, ItemStep DEF ItemCourse, LeftAlone, Withdrawn, Begun, Answered
<1> QED BY <1>1, Invariance, PTL DEF Spec, CancelledReplayStrands

=============================================================================
