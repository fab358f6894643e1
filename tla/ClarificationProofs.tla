------------------------- MODULE ClarificationProofs -------------------------
(***************************************************************************)
(* Replay protection of clarifications, for any sessions and requests, any *)
(* number of questions, continuations and faults, and any retention.  It   *)
(* does not matter which copies are stale: an answer closes the question   *)
(* in the copy that was read and in the file together, and no write opens  *)
(* again a question that is closed in both.                                *)
(***************************************************************************)
EXTENDS Clarification, FiniteSetTheorems, SequenceTheorems, TLAPS

Copies == [Clar -> ClarState]

\* Some copy would still take an answer to c.
Open(c) == disk[c] = "pending" \/ seen[c] = "pending"

Balanced(c) ==
    /\ Cardinality(ContinuationsOf(c)) <= torn[c] + 1
    /\ Open(c) => Cardinality(ContinuationsOf(c)) <= torn[c]

Inv ==
    /\ TypeOK
    /\ \A c \in Clar : disk[c] # "absent" \/ seen[c] # "absent" => c <= Len(asked)
    /\ \A k \in DOMAIN source : source[k] <= Len(asked)
    /\ \A c \in Clar : torn[c] <= faults /\ Balanced(c)
    /\ \A c \in acked : c <= Len(asked) /\ ~Open(c)

------------------------------------------------------------------------------
(* What the stores do to a copy                                            *)

LEMMA CompactEffect ==
    ASSUME NEW copy \in Copies
    PROVE  /\ Compact(copy) \in Copies
           /\ \A c \in Clar : Compact(copy)[c] \in {copy[c], "absent"}
BY DEF Compact, Copies, ClarState

LEMMA PutEffect ==
    ASSUME NEW copy \in Copies, NEW c \in Clar, NEW s \in ClarState
    PROVE  /\ Put(copy, c, s) \in Copies
           /\ Put(copy, c, s)[c] \in {s, "absent"}
           /\ \A d \in Clar \ {c} : Put(copy, c, s)[d] \in {copy[d], "absent"}
<1>1. [copy EXCEPT ![c] = s] \in Copies
  BY DEF Copies
<1>2. [copy EXCEPT ![c] = s][c] = s /\ \A d \in Clar \ {c} : [copy EXCEPT ![c] = s][d] = copy[d]
  BY DEF Copies
<1> QED
  BY <1>1, <1>2, CompactEffect DEF Put

LEMMA SupersedeEffect ==
    ASSUME NEW copy \in Copies, NEW s, NEW q
    PROVE  /\ Supersede(copy, s, q) \in Copies
           /\ \A c \in Clar : \/ Supersede(copy, s, q)[c] = copy[c]
                              \/ copy[c] = "pending" /\ Supersede(copy, s, q)[c] = "superseded"
BY DEF Supersede, Copies, ClarState

\* The parts of TypeOK in the form the steps use.
LEMMA Typed ==
    TypeOK <=> /\ asked \in Seq([session: Sessions, request: Requests]) /\ Len(asked) <= MaxClars
               /\ late \subseteq Clar
               /\ disk \in Copies /\ seen \in Copies
               /\ source \in Seq(Clar) /\ Len(source) <= MaxConts
               /\ contDisk \in [Cont -> ContState] /\ contSeen \in [Cont -> ContState]
               /\ contExec \in [Cont -> ContState]
               /\ acked \subseteq Clar
               /\ torn \in [Clar -> 0 .. MaxFaults]
               /\ faults \in 0 .. MaxFaults
               /\ up \in BOOLEAN /\ execUp \in BOOLEAN
BY DEF TypeOK, Copies

------------------------------------------------------------------------------
(* Steps that create no continuation                                       *)

\* No copy comes to take an answer that none took before.
Settles ==
    /\ disk' \in Copies /\ seen' \in Copies
    /\ \A c \in Clar : /\ Open(c)' => Open(c)
                       /\ disk'[c] # "absent" \/ seen'[c] # "absent"
                            => disk[c] # "absent" \/ seen[c] # "absent"

LEMMA SettlingKeeps ==
    ASSUME Inv, Settles, UNCHANGED <<asked, source, torn>>,
           late' \subseteq Clar,
           contDisk' \in [Cont -> ContState], contSeen' \in [Cont -> ContState],
           contExec' \in [Cont -> ContState],
           faults' = faults \/ Fault,
           up' \in BOOLEAN, execUp' \in BOOLEAN,
           acked' \subseteq Clar,
           \A c \in acked' : c \in acked \/ (c <= Len(asked) /\ ~Open(c)')
    PROVE  Inv'
<1>1. faults' \in 0 .. MaxFaults /\ faults' >= faults
  BY BoundsAssumption, Typed DEF Inv, Fault
<1>2. TypeOK'
  <2>1. TypeOK
    BY DEF Inv
  <2> QED
    BY <1>1, <2>1, Typed DEF Settles, TypeOK, Copies
<1>3. \A c \in Clar : disk'[c] # "absent" \/ seen'[c] # "absent" => c <= Len(asked)'
  BY DEF Inv, Settles
<1>4. \A k \in DOMAIN source' : source'[k] <= Len(asked)'
  BY DEF Inv
<1>5. ASSUME NEW c \in Clar
      PROVE  torn'[c] <= faults' /\ Balanced(c)'
  <2>1. torn[c] <= faults /\ torn[c] \in Int /\ faults \in Int /\ Balanced(c)
    BY BoundsAssumption, Typed DEF Inv
  <2>2. ContinuationsOf(c)' = ContinuationsOf(c)
    BY DEF ContinuationsOf
  <2> QED
    BY <1>1, <2>1, <2>2 DEF Settles, Balanced
<1>6. \A c \in acked' : c <= Len(asked)' /\ ~Open(c)'
  BY Typed DEF Inv, Settles
<1> QED
  BY <1>2, <1>3, <1>4, <1>5, <1>6 DEF Inv

\* The facts about the state that each step starts from.
LEMMA Before ==
    ASSUME Inv
    PROVE  /\ disk \in Copies /\ seen \in Copies /\ late \subseteq Clar /\ acked \subseteq Clar
           /\ contDisk \in [Cont -> ContState] /\ contSeen \in [Cont -> ContState]
           /\ contExec \in [Cont -> ContState]
           /\ up \in BOOLEAN /\ execUp \in BOOLEAN
           /\ \A c \in Clar : seen[c] = "pending" => c <= Len(asked)
           /\ NoQuestions \in Copies /\ NoConts \in [Cont -> ContState]
BY Typed DEF Inv, NoQuestions, NoConts, Copies, ClarState, ContState

LEMMA AskTornKeeps ==
    ASSUME Inv, NEW s, NEW q, AskTorn(s, q)
    PROVE  Inv'
<1>1. Settles
  BY Before, SupersedeEffect DEF AskTorn, Settles, Open
<1>2. /\ UNCHANGED <<asked, source, torn>> /\ late' \subseteq Clar /\ Fault
      /\ contDisk' \in [Cont -> ContState] /\ contSeen' \in [Cont -> ContState]
      /\ contExec' \in [Cont -> ContState] /\ up' \in BOOLEAN /\ execUp' \in BOOLEAN
      /\ acked' \subseteq Clar /\ acked' = acked
  BY Before DEF AskTorn, continuations
<1> QED
  BY <1>1, <1>2, SettlingKeeps

\* What a request answers with its own copy, and writes or fails to write.
LEMMA ClosingKeeps ==
    ASSUME Inv, NEW c \in Clar,
           ResolveLate(c) \/ Cancel(c) \/ CancelUnsaved(c)
    PROVE  Inv'
<1>1. PICK s \in {"expired", "cancelled"} : seen' = Put(seen, c, s)
  BY DEF ResolveLate, Cancel, CancelUnsaved
<1>2. seen' \in Copies /\ seen'[c] \in {s, "absent"} /\ \A d \in Clar \ {c} : seen'[d] \in {seen[d], "absent"}
  BY <1>1, Before, PutEffect DEF ClarState
<1>3. seen[c] = "pending" /\ c <= Len(asked)
  BY Before DEF ResolveLate, Cancel, CancelUnsaved, Answerable
<1>4. disk' = seen' \/ disk' = disk
  BY DEF ResolveLate, Cancel, CancelUnsaved, SaveAnswer
<1>5. Settles
  BY <1>2, <1>3, <1>4, Before DEF Settles, Open
<1>6. /\ UNCHANGED <<asked, source, torn>> /\ late' \subseteq Clar /\ (faults' = faults \/ Fault)
      /\ contDisk' \in [Cont -> ContState] /\ contSeen' \in [Cont -> ContState]
      /\ contExec' \in [Cont -> ContState] /\ up' \in BOOLEAN /\ execUp' \in BOOLEAN
  BY Before DEF ResolveLate, Cancel, CancelUnsaved, continuations
<1>7. acked' = acked \/ (acked' = acked \cup {c} /\ disk' = seen')
  BY DEF ResolveLate, Cancel, CancelUnsaved, SaveAnswer
<1>8. acked' \subseteq Clar /\ \A d \in acked' : d \in acked \/ (d <= Len(asked) /\ ~Open(d)')
  BY <1>2, <1>3, <1>7, Before DEF Open
<1> QED
  BY <1>5, <1>6, <1>8, SettlingKeeps

LEMMA GetPendingKeeps == ASSUME Inv, NEW s, GetPending(s) PROVE Inv'
<1>1. /\ seen' \in Copies /\ disk' = seen'
      /\ \A c \in Clar : seen'[c] = seen[c] \/ (seen[c] = "pending" /\ seen'[c] = "expired")
  BY Before DEF GetPending, Copies, ClarState
<1>2. Settles
  BY <1>1 DEF Settles, Open
<1>3. /\ UNCHANGED <<asked, source, torn, faults>> /\ late' \subseteq Clar
      /\ contDisk' \in [Cont -> ContState] /\ contSeen' \in [Cont -> ContState]
      /\ contExec' \in [Cont -> ContState] /\ up' \in BOOLEAN /\ execUp' \in BOOLEAN
      /\ acked' \subseteq Clar /\ acked' = acked
  BY Before DEF GetPending, continuations
<1> QED
  BY <1>2, <1>3, SettlingKeeps

\* The steps that only read the files, or lose what was read.
LEMMA CopyingKeeps ==
    ASSUME Inv, BuildRouter \/ BuildExecutor \/ Restart \/ \E c \in Clar : Expire(c)
    PROVE  Inv'
<1>1. disk' = disk /\ (seen' = disk \/ seen' = seen \/ seen' = NoQuestions)
  BY DEF BuildRouter, BuildExecutor, Restart, Forget, Expire, questions
<1>2. Settles
  BY <1>1, Before DEF Settles, Open, NoQuestions
<1>3. /\ UNCHANGED <<asked, source, torn>> /\ late' \subseteq Clar /\ (faults' = faults \/ Fault)
      /\ acked' = acked /\ acked' \subseteq Clar /\ up' \in BOOLEAN /\ execUp' \in BOOLEAN
  BY Before DEF BuildRouter, BuildExecutor, Restart, Forget, Expire, questions, continuations
<1>4. /\ contDisk' = contDisk /\ contSeen' \in {contSeen, contDisk, NoConts}
      /\ contExec' \in {contExec, contDisk, NoConts}
  BY DEF BuildRouter, BuildExecutor, Restart, Forget, Expire, questions, continuations
<1>5. contDisk' \in [Cont -> ContState] /\ contSeen' \in [Cont -> ContState] /\ contExec' \in [Cont -> ContState]
  BY <1>4, Before
<1> QED
  BY <1>2, <1>3, <1>5, SettlingKeeps

LEMMA StartKeeps == ASSUME Inv, NEW k \in Cont, Start(k) PROVE Inv'
<1>1. contExec' \in [Cont -> ContState] /\ contDisk' = contExec' /\ contSeen' = contSeen
  BY Before DEF Start, ContState
<1>2. Settles
  BY Before DEF Start, questions, Settles, Open
<1>3. /\ UNCHANGED <<asked, source, torn, faults, acked>> /\ late' \subseteq Clar
      /\ acked' \subseteq Clar /\ up' \in BOOLEAN /\ execUp' \in BOOLEAN
  BY Before DEF Start, questions
<1> QED
  BY <1>1, <1>2, <1>3, Before, SettlingKeeps

------------------------------------------------------------------------------
(* A question is asked                                                     *)

LEMMA AskKeeps == ASSUME Inv, NEW s \in Sessions, NEW q \in Requests, Ask(s, q) PROVE Inv'
<1> DEFINE n == Len(asked)
<1>1. /\ n \in Nat /\ n + 1 \in Clar
      /\ asked' = Append(asked, [session |-> s, request |-> q])
      /\ disk' = Put(Supersede(disk, s, q), n + 1, "pending")
      /\ UNCHANGED <<late, seen, up, source, contDisk, contSeen, contExec, execUp, acked, torn, faults>>
  BY Typed DEF Inv, Ask, continuations
<1>2. /\ asked' \in Seq([session: Sessions, request: Requests])
      /\ Len(asked') = n + 1 /\ Len(asked') <= MaxClars
  <2>1. [session |-> s, request |-> q] \in [session: Sessions, request: Requests]
        /\ asked \in Seq([session: Sessions, request: Requests])
    BY Typed DEF Inv
  <2>2. asked' \in Seq([session: Sessions, request: Requests]) /\ Len(asked') = n + 1
    BY <1>1, <2>1, AppendProperties
  <2> QED
    BY <1>1, <2>2, BoundsAssumption DEF Clar
<1>3. disk' \in Copies /\ \A d \in Clar \ {n + 1} : disk'[d] \in {disk[d], "superseded", "absent"}
                                                 /\ (disk'[d] # "absent" => disk[d] # "absent")
  <2>1. "pending" \in ClarState
    BY DEF ClarState
  <2> DEFINE swept == Supersede(disk, s, q)
  <2>2. swept \in Copies /\ \A c \in Clar : swept[c] = disk[c] \/ (disk[c] = "pending" /\ swept[c] = "superseded")
    BY Before, SupersedeEffect
  <2> HIDE DEF swept
  <2>3. /\ Put(swept, n + 1, "pending") \in Copies
        /\ \A d \in Clar \ {n + 1} : Put(swept, n + 1, "pending")[d] \in {swept[d], "absent"}
    BY <1>1, <2>1, <2>2, PutEffect
  <2>4. disk' = Put(swept, n + 1, "pending")
    BY <1>1 DEF swept
  <2> QED
    BY <2>2, <2>3, <2>4
<1>4. TypeOK'
  BY <1>1, <1>2, <1>3, Typed DEF Inv, TypeOK, Copies
<1>5. \A c \in Clar : disk'[c] # "absent" \/ seen'[c] # "absent" => c <= Len(asked')
  BY <1>1, <1>2, <1>3 DEF Inv, Clar
<1>6. \A k \in DOMAIN source' : source'[k] <= Len(asked')
  <2>1. source \in Seq(Clar)
    BY Typed DEF Inv
  <2>2. \A k \in DOMAIN source : source[k] \in Clar
    BY <2>1
  <2>3. \A k \in DOMAIN source : source[k] \in Int
    BY <2>2 DEF Clar
  <2> QED
    BY <1>1, <1>2, <2>3 DEF Inv
<1>7. ASSUME NEW c \in Clar
      PROVE  torn'[c] <= faults' /\ Balanced(c)'
  <2>1. torn[c] <= faults /\ torn[c] \in Nat /\ Balanced(c)
    BY BoundsAssumption, Typed DEF Inv
  <2>2. ContinuationsOf(c)' = ContinuationsOf(c)
    BY <1>1 DEF ContinuationsOf
  <2>3. CASE c = n + 1
    <3>1. ContinuationsOf(c) = {}
      BY <1>1, <2>3 DEF Inv, ContinuationsOf
    <3>2. Cardinality(ContinuationsOf(c)) = 0
      BY <3>1, FS_EmptySet
    <3> QED
      BY <1>1, <2>1, <2>2, <3>2 DEF Balanced
  <2>4. CASE c # n + 1
    BY <1>1, <1>3, <2>1, <2>2, <2>4 DEF Balanced, Open
  <2> QED
    BY <2>3, <2>4
<1>8. \A c \in acked' : c <= Len(asked') /\ ~Open(c)'
  <2>1. ASSUME NEW c \in acked
        PROVE  c <= n + 1 /\ ~Open(c)'
    <3>1. c \in Clar /\ c \in Int /\ c <= n /\ ~Open(c) /\ c # n + 1
      BY <1>1, Typed DEF Inv, Clar
    <3> QED
      BY <1>1, <1>3, <3>1 DEF Open
  <2> QED
    BY <1>1, <1>2, <2>1
<1> QED
  BY <1>4, <1>5, <1>6, <1>7, <1>8 DEF Inv

------------------------------------------------------------------------------
(* An answer creates a continuation                                        *)

LEMMA FiniteContinuations ==
    ASSUME TypeOK, NEW c \in Clar
    PROVE  IsFiniteSet(ContinuationsOf(c)) /\ Cardinality(ContinuationsOf(c)) \in Nat
<1>1. DOMAIN source = 1 .. Len(source) /\ Len(source) \in Int /\ 1 \in Int
  BY Typed
<1>2. IsFiniteSet(1 .. Len(source))
  BY <1>1, FS_Interval, Zenon
<1>3. ContinuationsOf(c) \subseteq 1 .. Len(source)
  BY <1>1 DEF ContinuationsOf
<1>4. IsFiniteSet(ContinuationsOf(c))
  BY <1>2, <1>3, FS_Subset, Zenon
<1> QED
  BY <1>4, FS_CardinalityType, Zenon

\* What one more continuation of c makes of the counts.
LEMMA OneMore ==
    ASSUME TypeOK, NEW c \in Clar, source' = Append(source, c), Len(source) + 1 \in Cont
    PROVE  /\ source' \in Seq(Clar) /\ Len(source') <= MaxConts
           /\ \A k \in DOMAIN source' : source'[k] = c \/ \E j \in DOMAIN source : source'[k] = source[j]
           /\ Cardinality(ContinuationsOf(c)') = Cardinality(ContinuationsOf(c)) + 1
           /\ \A d \in Clar \ {c} : ContinuationsOf(d)' = ContinuationsOf(d)
<1> DEFINE n == Len(source)
<1>1. source \in Seq(Clar) /\ n \in Nat /\ DOMAIN source = 1 .. n
  BY Typed
<1>2. /\ source' \in Seq(Clar) /\ Len(source') = n + 1
      /\ \A k \in 1 .. n : source'[k] = source[k]
      /\ source'[n + 1] = c
  BY <1>1, AppendProperties
<1>3. DOMAIN source' = 1 .. (n + 1)
  BY <1>2
<1>4. ContinuationsOf(c)' = ContinuationsOf(c) \cup {n + 1} /\ n + 1 \notin ContinuationsOf(c)
  BY <1>1, <1>2, <1>3 DEF ContinuationsOf
<1>5. \A d \in Clar \ {c} : ContinuationsOf(d)' = ContinuationsOf(d)
  BY <1>1, <1>2, <1>3 DEF ContinuationsOf
<1>6. Cardinality(ContinuationsOf(c)') = Cardinality(ContinuationsOf(c)) + 1
  <2>1. IsFiniteSet(ContinuationsOf(c))
    BY FiniteContinuations
  <2>2. Cardinality(ContinuationsOf(c) \cup {n + 1}) = Cardinality(ContinuationsOf(c)) + 1
    BY <1>4, <2>1, FS_AddElement, Zenon
  <2> QED
    BY <1>4, <2>2
<1>7. \A k \in DOMAIN source' : source'[k] = c \/ \E j \in DOMAIN source : source'[k] = source[j]
  BY <1>1, <1>2, <1>3
<1>8. Len(source') <= MaxConts
  BY <1>2, BoundsAssumption DEF Cont
<1> QED
  BY <1>2, <1>5, <1>6, <1>7, <1>8

\* An answer is whole, and closes the question in both copies, or is cut off,
\* and is counted as such.
LEMMA AnswerKeeps ==
    ASSUME Inv, NEW c \in Clar, Resolve(c) \/ ResolveUnsaved(c) \/ ResolveTorn(c)
    PROVE  Inv'
<1>1. /\ TypeOK /\ seen[c] = "pending" /\ Open(c) /\ c <= Len(asked)
      /\ source' = Append(source, c) /\ Len(source) + 1 \in Cont
      /\ UNCHANGED <<asked, late>>
  BY Before DEF Inv, Resolve, ResolveUnsaved, ResolveTorn, Answerable, NewContinuation, Open
<1>2. /\ source' \in Seq(Clar) /\ Len(source') <= MaxConts
      /\ \A k \in DOMAIN source' : source'[k] = c \/ \E j \in DOMAIN source : source'[k] = source[j]
      /\ Cardinality(ContinuationsOf(c)') = Cardinality(ContinuationsOf(c)) + 1
      /\ \A d \in Clar \ {c} : ContinuationsOf(d)' = ContinuationsOf(d)
  BY <1>1, OneMore
<1>3. Consumed(c) \in Copies /\ Consumed(c)[c] # "pending"
      /\ \A d \in Clar \ {c} : Consumed(c)[d] \in {seen[d], "absent"}
  BY Before, PutEffect DEF Consumed, ClarState
<1>4. Settles
  <2>1. seen' \in {seen, Consumed(c), NoQuestions} /\ disk' \in {disk, seen'}
    BY DEF Resolve, ResolveUnsaved, ResolveTorn, SaveAnswer, Forget
  <2>2. seen' \in Copies /\ disk' \in Copies
    BY <1>3, <2>1, Before
  <2>3. \A d \in Clar : seen'[d] \in {seen[d], "absent"} \/ d = c
    BY <1>3, <2>1 DEF NoQuestions
  <2> QED
    BY <1>1, <2>1, <2>2, <2>3 DEF Settles, Open
<1>5. /\ contDisk' \in [Cont -> ContState] /\ contSeen' \in [Cont -> ContState]
      /\ contExec' \in [Cont -> ContState]
  <2>1. [contSeen EXCEPT ![Len(source) + 1] = "created"] \in [Cont -> ContState]
    BY Before DEF ContState
  <2> QED
    BY <2>1, Before DEF Resolve, ResolveUnsaved, ResolveTorn, NewContinuation, Forget
<1>6. up' \in BOOLEAN /\ execUp' \in BOOLEAN
  BY Before DEF Resolve, ResolveUnsaved, ResolveTorn, Forget
<1>7. /\ torn \in [Clar -> 0 .. MaxFaults] /\ faults \in 0 .. MaxFaults /\ MaxFaults \in Nat
      /\ \A d \in Clar : torn[d] <= faults /\ torn[d] \in Nat
  BY BoundsAssumption, Typed DEF Inv
<1>8. \/ /\ torn' = torn /\ faults' = faults /\ seen' = Consumed(c) /\ disk' = seen'
         /\ acked' = acked \cup {c}
      \/ torn' = [torn EXCEPT ![c] = @ + 1] /\ Fault /\ acked' = acked
  BY DEF Resolve, ResolveUnsaved, ResolveTorn, SaveAnswer
<1>9. /\ torn' \in [Clar -> 0 .. MaxFaults] /\ faults' \in 0 .. MaxFaults
      /\ \A d \in Clar : torn'[d] <= faults'
  BY <1>7, <1>8 DEF Fault
<1>10. acked' \subseteq Clar
  BY <1>8, Before
<1>11. TypeOK'
  BY <1>1, <1>2, <1>4, <1>5, <1>6, <1>9, <1>10, Typed DEF Settles, TypeOK, Copies
<1>12. \A d \in Clar : disk'[d] # "absent" \/ seen'[d] # "absent" => d <= Len(asked')
  BY <1>1, <1>4 DEF Inv, Settles
<1>13. \A k \in DOMAIN source' : source'[k] <= Len(asked')
  BY <1>1, <1>2 DEF Inv
<1>14. ASSUME NEW d \in Clar
       PROVE  Balanced(d)'
  <2>1. Balanced(d) /\ torn[d] \in Nat /\ torn'[d] \in Nat /\ Cardinality(ContinuationsOf(d)) \in Nat
    BY <1>1, <1>7, <1>9, FiniteContinuations DEF Inv
  <2>2. CASE d = c
    <3>1. Cardinality(ContinuationsOf(c)) <= torn[c]
      BY <1>1, <2>1, <2>2 DEF Balanced
    <3>2. \/ torn'[c] = torn[c] /\ ~Open(c)'
          \/ torn'[c] = torn[c] + 1
      BY <1>3, <1>7, <1>8 DEF Open
    <3> QED
      BY <1>2, <2>1, <2>2, <3>1, <3>2 DEF Balanced
  <2>3. CASE d # c
    <3>1. torn'[d] = torn[d]
      BY <1>7, <1>8, <2>3
    <3>2. Open(d)' => Open(d)
      BY <1>4 DEF Settles
    <3>3. ContinuationsOf(d)' = ContinuationsOf(d)
      BY <1>2, <2>3
    <3> QED
      BY <2>1, <3>1, <3>2, <3>3 DEF Balanced
  <2> QED
    BY <2>2, <2>3
<1>15. \A d \in acked' : d <= Len(asked') /\ ~Open(d)'
  <2>1. \A d \in acked : d \in Clar /\ d <= Len(asked) /\ ~Open(d)'
    BY <1>4, Before DEF Inv, Settles
  <2>2. acked' # acked => ~Open(c)'
    BY <1>3, <1>8 DEF Open
  <2> QED
    BY <1>1, <1>8, <2>1, <2>2
<1> QED
  BY <1>9, <1>11, <1>12, <1>13, <1>14, <1>15 DEF Inv

------------------------------------------------------------------------------
LEMMA ClarificationInit == Init => Inv
<1> SUFFICES ASSUME Init PROVE Inv
  OBVIOUS
<1>1. /\ NoQuestions \in Copies /\ NoConts \in [Cont -> ContState]
      /\ \A c \in Clar : NoQuestions[c] = "absent"
  BY DEF NoQuestions, NoConts, Copies, ClarState, ContState
<1>2. <<>> \in Seq([session: Sessions, request: Requests]) /\ <<>> \in Seq(Clar) /\ Len(<<>>) = 0
  BY EmptySeq
<1>3. 0 \in 0 .. MaxFaults /\ 0 <= MaxClars /\ 0 <= MaxConts
  BY BoundsAssumption
<1>4. TypeOK
  BY <1>1, <1>2, <1>3, Typed DEF Init
<1>5. DOMAIN source = {}
  BY <1>2 DEF Init
<1>6. \A c \in Clar : ContinuationsOf(c) = {}
  BY <1>5 DEF ContinuationsOf
<1>7. \A c \in Clar : torn[c] = 0 /\ Cardinality(ContinuationsOf(c)) = 0
  BY <1>6, FS_EmptySet DEF Init
<1>8. \A c \in Clar : Balanced(c)
  BY <1>7 DEF Balanced
<1> QED
  BY <1>1, <1>4, <1>5, <1>7, <1>8 DEF Inv, Init

LEMMA ClarificationStep == Inv /\ [Next]_vars => Inv'
<1> SUFFICES ASSUME Inv, [Next]_vars PROVE Inv'
  OBVIOUS
<1>1. CASE UNCHANGED vars
  <2>1. Settles
    BY <1>1, Before DEF vars, questions, Settles, Open
  <2>2. UNCHANGED <<asked, source, torn, late, contDisk, contSeen, contExec, faults, up, execUp, acked>>
    BY <1>1 DEF vars, questions, continuations
  <2> QED
    BY <2>1, <2>2, Before, SettlingKeeps
<1>2. CASE Next
  BY <1>2, AskKeeps, AskTornKeeps, GetPendingKeeps, ClosingKeeps, CopyingKeeps, StartKeeps, AnswerKeeps
     DEF Next
<1> QED
  BY <1>1, <1>2

LEMMA ClarificationInvariance == Spec => []Inv
BY ClarificationInit, ClarificationStep, PTL DEF Spec

------------------------------------------------------------------------------
(* Theorems                                                                *)

\* The files, their copies and the histories keep their types.
THEOREM ClarificationTypeCorrect == Spec => []TypeOK
<1>1. Inv => TypeOK
  BY DEF Inv
<1> QED
  BY <1>1, ClarificationInvariance, PTL

\* A question leads to one continuation, and to one more for each answer that
\* was cut off, whatever copies are written over others
\* (ClarificationService.resolve).
THEOREM ReplayProtection == Spec => []ResolvedOnce
<1>1. ASSUME Inv, NEW c \in Clar
      PROVE  Cardinality(ContinuationsOf(c)) <= 1 + torn[c]
  <2>1. Balanced(c) /\ torn[c] \in Nat /\ Cardinality(ContinuationsOf(c)) \in Nat
    BY <1>1, BoundsAssumption, Typed, FiniteContinuations DEF Inv
  <2> QED
    BY <2>1 DEF Balanced
<1>2. Inv => ResolvedOnce
  BY <1>1 DEF ResolvedOnce
<1> QED
  BY <1>2, ClarificationInvariance, PTL

\* After its answer was acknowledged, a question leads to no continuation
\* (ClarificationService.resolve, cancel).
THEOREM AnswersAreFinal == Spec => AcknowledgedIsFinal
<1> DEFINE Step == \A c \in acked : ContinuationsOf(c)' = ContinuationsOf(c)
<1>1. ASSUME Inv, Next
      PROVE  Step
  <2>1. ASSUME NEW c \in Clar, Resolve(c) \/ ResolveUnsaved(c) \/ ResolveTorn(c)
        PROVE  Step
    <3>1. /\ TypeOK /\ Open(c) /\ source' = Append(source, c) /\ Len(source) + 1 \in Cont
      BY <1>1, <2>1 DEF Inv, Resolve, ResolveUnsaved, ResolveTorn, Answerable, NewContinuation, Open
    <3>2. \A d \in Clar \ {c} : ContinuationsOf(d)' = ContinuationsOf(d)
      BY <3>1, OneMore
    <3>3. acked \subseteq Clar \ {c}
      BY <1>1, <3>1, Before DEF Inv
    <3> QED
      BY <3>2, <3>3
  <2>2. CASE UNCHANGED source
    BY <2>2 DEF ContinuationsOf
  <2> QED
    BY <1>1, <2>1, <2>2 DEF Next, Ask, AskTorn, GetPending, Expire, ResolveLate, Cancel, CancelUnsaved,
       Start, BuildRouter, BuildExecutor, Restart, continuations
<1>2. Inv /\ [Next]_vars => [Step]_vars
  BY <1>1
<1> QED
  BY <1>2, ClarificationInvariance, PTL DEF Spec, AcknowledgedIsFinal

------------------------------------------------------------------------------
(* What an answer leaves behind                                            *)

\* A question recorded as consumed, in the file or in the router's copy, has led
\* to a continuation: resolve puts the continuation first, so a cut between its
\* writes costs a repeated answer and never a lost one.
ConsumedHasContinuation ==
    \A c \in Clar : disk[c] = "consumed" \/ seen[c] = "consumed" => ContinuationsOf(c) # {}

\* Only an answer to c records it as consumed.
LEMMA OnlyAnswersConsume ==
    ASSUME Inv, Next, NEW d \in Clar, disk'[d] = "consumed" \/ seen'[d] = "consumed",
           ~(Resolve(d) \/ ResolveUnsaved(d) \/ ResolveTorn(d))
    PROVE  disk[d] = "consumed" \/ seen[d] = "consumed"
<1>1. ASSUME NEW s \in Sessions, NEW q \in Requests, Ask(s, q)
      PROVE  disk[d] = "consumed" \/ seen[d] = "consumed"
  <2> DEFINE swept == Supersede(disk, s, q)
  <2>1. swept \in Copies /\ \A c \in Clar : swept[c] = disk[c] \/ (disk[c] = "pending" /\ swept[c] = "superseded")
    BY Before, SupersedeEffect
  <2>2. PICK n \in Clar : disk' = Put(swept, n, "pending") /\ seen' = seen
    BY <1>1 DEF Ask
  <2> HIDE DEF swept
  <2>3. "pending" \in ClarState
    BY DEF ClarState
  <2>4. /\ Put(swept, n, "pending")[n] \in {"pending", "absent"}
        /\ \A c \in Clar \ {n} : Put(swept, n, "pending")[c] \in {swept[c], "absent"}
    BY <2>1, <2>3, PutEffect
  <2> QED
    BY <2>1, <2>2, <2>4
<1>2. ASSUME NEW s, NEW q, AskTorn(s, q)
      PROVE  disk[d] = "consumed" \/ seen[d] = "consumed"
  BY <1>2, Before, SupersedeEffect DEF AskTorn
<1>3. ASSUME NEW s, GetPending(s)
      PROVE  disk[d] = "consumed" \/ seen[d] = "consumed"
  BY <1>3 DEF GetPending
<1>4. ASSUME NEW c \in Clar, ResolveLate(c) \/ Cancel(c) \/ CancelUnsaved(c)
      PROVE  disk[d] = "consumed" \/ seen[d] = "consumed"
  <2>1. PICK s \in {"expired", "cancelled"} : seen' = Put(seen, c, s)
    BY <1>4 DEF ResolveLate, Cancel, CancelUnsaved
  <2>2. s \in ClarState /\ seen \in Copies
    BY Before DEF ClarState
  <2>3. /\ seen'[c] \in {s, "absent"}
        /\ \A b \in Clar \ {c} : seen'[b] \in {seen[b], "absent"}
    BY <2>1, <2>2, PutEffect
  <2> QED
    BY <1>4, <2>1, <2>3 DEF ResolveLate, Cancel, CancelUnsaved, SaveAnswer
<1>5. ASSUME NEW c \in Clar, c # d, Resolve(c) \/ ResolveUnsaved(c) \/ ResolveTorn(c)
      PROVE  disk[d] = "consumed" \/ seen[d] = "consumed"
  <2>1. Consumed(c)[d] \in {seen[d], "absent"}
    BY <1>5, Before, PutEffect DEF Consumed, ClarState
  <2>2. seen' \in {seen, Consumed(c), NoQuestions} /\ disk' \in {disk, seen'}
    BY <1>5 DEF Resolve, ResolveUnsaved, ResolveTorn, SaveAnswer, Forget
  <2> QED
    BY <2>1, <2>2 DEF NoQuestions
<1>6. ASSUME disk' = disk, seen' \in {seen, disk, NoQuestions}
      PROVE  disk[d] = "consumed" \/ seen[d] = "consumed"
  BY <1>6 DEF NoQuestions
<1> QED
  BY <1>1, <1>2, <1>3, <1>4, <1>5, <1>6
     DEF Next, Expire, Start, BuildRouter, BuildExecutor, Restart, Forget, questions

LEMMA ContinuationsStay ==
    ASSUME Inv, [Next]_vars, NEW d \in Clar, ContinuationsOf(d) # {}
    PROVE  ContinuationsOf(d)' # {}
<1>1. ASSUME NEW c \in Clar, Resolve(c) \/ ResolveUnsaved(c) \/ ResolveTorn(c)
      PROVE  ContinuationsOf(d)' # {}
  <2>1. \A k \in DOMAIN source : k \in DOMAIN source' /\ source'[k] = source[k]
    <3>1. source \in Seq(Clar) /\ source' = Append(source, c)
      BY <1>1, Typed DEF Inv, Resolve, ResolveUnsaved, ResolveTorn, NewContinuation
    <3> QED
      BY <3>1, AppendProperties, LenProperties
  <2> QED
    BY <2>1 DEF ContinuationsOf
<1>2. CASE UNCHANGED source
  BY <1>2 DEF ContinuationsOf
<1> QED
  BY <1>1, <1>2 DEF Next, Ask, AskTorn, GetPending, Expire, ResolveLate, Cancel, CancelUnsaved,
     Start, BuildRouter, BuildExecutor, Restart, continuations, vars

LEMMA AnswerContinues ==
    ASSUME Inv, NEW c \in Clar, Resolve(c) \/ ResolveUnsaved(c) \/ ResolveTorn(c)
    PROVE  ContinuationsOf(c)' # {}
<1>1. source \in Seq(Clar) /\ source' = Append(source, c)
  BY Typed DEF Inv, Resolve, ResolveUnsaved, ResolveTorn, NewContinuation
<1>2. Len(source) + 1 \in DOMAIN source' /\ source'[Len(source) + 1] = c
  BY <1>1, AppendProperties, LenProperties
<1> QED
  BY <1>2 DEF ContinuationsOf

\* No failing write and no crash loses an answer that is on record
\* (ClarificationService.resolve and its order of writes).
THEOREM NoAnswerWithoutContinuation == Spec => []ConsumedHasContinuation
<1>1. Init => ConsumedHasContinuation
  BY DEF Init, NoQuestions, ConsumedHasContinuation
<1>2. Inv /\ ConsumedHasContinuation /\ [Next]_vars => ConsumedHasContinuation'
  <2> SUFFICES ASSUME Inv, ConsumedHasContinuation, [Next]_vars, NEW d \in Clar,
                      disk'[d] = "consumed" \/ seen'[d] = "consumed"
               PROVE  ContinuationsOf(d)' # {}
    BY DEF ConsumedHasContinuation
  <2>1. CASE Resolve(d) \/ ResolveUnsaved(d) \/ ResolveTorn(d)
    BY <2>1, AnswerContinues
  <2>2. CASE ~(Resolve(d) \/ ResolveUnsaved(d) \/ ResolveTorn(d))
    <3>1. disk[d] = "consumed" \/ seen[d] = "consumed"
      BY <2>2, OnlyAnswersConsume DEF vars, questions
    <3> QED
      BY <3>1, ContinuationsStay DEF ConsumedHasContinuation
  <2> QED
    BY <2>1, <2>2
<1> QED
  BY <1>1, <1>2, ClarificationInit, ClarificationStep, PTL DEF Spec

------------------------------------------------------------------------------
(* Where continuations are lost                                            *)

\* The copy a has everything b has.
Covers(a, b) == \A k \in Cont : b[k] # "absent" => a[k] # "absent"

\* The router's copy is never behind the file, the executor's never ahead.
CopiesInOrder ==
    /\ up => Covers(contSeen, contDisk)
    /\ Covers(contDisk, contExec)

\* ContinuationsAreDurable does not hold; this says how it fails.  A record
\* leaves the file in one way only: ContinuationExecutor saves a copy it read
\* before the clarifications router added the record.  The router, whose copy
\* is as old as itself, never drops one.
LostByExecutorOnly ==
    [][\A k \in Cont : contDisk[k] # "absent" /\ contDisk'[k] = "absent" =>
            contExec[k] = "absent" /\ \E j \in Cont : Start(j)]_vars

\* What a step makes of the three copies.
LEMMA CopyKinds ==
    ASSUME Inv, [Next]_vars
    PROVE  \/ UNCHANGED <<contDisk, contSeen, contExec, up>>
           \/ BuildRouter
           \/ UNCHANGED <<contDisk, contSeen, up>> /\ contExec' = contDisk
           \/ \E k \in Cont : Start(k)
           \/ contDisk' = contDisk /\ contExec' = NoConts /\ ~up'
           \/ \E n \in Cont :
                /\ up
                /\ \/ /\ contSeen' = [contSeen EXCEPT ![n] = "created"] /\ contDisk' \in {contDisk, contSeen'}
                      /\ UNCHANGED <<contExec, up>>
                   \/ contDisk' = [contSeen EXCEPT ![n] = "created"] /\ contExec' = NoConts /\ ~up'
<1>1. ASSUME NEW c \in Clar, Resolve(c) \/ ResolveUnsaved(c)
      PROVE  \E n \in Cont :
                /\ up
                /\ contSeen' = [contSeen EXCEPT ![n] = "created"] /\ contDisk' \in {contDisk, contSeen'}
                /\ UNCHANGED <<contExec, up>>
  BY <1>1 DEF Resolve, ResolveUnsaved, NewContinuation, Answerable
<1>2. ASSUME NEW c \in Clar, ResolveTorn(c)
      PROVE  \E n \in Cont :
                up /\ contDisk' = [contSeen EXCEPT ![n] = "created"] /\ contExec' = NoConts /\ ~up'
  BY <1>2 DEF ResolveTorn, Forget, Answerable
<1>3. ASSUME NEW c \in Clar, Expire(c) \/ ResolveLate(c) \/ Cancel(c) \/ CancelUnsaved(c)
      PROVE  UNCHANGED <<contDisk, contSeen, contExec, up>>
  BY <1>3 DEF Expire, ResolveLate, Cancel, CancelUnsaved, continuations
<1>4. ASSUME NEW s, (\E q \in Requests : Ask(s, q) \/ AskTorn(s, q)) \/ GetPending(s)
      PROVE  UNCHANGED <<contDisk, contSeen, contExec, up>>
  BY <1>4 DEF Ask, AskTorn, GetPending, continuations
<1>5. BuildExecutor => UNCHANGED <<contDisk, contSeen, up>> /\ contExec' = contDisk
  BY DEF BuildExecutor, questions
<1>6. Restart => contDisk' = contDisk /\ contExec' = NoConts /\ ~up'
  BY DEF Restart, Forget
<1>7. UNCHANGED vars => UNCHANGED <<contDisk, contSeen, contExec, up>>
  BY DEF vars, questions, continuations
<1> QED
  BY <1>1, <1>2, <1>3, <1>4, <1>5, <1>6, <1>7 DEF Next

LEMMA CopiesStep ==
    ASSUME Inv, CopiesInOrder, [Next]_vars
    PROVE  /\ CopiesInOrder'
           /\ \A k \in Cont : contDisk[k] # "absent" /\ contDisk'[k] = "absent" =>
                    contExec[k] = "absent" /\ \E j \in Cont : Start(j)
<1>1. /\ contDisk \in [Cont -> ContState] /\ contSeen \in [Cont -> ContState] /\ contExec \in [Cont -> ContState]
  BY Before
<1>2. CASE UNCHANGED <<contDisk, contSeen, contExec, up>>
  BY <1>2 DEF CopiesInOrder, Covers
<1>3. CASE BuildRouter
  BY <1>3 DEF BuildRouter, CopiesInOrder, Covers
<1>4. CASE UNCHANGED <<contDisk, contSeen, up>> /\ contExec' = contDisk
  BY <1>4 DEF CopiesInOrder, Covers
<1>5. ASSUME NEW j \in Cont, Start(j)
      PROVE  /\ CopiesInOrder'
             /\ \A k \in Cont : contDisk[k] # "absent" /\ contDisk'[k] = "absent" => contExec[k] = "absent"
  <2>1. /\ contExec' = [contExec EXCEPT ![j] = "started"] /\ contExec[j] # "absent"
        /\ contDisk' = contExec' /\ UNCHANGED <<contSeen, up>>
    BY <1>5 DEF Start, questions
  <2>2. \A k \in Cont : contExec'[k] # "absent" <=> contExec[k] # "absent"
    BY <1>1, <2>1
  <2> QED
    BY <2>1, <2>2 DEF CopiesInOrder, Covers
<1>6. CASE contDisk' = contDisk /\ contExec' = NoConts /\ ~up'
  BY <1>6 DEF CopiesInOrder, Covers, NoConts
<1>7. ASSUME NEW n \in Cont, up, contSeen' = [contSeen EXCEPT ![n] = "created"],
             contDisk' \in {contDisk, contSeen'}, UNCHANGED <<contExec, up>>
      PROVE  CopiesInOrder' /\ \A k \in Cont : contDisk[k] # "absent" => contDisk'[k] # "absent"
  <2>1. \A k \in Cont : contDisk[k] # "absent" => contSeen'[k] # "absent"
    BY <1>1, <1>7 DEF CopiesInOrder, Covers
  <2> QED
    BY <1>7, <2>1 DEF CopiesInOrder, Covers
<1>8. ASSUME NEW n \in Cont, up, contDisk' = [contSeen EXCEPT ![n] = "created"], contExec' = NoConts, ~up'
      PROVE  CopiesInOrder' /\ \A k \in Cont : contDisk[k] # "absent" => contDisk'[k] # "absent"
  BY <1>1, <1>8 DEF CopiesInOrder, Covers, NoConts
<1> QED
  BY <1>2, <1>3, <1>4, <1>5, <1>6, <1>7, <1>8, CopyKinds DEF BuildRouter

\* Finding: continuations are lost, but only to a stale save of the executor
\* (ContinuationStore.put over the copy of get_continuation_executor).
THEOREM LossesAreLocated == Spec => LostByExecutorOnly
<1>1. Init => CopiesInOrder
  BY DEF Init, NoConts, CopiesInOrder, Covers
<1>2. Inv /\ CopiesInOrder /\ [Next]_vars => CopiesInOrder'
  BY CopiesStep
<1>3. Inv /\ CopiesInOrder /\ [Next]_vars =>
        [\A k \in Cont : contDisk[k] # "absent" /\ contDisk'[k] = "absent" =>
            contExec[k] = "absent" /\ \E j \in Cont : Start(j)]_vars
  BY CopiesStep
<1> QED
  BY <1>1, <1>2, <1>3, ClarificationInit, ClarificationStep, PTL DEF Spec, LostByExecutorOnly

=============================================================================
