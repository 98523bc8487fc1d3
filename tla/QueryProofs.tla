---------------------------- MODULE QueryProofs -----------------------------
(***************************************************************************)
(* Proofs about QueryPriority, for any queries, callers and number of      *)
(* queues, QueryCache, for any keys and SELECTs, ChangeLog, for any        *)
(* statements, subscribers and size of the log, and QueryTimeout, for any  *)
(* queries and timeouts.                                                   *)
(*                                                                         *)
(* QueryPriority: OnePlace is a sum of cardinalities, over all queues and  *)
(* all callers, and a step touches one of them. PriorityInv says the same  *)
(* of single places; that it implies OnePlace is counted once, at the end. *)
(*                                                                         *)
(* QueryCache: an entry is written from an answer that was read some steps *)
(* before. CacheInv says of the answers on their way what StaleOnlyByRace  *)
(* says of the entries.                                                    *)
(*                                                                         *)
(* ChangeLog: the two properties are inductive with the types; an event    *)
(* joins the log and a subscriber's events like a query joins a queue.     *)
(*                                                                         *)
(* QueryTimeout: a goroutine acts on a look at the map and on timers that  *)
(* both are past. MonitorKnows says what it may still conclude from them.  *)
(***************************************************************************)
EXTENDS QueryPriority, QueryCache, ChangeLog, QueryTimeout, TLAPS, FiniteSetTheorems, SequenceTheorems

(* The elements of a sequence, and that none of them is in it twice.       *)
Members(s) == {s[i] : i \in 1..Len(s)}
NoRepeats(s) == \A i, j \in 1..Len(s) : s[i] = s[j] => i = j

(* An element that is new to the sequence may join it at the end.          *)
LEMMA AppendMember ==
  ASSUME NEW S, NEW s \in Seq(S), NEW e \in S, NoRepeats(s), e \notin Members(s)
  PROVE  /\ Append(s, e) \in Seq(S) /\ NoRepeats(Append(s, e))
         /\ Members(Append(s, e)) = Members(s) \cup {e}
<1> DEFINE t == Append(s, e)
<1>1. /\ t \in Seq(S) /\ Len(t) = Len(s) + 1 /\ Len(s) \in Nat
      /\ \A i \in 1..Len(s) : t[i] = s[i]
      /\ t[Len(s) + 1] = e
  BY AppendProperties, LenProperties
<1> HIDE DEF t
<1>2. \A i \in 1..Len(t) : i \in 1..Len(s) \/ i = Len(s) + 1
  BY <1>1
<1>3. Members(t) = Members(s) \cup {e}
  <2>1. 1..Len(s) \subseteq 1..Len(t) /\ Len(s) + 1 \in 1..Len(t)
    BY <1>1
  <2> QED
    BY <1>1, <1>2, <2>1 DEF Members
<1>4. NoRepeats(t)
  BY <1>1, <1>2 DEF NoRepeats, Members
<1> QED
  BY <1>1, <1>3, <1>4 DEF t

(* Without its first element a sequence has all the others, once.          *)
LEMMA TailMembers ==
  ASSUME NEW S, NEW s \in Seq(S), s # <<>>, NoRepeats(s)
  PROVE  /\ Head(s) \in S /\ Head(s) \in Members(s)
         /\ Tail(s) \in Seq(S) /\ NoRepeats(Tail(s))
         /\ Members(Tail(s)) = Members(s) \ {Head(s)}
<1> DEFINE t == Tail(s)
           h == Head(s)
<1>1. /\ t \in Seq(S) /\ h \in S /\ h = s[1]
      /\ Len(t) = Len(s) - 1
      /\ \A i \in 1..Len(t) : t[i] = s[i + 1]
  BY HeadTailProperties
<1>2. Len(s) \in Nat \ {0}
  BY LenProperties, EmptySeq
<1> HIDE DEF t, h
<1>3. /\ \A i \in 1..Len(t) : i + 1 \in 1..Len(s) /\ i + 1 # 1
      /\ \A i \in 1..Len(s) : i = 1 \/ i - 1 \in 1..Len(t)
      /\ \A i \in 1..Len(s) : i - 1 + 1 = i
      /\ 1 \in 1..Len(s)
  BY <1>1, <1>2
<1>4. Members(t) \subseteq Members(s) \ {h}
  BY <1>1, <1>3 DEF Members, NoRepeats
<1>5. ASSUME NEW i \in 1..Len(s), s[i] # h
      PROVE  s[i] \in Members(t)
  <2>1. i - 1 \in 1..Len(t) /\ t[i - 1] = s[i]
    BY <1>1, <1>3, <1>5
  <2> QED
    BY <2>1 DEF Members
<1>6. NoRepeats(t)
  <2> SUFFICES ASSUME NEW i \in 1..Len(t), NEW j \in 1..Len(t), t[i] = t[j]
               PROVE  i = j
    BY DEF NoRepeats
  <2>1. i + 1 = j + 1
    BY <1>1, <1>3 DEF NoRepeats
  <2> QED
    BY <2>1, <1>1, <1>2
<1>7. h \in Members(s)
  BY <1>1, <1>3 DEF Members
<1>8. Members(t) = Members(s) \ {h}
  BY <1>4, <1>5 DEF Members
<1> QED
  BY <1>1, <1>6, <1>7, <1>8 DEF t, h

(* RemoveFirst, the loop of SetPriority over a queue, takes out one        *)
(* element and keeps the others in their order.                            *)
LEMMA WithoutMember ==
  ASSUME NEW S, NEW s \in Seq(S), NEW e, NoRepeats(s), Contains(s, e)
  PROVE  /\ RemoveFirst(s, e) \in Seq(S) /\ NoRepeats(RemoveFirst(s, e))
         /\ Members(RemoveFirst(s, e)) = Members(s) \ {e}
<1>1. PICK k \in 1..Len(s) : s[k] = e
  BY DEF Contains
<1>2. Len(s) \in Nat /\ \A i \in 1..Len(s) : s[i] \in S
  BY LenProperties
<1>3. SelectInSeq(s, LAMBDA v : v = e) = k
  <2> DEFINE I == {i \in 1..Len(s) : s[i] = e}
  <2>1. I = {k}
    BY <1>1 DEF NoRepeats
  <2>2. Min({k}) = k
    BY <1>1, <1>2 DEF Min
  <2>3. SelectInSeq(s, LAMBDA v : v = e) = IF I # {} THEN Min(I) ELSE 0
    BY DEF SelectInSeq
  <2> QED
    BY <2>1, <2>2, <2>3
<1>4. RemoveFirst(s, e) = SubSeq(s, 1, k - 1) \o SubSeq(s, k + 1, Len(s))
  BY <1>1, <1>3 DEF RemoveFirst, RemoveAt
<1>5. PICK a : a = SubSeq(s, 1, k - 1)
  OBVIOUS
<1>6. PICK b : b = SubSeq(s, k + 1, Len(s))
  OBVIOUS
<1>7. /\ a \in Seq(S) /\ Len(a) = k - 1
      /\ \A i \in 1..(k - 1) : a[i] = s[i]
  <2>1. k \in Int /\ 1 \in Int /\ k - 1 \in Int /\ \A i \in 1..(k - 1) : i \in 1..Len(s)
    BY <1>1, <1>2
  <2>2. /\ SubSeq(s, 1, k - 1) \in Seq(S)
        /\ Len(SubSeq(s, 1, k - 1)) = IF 1 <= k - 1 THEN k - 1 - 1 + 1 ELSE 0
        /\ \A i \in 1..(k - 1 - 1 + 1) : SubSeq(s, 1, k - 1)[i] = s[1 + i - 1]
    BY <1>2, <2>1, SubSeqProperties
  <2> QED
    BY <1>1, <1>2, <1>5, <2>1, <2>2
<1>8. /\ b \in Seq(S) /\ Len(b) = Len(s) - k
      /\ \A i \in 1..(Len(s) - k) : b[i] = s[k + i]
  <2>1. k + 1 \in Int /\ Len(s) \in Int /\ \A i \in (k + 1)..Len(s) : i \in 1..Len(s)
    BY <1>1, <1>2
  <2>2. /\ SubSeq(s, k + 1, Len(s)) \in Seq(S)
        /\ Len(SubSeq(s, k + 1, Len(s))) = IF k + 1 <= Len(s) THEN Len(s) - (k + 1) + 1 ELSE 0
        /\ \A i \in 1..(Len(s) - (k + 1) + 1) : SubSeq(s, k + 1, Len(s))[i] = s[(k + 1) + i - 1]
    BY <1>2, <2>1, SubSeqProperties
  <2> QED
    BY <1>1, <1>2, <1>6, <2>1, <2>2
<1>9. PICK t : t = a \o b
  OBVIOUS
<1>10. /\ t \in Seq(S) /\ Len(t) = Len(s) - 1
       /\ \A i \in 1..(Len(s) - 1) : t[i] = IF i < k THEN s[i] ELSE s[i + 1]
  <2>1. /\ a \o b \in Seq(S) /\ Len(a \o b) = Len(a) + Len(b)
        /\ \A i \in 1..(Len(a) + Len(b)) : (a \o b)[i] = IF i <= Len(a) THEN a[i] ELSE b[i - Len(a)]
    BY <1>7, <1>8, ConcatProperties
  <2>2. Len(a) + Len(b) = Len(s) - 1
    BY <1>1, <1>2, <1>7, <1>8
  <2>3. ASSUME NEW i \in 1..(Len(s) - 1)
        PROVE  t[i] = IF i < k THEN s[i] ELSE s[i + 1]
    <3>1. t[i] = IF i <= k - 1 THEN a[i] ELSE b[i - (k - 1)]
      BY <1>7, <1>9, <2>1, <2>2
    <3>2. CASE i < k
      <4>1. i <= k - 1 /\ i \in 1..(k - 1)
        BY <1>1, <1>2, <3>2
      <4> QED
        BY <1>7, <3>1, <3>2, <4>1
    <3>3. CASE ~(i < k)
      <4>1. ~(i <= k - 1) /\ i - (k - 1) \in 1..(Len(s) - k) /\ k + (i - (k - 1)) = i + 1
        BY <1>1, <1>2, <3>3
      <4> QED
        BY <1>8, <3>1, <3>3, <4>1
    <3> QED
      BY <3>2, <3>3
  <2> QED
    BY <1>9, <2>1, <2>2, <2>3
<1> DEFINE old(i) == IF i < k THEN i ELSE i + 1
<1>11. \A i \in 1..Len(t) : /\ old(i) \in 1..Len(s) /\ old(i) # k /\ t[i] = s[old(i)]
  BY <1>1, <1>2, <1>10
<1>12. ASSUME NEW i \in 1..Len(t), NEW j \in 1..Len(t), old(i) = old(j)
       PROVE  i = j
  BY <1>1, <1>2, <1>10, <1>12
<1>13. ASSUME NEW i \in 1..Len(s), i # k
       PROVE  \E j \in 1..Len(t) : old(j) = i
  <2>1. CASE i < k
    <3>1. i \in 1..Len(t) /\ old(i) = i
      BY <1>1, <1>2, <1>10, <2>1
    <3> QED
      BY <3>1
  <2>2. CASE ~(i < k)
    <3>1. i - 1 \in 1..Len(t) /\ old(i - 1) = i
      BY <1>1, <1>2, <1>10, <1>13, <2>2
    <3> QED
      BY <3>1
  <2> QED
    BY <2>1, <2>2
<1> HIDE DEF old
<1>14. NoRepeats(t)
  BY <1>11, <1>12 DEF NoRepeats
<1>15. Members(t) = Members(s) \ {e}
  <2>1. ASSUME NEW x \in Members(t)
        PROVE  x \in Members(s) \ {e}
    BY <1>1, <1>11, <2>1 DEF Members, NoRepeats
  <2>2. ASSUME NEW x \in Members(s) \ {e}
        PROVE  x \in Members(t)
    BY <1>1, <1>11, <1>13, <2>2 DEF Members
  <2> QED
    BY <2>1, <2>2
<1> QED
  BY <1>4, <1>5, <1>6, <1>9, <1>10, <1>14, <1>15

-----------------------------------------------------------------------------
(* What a caller may be at.                                                *)
Tasks == [op : {"idle", "dequeue", "clear", "find", "move"},
          left : SUBSET Priorities, query : Queries \cup {NoQuery}, to : Requested]

(* A query is in the queue of p; it is in the hands of a SetPriority.      *)
Waits(q, p) == q \in Members(queues[p])
HeldBy(q, c) == task[c].op = "move" /\ task[c].query = q

(* One query is in one place at most, in one exactly while it is queued.   *)
Placed(q) ==
  /\ \A p, r \in Priorities : Waits(q, p) /\ Waits(q, r) => p = r
  /\ \A c, d \in Callers : HeldBy(q, c) /\ HeldBy(q, d) => c = d
  /\ \A p \in Priorities, c \in Callers : ~(Waits(q, p) /\ HeldBy(q, c))
  /\ fate[q] = "queued" <=>
       (\E p \in Priorities : Waits(q, p)) \/ (\E c \in Callers : HeldBy(q, c))

(* OnePlace counts places; the induction needs them one by one: no queue   *)
(* holds a query twice, no two queues hold it, and none while a            *)
(* SetPriority does. A SetPriority that searches looks for a query, not    *)
(* for none.                                                               *)
PriorityInv ==
  /\ PriorityTypeOK
  /\ \A p \in Priorities : NoRepeats(queues[p])
  /\ \A q \in Queries : Placed(q)
  /\ \A c \in Callers : task[c].op \in {"find", "move"} => task[c].query \in Queries

(* The types, for use in steps that do not expand them.                    *)
LEMMA PriorityTyped ==
  ASSUME PriorityInv
  PROVE  /\ queues \in [Priorities -> Seq(Queries)] /\ task \in [Callers -> Tasks]
         /\ fate \in [Queries -> {"new", "refused", "queued", "served", "cleared", "lost"}]
         /\ \A p \in Priorities : queues[p] \in Seq(Queries) /\ NoRepeats(queues[p])
BY DEF PriorityInv, PriorityTypeOK, Tasks

(* A caller between two tasks is at none.                                  *)
LEMMA IdleTask == Idle \in Tasks /\ Idle.op = "idle"
BY DEF Idle, Tasks, Requested

(* An empty queue holds nothing.                                           *)
LEMMA NothingWaits == <<>> \in Seq(Queries) /\ NoRepeats(<<>>) /\ Members(<<>>) = {}
BY EmptySeq DEF NoRepeats, Members

(* In the initial state no query is anywhere.                              *)
LEMMA PriorityStarts == PriorityInit => PriorityInv
<1> SUFFICES ASSUME PriorityInit PROVE PriorityInv
  OBVIOUS
<1>1. /\ \A p \in Priorities : queues[p] = <<>>
      /\ \A c \in Callers : task[c] = Idle
      /\ \A q \in Queries : fate[q] = "new"
  BY DEF PriorityInit
<1>2. PriorityTypeOK
  <2>1. queues \in [Priorities -> Seq(Queries)]
    BY NothingWaits DEF PriorityInit
  <2>2. task \in [Callers -> Tasks]
    BY IdleTask DEF PriorityInit
  <2>3. fate \in [Queries -> {"new", "refused", "queued", "served", "cleared", "lost"}]
    BY DEF PriorityInit
  <2> QED
    BY <2>1, <2>2, <2>3 DEF PriorityTypeOK, Tasks
<1>3. /\ \A p \in Priorities : NoRepeats(queues[p])
      /\ \A q \in Queries, p \in Priorities : ~Waits(q, p)
  BY <1>1, NothingWaits DEF Waits
<1>4. \A c \in Callers : task[c].op = "idle"
  BY <1>1, IdleTask
<1> QED
  BY <1>1, <1>2, <1>3, <1>4 DEF PriorityInv, Placed, HeldBy

(* One queue changes, or one task, or both.                                *)
LEMMA QueueChanges ==
  ASSUME PriorityInv, NEW p \in Priorities, NEW s \in Seq(Queries), NoRepeats(s),
         queues' = [queues EXCEPT ![p] = s]
  PROVE  /\ queues' \in [Priorities -> Seq(Queries)]
         /\ \A r \in Priorities : NoRepeats(queues'[r])
         /\ \A q \in Queries, r \in Priorities :
              Waits(q, r)' <=> IF r = p THEN q \in Members(s) ELSE Waits(q, r)
<1>1. queues' \in [Priorities -> Seq(Queries)]
  BY PriorityTyped
<1>2. \A r \in Priorities : queues'[r] = IF r = p THEN s ELSE queues[r]
  BY PriorityTyped
<1> QED
  BY <1>1, <1>2, PriorityTyped DEF Waits

(* One caller goes on to another task, or to its next queue.               *)
LEMMA TaskChanges ==
  ASSUME PriorityInv, NEW c \in Callers, NEW now \in Tasks,
         task' = [task EXCEPT ![c] = now]
  PROVE  /\ task' \in [Callers -> Tasks] /\ task'[c] = now
         /\ \A d \in Callers : d # c => task'[d] = task[d]
         /\ \A q \in Queries, d \in Callers :
              HeldBy(q, d)' <=> IF d = c THEN now.op = "move" /\ now.query = q ELSE HeldBy(q, d)
<1>1. task \in [Callers -> Tasks]
  BY PriorityTyped
<1>2. /\ task' \in [Callers -> Tasks] /\ task'[c] = now
      /\ \A d \in Callers : d # c => task'[d] = task[d]
  BY <1>1
<1> QED
  BY <1>2 DEF HeldBy

(* A task that begins, goes on or ends and holds no query before or after. *)
LEMMA TaskGoesOn ==
  ASSUME PriorityInv, NEW c \in Callers, NEW now \in Tasks,
         task' = [task EXCEPT ![c] = now],
         task[c].op # "move", now.op # "move", now.op = "find" => now.query \in Queries,
         UNCHANGED <<queues, fate>>
  PROVE  PriorityInv'
<1>1. /\ task' \in [Callers -> Tasks] /\ task'[c] = now
      /\ \A d \in Callers : d # c => task'[d] = task[d]
      /\ \A q \in Queries, d \in Callers : HeldBy(q, d)' <=> HeldBy(q, d)
  BY TaskChanges DEF HeldBy
<1>2. PriorityTypeOK'
  BY <1>1, PriorityTyped DEF PriorityTypeOK, Tasks
<1>3. \A q \in Queries : Placed(q)'
  BY <1>1 DEF PriorityInv, Placed, Waits
<1>4. \A d \in Callers : task'[d].op \in {"find", "move"} => task'[d].query \in Queries
  BY <1>1 DEF PriorityInv
<1> QED
  BY <1>2, <1>3, <1>4 DEF PriorityInv

-----------------------------------------------------------------------------
(* The steps that only look: a task begins, a queue without the query is   *)
(* passed by, and a task gives up.                                         *)
LEMMA TaskSteps ==
  ASSUME PriorityInv, NEW c \in Callers,
         \/ StartTask(c, "dequeue", NoQuery, 0) \/ StartTask(c, "clear", NoQuery, 0)
         \/ \E q \in Queries, to \in Requested : StartTask(c, "find", q, to)
         \/ GiveUp(c)
         \/ UNCHANGED <<queues, fate>> /\ task[c].op # "move"
              /\ \E p \in Priorities : NextQueue(c, p)
  PROVE  PriorityInv'
<1>0. task \in [Callers -> Tasks] /\ task[c] \in Tasks
  BY PriorityTyped
<1>1. ASSUME NEW op \in {"dequeue", "clear", "find"}, NEW q \in Queries \cup {NoQuery},
             NEW to \in Requested, op = "find" => q \in Queries, StartTask(c, op, q, to)
      PROVE  PriorityInv'
  <2> DEFINE now == [op |-> op, left |-> Priorities, query |-> q, to |-> to]
  <2>1. now \in Tasks /\ now.op = op /\ now.query = q /\ op # "move"
    BY DEF Tasks
  <2>2. /\ task[c].op # "move" /\ task' = [task EXCEPT ![c] = now] /\ UNCHANGED <<queues, fate>>
    BY <1>1, IdleTask DEF StartTask
  <2> HIDE DEF now
  <2> QED
    BY <1>1, <2>1, <2>2, TaskGoesOn
<1>2. CASE GiveUp(c)
  <2>1. /\ task[c].op # "move" /\ task' = [task EXCEPT ![c] = Idle] /\ UNCHANGED <<queues, fate>>
    BY <1>2 DEF GiveUp, Finish
  <2> QED
    BY <2>1, IdleTask, TaskGoesOn
<1>3. ASSUME UNCHANGED <<queues, fate>>, task[c].op # "move", NEW p \in Priorities, NextQueue(c, p)
      PROVE  PriorityInv'
  <2> DEFINE now == [task[c] EXCEPT !.left = @ \ {p}]
  <2>1. now \in Tasks /\ now.op = task[c].op /\ now.query = task[c].query
    BY <1>0 DEF Tasks
  <2>2. task' = [task EXCEPT ![c] = now]
    BY <1>0, <1>3 DEF NextQueue
  <2>3. now.op = "find" => now.query \in Queries
    BY <2>1 DEF PriorityInv
  <2> HIDE DEF now
  <2> QED
    BY <1>3, <2>1, <2>2, <2>3, TaskGoesOn
<1>4. 0 \in Requested
  BY DEF Requested
<1> QED
  BY <1>1, <1>2, <1>3, <1>4

(* Enqueue: the query was nowhere, and is in one queue afterwards.         *)
LEMMA EnqueueStep ==
  ASSUME PriorityInv, NEW q \in Queries, NEW p \in Requested, Enqueue(q, p)
  PROVE  PriorityInv'
<1>1. fate[q] = "new" /\ UNCHANGED task
  BY DEF Enqueue
<1>2. /\ \A r \in Priorities : ~Waits(q, r)
      /\ \A c \in Callers : ~HeldBy(q, c)
  BY <1>1 DEF PriorityInv, Placed
<1>3. CASE p \in Priorities /\ Len(queues[p]) < MaxQueueSize
  <2> DEFINE s == Append(queues[p], q)
  <2>1. queues' = [queues EXCEPT ![p] = s] /\ fate' = [fate EXCEPT ![q] = "queued"]
    BY <1>3 DEF Enqueue
  <2>2. s \in Seq(Queries) /\ NoRepeats(s) /\ Members(s) = Members(queues[p]) \cup {q}
    BY <1>2, <1>3, PriorityTyped, AppendMember DEF Waits
  <2> HIDE DEF s
  <2>3. /\ queues' \in [Priorities -> Seq(Queries)]
        /\ \A r \in Priorities : NoRepeats(queues'[r])
        /\ \A x \in Queries, r \in Priorities :
              Waits(x, r)' <=> IF r = p THEN x \in Members(s) ELSE Waits(x, r)
    BY <1>3, <2>1, <2>2, QueueChanges
  <2>4. fate' \in [Queries -> {"new", "refused", "queued", "served", "cleared", "lost"}]
    BY <2>1, PriorityTyped
  <2>5. PriorityTypeOK'
    BY <1>1, <2>3, <2>4, PriorityTyped DEF PriorityTypeOK, Tasks
  <2>6. \A x \in Queries, r \in Priorities : Waits(x, r)' <=> Waits(x, r) \/ (x = q /\ r = p)
    BY <1>3, <2>2, <2>3 DEF Waits
  <2>7. \A x \in Queries, c \in Callers : HeldBy(x, c)' <=> HeldBy(x, c)
    BY <1>1 DEF HeldBy
  <2>8. \A x \in Queries : fate'[x] = IF x = q THEN "queued" ELSE fate[x]
    BY <2>1, PriorityTyped
  <2>9. ASSUME NEW x \in Queries
        PROVE  Placed(x)'
    <3>1. Placed(x)
      BY DEF PriorityInv
    <3>2. CASE x = q
      BY <1>2, <1>3, <2>6, <2>7, <2>8, <3>2 DEF Placed
    <3>3. CASE x # q
      BY <2>6, <2>7, <2>8, <3>1, <3>3 DEF Placed
    <3> QED
      BY <3>2, <3>3
  <2> QED
    BY <1>1, <2>3, <2>5, <2>9 DEF PriorityInv
<1>4. CASE ~(p \in Priorities /\ Len(queues[p]) < MaxQueueSize)
  <2>1. UNCHANGED queues /\ fate' = [fate EXCEPT ![q] = "refused"]
    BY <1>4 DEF Enqueue
  <2>2. /\ fate' \in [Queries -> {"new", "refused", "queued", "served", "cleared", "lost"}]
        /\ \A x \in Queries : fate'[x] = "queued" <=> fate[x] = "queued"
    BY <1>1, <2>1, PriorityTyped
  <2>3. PriorityTypeOK'
    BY <1>1, <2>1, <2>2 DEF PriorityInv, PriorityTypeOK
  <2>4. ASSUME NEW x \in Queries
        PROVE  Placed(x)'
    <3>1. Placed(x) /\ (fate'[x] = "queued" <=> fate[x] = "queued")
      BY <2>2 DEF PriorityInv
    <3> QED
      BY <1>1, <2>1, <3>1 DEF Placed, Waits, HeldBy
  <2> QED
    BY <1>1, <2>1, <2>3, <2>4 DEF PriorityInv
<1> QED
  BY <1>3, <1>4

(* Queries leave a queue for good, and nobody's hands change.              *)
LEMMA QueriesLeave ==
  ASSUME PriorityInv, NEW p \in Priorities, NEW gone \in SUBSET Members(queues[p]),
         NEW s \in Seq(Queries), NoRepeats(s), Members(s) = Members(queues[p]) \ gone,
         queues' = [queues EXCEPT ![p] = s],
         fate' \in [Queries -> {"new", "refused", "queued", "served", "cleared", "lost"}],
         \A q \in Queries : IF q \in gone THEN fate'[q] # "queued" ELSE fate'[q] = fate[q],
         NEW c \in Callers, NEW now \in Tasks, task' = [task EXCEPT ![c] = now],
         task[c].op \notin {"find", "move"}, now.op \notin {"find", "move"}
  PROVE  PriorityInv'
<1>1. /\ queues' \in [Priorities -> Seq(Queries)]
      /\ \A r \in Priorities : NoRepeats(queues'[r])
      /\ \A q \in Queries, r \in Priorities :
            Waits(q, r)' <=> IF r = p THEN q \in Members(s) ELSE Waits(q, r)
  BY QueueChanges
<1>2. /\ task' \in [Callers -> Tasks] /\ task'[c] = now
      /\ \A d \in Callers : d # c => task'[d] = task[d]
      /\ \A q \in Queries, d \in Callers : HeldBy(q, d)' <=> HeldBy(q, d)
  <2>1. /\ task' \in [Callers -> Tasks] /\ task'[c] = now
        /\ \A d \in Callers : d # c => task'[d] = task[d]
        /\ \A q \in Queries, d \in Callers :
             HeldBy(q, d)' <=> IF d = c THEN now.op = "move" /\ now.query = q ELSE HeldBy(q, d)
    BY TaskChanges
  <2>2. task[c].op # "move" /\ now.op # "move"
    OBVIOUS
  <2> QED
    BY <2>1, <2>2 DEF HeldBy
<1>3. PriorityTypeOK'
  BY <1>1, <1>2 DEF PriorityTypeOK, Tasks
<1>4. ASSUME NEW q \in Queries
      PROVE  Placed(q)'
  <2>1. Placed(q)
    BY DEF PriorityInv
  <2>2. CASE q \in gone
    <3>1. Waits(q, p) /\ fate'[q] # "queued"
      BY <2>2 DEF Waits
    <3>2. /\ \A r \in Priorities : ~Waits(q, r)'
          /\ \A d \in Callers : ~HeldBy(q, d)'
      BY <1>1, <1>2, <2>1, <2>2, <3>1 DEF Placed
    <3> QED
      BY <3>1, <3>2 DEF Placed
  <2>3. CASE q \notin gone
    <3>1. /\ \A r \in Priorities : Waits(q, r)' <=> Waits(q, r)
          /\ fate'[q] = fate[q]
      BY <1>1, <2>3 DEF Waits
    <3> QED
      BY <1>2, <2>1, <3>1 DEF Placed
  <2> QED
    BY <2>2, <2>3
<1>5. \A d \in Callers : task'[d].op \in {"find", "move"} => task'[d].query \in Queries
  BY <1>2 DEF PriorityInv
<1> QED
  BY <1>1, <1>3, <1>4, <1>5 DEF PriorityInv

(* Dequeue serves the first query of a queue.                              *)
LEMMA DequeueStep ==
  ASSUME PriorityInv, NEW c \in Callers, NEW p \in Priorities, Dequeue(c, p)
  PROVE  PriorityInv'
<1>0. task[c].op = "dequeue"
  BY DEF Dequeue, Visits
<1>1. CASE queues[p] = <<>>
  <2>1. NextQueue(c, p) /\ UNCHANGED <<queues, fate>>
    BY <1>1 DEF Dequeue
  <2> QED
    BY <1>0, <2>1, TaskSteps
<1>2. CASE queues[p] # <<>>
  <2> DEFINE h == Head(queues[p])
             s == Tail(queues[p])
  <2>1. /\ fate' = [fate EXCEPT ![h] = "served"] /\ queues' = [queues EXCEPT ![p] = s]
        /\ task' = [task EXCEPT ![c] = Idle]
    BY <1>2 DEF Dequeue, Finish
  <2>2. /\ h \in Queries /\ h \in Members(queues[p]) /\ s \in Seq(Queries) /\ NoRepeats(s)
        /\ Members(s) = Members(queues[p]) \ {h}
    BY <1>2, PriorityTyped, TailMembers
  <2> HIDE DEF h, s
  <2>3. /\ fate' \in [Queries -> {"new", "refused", "queued", "served", "cleared", "lost"}]
        /\ \A q \in Queries : IF q \in {h} THEN fate'[q] # "queued" ELSE fate'[q] = fate[q]
    BY <2>1, <2>2, PriorityTyped
  <2>4. task[c].op \notin {"find", "move"} /\ Idle.op \notin {"find", "move"}
    BY <1>0, IdleTask
  <2> QED
    BY <2>1, <2>2, <2>3, <2>4, IdleTask, QueriesLeave
<1> QED
  BY <1>1, <1>2

(* ClearQueues empties one queue.                                          *)
LEMMA ClearStep ==
  ASSUME PriorityInv, NEW c \in Callers, NEW p \in Priorities, ClearQueues(c, p)
  PROVE  PriorityInv'
<1> DEFINE now == [task[c] EXCEPT !.left = @ \ {p}]
           gone == Members(queues[p])
<1>1. /\ task[c].op = "clear" /\ queues' = [queues EXCEPT ![p] = <<>>]
      /\ fate' = [q \in Queries |-> IF Contains(queues[p], q) THEN "cleared" ELSE fate[q]]
  BY DEF ClearQueues, Visits
<1>2. task' = [task EXCEPT ![c] = now]
  <2>1. task \in [Callers -> Tasks]
    BY PriorityTyped
  <2> QED
    BY <2>1 DEF ClearQueues, NextQueue
<1>3. now \in Tasks /\ now.op = "clear"
  <2>1. task[c] \in Tasks
    BY PriorityTyped
  <2> QED
    BY <1>1, <2>1 DEF Tasks
<1>4. \A q \in Queries : Contains(queues[p], q) <=> q \in gone
  BY DEF Contains, Members
<1>5. /\ fate' \in [Queries -> {"new", "refused", "queued", "served", "cleared", "lost"}]
      /\ \A q \in Queries : IF q \in gone THEN fate'[q] # "queued" ELSE fate'[q] = fate[q]
  BY <1>1, <1>4, PriorityTyped
<1>6. Members(<<>>) = gone \ gone /\ gone \in SUBSET Members(queues[p])
  BY NothingWaits
<1>7. task[c].op \notin {"find", "move"} /\ now.op \notin {"find", "move"}
  BY <1>1, <1>3
<1> HIDE DEF now
<1> QED
  BY <1>1, <1>2, <1>3, <1>5, <1>6, <1>7, NothingWaits, QueriesLeave

(* A query is taken in the hands of c, or put back.                        *)
LEMMA HandOver ==
  ASSUME PriorityInv, PriorityTypeOK', NEW q \in Queries, NEW c \in Callers,
         \A r \in Priorities : NoRepeats(queues'[r]),
         UNCHANGED fate, fate[q] = "queued",
         \A x \in Queries, r \in Priorities : x # q => (Waits(x, r)' <=> Waits(x, r)),
         \A x \in Queries, d \in Callers : x # q => (HeldBy(x, d)' <=> HeldBy(x, d)),
         \/ /\ \A r \in Priorities : ~Waits(q, r)'
            /\ \A d \in Callers : HeldBy(q, d)' <=> d = c
         \/ /\ \A d \in Callers : ~HeldBy(q, d)'
            /\ \E p \in Priorities : \A r \in Priorities : Waits(q, r)' <=> r = p,
         \A d \in Callers : task'[d].op \in {"find", "move"} => task'[d].query \in Queries
  PROVE  PriorityInv'
<1>1. ASSUME NEW x \in Queries
      PROVE  Placed(x)'
  <2>1. CASE x # q
    <3>1. Placed(x) /\ fate'[x] = fate[x]
      BY DEF PriorityInv
    <3> QED
      BY <2>1, <3>1 DEF Placed
  <2>2. CASE x = q
    <3>1. fate'[q] = "queued"
      OBVIOUS
    <3> QED
      BY <2>2, <3>1 DEF Placed
  <2> QED
    BY <2>1, <2>2
<1> QED
  BY <1>1 DEF PriorityInv

(* SetPriority takes the query out of the queue it finds it in ...         *)
LEMMA FindStep ==
  ASSUME PriorityInv, NEW c \in Callers, NEW p \in Priorities, FindToMove(c, p)
  PROVE  PriorityInv'
<1>q. PICK q : q = task[c].query
  OBVIOUS
<1>0. /\ task[c].op = "find" /\ q \in Queries /\ UNCHANGED fate
      /\ task \in [Callers -> Tasks] /\ task[c] \in Tasks
  BY <1>q, PriorityTyped DEF FindToMove, Visits, PriorityInv
<1>1. CASE ~Contains(queues[p], q)
  <2>1. NextQueue(c, p) /\ UNCHANGED <<queues, fate>>
    BY <1>q, <1>1 DEF FindToMove
  <2>2. task[c].op # "move"
    BY <1>0
  <2> QED
    BY <2>1, <2>2, TaskSteps
<1>2. CASE Contains(queues[p], q)
  <2> DEFINE now == [task[c] EXCEPT !.op = "move", !.left = {}]
             s == RemoveFirst(queues[p], q)
  <2>1. /\ queues' = [queues EXCEPT ![p] = s]
        /\ task' = [task EXCEPT ![c] = now]
    BY <1>q, <1>0, <1>2 DEF FindToMove
  <2>2. /\ s \in Seq(Queries) /\ NoRepeats(s) /\ Members(s) = Members(queues[p]) \ {q}
    BY <1>2, PriorityTyped, WithoutMember
  <2>3. now \in Tasks /\ now.op = "move" /\ now.query = q
    BY <1>q, <1>0 DEF Tasks
  <2>4. q \in Members(queues[p])
    BY <1>2 DEF Contains, Members
  <2> HIDE DEF now, s
  <2>5. /\ queues' \in [Priorities -> Seq(Queries)]
        /\ \A r \in Priorities : NoRepeats(queues'[r])
        /\ \A x \in Queries, r \in Priorities :
              Waits(x, r)' <=> IF r = p THEN x \in Members(s) ELSE Waits(x, r)
    BY <2>1, <2>2, QueueChanges
  <2>6. /\ task' \in [Callers -> Tasks] /\ task'[c] = now
        /\ \A d \in Callers : d # c => task'[d] = task[d]
        /\ \A x \in Queries, d \in Callers :
             HeldBy(x, d)' <=> IF d = c THEN now.op = "move" /\ now.query = x ELSE HeldBy(x, d)
    BY <2>1, <2>3, TaskChanges
  <2>7. Placed(q) /\ Waits(q, p)
    BY <1>0, <2>4 DEF PriorityInv, Waits
  <2>8. /\ \A r \in Priorities : ~Waits(q, r)'
        /\ \A d \in Callers : HeldBy(q, d)' <=> d = c
        /\ fate[q] = "queued"
    BY <1>0, <2>2, <2>3, <2>5, <2>6, <2>7 DEF Placed
  <2>9. /\ \A x \in Queries, r \in Priorities : x # q => (Waits(x, r)' <=> Waits(x, r))
        /\ \A x \in Queries, d \in Callers : x # q => (HeldBy(x, d)' <=> HeldBy(x, d))
    <3>1. \A x \in Queries : ~HeldBy(x, c)
      BY <1>0 DEF HeldBy
    <3> QED
      BY <2>2, <2>3, <2>5, <2>6, <3>1 DEF Waits
  <2>10. PriorityTypeOK'
    BY <1>0, <2>5, <2>6, PriorityTyped DEF PriorityTypeOK, Tasks
  <2>11. \A d \in Callers : task'[d].op \in {"find", "move"} => task'[d].query \in Queries
    BY <1>0, <2>3, <2>6 DEF PriorityInv
  <2> QED
    BY <1>0, <2>5, <2>8, <2>9, <2>10, <2>11, HandOver
<1> QED
  BY <1>1, <1>2

(* ... and appends it to the other, where it cannot be: it was in its      *)
(* hands. A priority of no queue loses it.                                 *)
LEMMA MoveStep ==
  ASSUME PriorityInv, NEW c \in Callers, MoveTo(c)
  PROVE  PriorityInv'
<1>q. PICK q : q = task[c].query
  OBVIOUS
<1>p. PICK p : p = task[c].to
  OBVIOUS
<1>0. /\ task[c].op = "move" /\ q \in Queries /\ task' = [task EXCEPT ![c] = Idle]
  BY <1>q DEF MoveTo, Finish, PriorityInv
<1>1. Placed(q) /\ HeldBy(q, c)
  BY <1>q, <1>0 DEF PriorityInv, HeldBy
<1>2. /\ task' \in [Callers -> Tasks] /\ task'[c] = Idle
      /\ \A d \in Callers : d # c => task'[d] = task[d]
      /\ \A x \in Queries, d \in Callers :
           HeldBy(x, d)' <=> IF d = c THEN Idle.op = "move" /\ Idle.query = x ELSE HeldBy(x, d)
  BY <1>0, IdleTask, TaskChanges
<1>3. /\ \A d \in Callers : ~HeldBy(q, d)'
      /\ \A x \in Queries, d \in Callers : x # q => (HeldBy(x, d)' <=> HeldBy(x, d))
  <2>1. \A x \in Queries : HeldBy(x, c) => x = q
    BY <1>q DEF HeldBy
  <2> QED
    BY <1>0, <1>1, <1>2, <2>1, IdleTask DEF Placed
<1>4. \A d \in Callers : task'[d].op \in {"find", "move"} => task'[d].query \in Queries
  <2>1. Idle.op \notin {"find", "move"}
    BY IdleTask
  <2> QED
    BY <1>2, <2>1 DEF PriorityInv
<1>5. \A r \in Priorities : ~Waits(q, r)
  BY <1>0, <1>1 DEF Placed
<1>6. fate[q] = "queued"
  BY <1>0, <1>1 DEF Placed
<1>7. CASE p \in Priorities
  <2> DEFINE s == Append(queues[p], q)
  <2>1. queues' = [queues EXCEPT ![p] = s] /\ UNCHANGED fate
    BY <1>q, <1>p, <1>7 DEF MoveTo
  <2>2. s \in Seq(Queries) /\ NoRepeats(s) /\ Members(s) = Members(queues[p]) \cup {q}
    BY <1>0, <1>5, <1>7, PriorityTyped, AppendMember DEF Waits
  <2> HIDE DEF s
  <2>3. /\ queues' \in [Priorities -> Seq(Queries)]
        /\ \A r \in Priorities : NoRepeats(queues'[r])
        /\ \A x \in Queries, r \in Priorities :
              Waits(x, r)' <=> IF r = p THEN x \in Members(s) ELSE Waits(x, r)
    BY <1>7, <2>1, <2>2, QueueChanges
  <2>4. /\ \A x \in Queries, r \in Priorities : x # q => (Waits(x, r)' <=> Waits(x, r))
        /\ \A r \in Priorities : Waits(q, r)' <=> r = p
    BY <1>0, <1>5, <2>2, <2>3 DEF Waits
  <2>5. PriorityTypeOK'
    BY <1>2, <2>1, <2>3, PriorityTyped DEF PriorityTypeOK, Tasks
  <2> QED
    BY <1>0, <1>3, <1>4, <1>6, <1>7, <2>1, <2>3, <2>4, <2>5, HandOver
<1>8. CASE p \notin Priorities
  <2>1. UNCHANGED queues /\ fate' = [fate EXCEPT ![q] = "lost"]
    BY <1>q, <1>p, <1>8 DEF MoveTo
  <2>2. /\ fate' \in [Queries -> {"new", "refused", "queued", "served", "cleared", "lost"}]
        /\ fate'[q] = "lost" /\ \A x \in Queries : x # q => fate'[x] = fate[x]
    BY <1>0, <2>1, PriorityTyped
  <2>3. PriorityTypeOK'
    BY <1>2, <2>1, <2>2, PriorityTyped DEF PriorityTypeOK, Tasks
  <2>4. \A x \in Queries, r \in Priorities : Waits(x, r)' <=> Waits(x, r)
    BY <2>1 DEF Waits
  <2>5. ASSUME NEW x \in Queries
        PROVE  Placed(x)'
    <3>1. CASE x = q
      BY <1>3, <1>5, <2>2, <2>4, <3>1 DEF Placed
    <3>2. CASE x # q
      <4>1. Placed(x)
        BY DEF PriorityInv
      <4> QED
        BY <1>3, <2>2, <2>4, <3>2, <4>1 DEF Placed
    <3> QED
      BY <3>1, <3>2
  <2> QED
    BY <1>4, <2>1, <2>3, <2>5 DEF PriorityInv
<1> QED
  BY <1>7, <1>8

(* Every step keeps the invariant.                                         *)
LEMMA PrioritySteps ==
  ASSUME PriorityInv, [PriorityNext]_priorityVars
  PROVE  PriorityInv'
<1>1. CASE UNCHANGED priorityVars
  BY <1>1 DEF priorityVars, PriorityInv, PriorityTypeOK, Placed, Waits, HeldBy
<1>2. CASE PriorityNext
  BY <1>2, EnqueueStep, TaskSteps, DequeueStep, ClearStep, FindStep, MoveStep DEF PriorityNext
<1> QED
  BY <1>1, <1>2

(* What the places of a query and those that hold it number.               *)
LEMMA PlacesCounted ==
  ASSUME PriorityInv, NEW q \in Queries
  PROVE  Cardinality(PlacesOf(q)) = IF \E p \in Priorities : Waits(q, p) THEN 1 ELSE 0
<1>1. \A x : x \in PlacesOf(q) <=>
        \E p \in Priorities : \E i \in 1..Len(queues[p]) : x = <<p, i>> /\ queues[p][i] = q
  <2>1. \A p \in Priorities : DOMAIN queues[p] = 1..Len(queues[p])
    BY PriorityTyped, LenProperties
  <2> QED
    BY <2>1 DEF PlacesOf
<1>2. CASE \E p \in Priorities : Waits(q, p)
  <2>0. PICK p \in Priorities : Waits(q, p)
    BY <1>2
  <2>1. PICK i \in 1..Len(queues[p]) : queues[p][i] = q
    BY <2>0 DEF Waits, Members
  <2>2. ASSUME NEW r \in Priorities, NEW j \in 1..Len(queues[r]), queues[r][j] = q
        PROVE  r = p /\ j = i
    <3>1. Placed(q) /\ Waits(q, p) /\ Waits(q, r)
      BY <2>1, <2>2 DEF PriorityInv, Waits, Members
    <3>2. r = p
      BY <3>1 DEF Placed
    <3> QED
      BY <2>1, <2>2, <3>2, PriorityTyped DEF NoRepeats
  <2>3. PlacesOf(q) = {<<p, i>>}
    BY <1>1, <2>1, <2>2
  <2> QED
    BY <1>2, <2>3, FS_Singleton
<1>3. CASE ~\E p \in Priorities : Waits(q, p)
  <2>1. PlacesOf(q) = {}
    BY <1>1, <1>3 DEF Waits, Members
  <2> QED
    BY <1>3, <2>1, FS_EmptySet
<1> QED
  BY <1>2, <1>3

(* So do the hands it is in.                                               *)
LEMMA HandsCounted ==
  ASSUME PriorityInv, NEW q \in Queries
  PROVE  Cardinality(MoversOf(q)) = IF \E c \in Callers : HeldBy(q, c) THEN 1 ELSE 0
<1>1. MoversOf(q) = {c \in Callers : HeldBy(q, c)}
  BY DEF MoversOf, HeldBy
<1>2. CASE \E c \in Callers : HeldBy(q, c)
  <2>1. PICK c \in Callers : HeldBy(q, c)
    BY <1>2
  <2>2. MoversOf(q) = {c}
    BY <1>1, <2>1 DEF PriorityInv, Placed
  <2> QED
    BY <1>2, <2>2, FS_Singleton
<1>3. CASE ~\E c \in Callers : HeldBy(q, c)
  <2>1. MoversOf(q) = {}
    BY <1>1, <1>3
  <2> QED
    BY <1>3, <2>1, FS_EmptySet
<1> QED
  BY <1>2, <1>3

(* The invariant holds in every state.                                     *)
LEMMA PriorityAlways == PrioritySpec => []PriorityInv
BY PriorityStarts, PrioritySteps, PTL DEF PrioritySpec

(* Type correctness: the queues hold queries and every caller is at a task *)
(* of its own, for any number of queries, callers and queues.              *)
THEOREM PriorityTypeCorrect == PrioritySpec => []PriorityTypeOK
BY PriorityAlways, PTL DEF PriorityInv

(* A query that was accepted is in one place until it is served or         *)
(* cleared, for any number of goroutines that enqueue, dequeue, clear and  *)
(* reprioritise at the same time, though SetPriority drops the lock of one *)
(* queue before it takes that of the other.                                *)
THEOREM AlwaysOnePlace == PrioritySpec => []OnePlace
<1>1. ASSUME PriorityInv
      PROVE  OnePlace
  <2>1. ASSUME NEW q \in Queries
        PROVE  Cardinality(PlacesOf(q)) + Cardinality(MoversOf(q))
                 = (IF fate[q] = "queued" THEN 1 ELSE 0)
    <3>1. /\ ~((\E p \in Priorities : Waits(q, p)) /\ (\E c \in Callers : HeldBy(q, c)))
          /\ fate[q] = "queued" <=>
               (\E p \in Priorities : Waits(q, p)) \/ (\E c \in Callers : HeldBy(q, c))
      BY <1>1 DEF PriorityInv, Placed
    <3> QED
      BY <1>1, <3>1, PlacesCounted, HandsCounted
  <2> QED
    BY <2>1 DEF OnePlace
<1> QED
  BY <1>1, PriorityAlways, PTL

-----------------------------------------------------------------------------
(* What a goroutine with a SELECT carries.                                 *)
SelectRecords == [at : {"idle", "asking", "answered"}, key : Keys,
                  data : -1..MaxWrites, raced : BOOLEAN]

(* The part of CacheTypeOK that says what the variables range over.        *)
CacheShape ==
  /\ written \in [Keys -> 0..MaxWrites] /\ invalidated \in [Keys -> 0..MaxWrites]
  /\ cacheEnabled \in BOOLEAN
  /\ cache \in [Keys -> Entries \cup {NoEntry}]
  /\ select \in [Selects -> SelectRecords]

(* The size of the cache, with the finiteness that counting it needs:      *)
(* there may be infinitely many keys.                                      *)
Sized(set) == IsFiniteSet(set) /\ (Cardinality(set) <= MaxSize \/ Cardinality(set) <= 1)

(* An entry, or an answer on its way, is older than the last invalidation  *)
(* only by the race.                                                       *)
Excused(entry, k) == entry.data < invalidated[k] => entry.raced

Fits(query) ==
  query.at = "answered" => query.data \in 0..MaxWrites /\ Excused(query, query.key)

(* An answer on its way to the cache is what StaleOnlyByRace asks of an    *)
(* entry: this is what makes it inductive, since Store writes into the     *)
(* cache what was read from the database some steps before.                *)
SelectsFit == \A s \in Selects : Fits(select[s])

(* Keys of one table are written together, so that what is invalidated is  *)
(* never more than what was written, and an answer that comes after an     *)
(* invalidation is as fresh as it.                                         *)
CacheInv ==
  /\ CacheShape /\ Sized(Cached) /\ StaleOnlyByRace
  /\ \A k, l \in Keys : SameTable(k, l) => written[k] = written[l]
  /\ \A k \in Keys : invalidated[k] <= written[k]
  /\ SelectsFit

(* The cache starts empty, with nobody asking.                             *)
LEMMA CacheStarts == CacheInit => CacheInv
<1> SUFFICES ASSUME CacheInit PROVE CacheInv
  OBVIOUS
<1>1. AnyKey \in Keys
  BY CacheAssumption DEF CacheAssumption, AnyKey
<1>2. MaxWrites \in Nat /\ MaxSize \in Nat
  BY CacheAssumption DEF CacheAssumption
<1>3. select \in [Selects -> SelectRecords]
  BY <1>1, <1>2 DEF CacheInit, NoSelect, SelectRecords
<1>4. CacheShape
  BY <1>2, <1>3 DEF CacheShape, CacheInit
<1>5. Cached = {}
  BY DEF CacheInit, Cached
<1>6. Sized(Cached)
  BY <1>2, <1>5, FS_EmptySet DEF Sized
<1>7. \A s \in Selects : select[s].at = "idle"
  BY DEF CacheInit, NoSelect
<1>8. /\ \A k \in Keys : invalidated[k] <= written[k]
      /\ \A k, l \in Keys : SameTable(k, l) => written[k] = written[l]
  BY DEF CacheInit
<1> QED
  BY <1>4, <1>5, <1>6, <1>7, <1>8 DEF CacheInv, StaleOnlyByRace, SelectsFit, Fits

(* Entries that go leave the size in its bound ...                         *)
LEMMA FewerAreSized ==
  ASSUME NEW set, NEW more, Sized(more), set \subseteq more, MaxSize \in Nat
  PROVE  Sized(set)
<1>1. IsFiniteSet(set) /\ Cardinality(set) <= Cardinality(more)
  BY FS_Subset DEF Sized
<1>2. Cardinality(set) \in Nat /\ Cardinality(more) \in Nat
  BY <1>1, FS_CardinalityType DEF Sized
<1> QED
  BY <1>1, <1>2 DEF Sized

(* ... and so does one that joins once an eviction has made room, if any.  *)
LEMMA OneMoreIsSized ==
  ASSUME NEW set, Sized(set), MaxSize \in Nat, NEW k,
         NEW gone \in IF Cardinality(set) >= MaxSize /\ set # {} THEN {{l} : l \in set} ELSE {{}}
  PROVE  Sized((set \ gone) \cup {k})
<1>1. IsFiniteSet(set) /\ Cardinality(set) \in Nat
  BY FS_CardinalityType DEF Sized
<1>2. CASE set = {}
  <2>1. (set \ gone) \cup {k} = {k}
    BY <1>2
  <2> QED
    BY <2>1, FS_Singleton DEF Sized
<1>3. CASE set # {} /\ Cardinality(set) >= MaxSize
  <2>1. PICK l \in set : gone = {l}
    BY <1>3
  <2> DEFINE rest == set \ {l}
  <2>2. IsFiniteSet(rest) /\ Cardinality(rest) = Cardinality(set) - 1
    BY <1>1, <2>1, FS_RemoveElement
  <2>3. /\ IsFiniteSet(rest \cup {k})
        /\ Cardinality(rest \cup {k}) =
             IF k \in rest THEN Cardinality(rest) ELSE Cardinality(rest) + 1
    BY <2>2, FS_AddElement
  <2> QED
    BY <1>1, <2>1, <2>2, <2>3 DEF Sized
<1>4. CASE set # {} /\ ~(Cardinality(set) >= MaxSize)
  <2>1. set \ gone = set
    BY <1>4
  <2>2. /\ IsFiniteSet(set \cup {k})
        /\ Cardinality(set \cup {k}) = IF k \in set THEN Cardinality(set) ELSE Cardinality(set) + 1
    BY <1>1, FS_AddElement
  <2> QED
    BY <1>1, <1>4, <2>1, <2>2 DEF Sized
<1> QED
  BY <1>2, <1>3, <1>4

(* The bounds are numbers.                                                 *)
LEMMA CacheNumbers ==
  ASSUME CacheShape
  PROVE  /\ MaxSize \in Nat /\ MaxWrites \in Nat
         /\ \A k \in Keys : written[k] \in 0..MaxWrites /\ invalidated[k] \in 0..MaxWrites
BY CacheAssumption DEF CacheAssumption, CacheShape

-----------------------------------------------------------------------------
(* A write to a table makes no entry older than an invalidation.           *)
LEMMA WriteStep ==
  ASSUME CacheInv, NEW k \in Keys, WriteTable(k)
  PROVE  CacheInv'
<1>1. UNCHANGED <<invalidated, cacheEnabled, cache, select>>
  BY DEF WriteTable
<1>2. ASSUME NEW l \in Keys
      PROVE  /\ written'[l] = IF SameTable(k, l) THEN written[l] + 1 ELSE written[l]
             /\ written'[l] \in 0..MaxWrites /\ invalidated[l] <= written'[l]
  <2>1. SameTable(k, l) => written[l] < MaxWrites
    BY DEF WriteTable, CacheInv
  <2>2. written'[l] = IF SameTable(k, l) THEN written[l] + 1 ELSE written[l]
    BY DEF WriteTable
  <2>3. written[l] \in 0..MaxWrites /\ invalidated[l] \in 0..MaxWrites /\ MaxWrites \in Nat
        /\ invalidated[l] <= written[l]
    BY CacheNumbers DEF CacheInv
  <2> QED
    BY <2>1, <2>2, <2>3
<1>3. written' \in [Keys -> 0..MaxWrites]
  BY <1>2 DEF WriteTable
<1>4. \A l, m \in Keys : SameTable(l, m) => written'[l] = written'[m]
  BY <1>2 DEF SameTable, CacheInv
<1>5. \A l \in Keys : invalidated'[l] <= written'[l]
  BY <1>1, <1>2
<1>6. CacheShape' /\ Sized(Cached)' /\ StaleOnlyByRace'
  BY <1>1, <1>3 DEF CacheInv, CacheShape, StaleOnlyByRace, Cached, Sized
<1>7. SelectsFit'
  BY <1>1 DEF CacheInv, SelectsFit, Fits, Excused
<1> QED
  BY <1>4, <1>5, <1>6, <1>7 DEF CacheInv, SameTable

(* A select moves, and the tables stay.                                    *)
LEMMA SelectMoves ==
  ASSUME CacheInv, NEW s \in Selects, UNCHANGED <<written, invalidated>>,
         NEW now \in SelectRecords,
         Fits(now),
         select' = [select EXCEPT ![s] = now]
  PROVE  /\ select' \in [Selects -> SelectRecords]
         /\ SelectsFit'
BY DEF CacheInv, CacheShape, SelectsFit, Fits, Excused

(* A SELECT misses and asks the database; the answer is as new as the last *)
(* invalidation.                                                           *)
LEMMA AskStep ==
  ASSUME CacheInv, NEW s \in Selects, (\E k \in Keys : LookUpMiss(s, k)) \/ Answer(s)
  PROVE  CacheInv'
<1>1. UNCHANGED <<written, invalidated, cacheEnabled, cache>>
  BY DEF LookUpMiss, Answer
<1>2. AnyKey \in Keys /\ MaxWrites \in Nat
  BY CacheAssumption DEF CacheAssumption, AnyKey
<1>3. select[s] \in SelectRecords
  BY DEF CacheInv, CacheShape
<1>4. ASSUME NEW k \in Keys, LookUpMiss(s, k)
      PROVE  select' \in [Selects -> SelectRecords] /\ SelectsFit'
  <2> DEFINE now == [select[s] EXCEPT !.at = "asking", !.key = k]
  <2>1. now \in SelectRecords /\ now.at = "asking"
    BY <1>3 DEF SelectRecords
  <2>2. select' = [select EXCEPT ![s] = now]
    BY <1>4 DEF LookUpMiss, CacheInv, CacheShape
  <2> HIDE DEF now
  <2> QED
    BY <1>1, <2>1, <2>2, SelectMoves DEF Fits
<1>5. ASSUME Answer(s)
      PROVE  select' \in [Selects -> SelectRecords] /\ SelectsFit'
  <2>1. CASE select' = [select EXCEPT ![s] = NoSelect]
    <3>1. NoSelect \in SelectRecords /\ NoSelect.at # "answered"
      BY <1>2 DEF NoSelect, SelectRecords
    <3> QED
      BY <1>1, <2>1, <3>1, SelectMoves DEF Fits
  <2>2. CASE select' = [select EXCEPT ![s].at = "answered", ![s].data = written[select[s].key]]
    <3> DEFINE data == written[select[s].key]
               now == [select[s] EXCEPT !.at = "answered", !.data = data]
    <3>1. data \in 0..MaxWrites /\ invalidated[select[s].key] \in 0..MaxWrites
          /\ invalidated[select[s].key] <= data
      BY <1>3, CacheNumbers DEF CacheInv, SelectRecords
    <3>2. select' = [select EXCEPT ![s] = now]
      BY <2>2 DEF CacheInv, CacheShape
    <3> HIDE DEF data
    <3>3. data \in -1..MaxWrites
      BY <1>2, <3>1
    <3>4. now \in SelectRecords /\ now.data = data /\ now.key = select[s].key
      BY <1>3, <3>3 DEF SelectRecords
    <3>5. Fits(now)
      BY <1>2, <3>1, <3>4 DEF Excused, Fits
    <3> HIDE DEF now
    <3> QED
      BY <1>1, <3>2, <3>4, <3>5, SelectMoves
  <2> QED
    BY <1>5, <2>1, <2>2 DEF Answer
<1>6. select' \in [Selects -> SelectRecords] /\ SelectsFit'
  BY <1>4, <1>5
<1>7. CacheShape' /\ Sized(Cached)' /\ StaleOnlyByRace'
  BY <1>1, <1>6 DEF CacheInv, CacheShape, StaleOnlyByRace, Cached, Sized
<1> QED
  BY <1>1, <1>6, <1>7 DEF CacheInv, SameTable

(* ProcessResponse stores the answer, in the room an eviction made.        *)
LEMMA StoreStep ==
  ASSUME CacheInv, NEW s \in Selects, Store(s)
  PROVE  CacheInv'
<1> DEFINE k == select[s].key
           entry == [data |-> select[s].data, raced |-> select[s].raced, expired |-> FALSE]
<1>1. /\ UNCHANGED <<written, invalidated, cacheEnabled>>
      /\ select' = [select EXCEPT ![s] = NoSelect] /\ select[s].at = "answered"
  BY DEF Store
<1>2. AnyKey \in Keys /\ MaxWrites \in Nat /\ MaxSize \in Nat
  BY CacheAssumption DEF CacheAssumption, AnyKey
<1>3. k \in Keys /\ entry \in Entries /\ Excused(entry, k)
  BY <1>1 DEF CacheInv, CacheShape, SelectRecords, SelectsFit, Fits, Entries, Excused
<1>4. /\ select' \in [Selects -> SelectRecords]
      /\ SelectsFit'
  <2>1. /\ NoSelect.at # "answered"
        /\ NoSelect \in SelectRecords
    BY <1>2 DEF NoSelect, SelectRecords
  <2> HIDE DEF k, entry
  <2> QED
    BY <1>1, <2>1, SelectMoves DEF Fits
<1>5. CASE UNCHANGED cache
  BY <1>1, <1>4, <1>5 DEF CacheInv, CacheShape, StaleOnlyByRace, Cached, Sized
<1>6. ASSUME NEW gone \in Evictions,
             cache' = [l \in Keys |->
               CASE l = select[s].key -> [data |-> select[s].data, raced |-> select[s].raced,
                                          expired |-> FALSE]
                 [] l # select[s].key /\ l \in gone -> NoEntry
                 [] OTHER -> cache[l]]
      PROVE  CacheInv'
  <2>1. ASSUME NEW l \in Keys
        PROVE  cache'[l] = IF l = k THEN entry ELSE IF l \in gone THEN NoEntry ELSE cache[l]
    BY <1>6
  <2> HIDE DEF k, entry
  <2>2. cache' \in [Keys -> Entries \cup {NoEntry}]
    <3>1. \A l \in Keys : cache'[l] \in Entries \cup {NoEntry}
      BY <1>3, <2>1 DEF CacheInv, CacheShape
    <3> QED
      BY <1>6, <3>1
  <2>3. Cached' \subseteq (Cached \ gone) \cup {k}
    BY <2>1 DEF Cached
  <2>4. Sized((Cached \ gone) \cup {k})
    BY <1>2, OneMoreIsSized DEF CacheInv, Evictions
  <2>5. Sized(Cached')
    BY <1>2, <2>3, <2>4, FewerAreSized
  <2>6. StaleOnlyByRace'
    BY <1>1, <1>3, <2>1 DEF CacheInv, StaleOnlyByRace, Cached, Excused
  <2>7. CacheShape'
    BY <1>1, <1>4, <2>2 DEF CacheInv, CacheShape
  <2> QED
    BY <1>1, <1>4, <2>5, <2>6, <2>7 DEF CacheInv, Sized
<1> QED
  BY <1>5, <1>6 DEF Store

(* An entry expires, or the cache is switched on or off.                   *)
LEMMA ExpireStep ==
  ASSUME CacheInv, NEW k \in Keys, Expire(k)
  PROVE  CacheInv'
<1>1. UNCHANGED <<written, invalidated, cacheEnabled, select>>
  BY DEF Expire
<1>2. cache' \in [Keys -> Entries \cup {NoEntry}]
  BY DEF Expire, CacheInv, CacheShape, Entries
<1>3. \A l \in Keys : /\ cache'[l] # NoEntry <=> cache[l] # NoEntry
                      /\ cache'[l].data = cache[l].data /\ cache'[l].raced = cache[l].raced
  BY DEF Expire, CacheInv, CacheShape, Entries, NoEntry
<1>4. Cached' = Cached
  BY <1>3 DEF Cached
<1>5. StaleOnlyByRace'
  BY <1>1, <1>3, <1>4 DEF CacheInv, StaleOnlyByRace, Cached
<1> QED
  BY <1>1, <1>2, <1>4, <1>5 DEF CacheInv, CacheShape, Sized, SelectsFit, Fits, Excused, SameTable

(* An invalidation, of whatever keys: the entries go, and the answers on   *)
(* their way are marked as raced.                                          *)
LEMMA InvalidateStep ==
  ASSUME CacheInv, NEW keys, Invalidate(keys)
  PROVE  CacheInv'
<1>1. UNCHANGED <<written, cacheEnabled>>
  BY DEF Invalidate
<1>2. \A l \in Keys : /\ cache'[l] = IF l \in keys THEN NoEntry ELSE cache[l]
                      /\ invalidated'[l] = IF l \in keys THEN written[l] ELSE invalidated[l]
  BY DEF Invalidate
<1>3. \A s \in Selects :
        select'[s] = IF select[s].at = "answered" /\ select[s].key \in keys
                       THEN [select[s] EXCEPT !.raced = TRUE] ELSE select[s]
  BY DEF Invalidate
<1>4. cache' \in [Keys -> Entries \cup {NoEntry}] /\ invalidated' \in [Keys -> 0..MaxWrites]
  BY DEF Invalidate, CacheInv, CacheShape
<1>5. ASSUME NEW s \in Selects
      PROVE  /\ select'[s] \in SelectRecords
             /\ Fits(select[s])'
  <2>1. select[s] \in SelectRecords
    BY DEF CacheInv, CacheShape
  <2>2. CASE select[s].at = "answered" /\ select[s].key \in keys
    <3>1. select'[s] = [select[s] EXCEPT !.raced = TRUE]
      BY <1>3, <2>2
    <3>2. /\ select'[s].raced = TRUE /\ select'[s].data = select[s].data
          /\ select'[s] \in SelectRecords
      BY <2>1, <3>1 DEF SelectRecords
    <3>3. select[s].data \in 0..MaxWrites
      BY <2>2 DEF CacheInv, SelectsFit, Fits
    <3> QED
      BY <3>2, <3>3 DEF Excused, Fits
  <2>3. CASE ~(select[s].at = "answered" /\ select[s].key \in keys)
    <3>1. select'[s] = select[s]
      BY <1>3, <2>3
    <3>2. select[s].at = "answered" => invalidated'[select[s].key] = invalidated[select[s].key]
      BY <1>2, <2>1, <2>3 DEF SelectRecords
    <3>3. Fits(select[s])
      BY DEF CacheInv, SelectsFit
    <3> QED
      BY <2>1, <3>1, <3>2, <3>3 DEF Excused, Fits
  <2> QED
    BY <2>2, <2>3
<1>6. CacheShape'
  <2>1. select' = [s \in Selects |-> select'[s]]
    BY DEF Invalidate
  <2> QED
    BY <1>1, <1>4, <1>5, <2>1 DEF CacheInv, CacheShape
<1>7. Cached' \subseteq Cached
  BY <1>2 DEF Cached
<1>8. Sized(Cached')
  BY <1>7, CacheNumbers, FewerAreSized DEF CacheInv
<1>9. StaleOnlyByRace'
  BY <1>2, <1>7 DEF CacheInv, StaleOnlyByRace, Cached
<1>10. /\ \A l, m \in Keys : SameTable(l, m) => written'[l] = written'[m]
       /\ \A l \in Keys : invalidated'[l] <= written'[l]
  BY <1>1, <1>2, CacheNumbers DEF CacheInv
<1> QED
  BY <1>5, <1>6, <1>8, <1>9, <1>10 DEF CacheInv, Sized, SelectsFit, SameTable

(* Every step keeps the invariant.                                         *)
LEMMA CacheSteps ==
  ASSUME CacheInv, [CacheNext]_cacheVars
  PROVE  CacheInv'
<1>1. CASE UNCHANGED cacheVars \/ SetEnabled
  <2>1. UNCHANGED <<written, invalidated, cache, select>> /\ cacheEnabled' \in BOOLEAN
    BY <1>1 DEF cacheVars, SetEnabled, CacheInv, CacheShape
  <2> QED
    BY <2>1 DEF CacheInv, CacheShape, StaleOnlyByRace, Cached, Sized,
                 SelectsFit, Fits, Excused, SameTable
<1>2. CASE CacheNext
  BY <1>1, <1>2, WriteStep, ExpireStep, InvalidateStep, AskStep, StoreStep
  DEF CacheNext, InvalidateTable, InvalidateDatabase, Clear
<1> QED
  BY <1>1, <1>2

(* The invariant holds in every state.                                     *)
LEMMA CacheAlways == CacheSpec => []CacheInv
BY CacheStarts, CacheSteps, PTL DEF CacheSpec

(* Type correctness, with the size of the cache: eviction, which gives up  *)
(* one entry before each Store, keeps it in its bound for any keys,        *)
(* goroutines and maximum.                                                 *)
THEOREM CacheTypeCorrect == CacheSpec => []CacheTypeOK
<1>1. CacheInv => CacheTypeOK
  BY DEF CacheInv, CacheShape, CacheTypeOK, SelectRecords, Sized
<1> QED
  BY <1>1, CacheAlways, PTL

(* An entry of the cache is older than the last invalidation of its table  *)
(* only when its query was answered before the invalidation and stored     *)
(* after it: no other interleaving of lookups, stores, evictions and       *)
(* invalidations serves stale data, for any number of SELECTs.             *)
THEOREM StalenessIsExcused == CacheSpec => []StaleOnlyByRace
BY CacheAlways, PTL DEF CacheInv

-----------------------------------------------------------------------------
(* The log's promise, the accounts of every pair and the counts.           *)
ChangeInv == ChangeLogTypeOK /\ LogIsRecent /\ ChangesAccounted

Buffered == {q \in Changes : change[q] \notin {"new", "logged"}}
Done == {q \in Changes : change[q] = "done"}

(* What is counted are finite sets, and the empty log counts nothing.      *)
LEMMA EventsFinite ==
  /\ IsFiniteSet(Buffered) /\ IsFiniteSet(Done)
  /\ ChangeLogTypeOK => IsFiniteSet(lost)
<1>1. IsFiniteSet(Subscribers \X Changes)
  BY ChangeLogAssumption, FS_Product DEF ChangeLogAssumption
<1>2. ChangeLogTypeOK => lost \subseteq Subscribers \X Changes
  BY DEF ChangeLogTypeOK
<1>3. Buffered \subseteq Changes /\ Done \subseteq Changes
  BY DEF Buffered, Done
<1> QED
  BY <1>1, <1>2, <1>3, ChangeLogAssumption, FS_Subset DEF ChangeLogAssumption

(* The log is empty, and nothing is owed or counted.                       *)
LEMMA ChangesStart == ChangeLogInit => ChangeInv
<1> SUFFICES ASSUME ChangeLogInit PROVE ChangeInv
  OBVIOUS
<1>1. /\ <<>> \in Seq(Changes) /\ Len(<<>>) = 0
      /\ {q \in Changes : change[q] \notin {"new", "logged"}} = {}
      /\ {q \in Changes : change[q] = "done"} = {}
      /\ Cardinality({}) = 0
  BY FS_EmptySet, EmptySeq DEF ChangeLogInit
<1>2. ChangeLogTypeOK
  BY <1>1 DEF ChangeLogInit, ChangeLogTypeOK
<1>3. LogIsRecent
  BY <1>1, ChangeLogAssumption DEF ChangeLogInit, LogIsRecent, ChangeLogAssumption
<1>4. ChangesAccounted
  <2>1. ChangesCounted
    BY <1>1 DEF ChangeLogInit, ChangesCounted
  <2>2. \A s \in Subscribers : delivered[s] = <<>> /\ Received(s) = {}
    BY <1>1 DEF ChangeLogInit, Received
  <2> QED
    BY <2>1, <2>2, <1>1 DEF ChangeLogInit, ChangesAccounted, DeliveredOnce, Accounted
<1> QED
  BY <1>2, <1>3, <1>4 DEF ChangeInv

(* A statement's event: the log loses its oldest one if it is full.        *)
LEMMA CaptureKeepsLog ==
  ASSUME ChangeInv, NEW q \in Changes, Capture(q)
  PROVE  log' \in Seq(Changes) /\ captured' \in Seq(Changes) /\ LogIsRecent'
<1> DEFINE rest == IF Len(log) >= LogSize THEN Tail(log) ELSE log
<1>1. /\ log \in Seq(Changes) /\ captured \in Seq(Changes)
      /\ Len(log) \in Nat /\ Len(captured) \in Nat /\ LogSize \in Nat \ {0}
      /\ Len(log) = IF Len(captured) <= LogSize THEN Len(captured) ELSE LogSize
      /\ \A i \in 1..Len(log) : log[i] = captured[Len(captured) - Len(log) + i]
  BY ChangeLogAssumption, LenProperties
     DEF ChangeLogAssumption, ChangeInv, ChangeLogTypeOK, LogIsRecent
<1>2. /\ captured' \in Seq(Changes) /\ Len(captured') = Len(captured) + 1
      /\ \A i \in 1..Len(captured) : captured'[i] = captured[i]
      /\ captured'[Len(captured) + 1] = q
  BY <1>1, AppendProperties DEF Capture
<1>3. /\ rest \in Seq(Changes)
      /\ Len(rest) = IF Len(log) >= LogSize THEN Len(log) - 1 ELSE Len(log)
      /\ \A i \in 1..Len(rest) :
           rest[i] = IF Len(log) >= LogSize THEN log[i + 1] ELSE log[i]
  <2>1. CASE Len(log) >= LogSize
    <3>1. log # <<>>
      BY <2>1, <1>1, EmptySeq
    <3> QED
      BY <2>1, <3>1, <1>1, HeadTailProperties
  <2>2. CASE ~(Len(log) >= LogSize)
    BY <2>2, <1>1
  <2> QED
    BY <2>1, <2>2
<1> HIDE DEF rest
<1>4. Len(rest) \in Nat
  BY <1>3, LenProperties
<1>5. log' = Append(rest, q)
  BY DEF Capture, rest
<1>6. /\ log' \in Seq(Changes) /\ Len(log') = Len(rest) + 1
      /\ \A i \in 1..Len(rest) : log'[i] = rest[i]
      /\ log'[Len(rest) + 1] = q
  BY <1>3, <1>5, AppendProperties
<1>7. /\ Len(log) \in Nat /\ Len(captured) \in Nat /\ Len(rest) \in Nat
      /\ Len(log) <= Len(captured)
      /\ Len(captured') = Len(captured) + 1 /\ Len(log') = Len(rest) + 1
      /\ Len(log) >= LogSize => Len(rest) = Len(log) - 1
      /\ ~(Len(log) >= LogSize) => Len(rest) = Len(log)
  BY <1>1, <1>2, <1>3, <1>4, <1>6
<1>8. Len(log') = IF Len(captured') <= LogSize THEN Len(captured') ELSE LogSize
  BY <1>1, <1>2, <1>3, <1>4, <1>6
<1>9. ASSUME NEW i \in 1..Len(log')
      PROVE  log'[i] = captured'[Len(captured') - Len(log') + i]
  <2>1. CASE i = Len(rest) + 1
    <3>1. Len(captured') - Len(log') + i = Len(captured) + 1
      BY <2>1, <1>1, <1>2, <1>4, <1>6
    <3> QED
      BY <2>1, <3>1, <1>2, <1>6
  <2>2. CASE i \in 1..Len(rest) /\ Len(log) >= LogSize
    <3>1. /\ i + 1 \in 1..Len(log)
          /\ Len(captured) - Len(log) + (i + 1) \in 1..Len(captured)
          /\ Len(captured') - Len(log') + i = Len(captured) - Len(log) + (i + 1)
      BY <2>2, <1>7
    <3> QED
      BY <2>2, <3>1, <1>1, <1>2, <1>3, <1>6
  <2>3. CASE i \in 1..Len(rest) /\ ~(Len(log) >= LogSize)
    <3>1. /\ i \in 1..Len(log)
          /\ Len(captured) - Len(log) + i \in 1..Len(captured)
          /\ Len(captured') - Len(log') + i = Len(captured) - Len(log) + i
      BY <2>3, <1>7
    <3> QED
      BY <2>3, <3>1, <1>1, <1>2, <1>3, <1>6
  <2> QED
    BY <2>1, <2>2, <2>3, <1>4, <1>6
<1> QED
  BY <1>2, <1>6, <1>8, <1>9 DEF LogIsRecent

(* What a statement's step does to the two sets that are counted.          *)
LEMMA StageCounted ==
  ASSUME ChangeLogTypeOK, NEW q \in Changes, NEW from, NEW to, ChangeTo(q, from, to)
  PROVE  /\ \A r \in Changes : change'[r] = IF r = q THEN to ELSE change[r]
         /\ Cardinality(Buffered) \in Nat /\ Cardinality(Done) \in Nat
         /\ from = "counted" /\ to # "new" /\ to # "logged" =>
              Cardinality(Buffered') = Cardinality(Buffered)
         /\ from = "published" /\ to = "done" =>
              /\ Cardinality(Buffered') = Cardinality(Buffered)
              /\ Cardinality(Done') = Cardinality(Done) + 1
         /\ from = "logged" /\ to = "counted" =>
              Cardinality(Buffered') = Cardinality(Buffered) + 1
         /\ from = "new" /\ to = "logged" =>
              Cardinality(Buffered') = Cardinality(Buffered)
         /\ from # "done" /\ to # "done" => Cardinality(Done') = Cardinality(Done)
<1>1. \A r \in Changes : change'[r] = IF r = q THEN to ELSE change[r]
  BY DEF ChangeLogTypeOK, ChangeTo
<1>2. change[q] = from
  BY DEF ChangeTo
<1>3. /\ from = "counted" /\ to # "new" /\ to # "logged" => Buffered' = Buffered
      /\ from = "published" /\ to = "done" =>
           Buffered' = Buffered /\ Done' = Done \cup {q} /\ q \notin Done
      /\ from = "logged" /\ to = "counted" => Buffered' = Buffered \cup {q} /\ q \notin Buffered
      /\ from = "new" /\ to = "logged" => Buffered' = Buffered
      /\ from # "done" /\ to # "done" => Done' = Done
  BY <1>1, <1>2 DEF Buffered, Done
<1> QED
  BY <1>1, <1>3, EventsFinite, FS_CardinalityType, FS_AddElement

(* A statement moves on, and nothing is owed or paid. *)
LEMMA StageStep ==
  ASSUME ChangeInv, NEW q \in Changes,
         Capture(q) \/ CountBuffered(q) \/ Unanswered(q) \/ CountPublished(q)
  PROVE  ChangeInv'
<1>1. ChangeLogTypeOK'
  <2>1. log' \in Seq(Changes) /\ captured' \in Seq(Changes)
    BY CaptureKeepsLog DEF ChangeInv, ChangeLogTypeOK, CountBuffered, Unanswered, CountPublished
  <2>2. change' \in [Changes -> {"new", "logged", "counted", "unanswered", "published", "done"}]
    BY DEF ChangeInv, ChangeLogTypeOK, ChangeTo, Capture, CountBuffered, Unanswered,
           CountPublished
  <2>3. buffered' \in Nat /\ published' \in Nat /\ unsent' \in Nat
    BY DEF ChangeInv, ChangeLogTypeOK, Capture, CountBuffered, Unanswered, CountPublished
  <2>4. UNCHANGED <<subscribed, owed, publishing, lost, delivered>>
    BY DEF Capture, CountBuffered, Unanswered, CountPublished
  <2> QED
    BY <2>1, <2>2, <2>3, <2>4 DEF ChangeInv, ChangeLogTypeOK
<1>2. LogIsRecent'
  BY CaptureKeepsLog DEF ChangeInv, LogIsRecent, CountBuffered, Unanswered, CountPublished
<1>3. ChangesCounted'
  <2>1. /\ buffered = Cardinality(Buffered) /\ published = Cardinality(Done)
        /\ unsent = Cardinality(lost)
    BY DEF ChangeInv, ChangesAccounted, ChangesCounted, Buffered, Done
  <2>2. /\ buffered' = Cardinality(Buffered') /\ published' = Cardinality(Done')
        /\ unsent' = Cardinality(lost')
    BY <2>1, StageCounted
       DEF ChangeInv, Capture, CountBuffered, Unanswered, CountPublished
  <2> QED
    BY <2>2 DEF ChangesCounted, Buffered, Done
<1>4. ASSUME NEW s \in Subscribers, NEW r \in Changes
      PROVE  DeliveredOnce(s)' /\ Accounted(s, r)'
  <2>1. /\ owed' = owed /\ publishing' = publishing /\ lost' = lost /\ delivered' = delivered
        /\ change[r] \in {"published", "done"} => change'[r] \in {"published", "done"}
    BY DEF ChangeInv, ChangeLogTypeOK, ChangeTo, Capture, CountBuffered, Unanswered,
           CountPublished
  <2>2. Received(s)' = Received(s)
    BY <2>1 DEF Received
  <2>3. DeliveredOnce(s) /\ Accounted(s, r)
    BY DEF ChangeInv, ChangesAccounted
  <2>4. DeliveredOnce(s)'
    BY <2>1, <2>2, <2>3 DEF DeliveredOnce
  <2> QED
    BY <2>1, <2>2, <2>3, <2>4 DEF Accounted
<1>5. (\A s \in Subscribers : DeliveredOnce(s) /\ \A r \in Changes : Accounted(s, r))'
  <2>1. ASSUME NEW s \in Subscribers PROVE DeliveredOnce(s)'
    <3>1. delivered' = delivered /\ owed' = owed
      BY DEF Capture, CountBuffered, Unanswered, CountPublished
    <3> QED
      BY <1>4, <3>1 DEF ChangeInv, ChangesAccounted, DeliveredOnce, Received
  <2> QED
    BY <1>4, <2>1
<1> QED
  BY <1>1, <1>2, <1>3, <1>5 DEF ChangeInv, ChangesAccounted

(* The event is owed to those it is published to, and to nobody before.    *)
LEMMA PublishStep ==
  ASSUME ChangeInv, NEW q \in Changes, PublishEvent(q)
  PROVE  ChangeInv'
<1> DEFINE receivers == {s \in subscribed : <<s, q>> \in Matching} \X {q}
<1>1. /\ ChangeTo(q, "counted", "published")
      /\ owed' = owed \cup receivers /\ publishing' = publishing \cup receivers
      /\ UNCHANGED <<log, captured, subscribed, lost, delivered, buffered, published, unsent>>
  BY DEF PublishEvent
<1>2. /\ receivers \subseteq Subscribers \X Changes
      /\ \A s \in Subscribers, r \in Changes :
           <<s, r>> \in receivers => r = q /\ <<s, r>> \in Matching
  BY DEF ChangeInv, ChangeLogTypeOK
<1> HIDE DEF receivers
<1>3. ChangeLogTypeOK'
  BY <1>1, <1>2 DEF ChangeInv, ChangeLogTypeOK, ChangeTo
<1>4. LogIsRecent'
  BY <1>1 DEF ChangeInv, LogIsRecent
<1>5. ChangesCounted'
  <2>1. buffered = Cardinality(Buffered) /\ published = Cardinality(Done)
    BY DEF ChangeInv, ChangesAccounted, ChangesCounted, Buffered, Done
  <2>2. buffered' = Cardinality(Buffered') /\ published' = Cardinality(Done')
    BY <1>1, <2>1, StageCounted DEF ChangeInv
  <2> QED
    BY <1>1, <2>2 DEF ChangeInv, ChangesAccounted, ChangesCounted, Buffered, Done
<1>6. ASSUME NEW s \in Subscribers
      PROVE  DeliveredOnce(s)' /\ Received(s)' = Received(s)
  BY <1>1 DEF ChangeInv, ChangesAccounted, DeliveredOnce, Received
<1>7. ASSUME NEW s \in Subscribers, NEW r \in Changes
      PROVE  Accounted(s, r)'
  <2>1. Accounted(s, r) /\ DeliveredOnce(s) /\ Received(s)' = Received(s)
    BY <1>6 DEF ChangeInv, ChangesAccounted
  <2>2. change'[r] = IF r = q THEN "published" ELSE change[r]
    BY <1>1 DEF ChangeInv, ChangeLogTypeOK, ChangeTo
  <2>3. change[q] = "counted" /\ lost \subseteq owed /\ publishing \subseteq owed
    BY <1>1 DEF ChangeTo, ChangeInv, ChangeLogTypeOK
  <2>4. CASE <<s, r>> \in owed
    BY <2>1, <2>2, <2>3, <2>4, <1>1, <1>2 DEF Accounted
  <2>5. CASE <<s, r>> \notin owed
    <3>1. <<s, r>> \notin lost /\ r \notin Received(s)
      BY <2>1, <2>3, <2>5 DEF DeliveredOnce
    <3> QED
      BY <2>1, <2>2, <2>5, <3>1, <1>1, <1>2 DEF Accounted
  <2> QED
    BY <2>4, <2>5
<1> QED
  BY <1>3, <1>4, <1>5, <1>6, <1>7 DEF ChangeInv, ChangesAccounted

(* An event is lost: it is counted, and nobody tries again.                *)
LEMMA LoseStep ==
  ASSUME ChangeInv, NEW s \in Subscribers, NEW q \in Changes, LoseEvent(s, q)
  PROVE  ChangeInv'
<1>1. /\ <<s, q>> \in owed /\ <<s, q>> \in publishing
      /\ <<s, q>> \notin lost /\ q \notin Received(s)
  BY DEF ChangeInv, ChangeLogTypeOK, ChangesAccounted, Accounted, LoseEvent
<1>2. ChangeLogTypeOK'
  <2>1. UNCHANGED <<change, log, captured, subscribed, owed, delivered, buffered, published>>
    BY DEF LoseEvent
  <2>2. publishing' \subseteq owed' /\ lost' \subseteq owed'
    BY <1>1, <2>1 DEF ChangeInv, ChangeLogTypeOK, LoseEvent
  <2>3. unsent' \in Nat
    BY DEF ChangeInv, ChangeLogTypeOK, LoseEvent
  <2> QED
    BY <2>1, <2>2, <2>3 DEF ChangeInv, ChangeLogTypeOK
<1>3. LogIsRecent'
  BY DEF ChangeInv, LogIsRecent, LoseEvent
<1>4. ChangesCounted'
  <2>1. Cardinality(lost') = Cardinality(lost) + 1
    BY <1>1, EventsFinite, FS_AddElement DEF ChangeInv, LoseEvent
  <2> QED
    BY <2>1 DEF ChangeInv, ChangesAccounted, ChangesCounted, LoseEvent
<1>5. ASSUME NEW t \in Subscribers
      PROVE  DeliveredOnce(t)' /\ Received(t)' = Received(t)
  BY DEF ChangeInv, ChangesAccounted, DeliveredOnce, Received, LoseEvent
<1>6. ASSUME NEW t \in Subscribers, NEW r \in Changes
      PROVE  Accounted(t, r)'
  <2>1. Accounted(t, r) /\ Received(t)' = Received(t)
    BY <1>5 DEF ChangeInv, ChangesAccounted
  <2>2. CASE t = s /\ r = q
    BY <2>1, <2>2, <1>1 DEF Accounted, LoseEvent
  <2>3. CASE ~(t = s /\ r = q)
    <3>1. <<t, r>> # <<s, q>>
      BY <2>3
    <3> QED
      BY <2>1, <3>1 DEF Accounted, LoseEvent
  <2> QED
    BY <2>2, <2>3
<1> QED
  BY <1>2, <1>3, <1>4, <1>5, <1>6 DEF ChangeInv, ChangesAccounted

(* An event is delivered, to one that did not have it.                     *)
LEMMA DeliverStep ==
  ASSUME ChangeInv, NEW s \in Subscribers, NEW q \in Changes, DeliverEvent(s, q)
  PROVE  ChangeInv'
<1>1. /\ <<s, q>> \in owed /\ <<s, q>> \in publishing
      /\ <<s, q>> \notin lost /\ q \notin Received(s)
  BY DEF ChangeInv, ChangeLogTypeOK, ChangesAccounted, Accounted, DeliverEvent
<1>2. /\ delivered[s] \in Seq(Changes)
      /\ delivered'[s] = Append(delivered[s], q)
      /\ \A t \in Subscribers : t # s => delivered'[t] = delivered[t]
  BY DEF ChangeInv, ChangeLogTypeOK, DeliverEvent
<1>3. /\ Append(delivered[s], q) \in Seq(Changes)
      /\ NoRepeats(Append(delivered[s], q))
      /\ Members(Append(delivered[s], q)) = Members(delivered[s]) \cup {q}
  <2>1. NoRepeats(delivered[s]) /\ q \notin Members(delivered[s])
    BY <1>1 DEF ChangeInv, ChangesAccounted, DeliveredOnce, Received, NoRepeats, Members
  <2> QED
    BY <1>2, <2>1, AppendMember
<1>4. ChangeLogTypeOK'
  BY <1>3 DEF ChangeInv, ChangeLogTypeOK, DeliverEvent
<1>5. LogIsRecent'
  BY DEF ChangeInv, LogIsRecent, DeliverEvent
<1>6. ChangesCounted'
  BY DEF ChangeInv, ChangesAccounted, ChangesCounted, DeliverEvent
<1>7. /\ Received(s)' = Received(s) \cup {q}
      /\ \A t \in Subscribers : t # s => Received(t)' = Received(t)
  BY <1>2, <1>3 DEF Received, Members
<1>8. ASSUME NEW t \in Subscribers
      PROVE  DeliveredOnce(t)'
  <2>1. DeliveredOnce(t) /\ owed' = owed
    BY DEF ChangeInv, ChangesAccounted, DeliverEvent
  <2>2. CASE t = s
    <3>1. NoRepeats(delivered'[s])
      BY <1>2, <1>3
    <3> QED
      BY <2>1, <2>2, <3>1, <1>1, <1>7 DEF DeliveredOnce, NoRepeats
  <2>3. CASE t # s
    BY <2>1, <2>3, <1>2, <1>7 DEF DeliveredOnce
  <2> QED
    BY <2>2, <2>3
<1>9. ASSUME NEW t \in Subscribers, NEW r \in Changes
      PROVE  Accounted(t, r)'
  <2>1. Accounted(t, r)
    BY DEF ChangeInv, ChangesAccounted
  <2>2. CASE t = s /\ r = q
    BY <2>1, <2>2, <1>1, <1>7 DEF Accounted, DeliverEvent
  <2>3. CASE ~(t = s /\ r = q)
    <3>1. <<t, r>> # <<s, q>> /\ (r \in Received(t)' <=> r \in Received(t))
      BY <2>3, <1>7
    <3> QED
      BY <2>1, <3>1 DEF Accounted, DeliverEvent
  <2> QED
    BY <2>2, <2>3
<1> QED
  BY <1>4, <1>5, <1>6, <1>8, <1>9 DEF ChangeInv, ChangesAccounted

(* Every step keeps the invariant; a new subscriber is owed nothing.       *)
LEMMA ChangesSteps == ChangeInv /\ [ChangeLogNext]_changeLogVars => ChangeInv'
<1> SUFFICES ASSUME ChangeInv, [ChangeLogNext]_changeLogVars
             PROVE  ChangeInv'
  OBVIOUS
<1>1. ASSUME UNCHANGED changeLogVars \/ \E s \in Subscribers : AddSubscriber(s)
      PROVE  ChangeInv'
  <2>1. /\ UNCHANGED <<change, log, captured, owed, publishing, lost, delivered,
                       buffered, published, unsent>>
        /\ subscribed' \subseteq Subscribers
    BY <1>1 DEF changeLogVars, AddSubscriber, ChangeInv, ChangeLogTypeOK
  <2>2. ChangeLogTypeOK' /\ LogIsRecent'
    BY <2>1 DEF ChangeInv, ChangeLogTypeOK, LogIsRecent
  <2> QED
    BY <2>1, <2>2 DEF ChangeInv, ChangesAccounted, ChangesCounted, DeliveredOnce, Accounted,
                      Received
<1>2. ASSUME NEW q \in Changes,
             \/ Capture(q) \/ CountBuffered(q) \/ Unanswered(q) \/ PublishEvent(q)
             \/ CountPublished(q)
             \/ \E s \in Subscribers : LoseEvent(s, q) \/ DeliverEvent(s, q)
      PROVE  ChangeInv'
  BY <1>2, StageStep, PublishStep, LoseStep, DeliverStep
<1> QED
  BY <1>1, <1>2 DEF ChangeLogNext

(* So it holds always.                                                     *)
LEMMA ChangesAlways == ChangeLogSpec => []ChangeInv
BY ChangesStart, ChangesSteps, PTL DEF ChangeLogSpec

(* Type correctness: what is being published or was lost was owed.         *)
THEOREM ChangeLogTypeCorrect == ChangeLogSpec => []ChangeLogTypeOK
BY ChangesAlways, PTL DEF ChangeInv

(* The log is the end of the history, LogSize events long at most, and     *)
(* every event owed to a subscriber is on its way, lost or delivered,      *)
(* once, and counted, for any statements and subscribers and in any order  *)
(* in which the goroutines run.                                            *)
THEOREM ChangeLogSafe == ChangeLogSpec => []ChangeLogSound
<1>1. ChangeInv => ChangeLogSound
  BY DEF ChangeInv, ChangeLogSound
<1> QED
  BY <1>1, ChangesAlways, PTL

-----------------------------------------------------------------------------
(* What is known of a query's goroutine: while the query is in the map it  *)
(* has been there as long as the timers have run; one that has seen the    *)
(* timeout has waited for it, and one that has found the query in the map  *)
(* knows that it was there all that time.                                  *)
MonitorKnows(q) ==
  /\ stage[q] = "new" => monitor[q] = "none"
  /\ monitor[q] \in {"none", "started"} => waited[q] = 0
  /\ (q \in activeQueries /\ monitor[q] # "over") => served[q] >= waited[q]
  /\ monitor[q] = "late" => waited[q] >= TimeoutOf[q]
  /\ monitor[q] = "found" => served[q] >= TimeoutOf[q]
  /\ monitor[q] # "over" => ~wasSlow[q] /\ ~killed[q]

TimeoutInv ==
  /\ TimeoutTypeOK /\ ContextsReleased /\ KilledOnTime
  /\ \A q \in TimedQueries : MonitorKnows(q)

(* No query has come.                                                      *)
LEMMA TimeoutStart == TimeoutInit => TimeoutInv
BY DEF TimeoutInit, TimeoutInv, TimeoutTypeOK, ContextsReleased, KilledOnTime, MonitorKnows

(* The engine's calls and the end of a context.                            *)
LEMMA QueryCalls ==
  ASSUME TimeoutInv, NEW q \in TimedQueries,
         \/ StartQuery(q) \/ RemoveAnswered(q) \/ ReleaseContext(q)
         \/ CancelQuery(q) \/ ExpireContext(q)
  PROVE  TimeoutInv'
<1> USE DEF TimeoutInv
<1>1. TimeoutTypeOK'
  BY DEF TimeoutTypeOK, StartQuery, RemoveAnswered, ReleaseContext, CancelQuery, ExpireContext
<1>2. ContextsReleased'
  BY DEF TimeoutTypeOK, ContextsReleased, StartQuery, RemoveAnswered, ReleaseContext,
         CancelQuery, ExpireContext
<1>3. KilledOnTime'
  BY DEF KilledOnTime, StartQuery, RemoveAnswered, ReleaseContext, CancelQuery, ExpireContext
<1>4. \A r \in TimedQueries : MonitorKnows(r)'
  BY DEF TimeoutTypeOK, MonitorKnows, StartQuery, RemoveAnswered, ReleaseContext,
         CancelQuery, ExpireContext
<1> QED
  BY <1>1, <1>2, <1>3, <1>4

(* The goroutine's steps.                                                  *)
LEMMA MonitorSteps ==
  ASSUME TimeoutInv, NEW q \in TimedQueries,
         \/ StartMonitor(q) \/ HandleSlowQuery(q) \/ SeeTimeout(q)
         \/ FindActive(q) \/ MarkKilled(q)
  PROVE  TimeoutInv'
<1> USE DEF TimeoutInv
<1>1. TimeoutTypeOK'
  <2>1. CASE StartMonitor(q)
    <3>1. limit' \in [TimedQueries -> Thresholds \cup {0}]
      BY <2>1, Zenon DEF TimeoutTypeOK, StartMonitor
    <3> QED
      BY <2>1, <3>1 DEF TimeoutTypeOK, StartMonitor
  <2>2. CASE HandleSlowQuery(q) \/ SeeTimeout(q)
    BY <2>2 DEF TimeoutTypeOK, HandleSlowQuery, SeeTimeout
  <2>3. CASE FindActive(q)
    BY <2>3 DEF TimeoutTypeOK, FindActive
  <2>4. CASE MarkKilled(q)
    <3>1. killed' \in [TimedQueries -> BOOLEAN]
      BY <2>4, Zenon DEF TimeoutTypeOK, MarkKilled
    <3> QED
      BY <2>4, <3>1 DEF TimeoutTypeOK, MarkKilled
  <2> QED
    BY <2>1, <2>2, <2>3, <2>4
<1>2. ContextsReleased'
  BY DEF ContextsReleased, StartMonitor, HandleSlowQuery, SeeTimeout, FindActive, MarkKilled
<1>3. KilledOnTime'
  BY DEF TimeoutTypeOK, KilledOnTime, MonitorKnows, StartMonitor, HandleSlowQuery,
         SeeTimeout, FindActive, MarkKilled
<1>4. \A r \in TimedQueries : MonitorKnows(r)'
  <2> SUFFICES ASSUME NEW r \in TimedQueries
               PROVE  MonitorKnows(r)'
    OBVIOUS
  <2>1. TimeoutOf[r] \in Nat /\ served[r] \in Nat /\ waited[r] \in Nat
    BY TimeoutAssumption DEF TimeoutAssumption, TimeoutTypeOK
  <2>2. CASE StartMonitor(q) \/ HandleSlowQuery(q) \/ SeeTimeout(q)
    BY <2>1, <2>2 DEF TimeoutTypeOK, MonitorKnows, StartMonitor, HandleSlowQuery, SeeTimeout
  <2>3. CASE FindActive(q) \/ MarkKilled(q)
    BY <2>1, <2>3 DEF TimeoutTypeOK, MonitorKnows, FindActive, MarkKilled
  <2> QED
    BY <2>2, <2>3
<1> QED
  BY <1>1, <1>2, <1>3, <1>4

(* The clock runs for the map and for the timers alike.                    *)
LEMMA ClockStep ==
  ASSUME TimeoutInv, TimePasses
  PROVE  TimeoutInv'
<1> USE DEF TimeoutInv
<1>1. TimeoutTypeOK'
  BY DEF TimeoutTypeOK, TimePasses
<1>2. ContextsReleased'
  BY DEF ContextsReleased, TimePasses
<1>3. ASSUME NEW q \in TimedQueries
      PROVE  /\ TimeoutOf[q] \in Nat /\ served[q] \in Nat /\ waited[q] \in Nat
             /\ served'[q] = IF q \in activeQueries THEN served[q] + 1 ELSE served[q]
             /\ waited'[q] = IF monitor[q] = "waiting" THEN waited[q] + 1 ELSE waited[q]
  BY TimeoutAssumption DEF TimeoutAssumption, TimeoutTypeOK, TimePasses
<1>4. KilledOnTime'
  BY <1>3 DEF KilledOnTime, TimePasses
<1>5. \A q \in TimedQueries : MonitorKnows(q)'
  BY <1>3 DEF MonitorKnows, TimePasses
<1> QED
  BY <1>1, <1>2, <1>4, <1>5

(* Every step keeps the invariant; a new configuration changes no query.   *)
LEMMA TimeoutSteps == TimeoutInv /\ [TimeoutNext]_timeoutVars => TimeoutInv'
<1> SUFFICES ASSUME TimeoutInv, [TimeoutNext]_timeoutVars
             PROVE  TimeoutInv'
  OBVIOUS
<1>1. CASE UNCHANGED timeoutVars
  BY <1>1 DEF timeoutVars, TimeoutInv, TimeoutTypeOK, ContextsReleased, KilledOnTime, MonitorKnows
<1>2. ASSUME NEW t \in Thresholds, NEW k \in BOOLEAN, SetTimeoutConfig(t, k)
      PROVE  TimeoutInv'
  BY <1>2 DEF SetTimeoutConfig, TimeoutInv, TimeoutTypeOK, ContextsReleased, KilledOnTime,
              MonitorKnows
<1>3. ASSUME NEW q \in TimedQueries,
             \/ StartQuery(q) \/ RemoveAnswered(q) \/ ReleaseContext(q) \/ CancelQuery(q)
             \/ ExpireContext(q) \/ StartMonitor(q) \/ HandleSlowQuery(q)
             \/ SeeTimeout(q) \/ FindActive(q) \/ MarkKilled(q)
      PROVE  TimeoutInv'
  BY <1>3, QueryCalls, MonitorSteps
<1> QED
  BY <1>1, <1>2, <1>3, ClockStep DEF TimeoutNext

(* So it holds always.                                                     *)
LEMMA TimeoutAlways == TimeoutSpec => []TimeoutInv
BY TimeoutStart, TimeoutSteps, PTL DEF TimeoutSpec

(* Type correctness: each query, context and goroutine is in one of its    *)
(* states.                                                                 *)
THEOREM TimeoutTypeCorrect == TimeoutSpec => []TimeoutTypeOK
BY TimeoutAlways, PTL DEF TimeoutInv

(* A query that is marked killed stayed in the map for its whole timeout   *)
(* and was not found slow, and one that was answered or cancelled leaves   *)
(* no live context but in the one step between: for any queries, timeouts, *)
(* cancellations and changes of the configuration, however late the        *)
(* goroutines run.                                                         *)
THEOREM TimeoutsSafe == TimeoutSpec => []TimeoutsSound
<1>1. TimeoutInv => TimeoutsSound
  BY DEF TimeoutInv, TimeoutsSound
<1> QED
  BY <1>1, TimeoutAlways, PTL
=============================================================================
