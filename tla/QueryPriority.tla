---------------------------- MODULE QueryPriority ----------------------------
(***************************************************************************)
(* QueryPriorityEngine (engines/query_priority_engine.go): a bounded queue *)
(* for each priority, each with a mutex of its own. Dequeue, SetPriority   *)
(* and ClearQueues visit the queues one at a time: Dequeue from the        *)
(* highest down, the others in the order of Go's map iteration, which may  *)
(* be any. The embedder enqueues a query once.                             *)
(***************************************************************************)
EXTENDS Integers, Sequences, SequencesExt

CONSTANTS
  Queries,
  TopPriority,      \* the priorities are 1..TopPriority (4 in the code)
  MaxQueueSize,
  Callers           \* goroutines that call the engine

ASSUME PriorityAssumption == TopPriority \in Nat /\ MaxQueueSize \in Nat

Priorities == 1..TopPriority

(* A requested priority may be of no queue.                                *)
Requested == Priorities \cup {0}

VARIABLES
  queues,     \* per priority: the queries in it
  fate,       \* per query: "new", "queued", or how it left the queues
  task        \* per caller: [op, left, query, to]; left are the queues it
              \* has not visited

priorityVars == <<queues, fate, task>>

NoQuery == "none"
Idle == [op |-> "idle", left |-> {}, query |-> NoQuery, to |-> 0]

PriorityInit ==
  /\ queues = [p \in Priorities |-> <<>>]
  /\ fate = [q \in Queries |-> "new"]
  /\ task = [c \in Callers |-> Idle]

-----------------------------------------------------------------------------
(* Enqueue, with the priority that determinePriority finds for the query.  *)
Enqueue(q, p) ==
  /\ fate[q] = "new"
  /\ IF p \in Priorities /\ Len(queues[p]) < MaxQueueSize
       THEN /\ queues' = [queues EXCEPT ![p] = Append(@, q)]
            /\ fate' = [fate EXCEPT ![q] = "queued"]
       ELSE /\ fate' = [fate EXCEPT ![q] = "refused"]
            /\ UNCHANGED queues
  /\ UNCHANGED task

StartTask(c, op, q, to) ==
  /\ task[c] = Idle
  /\ task' = [task EXCEPT ![c] = [op |-> op, left |-> Priorities, query |-> q, to |-> to]]
  /\ UNCHANGED <<queues, fate>>

Visits(c, op, p) == task[c].op = op /\ p \in task[c].left

NextQueue(c, p) == task' = [task EXCEPT ![c].left = @ \ {p}]

Finish(c) == task' = [task EXCEPT ![c] = Idle]

(* An empty hand at the end: Dequeue's nil, SetPriority's "not found".     *)
GiveUp(c) ==
  /\ task[c] # Idle /\ task[c].left = {} /\ task[c].op # "move"
  /\ Finish(c)
  /\ UNCHANGED <<queues, fate>>

-----------------------------------------------------------------------------
Dequeue(c, p) ==
  /\ Visits(c, "dequeue", p)
  /\ \A higher \in task[c].left : higher <= p
  /\ IF queues[p] = <<>>
       THEN NextQueue(c, p) /\ UNCHANGED <<queues, fate>>
       ELSE /\ fate' = [fate EXCEPT ![Head(queues[p])] = "served"]
            /\ queues' = [queues EXCEPT ![p] = Tail(@)]
            /\ Finish(c)

ClearQueues(c, p) ==
  /\ Visits(c, "clear", p)
  /\ fate' = [q \in Queries |-> IF Contains(queues[p], q) THEN "cleared" ELSE fate[q]]
  /\ queues' = [queues EXCEPT ![p] = <<>>]
  /\ NextQueue(c, p)

-----------------------------------------------------------------------------
(* Mutant: the query is only looked up, and stays in its queue.            *)
FindToMove_Copy(c, p) ==
  /\ Visits(c, "find", p)
  /\ IF Contains(queues[p], task[c].query)
       THEN task' = [task EXCEPT ![c].op = "move", ![c].left = {}]
       ELSE NextQueue(c, p)
  /\ UNCHANGED <<queues, fate>>

(* SetPriority: the query is taken out of the queue that has it.           *)
FindToMove(c, p) ==
  /\ Visits(c, "find", p)
  /\ IF Contains(queues[p], task[c].query)
       THEN /\ queues' = [queues EXCEPT ![p] = RemoveFirst(@, task[c].query)]
            /\ task' = [task EXCEPT ![c].op = "move", ![c].left = {}]
       ELSE NextQueue(c, p) /\ UNCHANGED queues
  /\ UNCHANGED fate

(* It joins the other one, full or not, or none if that does not exist.    *)
MoveTo(c) ==
  LET q == task[c].query
      p == task[c].to
  IN  /\ task[c].op = "move"
      /\ IF p \in Priorities
           THEN queues' = [queues EXCEPT ![p] = Append(@, q)] /\ UNCHANGED fate
           ELSE fate' = [fate EXCEPT ![q] = "lost"] /\ UNCHANGED queues
      /\ Finish(c)

PriorityNext ==
  \/ \E q \in Queries, p \in Requested : Enqueue(q, p)
  \/ \E c \in Callers :
       \/ StartTask(c, "dequeue", NoQuery, 0)
       \/ StartTask(c, "clear", NoQuery, 0)
       \/ \E q \in Queries, to \in Requested : StartTask(c, "find", q, to)
       \/ \E p \in Priorities : Dequeue(c, p) \/ ClearQueues(c, p) \/ FindToMove(c, p)
       \/ MoveTo(c)
       \/ GiveUp(c)

PrioritySpec == PriorityInit /\ [][PriorityNext]_priorityVars

-----------------------------------------------------------------------------
(* The variables range over what their declarations say.                   *)
PriorityTypeOK ==
  /\ queues \in [Priorities -> Seq(Queries)]
  /\ fate \in [Queries -> {"new", "refused", "queued", "served", "cleared", "lost"}]
  /\ task \in [Callers -> [op : {"idle", "dequeue", "clear", "find", "move"},
                           left : SUBSET Priorities,
                           query : Queries \cup {NoQuery}, to : Requested]]

PlacesOf(q) ==
  UNION {{<<p, i>> : i \in {j \in DOMAIN queues[p] : queues[p][j] = q}} : p \in Priorities}
MoversOf(q) == {c \in Callers : task[c].op = "move" /\ task[c].query = q}

(* A query that was accepted waits in one place until it is served once:   *)
(* in a queue, or in the hands of one SetPriority, though others search    *)
(* for it, serve from the queues and clear them at the same time. One that *)
(* is gone unserved was cleared, or moved to a priority that is none.      *)
OnePlace ==
  \A q \in Queries :
    Cardinality(PlacesOf(q)) + Cardinality(MoversOf(q)) = (IF fate[q] = "queued" THEN 1 ELSE 0)
=============================================================================
