------------------------------ MODULE Pipeline ------------------------------
(***************************************************************************)
(* EnginePipeline (engines/base.go) with the engines whose work on a query *)
(* meets in it: the security and the transformation engine, which decide   *)
(* on what to mask, and the load balancer, which counts the queries of its *)
(* nodes. A query passes the engines in their order, and its response      *)
(* passes them in the same order; the first refusal ends either.           *)
(*                                                                         *)
(* "gate" stands for an engine that may refuse a query and leaves nothing  *)
(* in it (a limiter, a validator, an open breaker); one that never does is *)
(* no step of its own. Queries run concurrently, an engine's method is one *)
(* step except where it lets go of its mutex.                              *)
(***************************************************************************)
EXTENDS Integers, Sequences, FiniteSets

CONSTANTS
  Contexts,        \* the queries under way
  Engines,         \* their order: a sequence of "security",
                   \* "transformation", "balancer" and "gate"
  LBNodes,
  Strategy,        \* "least_connections", or another, for any eligible node
  Columns,         \* how many columns a response has
  MaxRows,         \* bound of the model: rows of a response
  MaxReplaced      \* bound of the model: nodes that are added again

(* A pipeline is given each engine once (server.go:153): the connections   *)
(* below are those of its one balancer, if it has any.                     *)
ASSUME PipelineAssumption ==
  /\ IsFiniteSet(Contexts)
  /\ Engines \in Seq({"security", "transformation", "balancer", "gate"})
  /\ \A i, j \in DOMAIN Engines : Engines[i] = "balancer" /\ Engines[j] = "balancer" => i = j
  /\ "" \notin LBNodes
  /\ Columns \in Nat /\ MaxRows \in Nat /\ MaxReplaced \in Nat

Fields == 1..Columns
Cells == (1..MaxRows) \X Fields

(* rows is -1 while there is no response, and hidden are the cells of it   *)
(* that are masked. asked is what the security rule wants masked, and      *)
(* maskFields what the query's metadata say. counted: the node that the    *)
(* query was counted for.                                                  *)
NewContext ==
  [at |-> "process", engine |-> 1, asked |-> {}, masked |-> FALSE, maskFields |-> {},
   target |-> "", counted |-> "", rows |-> -1, hidden |-> {}]

VARIABLES
  context,       \* per query: its context and the place of its goroutine
  connections,   \* per node: LBNode.Connections
  slow,          \* the nodes whose latency is above MaxLatencyMs
  forgotten,     \* per node: queries counted that no response will take
                 \* back, less those that a replaced node had been counting
  replaced       \* how many nodes were replaced

pipelineVars == <<context, connections, slow, forgotten, replaced>>

PipelineInit ==
  /\ context = [q \in Contexts |-> NewContext]
  /\ connections = [n \in LBNodes |-> 0]
  /\ slow = {}
  /\ forgotten = [n \in LBNodes |-> 0]
  /\ replaced = 0

(* Query q is in this engine's Process, or ProcessResponse.                *)
In(q, at, kind) ==
  /\ context[q].at = at
  /\ context[q].engine <= Len(Engines) /\ Engines[context[q].engine] = kind

(* The result of Process: the next engine, or the end, at which no engine  *)
(* that the query has passed hears of it again.                            *)
Refused(q) ==
  /\ context' = [context EXCEPT ![q] = [NewContext EXCEPT !.at = "refused"]]
  /\ forgotten' = [n \in LBNodes |->
       forgotten[n] + (IF context[q].counted = n THEN 1 ELSE 0)]

Passed(q, result) ==
  context' = [context EXCEPT ![q] = [result EXCEPT !.engine = @ + 1]]

-----------------------------------------------------------------------------
(* Process of the security engine: the first rule that matches decides;    *)
(* without one, what looks like an injection is refused.                   *)
SecurityProcess(q) ==
  /\ In(q, "process", "security")
  /\ \/ Refused(q)
     \/ Passed(q, context[q]) /\ UNCHANGED forgotten
     \/ \E fields \in SUBSET Fields :
          /\ Passed(q, [context[q] EXCEPT !.asked = fields, !.masked = TRUE,
                                          !.maskFields = fields])
          /\ UNCHANGED forgotten
  /\ UNCHANGED <<connections, slow, replaced>>

(* What it makes of the query's text is left out; a rule that masks writes *)
(* the metadata that the security engine's rule may have written.          *)
TransformationProcess(q) ==
  /\ In(q, "process", "transformation")
  /\ \/ Passed(q, context[q])
     \/ \E fields \in SUBSET Fields :
          Passed(q, [context[q] EXCEPT !.maskFields = fields])
  /\ UNCHANGED <<connections, slow, forgotten, replaced>>

GateProcess(q) ==
  /\ In(q, "process", "gate")
  /\ Refused(q) \/ (Passed(q, context[q]) /\ UNCHANGED forgotten)
  /\ UNCHANGED <<connections, slow, replaced>>

-----------------------------------------------------------------------------
(* The load balancer chooses a node under the read lock, and counts the    *)
(* query for it under the write lock.                                      *)
Eligible == LBNodes \ slow
Best ==
  {n \in Eligible :
     Strategy = "least_connections" => \A m \in Eligible : connections[n] <= connections[m]}

SelectNode(q) ==
  /\ In(q, "process", "balancer") /\ context[q].target = ""
  /\ \/ Best = {} /\ Refused(q)
     \/ \E n \in Best :
          context' = [context EXCEPT ![q].target = n] /\ UNCHANGED forgotten
  /\ UNCHANGED <<connections, slow, replaced>>

CountConnection(q) ==
  LET n == context[q].target
  IN  /\ In(q, "process", "balancer") /\ n # ""
      /\ connections' = [connections EXCEPT ![n] = @ + 1]
      /\ Passed(q, [context[q] EXCEPT !.counted = n])
      /\ UNCHANGED <<slow, forgotten, replaced>>

(* A node of the same name takes the place of the old one, and counts anew.*)
AddNode(n) ==
  /\ replaced < MaxReplaced
  /\ replaced' = replaced + 1
  /\ connections' = [connections EXCEPT ![n] = 0]
  /\ slow' = slow \ {n}
  /\ forgotten' = [forgotten EXCEPT ![n] = -Cardinality({q \in Contexts : context[q].counted = n})]
  /\ UNCHANGED context

-----------------------------------------------------------------------------
(* The query has passed all engines and is executed: there are rows, or    *)
(* there is no response at all.                                            *)
Execute(q) ==
  /\ context[q].at = "process" /\ context[q].engine = Len(Engines) + 1
  /\ \E rows \in -1..MaxRows :
       context' = [context EXCEPT ![q].at = "respond", ![q].engine = 1, ![q].rows = rows]
  /\ UNCHANGED <<connections, slow, forgotten, replaced>>

(* The security engine's ProcessResponse hides what the metadata name, but *)
(* looks for row r only in rows of at least r columns.                     *)
SecurityRespond(q) ==
  LET c == context[q]
      cells == {cell \in Cells : cell[1] <= c.rows /\ cell[1] <= Columns
                                 /\ c.masked /\ cell[2] \in c.maskFields}
  IN  /\ In(q, "respond", "security")
      /\ Passed(q, [c EXCEPT !.hidden = @ \cup cells])
      /\ UNCHANGED <<connections, slow, forgotten, replaced>>

(* The transformation engine looks for fields that nobody names.           *)
OtherRespond(q) ==
  /\ \E kind \in {"transformation", "gate"} : In(q, "respond", kind)
  /\ Passed(q, context[q])
  /\ UNCHANGED <<connections, slow, forgotten, replaced>>

(* Mutant: it is taken back without a look at the response; the query then *)
(* counts as one that never will be.                                       *)
BalancerRespond_Anyway(q, slowNow) ==
  LET n == context[q].counted
  IN  /\ In(q, "respond", "balancer") /\ n # ""
      /\ connections' = [connections EXCEPT ![n] = @ - 1]
      /\ slow' = IF slowNow THEN slow \cup {n} ELSE slow \ {n}
      /\ forgotten' = [forgotten EXCEPT ![n] = IF context[q].rows = -1 THEN @ + 1 ELSE @]
      /\ Passed(q, [context[q] EXCEPT !.counted = ""])
      /\ UNCHANGED replaced

(* The balancer takes the count back if there is a response, and learns    *)
(* the node's latency from it.                                             *)
BalancerRespond(q, slowNow) ==
  LET n == context[q].counted
  IN  /\ In(q, "respond", "balancer") /\ n # ""
      /\ IF context[q].rows = -1
           THEN /\ forgotten' = [forgotten EXCEPT ![n] = @ + 1]
                /\ UNCHANGED <<connections, slow>>
           ELSE /\ connections' = [connections EXCEPT ![n] = @ - 1]
                /\ slow' = IF slowNow THEN slow \cup {n} ELSE slow \ {n}
                /\ UNCHANGED forgotten
      /\ Passed(q, [context[q] EXCEPT !.counted = ""])
      /\ UNCHANGED replaced

Delivered(q) == context[q].at = "respond" /\ context[q].engine = Len(Engines) + 1

PipelineProcess(q) ==
  \/ SecurityProcess(q) \/ TransformationProcess(q) \/ GateProcess(q)
  \/ SelectNode(q) \/ CountConnection(q)

PipelineRespond(q) ==
  \/ SecurityRespond(q) \/ OtherRespond(q)
  \/ \E slowNow \in BOOLEAN : BalancerRespond(q, slowNow)

PipelineNext ==
  \/ \E q \in Contexts : PipelineProcess(q) \/ Execute(q) \/ PipelineRespond(q)
  \/ \E n \in LBNodes : AddNode(n)

PipelineSpec == PipelineInit /\ [][PipelineNext]_pipelineVars

-----------------------------------------------------------------------------
(* The variables range over what their declarations say.                   *)
PipelineTypeOK ==
  /\ context \in [Contexts ->
       [at : {"process", "respond", "refused"}, engine : 1..(Len(Engines) + 1),
        asked : SUBSET Fields, masked : BOOLEAN, maskFields : SUBSET Fields,
        target : LBNodes \cup {""}, counted : LBNodes \cup {""},
        rows : -1..MaxRows, hidden : SUBSET Cells]]
  /\ connections \in [LBNodes -> Int] /\ forgotten \in [LBNodes -> Int]
  /\ slow \subseteq LBNodes
  /\ replaced \in 0..MaxReplaced

(* A node's count is of the queries under way to it and of those nobody    *)
(* will take back: refused by a later engine or left with no response. It  *)
(* falls below by the queries that a replaced node was counting, and by    *)
(* nothing else, in whatever order queries choose, count and return.       *)
CountsExplained ==
  \A n \in LBNodes :
    connections[n] = Cardinality({q \in Contexts : context[q].counted = n}) + forgotten[n]

-----------------------------------------------------------------------------
(* TESTING_FLOW.md:389: "Expected: email and password fields should be     *)
(* masked". In a response that has passed the pipeline, every row has the  *)
(* fields masked that the security rule names.                             *)
EveryRowMasked ==
  \A q \in Contexts : Delivered(q) =>
    \A row \in 1..context[q].rows, field \in context[q].asked :
      <<row, field>> \in context[q].hidden
=============================================================================
