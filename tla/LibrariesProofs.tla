-------------------------- MODULE LibrariesProofs ---------------------------
(***************************************************************************)
(* Proofs about Pipeline, Plugins, Shards, Dashboard and Secrets, for all  *)
(* values of their constants, and about MC_Libraries, which runs them and  *)
(* the parts of ResilienceProofs, LimitsProofs and QueryProofs side by     *)
(* side.                                                                   *)
(*                                                                         *)
(* The parts share no variable: a behaviour of MC_Libraries is a behaviour *)
(* of each of them, in which the parts at rest stutter. That is what       *)
(* carries the theorems about the parts to the specification the run       *)
(* checks.                                                                 *)
(***************************************************************************)
EXTENDS MC_Libraries, ResilienceProofs, LimitsProofs, QueryProofs,
        TLAPS, FiniteSetTheorems, SequenceTheorems

(* What a query carries through the pipeline.                              *)
ContextRecords ==
  [at : {"process", "respond", "refused"}, engine : 1..(Len(Engines) + 1),
   asked : SUBSET Fields, masked : BOOLEAN, maskFields : SUBSET Fields,
   target : LBNodes \cup {""}, counted : LBNodes \cup {""},
   rows : -1..MaxRows, hidden : SUBSET Cells]

(* The queries a node is counted for.                                      *)
CountedFor(n) == {q \in Contexts : context[q].counted = n}

(* A query that is counted while it is processed has passed the balancer.  *)
PassedBalancer(c) ==
  c.at = "process" /\ c.counted # "" =>
    \E i \in 1..Len(Engines) : i < c.engine /\ Engines[i] = "balancer"

(* CountsExplained is not inductive: a balancer that counted a query twice *)
(* would overwrite the node it was counted for. A query that has been      *)
(* counted is past the one balancer, so it does not meet it again.         *)
PipelineInv ==
  PipelineTypeOK /\ CountsExplained /\ \A q \in Contexts : PassedBalancer(context[q])

(* The bounds are numbers, and the queries are finitely many.              *)
LEMMA PipelineNumbers ==
  /\ Columns \in Nat /\ MaxRows \in Nat /\ MaxReplaced \in Nat /\ Len(Engines) \in Nat
  /\ DOMAIN Engines = 1..Len(Engines)
  /\ "" \notin LBNodes /\ IsFiniteSet(Contexts)
BY PipelineAssumption, LenProperties DEF PipelineAssumption

(* The engines are numbered from one.                                      *)
LEMMA Places == 1..Len(Engines) \subseteq Nat /\ 1..(Len(Engines) + 1) \subseteq Nat
<1>1. Len(Engines) \in Nat
  BY PipelineNumbers
<1> QED
  BY <1>1

(* A query enters the pipeline, or leaves it refused, uncounted.           *)
LEMMA NewContextType ==
  /\ NewContext \in ContextRecords /\ NewContext.counted = ""
  /\ [NewContext EXCEPT !.at = "refused"] \in ContextRecords
  /\ [NewContext EXCEPT !.at = "refused"].counted = ""
<1>1. 1 \in 1..(Len(Engines) + 1) /\ -1 \in -1..MaxRows
  <2>1. Len(Engines) \in Nat /\ MaxRows \in Nat
    BY PipelineNumbers
  <2> QED
    BY <2>1
<1>2. NewContext \in ContextRecords /\ NewContext.counted = ""
  BY <1>1 DEF NewContext, ContextRecords
<1> QED
  BY <1>2 DEF ContextRecords

(* The types, for use in steps that do not expand them.                    *)
LEMMA ContextTyped ==
  ASSUME PipelineTypeOK
  PROVE  /\ context \in [Contexts -> ContextRecords]
         /\ connections \in [LBNodes -> Int] /\ forgotten \in [LBNodes -> Int]
         /\ slow \subseteq LBNodes
BY DEF PipelineTypeOK, ContextRecords

(* The queries counted for a node can be counted.                          *)
LEMMA NumberCounted ==
  ASSUME NEW n
  PROVE  IsFiniteSet(CountedFor(n)) /\ Cardinality(CountedFor(n)) \in Nat
<1>1. CountedFor(n) \in SUBSET Contexts
  BY DEF CountedFor
<1> QED
  BY <1>1, PipelineNumbers, FS_Subset, FS_CardinalityType

(* In the initial state no query is counted and no node busy.              *)
LEMMA PipelineStarts == PipelineInit => PipelineInv
<1> SUFFICES ASSUME PipelineInit PROVE PipelineInv
  OBVIOUS
<1>1. \A q \in Contexts : context[q] = NewContext
  BY DEF PipelineInit
<1>2. PipelineTypeOK
  <2>1. context \in [Contexts -> ContextRecords]
    BY NewContextType DEF PipelineInit
  <2>2. /\ connections \in [LBNodes -> Int] /\ forgotten \in [LBNodes -> Int]
        /\ slow \subseteq LBNodes /\ replaced \in 0..MaxReplaced
    <3>1. MaxReplaced \in Nat
      BY PipelineNumbers
    <3> QED
      BY <3>1 DEF PipelineInit
  <2> QED
    BY <2>1, <2>2 DEF PipelineTypeOK, ContextRecords
<1>3. ASSUME NEW n \in LBNodes
      PROVE  connections[n] = Cardinality(CountedFor(n)) + forgotten[n]
  <2>1. CountedFor(n) = {}
    BY <1>1, NewContextType, PipelineNumbers DEF CountedFor
  <2> QED
    BY <2>1, FS_EmptySet DEF PipelineInit
<1> QED
  BY <1>1, <1>2, <1>3, NewContextType DEF PipelineInv, CountsExplained, CountedFor, PassedBalancer

(* One query's context changes, and with it one count at most.             *)
LEMMA Recount ==
  ASSUME PipelineTypeOK, NEW q \in Contexts, NEW now \in ContextRecords, NEW n \in LBNodes,
         context' = [context EXCEPT ![q] = now]
  PROVE  Cardinality(CountedFor(n))' =
           Cardinality(CountedFor(n)) - (IF context[q].counted = n THEN 1 ELSE 0)
             + (IF now.counted = n THEN 1 ELSE 0)
<1> DEFINE others == CountedFor(n) \ {q}
<1>1. /\ IsFiniteSet(others) /\ Cardinality(others) \in Nat /\ q \notin others
      /\ Cardinality(others) =
           IF context[q].counted = n THEN Cardinality(CountedFor(n)) - 1
           ELSE Cardinality(CountedFor(n))
  <2>1. q \in CountedFor(n) <=> context[q].counted = n
    BY DEF CountedFor
  <2>2. IsFiniteSet(CountedFor(n))
    BY NumberCounted
  <2>3. /\ IsFiniteSet(others)
        /\ Cardinality(others) = IF q \in CountedFor(n) THEN Cardinality(CountedFor(n)) - 1
                                ELSE Cardinality(CountedFor(n))
    BY <2>2, FS_RemoveElement
  <2>4. Cardinality(others) \in Nat
    BY <2>3, FS_CardinalityType
  <2> QED
    BY <2>1, <2>3, <2>4
<1>2. CountedFor(n)' = IF now.counted = n THEN others \cup {q} ELSE others
  BY DEF CountedFor, PipelineTypeOK
<1>3. Cardinality(others \cup {q}) = Cardinality(others) + 1
  BY <1>1, FS_AddElement
<1> HIDE DEF others
<1>4. Cardinality(CountedFor(n))' =
        Cardinality(others) + (IF now.counted = n THEN 1 ELSE 0)
  BY <1>1, <1>2, <1>3
<1> QED
  BY <1>1, <1>4, NumberCounted

(* What CountsExplained says is the number of queries counted.             *)
Surplus(n) == connections[n] - forgotten[n]

(* A step of one query keeps the invariant if the counters follow what     *)
(* becomes of the query's own count.                                       *)
LEMMA ContextMoves ==
  ASSUME PipelineInv, NEW q \in Contexts, NEW now \in ContextRecords, PassedBalancer(now),
         context' = [context EXCEPT ![q] = now],
         connections' \in [LBNodes -> Int], forgotten' \in [LBNodes -> Int],
         slow' \subseteq LBNodes, UNCHANGED replaced,
         \A n \in LBNodes :
           Surplus(n)' = Surplus(n) - (IF context[q].counted = n THEN 1 ELSE 0)
                           + (IF now.counted = n THEN 1 ELSE 0)
  PROVE  PipelineInv'
<1>1. PipelineTypeOK'
  BY DEF PipelineInv, PipelineTypeOK, ContextRecords
<1>2. ASSUME NEW n \in LBNodes
      PROVE  connections'[n] = Cardinality(CountedFor(n))' + forgotten'[n]
  <2>1. connections[n] = Cardinality(CountedFor(n)) + forgotten[n]
    BY DEF PipelineInv, CountsExplained, CountedFor
  <2>2. /\ connections[n] \in Int /\ forgotten[n] \in Int
        /\ connections'[n] \in Int /\ forgotten'[n] \in Int
        /\ Cardinality(CountedFor(n)) \in Nat
    BY NumberCounted DEF PipelineInv, PipelineTypeOK
  <2>3. Cardinality(CountedFor(n))' =
           Cardinality(CountedFor(n)) - (IF context[q].counted = n THEN 1 ELSE 0)
             + (IF now.counted = n THEN 1 ELSE 0)
    <3>1. PipelineTypeOK
      BY DEF PipelineInv
    <3> QED
      BY ONLY <3>1, Recount, q \in Contexts, now \in ContextRecords, n \in LBNodes,
              context' = [context EXCEPT ![q] = now]
  <2> QED
    BY <2>1, <2>2, <2>3 DEF Surplus
<1>3. \A p \in Contexts : PassedBalancer(context'[p])
  BY DEF PipelineInv, PipelineTypeOK
<1> QED
  BY <1>1, <1>2, <1>3 DEF PipelineInv, CountsExplained, CountedFor

-----------------------------------------------------------------------------
(* An engine refuses the query: what it was counted for is forgotten.      *)
LEMMA RefusedStep ==
  ASSUME PipelineInv, NEW q \in Contexts, Refused(q), UNCHANGED <<connections, slow, replaced>>
  PROVE  PipelineInv'
<1> DEFINE now == [NewContext EXCEPT !.at = "refused"]
<1>1. now \in ContextRecords /\ now.counted = "" /\ PassedBalancer(now)
  BY NewContextType DEF PassedBalancer
<1>2. context' = [context EXCEPT ![q] = now]
  BY DEF Refused
<1> HIDE DEF now
<1>3. /\ connections' \in [LBNodes -> Int] /\ forgotten' \in [LBNodes -> Int]
      /\ slow' \subseteq LBNodes
  <2>1. ASSUME NEW n \in LBNodes
        PROVE  forgotten[n] + (IF context[q].counted = n THEN 1 ELSE 0) \in Int
    BY ContextTyped DEF PipelineInv
  <2>2. forgotten' \in [LBNodes -> Int]
    BY <2>1 DEF Refused
  <2> QED
    BY <2>2 DEF PipelineInv, PipelineTypeOK
<1>4. ASSUME NEW n \in LBNodes
      PROVE  Surplus(n)' = Surplus(n) - (IF context[q].counted = n THEN 1 ELSE 0)
                             + (IF now.counted = n THEN 1 ELSE 0)
  <2>1. connections[n] \in Int /\ forgotten[n] \in Int
    BY DEF PipelineInv, PipelineTypeOK
  <2>2. forgotten'[n] = forgotten[n] + (IF context[q].counted = n THEN 1 ELSE 0)
    BY DEF Refused
  <2>3. now.counted # n
    BY <1>1, PipelineNumbers
  <2> QED
    BY <2>1, <2>2, <2>3 DEF Surplus
<1> QED
  BY <1>1, <1>2, <1>3, <1>4, ContextMoves

(* A query goes on, counted as it was. *)
LEMMA GoesOn ==
  ASSUME PipelineInv, NEW q \in Contexts, NEW now \in ContextRecords,
         now.counted = context[q].counted,
         now.at = "process" => context[q].at = "process" /\ context[q].engine <= now.engine,
         context' = [context EXCEPT ![q] = now],
         UNCHANGED <<connections, slow, forgotten, replaced>>
  PROVE  PipelineInv'
<1>1. /\ connections' \in [LBNodes -> Int] /\ forgotten' \in [LBNodes -> Int]
      /\ slow' \subseteq LBNodes
  BY DEF PipelineInv, PipelineTypeOK
<1>2. ASSUME NEW n \in LBNodes
      PROVE  Surplus(n)' = Surplus(n) - (IF context[q].counted = n THEN 1 ELSE 0)
                             + (IF now.counted = n THEN 1 ELSE 0)
  <2>1. Surplus(n) \in Int /\ Surplus(n)' = Surplus(n)
    BY ContextTyped DEF Surplus, PipelineInv
  <2> QED
    BY <2>1
<1>3. PassedBalancer(now)
  <2>1. PassedBalancer(context[q])
    BY DEF PipelineInv
  <2>2. context[q].engine \in 1..(Len(Engines) + 1) /\ now.engine \in 1..(Len(Engines) + 1)
    BY ContextTyped DEF PipelineInv, ContextRecords
  <2> SUFFICES ASSUME now.at = "process", now.counted # ""
               PROVE  \E i \in 1..Len(Engines) : i < now.engine /\ Engines[i] = "balancer"
    BY DEF PassedBalancer
  <2>3. PICK i \in 1..Len(Engines) : i < context[q].engine /\ Engines[i] = "balancer"
    BY <2>1 DEF PassedBalancer
  <2>4. i \in Nat /\ context[q].engine \in Nat /\ now.engine \in Nat
    BY <2>2, Places
  <2>5. context[q].engine <= now.engine
    OBVIOUS
  <2>6. i < now.engine
    BY ONLY <2>3, <2>4, <2>5
  <2> QED
    BY <2>3, <2>6
<1> QED
  BY <1>1, <1>2, <1>3, ContextMoves

(* A query passes an engine that does not count it.                        *)
LEMMA PassedStep ==
  ASSUME PipelineInv, NEW q \in Contexts, NEW result \in ContextRecords,
         result.at = context[q].at, result.engine = context[q].engine,
         result.counted = context[q].counted,
         context[q].engine <= Len(Engines), Passed(q, result),
         UNCHANGED <<connections, slow, forgotten, replaced>>
  PROVE  PipelineInv'
<1> DEFINE now == [result EXCEPT !.engine = @ + 1]
<1>1. context[q].engine \in 1..(Len(Engines) + 1) /\ Len(Engines) \in Nat
  BY PipelineNumbers DEF PipelineInv, PipelineTypeOK
<1>2. /\ now \in ContextRecords /\ now.at = context[q].at
      /\ now.counted = context[q].counted /\ context[q].engine <= now.engine
  <2>1. result.engine + 1 \in 1..(Len(Engines) + 1) /\ context[q].engine <= result.engine + 1
    BY <1>1
  <2> QED
    BY <2>1 DEF ContextRecords
<1>3. context' = [context EXCEPT ![q] = now]
  BY DEF Passed
<1> HIDE DEF now
<1> QED
  BY <1>2, <1>3, GoesOn

(* Process of an engine: the balancer counts the query for the node it has *)
(* selected, the others count nothing.                                     *)
LEMMA ProcessStep ==
  ASSUME PipelineInv, NEW q \in Contexts, PipelineProcess(q)
  PROVE  PipelineInv'
<1>1. CASE Refused(q) /\ UNCHANGED <<connections, slow, replaced>>
  BY <1>1, RefusedStep
<1>2. ASSUME NEW kind, In(q, "process", kind)
      PROVE  context[q].at = "process" /\ context[q].engine <= Len(Engines)
             /\ Engines[context[q].engine] = kind
  BY <1>2 DEF In
<1>3. context[q] \in ContextRecords
  BY ContextTyped DEF PipelineInv
<1>4. CASE SecurityProcess(q)
  <2>1. ASSUME Passed(q, context[q]), UNCHANGED <<connections, slow, forgotten, replaced>>
        PROVE  PipelineInv'
    BY <1>2, <1>3, <1>4, <2>1, PassedStep DEF SecurityProcess
  <2>2. ASSUME NEW fields \in SUBSET Fields,
               Passed(q, [context[q] EXCEPT !.asked = fields, !.masked = TRUE,
                                            !.maskFields = fields]),
               UNCHANGED <<connections, slow, forgotten, replaced>>
        PROVE  PipelineInv'
    <3> DEFINE result == [context[q] EXCEPT !.asked = fields, !.masked = TRUE,
                                            !.maskFields = fields]
    <3>1. /\ result \in ContextRecords /\ result.at = context[q].at
          /\ result.engine = context[q].engine /\ result.counted = context[q].counted
      BY <1>3 DEF ContextRecords
    <3>2. Passed(q, result) /\ context[q].engine <= Len(Engines)
      BY <1>2, <1>4, <2>2 DEF SecurityProcess
    <3> HIDE DEF result
    <3> QED
      BY <2>2, <3>1, <3>2, PassedStep
  <2> QED
    BY <1>1, <1>4, <2>1, <2>2 DEF SecurityProcess
<1>5. CASE TransformationProcess(q)
  <2>1. CASE Passed(q, context[q])
    BY <1>2, <1>3, <1>5, <2>1, PassedStep DEF TransformationProcess
  <2>2. ASSUME NEW fields \in SUBSET Fields,
               Passed(q, [context[q] EXCEPT !.maskFields = fields])
        PROVE  PipelineInv'
    <3> DEFINE result == [context[q] EXCEPT !.maskFields = fields]
    <3>1. /\ result \in ContextRecords /\ result.at = context[q].at
          /\ result.engine = context[q].engine /\ result.counted = context[q].counted
      BY <1>3 DEF ContextRecords
    <3>2. /\ Passed(q, result) /\ context[q].engine <= Len(Engines)
          /\ UNCHANGED <<connections, slow, forgotten, replaced>>
      BY <1>2, <1>5, <2>2 DEF TransformationProcess
    <3> HIDE DEF result
    <3> QED
      BY <3>1, <3>2, PassedStep
  <2> QED
    BY <1>5, <2>1, <2>2 DEF TransformationProcess
<1>6. CASE GateProcess(q)
  BY <1>1, <1>2, <1>3, <1>6, PassedStep DEF GateProcess
<1>7. CASE SelectNode(q)
  <2>1. ASSUME NEW n \in Best, context' = [context EXCEPT ![q].target = n]
        PROVE  PipelineInv'
    <3> DEFINE now == [context[q] EXCEPT !.target = n]
    <3>1. n \in LBNodes
      BY DEF Best, Eligible
    <3>2. /\ now \in ContextRecords /\ now.at = context[q].at
          /\ now.engine = context[q].engine /\ now.counted = context[q].counted
      BY <1>3, <3>1 DEF ContextRecords
    <3>3. context' = [context EXCEPT ![q] = now]
      BY <2>1 DEF PipelineInv, PipelineTypeOK
    <3>4. UNCHANGED <<connections, slow, forgotten, replaced>>
      BY <1>7, <2>1 DEF SelectNode
    <3>5. context[q].engine \in Nat
      BY <1>3, Places DEF ContextRecords
    <3>6. context[q].engine <= context[q].engine
      BY ONLY <3>5
    <3> HIDE DEF now
    <3> QED
      BY <3>2, <3>3, <3>4, <3>6, GoesOn
  <2> QED
    BY <1>1, <1>7, <2>1 DEF SelectNode
<1>8. CASE CountConnection(q)
  <2> DEFINE n == context[q].target
             e == context[q].engine
             now == [context[q] EXCEPT !.counted = n, !.engine = @ + 1]
  <2>1. /\ n \in LBNodes /\ UNCHANGED <<slow, forgotten, replaced>>
        /\ connections' = [connections EXCEPT ![n] = @ + 1]
    BY <1>3, <1>8 DEF CountConnection, ContextRecords
  <2>2. context' = [context EXCEPT ![q] = now]
    BY <1>3, <1>8 DEF CountConnection, Passed, ContextRecords
  <2>3. /\ context[q].at = "process" /\ e \in 1..Len(Engines) /\ Engines[e] = "balancer"
        /\ e \in Nat /\ e < e + 1 /\ e + 1 \in 1..(Len(Engines) + 1)
    <3>1. e \in 1..(Len(Engines) + 1) /\ e <= Len(Engines) /\ Engines[e] = "balancer"
          /\ context[q].at = "process"
      BY <1>2, <1>3, <1>8 DEF CountConnection, ContextRecords
    <3>2. Len(Engines) \in Nat
      BY PipelineNumbers
    <3> QED
      BY <3>1, <3>2
  <2>4. context[q].counted = ""
    <3>1. ASSUME NEW i \in 1..Len(Engines), i < e, Engines[i] = "balancer"
          PROVE  FALSE
      <4>1. i = e
        BY <2>3, <3>1, PipelineNumbers, PipelineAssumption DEF PipelineAssumption
      <4> QED
        BY ONLY <2>3, <3>1, <4>1
    <3> QED
      BY <2>3, <3>1 DEF PipelineInv, PassedBalancer
  <2>5. /\ now \in ContextRecords /\ now.counted = n /\ now.engine = e + 1
    BY <1>3, <2>1, <2>3 DEF ContextRecords
  <2>6. PassedBalancer(now)
    BY <2>3, <2>5 DEF PassedBalancer
  <2>7. /\ connections' \in [LBNodes -> Int] /\ forgotten' \in [LBNodes -> Int]
        /\ slow' \subseteq LBNodes
    BY <2>1, ContextTyped DEF PipelineInv
  <2>8. ASSUME NEW m \in LBNodes
        PROVE  Surplus(m)' = Surplus(m) - (IF context[q].counted = m THEN 1 ELSE 0)
                               + (IF now.counted = m THEN 1 ELSE 0)
    <3>1. connections[m] \in Int /\ forgotten[m] \in Int /\ context[q].counted # m
      BY <2>4, ContextTyped, PipelineNumbers DEF PipelineInv
    <3>2. /\ connections'[m] = connections[m] + (IF m = n THEN 1 ELSE 0)
          /\ forgotten'[m] = forgotten[m]
      <4>1. connections \in [LBNodes -> Int]
        BY ContextTyped DEF PipelineInv
      <4> HIDE DEF n
      <4>2. CASE m = n
        BY <2>1, <3>1, <4>1, <4>2
      <4>3. CASE m # n
        BY <2>1, <3>1, <4>1, <4>3
      <4> QED
        BY <4>2, <4>3
    <3>3. now.counted = n
      BY <2>5
    <3> HIDE DEF now, n
    <3>4. CASE m = n
      BY ONLY <3>1, <3>2, <3>3, <3>4 DEF Surplus
    <3>5. CASE m # n
      BY ONLY <3>1, <3>2, <3>3, <3>5 DEF Surplus
    <3> QED
      BY <3>4, <3>5
  <2> HIDE DEF now, n, e
  <2> QED
    BY <2>1, <2>2, <2>5, <2>6, <2>7, <2>8, ContextMoves
<1> QED
  BY <1>4, <1>5, <1>6, <1>7, <1>8 DEF PipelineProcess

(* The query is executed, and its response starts at the first engine.     *)
LEMMA ExecuteStep ==
  ASSUME PipelineInv, NEW q \in Contexts, Execute(q)
  PROVE  PipelineInv'
<1>1. PICK rows \in -1..MaxRows :
        context' = [context EXCEPT ![q].at = "respond", ![q].engine = 1, ![q].rows = rows]
  BY DEF Execute
<1> DEFINE now == [context[q] EXCEPT !.at = "respond", !.engine = 1, !.rows = rows]
<1>2. context[q] \in ContextRecords /\ 1 \in 1..(Len(Engines) + 1)
  <2>1. Len(Engines) \in Nat
    BY PipelineNumbers
  <2>2. 1 \in 1..(Len(Engines) + 1)
    BY <2>1
  <2> QED
    BY <2>2, ContextTyped DEF PipelineInv
<1>3. now \in ContextRecords /\ now.at = "respond" /\ now.counted = context[q].counted
  BY <1>2 DEF ContextRecords
<1>4. context' = [context EXCEPT ![q] = now]
  <2>1. context \in [Contexts -> ContextRecords]
    BY ContextTyped DEF PipelineInv
  <2> QED
    BY <1>1, <2>1
<1>5. UNCHANGED <<connections, slow, forgotten, replaced>>
  BY DEF Execute
<1> HIDE DEF now
<1> QED
  BY <1>3, <1>4, <1>5, GoesOn

(* ProcessResponse of an engine: the balancer gives the count back, or     *)
(* forgets it when there was no response.                                  *)
LEMMA RespondStep ==
  ASSUME PipelineInv, NEW q \in Contexts, PipelineRespond(q)
  PROVE  PipelineInv'
<1>1. ASSUME NEW kind, In(q, "respond", kind)
      PROVE  context[q].at = "respond" /\ context[q].engine <= Len(Engines)
  BY <1>1 DEF In
<1>2. context[q] \in ContextRecords
  BY ContextTyped DEF PipelineInv
<1>3. CASE SecurityRespond(q)
  <2> DEFINE cells == {cell \in Cells : cell[1] <= context[q].rows /\ cell[1] <= Columns
                         /\ context[q].masked /\ cell[2] \in context[q].maskFields}
             result == [context[q] EXCEPT !.hidden = @ \cup cells]
  <2>1. Passed(q, result) /\ UNCHANGED <<connections, slow, forgotten, replaced>>
    BY <1>3 DEF SecurityRespond
  <2>2. cells \in SUBSET Cells
    OBVIOUS
  <2> HIDE DEF cells
  <2>3. /\ result \in ContextRecords /\ result.at = context[q].at
        /\ result.engine = context[q].engine /\ result.counted = context[q].counted
    BY <1>2, <2>2 DEF ContextRecords
  <2>4. context[q].engine <= Len(Engines)
    BY <1>1, <1>3 DEF SecurityRespond
  <2> HIDE DEF result
  <2> QED
    BY <2>1, <2>3, <2>4, PassedStep
<1>4. CASE OtherRespond(q)
  BY <1>1, <1>2, <1>4, PassedStep DEF OtherRespond
<1>5. ASSUME NEW slowNow \in BOOLEAN, BalancerRespond(q, slowNow)
      PROVE  PipelineInv'
  <2> DEFINE n == context[q].counted
             now == [context[q] EXCEPT !.counted = "", !.engine = @ + 1]
  <2>1. n \in LBNodes /\ UNCHANGED replaced
    BY <1>2, <1>5 DEF BalancerRespond, ContextRecords
  <2>2. context' = [context EXCEPT ![q] = now]
    BY <1>2, <1>5 DEF BalancerRespond, Passed, ContextRecords
  <2>3. context[q].at = "respond" /\ context[q].engine + 1 \in 1..(Len(Engines) + 1)
    <3>1. /\ context[q].at = "respond" /\ context[q].engine \in 1..(Len(Engines) + 1)
          /\ context[q].engine <= Len(Engines)
      BY <1>1, <1>2, <1>5 DEF BalancerRespond, ContextRecords
    <3>2. Len(Engines) \in Nat
      BY PipelineNumbers
    <3> QED
      BY <3>1, <3>2
  <2>4. now \in ContextRecords /\ now.counted = "" /\ now.at = "respond"
    BY <1>2, <2>3 DEF ContextRecords
  <2> HIDE DEF now
  <2>5. PassedBalancer(now)
    BY <2>4 DEF PassedBalancer
  <2>6. /\ connections \in [LBNodes -> Int] /\ forgotten \in [LBNodes -> Int]
        /\ slow \subseteq LBNodes
    BY ContextTyped DEF PipelineInv
  <2>7. /\ connections' \in [LBNodes -> Int] /\ forgotten' \in [LBNodes -> Int]
        /\ slow' \subseteq LBNodes
    <3>1. CASE context[q].rows = -1
      <4>1. UNCHANGED <<connections, slow>> /\ forgotten' = [forgotten EXCEPT ![n] = @ + 1]
        BY <1>5, <3>1 DEF BalancerRespond
      <4> HIDE DEF n
      <4> QED
        BY <2>1, <2>6, <4>1
    <3>2. CASE context[q].rows # -1
      <4>1. /\ UNCHANGED forgotten /\ connections' = [connections EXCEPT ![n] = @ - 1]
            /\ slow' \subseteq slow \cup {n}
        BY <1>5, <3>2 DEF BalancerRespond
      <4> HIDE DEF n
      <4> QED
        BY <2>1, <2>6, <4>1
    <3> QED
      BY <3>1, <3>2
  <2>8. ASSUME NEW m \in LBNodes
        PROVE  Surplus(m)' = Surplus(m) - (IF context[q].counted = m THEN 1 ELSE 0)
                               + (IF now.counted = m THEN 1 ELSE 0)
    <3>1. connections[m] \in Int /\ forgotten[m] \in Int /\ now.counted # m
      BY <2>4, <2>6, PipelineNumbers
    <3>2. \/ /\ connections'[m] = connections[m]
             /\ forgotten'[m] = forgotten[m] + (IF n = m THEN 1 ELSE 0)
          \/ /\ connections'[m] = connections[m] - (IF n = m THEN 1 ELSE 0)
             /\ forgotten'[m] = forgotten[m]
      <4>1. CASE context[q].rows = -1
        <5>1. UNCHANGED <<connections, slow>> /\ forgotten' = [forgotten EXCEPT ![n] = @ + 1]
          BY <1>5, <4>1 DEF BalancerRespond
        <5> HIDE DEF n
        <5> QED
          BY <2>1, <2>6, <3>1, <5>1
      <4>2. CASE context[q].rows # -1
        <5>1. UNCHANGED forgotten /\ connections' = [connections EXCEPT ![n] = @ - 1]
          BY <1>5, <4>2 DEF BalancerRespond
        <5> HIDE DEF n
        <5> QED
          BY <2>1, <2>6, <3>1, <5>1
      <4> QED
        BY <4>1, <4>2
    <3> QED
      BY <3>1, <3>2 DEF Surplus
  <2> HIDE DEF n
  <2> QED
    BY <2>1, <2>2, <2>4, <2>5, <2>7, <2>8, ContextMoves
<1> QED
  BY <1>3, <1>4, <1>5 DEF PipelineRespond

(* AddNode over a node that is there starts its counter afresh; what it    *)
(* was counted for is then counted backwards when it is given back.        *)
LEMMA AddNodeStep ==
  ASSUME PipelineInv, NEW n \in LBNodes, AddNode(n)
  PROVE  PipelineInv'
<1>1. /\ connections' = [connections EXCEPT ![n] = 0]
      /\ forgotten' = [forgotten EXCEPT ![n] = -Cardinality(CountedFor(n))]
      /\ slow' = slow \ {n} /\ UNCHANGED context
  BY DEF AddNode, CountedFor
<1>2. replaced' \in 0..MaxReplaced
  <2>1. replaced \in 0..MaxReplaced /\ MaxReplaced \in Nat
    BY PipelineNumbers DEF PipelineInv, PipelineTypeOK
  <2> QED
    BY <2>1 DEF AddNode
<1>3. /\ connections \in [LBNodes -> Int] /\ forgotten \in [LBNodes -> Int]
      /\ context \in [Contexts -> ContextRecords] /\ slow \subseteq LBNodes
  BY ContextTyped DEF PipelineInv
<1>4. Cardinality(CountedFor(n)) \in Nat
  BY NumberCounted
<1>5. /\ connections' \in [LBNodes -> Int] /\ forgotten' \in [LBNodes -> Int]
      /\ slow' \subseteq LBNodes
  BY <1>1, <1>3, <1>4
<1>6. PipelineTypeOK'
  BY <1>1, <1>2, <1>3, <1>5 DEF PipelineTypeOK, ContextRecords
<1>7. ASSUME NEW m \in LBNodes
      PROVE  connections'[m] = Cardinality(CountedFor(m)) + forgotten'[m]
  <2>1. connections[m] = Cardinality(CountedFor(m)) + forgotten[m]
    BY DEF PipelineInv, CountsExplained, CountedFor
  <2>2. CASE m = n
    BY <1>1, <1>3, <1>4, <2>2
  <2>3. CASE m # n
    BY <1>1, <1>3, <2>1, <2>3
  <2> QED
    BY <2>2, <2>3
<1>8. \A q \in Contexts : PassedBalancer(context'[q])
  BY <1>1 DEF PipelineInv
<1> QED
  BY <1>1, <1>6, <1>7, <1>8 DEF PipelineInv, CountsExplained, CountedFor

(* Every step keeps the invariant.                                         *)
LEMMA PipelineSteps ==
  ASSUME PipelineInv, [PipelineNext]_pipelineVars
  PROVE  PipelineInv'
<1>1. CASE UNCHANGED pipelineVars
  BY <1>1 DEF pipelineVars, PipelineInv, PipelineTypeOK, CountsExplained, PassedBalancer
<1>2. CASE PipelineNext
  BY <1>2, ProcessStep, ExecuteStep, RespondStep, AddNodeStep DEF PipelineNext
<1> QED
  BY <1>1, <1>2

(* The invariant holds in every state.                                     *)
LEMMA PipelineAlways == PipelineSpec => []PipelineInv
BY PipelineStarts, PipelineSteps, PTL DEF PipelineSpec

(* Type correctness: the contexts and counters of the pipeline keep their  *)
(* types for any list of engines, nodes and queries.                       *)
THEOREM PipelineTypeCorrect == PipelineSpec => []PipelineTypeOK
BY PipelineAlways, PTL DEF PipelineInv

(* A node's connection counter is the number of queries counted for it and *)
(* the ones that were refused or unanswered and never given back, for any  *)
(* pipeline with at most one balancer and any number of queries in it.     *)
THEOREM CountsAlwaysExplained == PipelineSpec => []CountsExplained
BY PipelineAlways, PTL DEF PipelineInv

-----------------------------------------------------------------------------
(* A request is in the plugin manager.                                     *)
Busy(r) == requester[r] # Unoccupied

(* The plugin that the context runs, or one that Close took from it.       *)
Current(plugin) ==
  IF shut THEN plugin \in closed \cup {Nil} ELSE plugin = inContext /\ plugin # 0

(* While no two requests cross: a load is alone, and what each step of it  *)
(* left to the next is still so.                                           *)
Uncrossed ==
  /\ \A r, s \in Requesters : Loading(r) /\ Busy(s) => r = s
  /\ \A r \in Requesters :
       /\ requester[r].at = "loaded" => inContext # 0 \/ shut
       /\ requester[r].at = "got" => Current(requester[r].plugin)
       /\ requester[r].at = "unregistered" => inRegistry = 0
  /\ Quiescent => (inRegistry = 0 /\ inContext = 0) \/ Current(inRegistry)

(* MapsAgree speaks of quiet states only; between the two locks of Load    *)
(* and Unload the maps differ, and the invariant says how.                 *)
PluginsInv ==
  /\ PluginsTypeOK
  /\ \A r \in Requesters : requester[r].at = "idle" => ~Busy(r)
  /\ inContext \notin closed
  /\ shut => inContext = 0
  /\ ~crossed => Uncrossed

(* The manager starts with no plugin and no request.                       *)
LEMMA PluginsStart == PluginsInit => PluginsInv
<1> SUFFICES ASSUME PluginsInit PROVE PluginsInv
  OBVIOUS
<1>1. /\ compiled = 0 /\ inContext = 0 /\ inRegistry = 0 /\ closed = {} /\ ~shut /\ ~crossed
      /\ shut \in BOOLEAN /\ crossed \in BOOLEAN
      /\ \A r \in Requesters : requester[r] = Unoccupied
  BY DEF PluginsInit
<1>2. requester \in [Requesters -> [at : {"idle", "loaded", "got", "unregistered"},
                                   plugin : 0..compiled \cup {Nil}]]
  BY <1>1 DEF PluginsInit, Unoccupied
<1>3. PluginsTypeOK
  <2>1. compiled \in 0..MaxPlugins
    BY <1>1, PluginsAssumption DEF PluginsAssumption
  <2>2. inContext \in 0..compiled /\ inRegistry \in 0..compiled /\ closed \subseteq 1..compiled
    BY <1>1
  <2> QED
    BY <1>1, <1>2, <2>1, <2>2 DEF PluginsTypeOK
<1>4. Unoccupied.at = "idle"
  BY DEF Unoccupied
<1> QED
  BY <1>1, <1>3, <1>4 DEF PluginsInv, Uncrossed, Busy, Loading

(* A request goes on to its next step.                                     *)
LEMMA RequesterMoves ==
  ASSUME PluginsTypeOK, NEW r \in Requesters,
         compiled' \in Nat, compiled <= compiled',
         NEW at \in {"idle", "loaded", "got", "unregistered"},
         NEW plugin \in 0..compiled' \cup {Nil},
         Becomes(r, at, plugin)
  PROVE  /\ requester' \in [Requesters -> [at : {"idle", "loaded", "got", "unregistered"},
                                           plugin : 0..compiled' \cup {Nil}]]
         /\ requester'[r].at = at /\ requester'[r].plugin = plugin
         /\ Busy(r)' <=> (at # "idle" \/ plugin # 0)
         /\ \A s \in Requesters : s # r => requester'[s] = requester[s]
<1>1. 0..compiled \cup {Nil} \subseteq 0..compiled' \cup {Nil}
  BY DEF PluginsTypeOK
<1> QED
  BY <1>1 DEF PluginsTypeOK, Becomes, Busy, Unoccupied

(* Load stores the plugin in the context ...                               *)
LEMMA LoadStep ==
  ASSUME PluginsInv, NEW r \in Requesters, LoadIntoContext(r)
  PROVE  PluginsInv'
<1>1. /\ compiled' \in 0..MaxPlugins /\ compiled \in Nat /\ compiled' = compiled + 1
      /\ inContext' = compiled' /\ ~shut /\ UNCHANGED <<inRegistry, closed, shut>>
  BY PluginsAssumption DEF LoadIntoContext, PluginsInv, PluginsTypeOK, PluginsAssumption
<1>2. Becomes(r, "loaded", 0)
  BY DEF LoadIntoContext
<1>3. /\ requester' \in [Requesters -> [at : {"idle", "loaded", "got", "unregistered"},
                                           plugin : 0..compiled' \cup {Nil}]]
      /\ requester'[r].at = "loaded" /\ Busy(r)'
      /\ \A s \in Requesters : s # r => requester'[s] = requester[s]
  BY <1>1, <1>2, RequesterMoves DEF PluginsInv
<1>4. crossed' \in BOOLEAN /\ (~crossed' => Quiescent)
  BY DEF LoadIntoContext, Enters, PluginsInv, PluginsTypeOK
<1>5. PluginsTypeOK'
  BY <1>1, <1>3, <1>4 DEF PluginsInv, PluginsTypeOK, Nil
<1>6. \A s \in Requesters : requester'[s].at = "idle" => ~Busy(s)'
  BY <1>3 DEF PluginsInv, Busy
<1>7. inContext' \notin closed'
  BY <1>1 DEF PluginsInv, PluginsTypeOK
<1>8. ASSUME ~crossed'
      PROVE  Uncrossed'
  <2>1. \A s \in Requesters : s # r => ~Busy(s)' /\ requester'[s].at = "idle"
    BY <1>3, <1>4, <1>8 DEF Quiescent, Busy, Unoccupied
  <2> QED
    BY <1>1, <1>3, <2>1 DEF Uncrossed, Quiescent, Busy, Loading
<1> QED
  BY <1>1, <1>5, <1>6, <1>7, <1>8 DEF PluginsInv

(* ... LoadPlugin reads it back, under another lock ...                    *)
LEMMA GetStep ==
  ASSUME PluginsInv, NEW r \in Requesters, GetLoaded(r)
  PROVE  PluginsInv'
<1> DEFINE plugin == IF inContext = 0 THEN Nil ELSE inContext
<1>1. UNCHANGED <<compiled, inContext, inRegistry, closed, shut, crossed>> /\ Becomes(r, "got", plugin)
  BY DEF GetLoaded
<1>2. plugin \in 0..compiled' \cup {Nil} /\ compiled \in Nat
  BY <1>1 DEF PluginsInv, PluginsTypeOK
<1> HIDE DEF plugin
<1>3. /\ requester' \in [Requesters -> [at : {"idle", "loaded", "got", "unregistered"},
                                           plugin : 0..compiled' \cup {Nil}]]
      /\ requester'[r].at = "got" /\ requester'[r].plugin = plugin /\ Busy(r)'
      /\ \A s \in Requesters : s # r => requester'[s] = requester[s]
  BY <1>1, <1>2, RequesterMoves DEF PluginsInv
<1>4. PluginsTypeOK'
  BY <1>1, <1>3 DEF PluginsInv, PluginsTypeOK, Nil
<1>5. \A s \in Requesters : requester'[s].at = "idle" => ~Busy(s)'
  BY <1>3 DEF PluginsInv, Busy
<1>6. ASSUME ~crossed'
      PROVE  Uncrossed'
  <2>1. Uncrossed /\ requester[r].at = "loaded" /\ Loading(r)
    BY <1>1, <1>6 DEF PluginsInv, GetLoaded, Loading
  <2>2. IF shut THEN plugin = Nil ELSE plugin = inContext /\ plugin # 0
    BY <2>1 DEF Uncrossed, PluginsInv, plugin
  <2>3. \A s \in Requesters : s # r => ~Busy(s)' /\ requester'[s].at = "idle"
    BY <1>3, <2>1 DEF Uncrossed, Busy, Unoccupied
  <2> QED
    BY <1>1, <1>3, <2>2, <2>3 DEF Uncrossed, Current, Quiescent, Busy, Loading, Nil
<1> QED
  BY <1>1, <1>4, <1>5, <1>6 DEF PluginsInv

(* ... and registers what it has read.                                     *)
LEMMA RegisterStep ==
  ASSUME PluginsInv, NEW r \in Requesters, Register(r)
  PROVE  PluginsInv'
<1>1. /\ UNCHANGED <<compiled, inContext, closed, shut, crossed>> /\ Becomes(r, "idle", 0)
      /\ inRegistry' = requester[r].plugin
  BY DEF Register
<1>2. compiled \in Nat /\ inRegistry' \in 0..compiled \cup {Nil}
  BY <1>1 DEF PluginsInv, PluginsTypeOK
<1>3. /\ requester' \in [Requesters -> [at : {"idle", "loaded", "got", "unregistered"},
                                           plugin : 0..compiled' \cup {Nil}]]
      /\ requester'[r].at = "idle" /\ ~Busy(r)'
      /\ \A s \in Requesters : s # r => requester'[s] = requester[s]
  BY <1>1, <1>2, RequesterMoves DEF PluginsInv
<1>4. PluginsTypeOK'
  BY <1>1, <1>2, <1>3 DEF PluginsInv, PluginsTypeOK, Nil
<1>5. \A s \in Requesters : requester'[s].at = "idle" => ~Busy(s)'
  BY <1>3 DEF PluginsInv, Busy
<1>6. ASSUME ~crossed'
      PROVE  Uncrossed'
  <2>1. Uncrossed /\ requester[r].at = "got" /\ Loading(r)
    BY <1>1, <1>6 DEF PluginsInv, Register, Loading
  <2>2. Current(inRegistry)'
    BY <1>1, <2>1 DEF Uncrossed, Current, Nil
  <2>3. \A s \in Requesters : ~Busy(s)' /\ requester'[s].at = "idle"
    BY <1>3, <2>1 DEF Uncrossed, Busy, Unoccupied
  <2> QED
    BY <2>2, <2>3 DEF Uncrossed, Quiescent, Busy, Loading
<1> QED
  BY <1>1, <1>4, <1>5, <1>6 DEF PluginsInv

(* Unload takes the plugin from the registry ...                           *)
LEMMA UnregisterStep ==
  ASSUME PluginsInv, NEW r \in Requesters, Unregister(r)
  PROVE  PluginsInv'
<1>1. /\ UNCHANGED <<compiled, inContext, closed, shut>> /\ Becomes(r, "unregistered", 0)
      /\ inRegistry' = 0 /\ ~Busy(r)
  BY DEF Unregister, Busy
<1>2. compiled \in Nat
  BY <1>1 DEF PluginsInv, PluginsTypeOK
<1>3. /\ requester' \in [Requesters -> [at : {"idle", "loaded", "got", "unregistered"},
                                           plugin : 0..compiled' \cup {Nil}]]
      /\ requester'[r].at = "unregistered" /\ Busy(r)'
      /\ \A s \in Requesters : s # r => requester'[s] = requester[s]
  BY <1>1, <1>2, RequesterMoves DEF PluginsInv
<1>4. /\ crossed' \in BOOLEAN
      /\ ~crossed' => Quiescent \/ (~crossed /\ \A s \in Requesters : ~Loading(s))
  BY DEF Unregister, Enters, PluginsInv, PluginsTypeOK
<1>5. PluginsTypeOK'
  BY <1>1, <1>2, <1>3, <1>4 DEF PluginsInv, PluginsTypeOK, Nil
<1>6. \A s \in Requesters : requester'[s].at = "idle" => ~Busy(s)'
  BY <1>3 DEF PluginsInv, Busy
<1>7. ASSUME ~crossed'
      PROVE  Uncrossed'
  <2>1. \A s \in Requesters : ~Loading(s)
    BY <1>4, <1>7 DEF Quiescent, Loading, Unoccupied
  <2>2. \A s \in Requesters : ~Loading(s)'
    BY <1>3, <2>1 DEF Loading
  <2> QED
    BY <1>1, <1>3, <2>2 DEF Uncrossed, Quiescent, Busy, Loading, Unoccupied
<1> QED
  BY <1>1, <1>5, <1>6, <1>7 DEF PluginsInv

(* ... and then from the context, closing it.                              *)
LEMMA UnloadStep ==
  ASSUME PluginsInv, NEW r \in Requesters, UnloadFromContext(r)
  PROVE  PluginsInv'
<1>1. /\ UNCHANGED <<compiled, inRegistry, shut, crossed>> /\ Becomes(r, "idle", 0)
      /\ inContext' = 0
  BY DEF UnloadFromContext
<1>2. compiled \in Nat /\ closed' \subseteq 1..compiled
  BY <1>1 DEF UnloadFromContext, PluginsInv, PluginsTypeOK
<1>3. /\ requester' \in [Requesters -> [at : {"idle", "loaded", "got", "unregistered"},
                                           plugin : 0..compiled' \cup {Nil}]]
      /\ requester'[r].at = "idle" /\ ~Busy(r)'
      /\ \A s \in Requesters : s # r => requester'[s] = requester[s]
  BY <1>1, <1>2, RequesterMoves DEF PluginsInv
<1>4. PluginsTypeOK'
  BY <1>1, <1>2, <1>3 DEF PluginsInv, PluginsTypeOK, Nil
<1>5. \A s \in Requesters : requester'[s].at = "idle" => ~Busy(s)'
  BY <1>3 DEF PluginsInv, Busy
<1>6. inContext' \notin closed'
  BY <1>1, <1>2
<1>7. ASSUME ~crossed'
      PROVE  Uncrossed'
  <2>1. Uncrossed /\ requester[r].at = "unregistered" /\ Busy(r) /\ ~Loading(r)
    BY <1>1, <1>7 DEF PluginsInv, UnloadFromContext, Loading, Busy, Unoccupied
  <2>2. inRegistry = 0 /\ \A s \in Requesters : ~Loading(s)
    BY <2>1 DEF Uncrossed
  <2>3. \A s \in Requesters : ~Loading(s)'
    BY <1>3, <2>2 DEF Loading
  <2> QED
    BY <1>1, <2>2, <2>3 DEF Uncrossed, Quiescent, Loading
<1> QED
  BY <1>1, <1>4, <1>5, <1>6, <1>7 DEF PluginsInv

(* Close takes what the context runs; the calls under way keep the rest.   *)
LEMMA CloseStep ==
  ASSUME PluginsInv, CloseContext
  PROVE  PluginsInv'
<1>1. /\ UNCHANGED <<compiled, inRegistry, requester, crossed>>
      /\ inContext' = 0 /\ shut' = TRUE /\ closed' = closed \cup Loaded
  BY DEF CloseContext
<1>2. compiled \in Nat /\ inContext \in 0..compiled /\ closed' \subseteq 1..compiled
  BY <1>1 DEF PluginsInv, PluginsTypeOK, Loaded
<1>3. PluginsTypeOK'
  BY <1>1, <1>2 DEF PluginsInv, PluginsTypeOK, Nil
<1>4. /\ \A r \in Requesters : requester'[r].at = "idle" => ~Busy(r)'
      /\ inContext' \notin closed'
  BY <1>1, <1>2 DEF PluginsInv, Busy
<1>5. \A plugin : Current(plugin) => Current(plugin)'
  BY <1>1 DEF Current, Loaded, Nil
<1>6. ASSUME ~crossed'
      PROVE  Uncrossed'
  BY <1>1, <1>5, <1>6 DEF PluginsInv, Uncrossed, Loading, Busy, Quiescent
<1> QED
  BY <1>1, <1>3, <1>4, <1>6 DEF PluginsInv

(* Every step keeps the invariant.                                         *)
LEMMA PluginsSteps ==
  ASSUME PluginsInv, [PluginsNext]_pluginVars
  PROVE  PluginsInv'
<1>1. CASE UNCHANGED pluginVars
  BY <1>1 DEF pluginVars, PluginsInv, PluginsTypeOK, Uncrossed, Current, Nil,
              Busy, Loading, Quiescent
<1>2. CASE PluginsNext
  BY <1>2, LoadStep, GetStep, RegisterStep, UnregisterStep, UnloadStep, CloseStep
  DEF PluginsNext
<1> QED
  BY <1>1, <1>2

(* The invariant holds in every state.                                     *)
LEMMA PluginsAlways == PluginsSpec => []PluginsInv
BY PluginsStart, PluginsSteps, PTL DEF PluginsSpec

(* Type correctness: both maps of the plugin manager hold plugins that     *)
(* were compiled, for any number of requests.                              *)
THEOREM PluginsTypeCorrect == PluginsSpec => []PluginsTypeOK
BY PluginsAlways, PTL DEF PluginsInv

(* The manager's context and its registry hold the same plugin whenever    *)
(* nobody loads or unloads, unless two requests have crossed; once it is   *)
(* closed it runs nothing for good, and what the registry still holds is   *)
(* closed, with the same exception. For any number of requests.            *)
THEOREM MapsAlwaysAgree == PluginsSpec => []MapsAgree
<1>1. PluginsInv => MapsAgree
  BY DEF PluginsInv, Uncrossed, Current, MapsAgree, RunsOpen, ShutForGood
<1> QED
  BY <1>1, PluginsAlways, PTL

-----------------------------------------------------------------------------
(* What a route promises by itself, whatever becomes of the shards.        *)
WellRouted(r) ==
  /\ r.at = "routed" => r.count = 0 \/ Leftover(r) \/ r.shard \in 0..(r.count - 1)
  /\ r.at = "panicked" => r.count > Span

(* TargetsExist looks at the shards there are now; WellRouted says of a    *)
(* route that was made what depends on the count it read alone.            *)
ShardsInv == ShardsTypeOK /\ \A q \in Routings : WellRouted(routing[q])

(* A number below n intervals of width w falls into one of the n.          *)
LEMMA Quotient ==
  ASSUME NEW d \in Nat, NEW w \in Nat \ {0}
  PROVE  /\ d \div w \in Nat
         /\ \A n \in Nat : d < n * w => d \div w < n
<1> DEFINE q == d \div w
<1>1. q \in Nat /\ w * q <= d
  OBVIOUS
<1>2. ASSUME NEW n \in Nat, n <= q
      PROVE  n * w <= w * q
  BY <1>1, <1>2
<1> QED
  BY <1>1, <1>2

(* Shards are at most as many as they have names.                          *)
LEMMA CountInBounds ==
  ASSUME ShardsTypeOK
  PROVE  Count \in 0..MaxShards
<1>1. MaxShards \in Nat
  BY ShardsAssumption DEF ShardsAssumption
<1>2. /\ IsFiniteSet(0..(MaxShards - 1))
      /\ Cardinality(0..(MaxShards - 1)) = MaxShards
  BY <1>1, FS_Interval
<1>3. Cardinality(shards) \in Nat /\ Cardinality(shards) <= MaxShards
  BY <1>2, FS_Subset, FS_CardinalityType DEF ShardsTypeOK
<1> QED
  BY <1>1, <1>3 DEF Count

(* Nothing is routed and there is no shard.                                *)
LEMMA ShardsStart == ShardsInit => ShardsInv
BY ShardsAssumption DEF ShardsInit, ShardsInv, ShardsTypeOK, WellRouted, Unrouted, ShardsAssumption

(* A route that keeps WellRouted keeps the invariant.                      *)
LEMMA RouteIsWell ==
  ASSUME ShardsInv, NEW q \in Routings,
         NEW at \in {"routed", "refused", "panicked"}, NEW rule \in {"first", "hash", "range"},
         NEW key \in Int, NEW shard \in Nat,
         at = "routed" =>
           Count = 0 \/ (rule = "range" /\ key - RangeStart >= Count * (Span \div Count))
           \/ shard \in 0..(Count - 1),
         at = "panicked" => Count > Span,
         Routed(q, at, rule, key, shard)
  PROVE  ShardsInv'
<1> DEFINE now == [at |-> at, rule |-> rule, key |-> key, count |-> Count, shard |-> shard]
<1>1. UNCHANGED shards /\ routing' = [routing EXCEPT ![q] = now]
  BY DEF Routed
<1>2. Count \in 0..MaxShards
  BY CountInBounds DEF ShardsInv
<1>3. WellRouted(now)
  BY DEF WellRouted, Leftover
<1>4. now \in [at : {"new", "routed", "refused", "panicked"},
                rule : {"none", "first", "hash", "range"}, key : Int,
                count : 0..MaxShards, shard : Nat]
  BY <1>2
<1> HIDE DEF now
<1>5. ShardsTypeOK'
  BY <1>1, <1>4 DEF ShardsInv, ShardsTypeOK
<1>6. ASSUME NEW r \in Routings
      PROVE  WellRouted(routing'[r])
  BY <1>1, <1>3 DEF ShardsInv, ShardsTypeOK
<1> QED
  BY <1>5, <1>6 DEF ShardsInv

(* The arithmetic of the range rule: the width of an interval is the span  *)
(* divided by the number of shards, rounded down, and keys past the last   *)
(* full interval are the leftover.                                         *)
LEMMA RangeIsWell ==
  ASSUME ShardsInv, NEW q \in Routings, NEW num \in Int, RangeShard(q, num)
  PROVE  ShardsInv'
<1>1. /\ RangeStart \in Int /\ RangeEnd \in Int /\ Span \in Nat \ {0}
      /\ Count \in Nat
  BY ShardsAssumption, CountInBounds DEF ShardsAssumption, Span, ShardsInv
<1>2. CASE num < RangeStart \/ num > RangeEnd
  BY <1>1, <1>2, RouteIsWell DEF RangeShard
<1>3. CASE ~(num < RangeStart \/ num > RangeEnd) /\ Count = 0
  BY <1>1, <1>3, RouteIsWell DEF RangeShard
<1>4. CASE ~(num < RangeStart \/ num > RangeEnd) /\ Count # 0 /\ Span < Count
  BY <1>1, <1>4, RouteIsWell DEF RangeShard
<1>5. CASE ~(num < RangeStart \/ num > RangeEnd) /\ Count # 0 /\ ~(Span < Count)
  <2> DEFINE d == num - RangeStart
             w == Span \div Count
             shard == d \div w
  <2>1. d \in Nat
    BY <1>1, <1>5
  <2>2. w \in Nat \ {0}
    BY <1>1, <1>5
  <2>3. Routed(q, "routed", "range", num, shard)
    BY <1>5 DEF RangeShard
  <2> HIDE DEF w
  <2>4. shard \in Nat /\ (d < Count * w => shard < Count)
    BY <1>1, <2>1, <2>2, Quotient
  <2> HIDE DEF shard
  <2>5. d >= Count * w \/ shard \in 0..(Count - 1)
    BY <1>1, <2>1, <2>2, <2>4
  <2>6. num - RangeStart >= Count * (Span \div Count) \/ shard \in 0..(Count - 1)
    BY <2>5 DEF w
  <2> QED
    BY <2>3, <2>4, <2>6, RouteIsWell
<1> QED
  BY <1>2, <1>3, <1>4, <1>5

(* Every step keeps the invariant.                                         *)
LEMMA ShardsSteps ==
  ASSUME ShardsInv, [ShardsNext]_shardVars
  PROVE  ShardsInv'
<1>1. ASSUME UNCHANGED routing, shards' \subseteq 0..(MaxShards - 1)
      PROVE  ShardsInv'
  BY <1>1 DEF ShardsInv, ShardsTypeOK
<1>2. CASE UNCHANGED shardVars
  BY <1>1, <1>2 DEF shardVars, ShardsInv, ShardsTypeOK
<1>3. ASSUME NEW id \in 0..(MaxShards - 1), AddShard(id) \/ RemoveShard(id)
      PROVE  ShardsInv'
  BY <1>1, <1>3 DEF AddShard, RemoveShard, ShardsInv, ShardsTypeOK
<1>4. ASSUME NEW q \in Routings, FirstShard(q)
      PROVE  ShardsInv'
  <2>1. Count \in Nat
    BY CountInBounds DEF ShardsInv
  <2>2. Count = 0 \/ 0 \in 0..(Count - 1)
    BY <2>1
  <2> QED
    BY <1>4, <2>2, RouteIsWell DEF FirstShard
<1>5. ASSUME NEW q \in Routings, NEW hash \in 0..MaxHash, HashShard(q, hash)
      PROVE  ShardsInv'
  <2> DEFINE shard == IF Count = 0 THEN 0 ELSE hash % Count
  <2>1. Count \in Nat /\ hash \in Nat
    BY CountInBounds, ShardsAssumption DEF ShardsInv, ShardsAssumption
  <2>2. shard \in Nat /\ (Count = 0 \/ shard \in 0..(Count - 1))
    BY <2>1
  <2>3. Routed(q, "routed", "hash", hash, shard)
    BY <1>5 DEF HashShard
  <2> HIDE DEF shard
  <2> QED
    BY <2>1, <2>2, <2>3, RouteIsWell
<1>6. ASSUME NEW q \in Routings, NEW num \in (RangeStart - 1)..(RangeEnd + 1), RangeShard(q, num)
      PROVE  ShardsInv'
  <2>1. num \in Int
    BY ShardsAssumption DEF ShardsAssumption
  <2> QED
    BY <1>6, <2>1, RangeIsWell
<1> QED
  BY <1>2, <1>3, <1>4, <1>5, <1>6 DEF ShardsNext

(* The invariant holds in every state.                                     *)
LEMMA ShardsAlways == ShardsSpec => []ShardsInv
BY ShardsStart, ShardsSteps, PTL DEF ShardsSpec

(* Type correctness: routes count shards there were, and shards are named  *)
(* below the bound.                                                        *)
THEOREM ShardsTypeCorrect == ShardsSpec => []ShardsTypeOK
BY ShardsAlways, PTL DEF ShardsInv

(* A query is routed to a shard that exists, by any rule, key and range,   *)
(* as long as the shards are named without a gap and none was removed      *)
(* since, but for the keys the range rule leaves over.                     *)
THEOREM TargetsAlwaysExist == ShardsSpec => []TargetsExist
<1>1. ASSUME ShardsInv
      PROVE  TargetsExist
  <2> SUFFICES ASSUME NEW q \in Routings, routing[q].at = "routed", routing[q].count > 0,
                      ~Leftover(routing[q]), Dense(shards), Count >= routing[q].count
               PROVE  routing[q].shard \in shards
    BY <1>1 DEF ShardsInv, WellRouted, TargetsExist
  <2>1. routing[q].count \in Nat /\ Count \in Nat
    BY <1>1, CountInBounds DEF ShardsInv, ShardsTypeOK
  <2>2. routing[q].shard \in 0..(routing[q].count - 1)
    BY <1>1, <2>1 DEF ShardsInv, WellRouted
  <2>3. shards = 0..(Count - 1)
    BY DEF Dense, Count
  <2> QED
    BY <2>1, <2>2, <2>3
<1> QED
  BY <1>1, ShardsAlways, PTL

-----------------------------------------------------------------------------
(* What the variables range over.                                          *)
DashboardShape ==
  /\ provider \in {"new", "mounted", "unmounted"} /\ usable \in BOOLEAN
  /\ sockets \in [Sockets -> {"unused", "connecting", "open", "ended"}]
  /\ ws \subseteq Sockets
  /\ reconnect \in BOOLEAN /\ isConnected \in BOOLEAN

(* A socket the page has opened.                                           *)
Used(s) == sockets[s] # "unused"

(* At most one socket is ever opened, and a reconnect is scheduled only    *)
(* after it was lost: DashboardTypeOK counts, and the steps need it of     *)
(* single sockets.                                                         *)
OneAttempt ==
  /\ \A s, t \in Sockets : Used(s) /\ Used(t) => s = t
  /\ \A s \in Sockets : Used(s) => ~reconnect /\ provider # "new"
  /\ provider = "new" => ~reconnect

(* The inductive invariant.                                                *)
DashboardInv == DashboardShape /\ OneAttempt

(* The provider starts unmounted, with no socket.                          *)
LEMMA DashboardStarts == DashboardInit => DashboardInv
BY DEF DashboardInit, DashboardInv, DashboardShape, OneAttempt, Used

(* connect opens the one socket there is.                                  *)
LEMMA Connects ==
  ASSUME DashboardShape, \A s \in Sockets : ~Used(s), ConnectWS
  PROVE  /\ sockets' \in [Sockets -> {"unused", "connecting", "open", "ended"}]
         /\ ws' \subseteq Sockets
         /\ \A s, t \in Sockets : Used(s)' /\ Used(t)' => s = t
<1>1. CASE usable
  BY <1>1 DEF ConnectWS, DashboardShape, Used
<1>2. CASE ~usable
  BY <1>2 DEF ConnectWS, DashboardShape, Used
<1> QED
  BY <1>1, <1>2

(* Every step keeps the invariant.                                         *)
LEMMA DashboardSteps ==
  ASSUME DashboardInv, [DashboardNext]_dashboardVars
  PROVE  DashboardInv'
<1>1. CASE Mount
  BY <1>1, Connects DEF DashboardInv, Mount, DashboardShape, OneAttempt, Used
<1>2. CASE Unmount
  <2>1. sockets' \in [Sockets -> {"unused", "connecting", "open", "ended"}]
    BY <1>2 DEF DashboardInv, Unmount, Closed, DashboardShape
  <2>2. \A s \in Sockets : Used(s)' => Used(s)
    BY <1>2 DEF DashboardInv, Unmount, Closed, DashboardShape, Used
  <2> QED
    BY <1>2, <2>1, <2>2 DEF DashboardInv, Unmount, DashboardShape, OneAttempt
<1>3. CASE Timeout
  BY <1>3, Connects DEF DashboardInv, Timeout, DashboardShape, OneAttempt, Used
<1>4. ASSUME NEW s \in Sockets, OnOpen(s) \/ Disconnect(s)
      PROVE  DashboardInv'
  <2>1. /\ sockets' \in [Sockets -> {"unused", "connecting", "open", "ended"}]
        /\ \A t \in Sockets : Used(t)' => Used(t)
        /\ UNCHANGED <<provider, usable, ws, reconnect>> /\ isConnected' \in BOOLEAN
    BY <1>4 DEF OnOpen, Disconnect, DashboardInv, DashboardShape, Used
  <2> QED
    BY <2>1 DEF DashboardInv, DashboardShape, OneAttempt
<1>5. ASSUME NEW s \in Sockets, OnClose(s)
      PROVE  DashboardInv'
  <2>1. /\ sockets' \in [Sockets -> {"unused", "connecting", "open", "ended"}]
        /\ UNCHANGED <<provider, usable, ws>>
        /\ isConnected' \in BOOLEAN /\ reconnect' \in BOOLEAN
    BY <1>5 DEF OnClose, DashboardInv, DashboardShape
  <2>2. \A t \in Sockets : ~Used(t)'
    BY <1>5 DEF OnClose, DashboardInv, DashboardShape, OneAttempt, Used
  <2>3. provider # "new"
    BY <1>5 DEF OnClose, DashboardInv, OneAttempt, Used
  <2> QED
    BY <2>1, <2>2, <2>3 DEF DashboardInv, DashboardShape, OneAttempt
<1>6. CASE UNCHANGED dashboardVars
  BY <1>6 DEF DashboardInv, dashboardVars, DashboardShape, OneAttempt, Used
<1> QED
  BY <1>1, <1>2, <1>3, <1>4, <1>5, <1>6 DEF DashboardNext

(* What OneAttempt says of sockets, counted.                               *)
LEMMA AttemptsAreOne ==
  ASSUME DashboardInv
  PROVE  DashboardTypeOK
<1> DEFINE U == {s \in Sockets : sockets[s] # "unused"}
<1>1. CASE U = {}
  <2>1. Cardinality(U) = 0
    BY <1>1, FS_EmptySet
  <2> QED
    BY <2>1 DEF DashboardInv, DashboardShape, DashboardTypeOK
<1>2. CASE U # {}
  <2>1. PICK s \in U : U = {s}
    BY <1>2 DEF DashboardInv, OneAttempt, Used
  <2>2. Cardinality(U) = 1 /\ ~reconnect
    BY <2>1, FS_Singleton DEF DashboardInv, OneAttempt, Used
  <2> QED
    BY <2>2 DEF DashboardInv, DashboardShape, DashboardTypeOK
<1> QED
  BY <1>1, <1>2

(* Type correctness, with the count of attempts: a page has one socket or  *)
(* one timer at a time, for any sockets.                                   *)
THEOREM DashboardTypeCorrect == DashboardSpec => []DashboardTypeOK
BY DashboardStarts, DashboardSteps, AttemptsAreOne, PTL DEF DashboardSpec

-----------------------------------------------------------------------------
(* What a client carries, and what the map holds.                          *)
ClientRecords == [at : {"idle", "asking", "told"}, path : SecretPaths, name : SecretPaths,
                  value : 0..MaxRotations, late : SUBSET SecretPaths]
SecretEntries == [from : {"nobody", "outside", "caller"}, value : 0..MaxRotations,
                  late : BOOLEAN]

(* Who carries a value for a path that was set has missed it before, or    *)
(* has asked for another path; who carries a value older than a deletion   *)
(* has been told it before. This is LastCallHolds, said of the values on   *)
(* their way into the map.                                                 *)
Carries(c) ==
  /\ client[c].at = "asking" /\ lastCall[client[c].path] = "set" =>
       client[c].path \in client[c].late
  /\ client[c].at = "told" /\ lastCall[client[c].name] = "set" =>
       client[c].name \in client[c].late \/ IsField(client[c].name)
  /\ client[c].at = "told" /\ lastCall[client[c].name] = "delete" =>
       client[c].name \in client[c].late \/ client[c].value >= deletedAt[client[c].name]

(* Those who have missed a path and have yet to remember it.               *)
Asking(p) == {c \in SecretClients : client[c].at # "idle" /\ client[c].path = p}

(* Nobody misses what is remembered, so that each answer that is kept was  *)
(* asked for by one of those who missed together.                          *)
KeptByMissers ==
  \A p \in SecretPaths : /\ secrets[p] = Unknown => kept[p] = 0
                         /\ kept[p] + Cardinality(Asking(p)) <= Cardinality(SecretClients)

SecretsInv ==
  /\ SecretsTypeOK /\ LastCallHolds
  /\ \A p \in SecretPaths : deletedAt[p] <= outside[p]
  /\ \A c \in SecretClients : Carries(c)
  /\ KeptByMissers

(* The bounds are numbers, and there is a path.                            *)
LEMMA SecretsNumbers ==
  /\ MaxRotations \in Nat /\ 0 \in 0..MaxRotations /\ AnyPath \in SecretPaths
  /\ NoClient \in ClientRecords /\ NoClient.at = "idle"
  /\ Unknown \in SecretEntries
BY SecretsAssumption DEF SecretsAssumption, AnyPath, NoClient, ClientRecords, Unknown, SecretEntries

(* The clients are finitely many, those asking for a path among them.      *)
LEMMA AskingCounted ==
  ASSUME NEW p
  PROVE  /\ IsFiniteSet(Asking(p)) /\ Cardinality(Asking(p)) \in Nat
         /\ Cardinality(SecretClients) \in Nat
         /\ Cardinality(Asking(p)) <= Cardinality(SecretClients)
<1>1. Asking(p) \subseteq SecretClients /\ IsFiniteSet(SecretClients)
  BY SecretsAssumption DEF SecretsAssumption, Asking
<1> QED
  BY <1>1, FS_Subset, FS_CardinalityType

(* Nothing is remembered, set, deleted or asked for.                       *)
LEMMA SecretsStart == SecretsInit => SecretsInv
<1> SUFFICES ASSUME SecretsInit PROVE SecretsInv
  OBVIOUS
<1>1. SecretsTypeOK
  BY SecretsNumbers DEF SecretsInit, SecretsTypeOK, ClientRecords, SecretEntries
<1>2. \A c \in SecretClients : client[c].at = "idle"
  BY SecretsNumbers DEF SecretsInit
<1>3. LastCallHolds
  BY DEF SecretsInit, LastCallHolds, Unknown
<1>4. KeptByMissers
  BY AskingCounted DEF SecretsInit, KeptByMissers
<1> QED
  BY <1>1, <1>2, <1>3, <1>4, SecretsNumbers DEF SecretsInv, Carries, SecretsInit

(* One client moves. If it goes on with its path, or rests, or takes up a  *)
(* path that is unknown, the count of those asking is kept.                *)
LEMMA ClientMoves ==
  ASSUME SecretsInv, NEW c \in SecretClients, NEW now \in ClientRecords,
         client' = [client EXCEPT ![c] = now]
  PROVE  /\ client' \in [SecretClients -> ClientRecords]
         /\ client'[c] = now
         /\ \A d \in SecretClients : d # c => client'[d] = client[d]
BY DEF SecretsInv, SecretsTypeOK, ClientRecords

(* A change outside is seen by nobody here.                                *)
LEMMA RotateStep ==
  ASSUME SecretsInv, NEW p \in SecretPaths, Rotate(p)
  PROVE  SecretsInv'
<1>1. /\ UNCHANGED <<secrets, lastCall, deletedAt, kept, client>>
      /\ outside' \in [SecretPaths -> 0..MaxRotations]
      /\ \A q \in SecretPaths : outside[q] <= outside'[q]
  BY SecretsNumbers DEF Rotate, SecretsInv, SecretsTypeOK
<1>2. SecretsTypeOK'
  BY <1>1 DEF SecretsInv, SecretsTypeOK
<1>3. \A q \in SecretPaths : deletedAt'[q] <= outside'[q]
  BY <1>1, SecretsNumbers DEF SecretsInv, SecretsTypeOK
<1> QED
  BY <1>1, <1>2, <1>3 DEF SecretsInv, LastCallHolds, Carries, KeptByMissers, Asking

(* One more client asks for a path that is not remembered.                 *)
LEMMA MissStep ==
  ASSUME SecretsInv, NEW c \in SecretClients, NEW p \in SecretPaths, MissSecret(c, p)
  PROVE  SecretsInv'
<1> DEFINE now == [NoClient EXCEPT !.at = "asking", !.path = p]
<1>1. UNCHANGED <<outside, secrets, lastCall, deletedAt, kept>>
  BY DEF MissSecret
<1>2. now \in ClientRecords /\ now.at = "asking" /\ now.path = p
  BY SecretsNumbers DEF ClientRecords, NoClient
<1>3. client' = [client EXCEPT ![c] = now] /\ client[c].at = "idle" /\ secrets[p] = Unknown
  BY DEF MissSecret
<1> HIDE DEF now
<1>4. /\ client' \in [SecretClients -> ClientRecords] /\ client'[c] = now
      /\ \A d \in SecretClients : d # c => client'[d] = client[d]
  BY <1>2, <1>3, ClientMoves
<1>5. lastCall[p] # "set"
  BY <1>3 DEF SecretsInv, LastCallHolds, Unknown
<1>6. \A d \in SecretClients : Carries(d)'
  BY <1>1, <1>2, <1>4, <1>5 DEF SecretsInv, Carries
<1>7. ASSUME NEW q \in SecretPaths
      PROVE  kept[q] + Cardinality(Asking(q)') <= Cardinality(SecretClients)
  <2>1. CASE q = p
    <3>1. kept[q] = 0
      BY <1>3, <2>1 DEF SecretsInv, KeptByMissers
    <3>2. Asking(q)' \subseteq SecretClients /\ IsFiniteSet(SecretClients)
      BY SecretsAssumption DEF SecretsAssumption, Asking
    <3>3. /\ Cardinality(Asking(q)') <= Cardinality(SecretClients)
          /\ Cardinality(Asking(q)') \in Nat
      BY <3>2, FS_Subset, FS_CardinalityType
    <3> QED
      BY <3>1, <3>3
  <2>2. CASE q # p
    <3>1. Asking(q)' = Asking(q)
      BY <1>2, <1>3, <1>4, <2>2 DEF Asking
    <3> QED
      BY <3>1 DEF SecretsInv, KeptByMissers
  <2> QED
    BY <2>1, <2>2
<1>8. SecretsTypeOK'
  BY <1>1, <1>4 DEF SecretsInv, SecretsTypeOK, ClientRecords
<1> QED
  BY <1>1, <1>6, <1>7, <1>8 DEF SecretsInv, LastCallHolds, KeptByMissers

(* The answer of a provider or of the Vault, or none. Fewer are asking.    *)
LEMMA TellStep ==
  ASSUME SecretsInv, NEW c \in SecretClients, AskOutside(c)
  PROVE  SecretsInv'
<1> DEFINE p == client[c].path
<1>1. UNCHANGED <<outside, secrets, lastCall, deletedAt, kept>> /\ client[c].at = "asking"
  BY DEF AskOutside
<1>2. client[c] \in ClientRecords /\ p \in SecretPaths
  BY DEF SecretsInv, SecretsTypeOK, ClientRecords
<1>3. ASSUME NEW now \in ClientRecords, client' = [client EXCEPT ![c] = now],
             now.at = "told" => /\ now.path = p /\ now.late = client[c].late
                                /\ now.name = p \/ IsField(now.name)
                                /\ now.value = outside[now.name],
             now.at # "asking"
      PROVE  SecretsInv'
  <2>1. /\ client' \in [SecretClients -> ClientRecords] /\ client'[c] = now
        /\ \A d \in SecretClients : d # c => client'[d] = client[d]
    BY <1>3, ClientMoves
  <2>2. ASSUME now.at = "told"
        PROVE  /\ lastCall[now.name] = "set" => now.name \in now.late \/ IsField(now.name)
               /\ lastCall[now.name] = "delete" => now.value >= deletedAt[now.name]
    <3>1. now.name \in SecretPaths
      BY <1>3 DEF ClientRecords
    <3>2. deletedAt[now.name] <= outside[now.name] /\ now.value = outside[now.name]
          /\ deletedAt[now.name] \in Int /\ outside[now.name] \in Int
      BY <1>3, <2>2, <3>1 DEF SecretsInv, SecretsTypeOK
    <3>3. lastCall[p] = "set" => p \in client[c].late
      BY <1>1 DEF SecretsInv, Carries
    <3> QED
      BY <1>3, <2>2, <3>2, <3>3
  <2>3. \A d \in SecretClients : Carries(d)'
    BY <1>1, <1>3, <2>1, <2>2 DEF SecretsInv, Carries, IsField
  <2>4. ASSUME NEW q \in SecretPaths
        PROVE  kept[q] + Cardinality(Asking(q)') <= Cardinality(SecretClients)
    <3>1. Asking(q)' \subseteq Asking(q)
      BY <1>1, <1>3, <2>1 DEF Asking, ClientRecords
    <3>2. /\ Cardinality(Asking(q)') <= Cardinality(Asking(q))
          /\ Cardinality(Asking(q)') \in Nat
      BY <3>1, AskingCounted, FS_Subset, FS_CardinalityType
    <3> QED
      BY <3>2, AskingCounted DEF SecretsInv, KeptByMissers, SecretsTypeOK
  <2>5. SecretsTypeOK'
    BY <1>1, <2>1 DEF SecretsInv, SecretsTypeOK, ClientRecords
  <2> QED
    BY <1>1, <2>3, <2>4, <2>5 DEF SecretsInv, LastCallHolds, KeptByMissers
<1>4. CASE client' = [client EXCEPT ![c] = NoClient]
  BY <1>3, <1>4, SecretsNumbers
<1>5. ASSUME NEW n \in SecretPaths, n = p \/ IsField(n), Tell(c, n)
      PROVE  SecretsInv'
  <2> DEFINE value == outside[n]
             now == [client[c] EXCEPT !.at = "told", !.name = n, !.value = value]
  <2>1. client' = [client EXCEPT ![c] = now]
    BY <1>5 DEF Tell, SecretsInv, SecretsTypeOK
  <2>2. value \in 0..MaxRotations
    BY DEF SecretsInv, SecretsTypeOK
  <2> HIDE DEF value
  <2>3. /\ now \in ClientRecords /\ now.at = "told" /\ now.path = p
        /\ now.late = client[c].late /\ now.name = n /\ now.value = value
    BY <1>2, <2>2 DEF ClientRecords
  <2> HIDE DEF now
  <2>4. now.value = outside[now.name] /\ (now.name = p \/ IsField(now.name))
    BY <1>5, <2>3 DEF value
  <2> QED
    BY <1>3, <2>1, <2>3, <2>4
<1>6. \A f \in FieldsOf[p] : f \in SecretPaths /\ IsField(f)
  BY <1>2, SecretsAssumption DEF SecretsAssumption, IsField
<1> QED
  BY <1>2, <1>4, <1>5, <1>6 DEF AskOutside

(* A client remembers what it was told: what it carried is now in the map. *)
LEMMA RememberStep ==
  ASSUME SecretsInv, NEW c \in SecretClients, Remember(c)
  PROVE  SecretsInv'
<1> DEFINE n == client[c].name
           p == client[c].path
           entry == [from |-> "outside", value |-> client[c].value, late |-> n \in client[c].late]
<1>1. /\ UNCHANGED <<outside, lastCall, deletedAt>> /\ client[c].at = "told"
      /\ secrets' = [secrets EXCEPT ![n] = entry]
      /\ kept' = IF n = p THEN [kept EXCEPT ![n] = @ + 1] ELSE kept
      /\ client' = [client EXCEPT ![c] = NoClient]
  BY DEF Remember
<1>2. client[c] \in ClientRecords /\ n \in SecretPaths /\ p \in SecretPaths
  BY DEF SecretsInv, SecretsTypeOK, ClientRecords
<1>3. /\ entry \in SecretEntries /\ entry.from = "outside" /\ entry # Unknown
      /\ entry.late = (n \in client[c].late) /\ entry.value = client[c].value
  BY <1>2 DEF SecretEntries, ClientRecords, Unknown
<1> HIDE DEF entry
<1>4. /\ client' \in [SecretClients -> ClientRecords] /\ client'[c] = NoClient
      /\ \A d \in SecretClients : d # c => client'[d] = client[d]
  BY <1>1, SecretsNumbers, ClientMoves
<1>5. /\ secrets' \in [SecretPaths -> SecretEntries] /\ secrets'[n] = entry
      /\ \A q \in SecretPaths : q # n => secrets'[q] = secrets[q]
  BY <1>1, <1>2, <1>3 DEF SecretsInv, SecretsTypeOK, SecretEntries
<1>6. /\ kept' \in [SecretPaths -> Nat]
      /\ \A q \in SecretPaths : kept'[q] = IF q = p /\ n = p THEN kept[q] + 1 ELSE kept[q]
  BY <1>1, <1>2 DEF SecretsInv, SecretsTypeOK
<1>7. LastCallHolds'
  <2>1. /\ lastCall[n] = "set" => entry.late \/ IsField(n)
        /\ lastCall[n] = "delete" => entry.late \/ entry.value >= deletedAt[n]
    BY <1>1, <1>3 DEF SecretsInv, Carries
  <2> QED
    BY <1>1, <1>3, <1>5, <2>1 DEF SecretsInv, LastCallHolds, IsField
<1>8. \A d \in SecretClients : Carries(d)'
  BY <1>1, <1>4, SecretsNumbers DEF SecretsInv, Carries, IsField
<1>9. ASSUME NEW q \in SecretPaths
      PROVE  kept'[q] + Cardinality(Asking(q)') <= Cardinality(SecretClients)
  <2>1. Asking(q)' = Asking(q) \ {c}
    BY <1>4, SecretsNumbers DEF Asking
  <2>2. /\ IsFiniteSet(Asking(q)) /\ Cardinality(Asking(q)) \in Nat /\ kept[q] \in Nat
        /\ Cardinality(SecretClients) \in Nat
        /\ kept[q] + Cardinality(Asking(q)) <= Cardinality(SecretClients)
    BY AskingCounted DEF SecretsInv, KeptByMissers, SecretsTypeOK
  <2>3. CASE q = p
    <3>1. c \in Asking(q)
      BY <1>1, <2>3 DEF Asking
    <3>2. Cardinality(Asking(q)') = Cardinality(Asking(q)) - 1
      BY <2>1, <2>2, <3>1, FS_RemoveElement
    <3> QED
      BY <1>6, <2>2, <3>2
  <2>4. CASE q # p
    <3>1. Asking(q)' = Asking(q)
      BY <2>1, <2>4 DEF Asking
    <3> QED
      BY <1>6, <2>2, <2>4, <3>1
  <2> QED
    BY <2>3, <2>4
<1>10. \A q \in SecretPaths : secrets'[q] = Unknown => kept'[q] = 0
  BY <1>3, <1>5, <1>6 DEF SecretsInv, KeptByMissers
<1>11. SecretsTypeOK'
  BY <1>1, <1>4, <1>5, <1>6 DEF SecretsInv, SecretsTypeOK, ClientRecords, SecretEntries
<1> QED
  BY <1>1, <1>7, <1>8, <1>9, <1>10, <1>11 DEF SecretsInv, KeptByMissers

(* A call that names a path marks some of those at work as late.           *)
LEMMA MarkedLate ==
  ASSUME SecretsInv, NEW p \in SecretPaths,
         NEW marked \in SUBSET SecretClients,
         client' = [c \in SecretClients |->
           IF c \in marked THEN [client[c] EXCEPT !.late = @ \cup {p}] ELSE client[c]]
  PROVE  /\ client' \in [SecretClients -> ClientRecords]
         /\ \A c \in SecretClients :
              /\ client'[c].at = client[c].at /\ client'[c].path = client[c].path
              /\ client'[c].name = client[c].name /\ client'[c].value = client[c].value
              /\ client'[c].late = IF c \in marked THEN client[c].late \cup {p}
                                   ELSE client[c].late
         /\ \A q : Asking(q)' = Asking(q)
<1>1. ASSUME NEW c \in SecretClients
      PROVE  /\ client'[c] \in ClientRecords
             /\ client'[c].at = client[c].at /\ client'[c].path = client[c].path
             /\ client'[c].name = client[c].name /\ client'[c].value = client[c].value
             /\ client'[c].late = IF c \in marked THEN client[c].late \cup {p}
                                   ELSE client[c].late
  <2>1. client[c] \in ClientRecords
    BY DEF SecretsInv, SecretsTypeOK, ClientRecords
  <2>2. client'[c] = IF c \in marked THEN [client[c] EXCEPT !.late = @ \cup {p}] ELSE client[c]
    OBVIOUS
  <2> QED
    BY <2>1, <2>2 DEF ClientRecords
<1>2. client' \in [SecretClients -> ClientRecords]
  BY <1>1
<1> QED
  BY <1>1, <1>2 DEF Asking

(* A caller's value takes the place of any other; whoever is asking is     *)
(* late.                                                                   *)
LEMMA SetSecretStep ==
  ASSUME SecretsInv, NEW p \in SecretPaths, SetSecret(p)
  PROVE  SecretsInv'
<1> DEFINE marked == {c \in SecretClients : client[c].at # "idle"}
           entry == [from |-> "caller", value |-> 0, late |-> FALSE]
<1>1. /\ UNCHANGED <<outside, deletedAt, kept>>
      /\ secrets' = [secrets EXCEPT ![p] = entry]
      /\ lastCall' = [lastCall EXCEPT ![p] = "set"]
  BY DEF SetSecret
<1>2. client' = [c \in SecretClients |->
        IF c \in marked THEN [client[c] EXCEPT !.late = @ \cup {p}] ELSE client[c]]
  BY DEF SetSecret
<1>3. entry \in SecretEntries /\ entry.from = "caller" /\ entry # Unknown
  BY SecretsNumbers DEF SecretEntries, Unknown
<1> HIDE DEF entry
<1>4. /\ client' \in [SecretClients -> ClientRecords]
      /\ \A c \in SecretClients :
           /\ client'[c].at = client[c].at /\ client'[c].path = client[c].path
           /\ client'[c].name = client[c].name /\ client'[c].value = client[c].value
           /\ client'[c].late = IF c \in marked THEN client[c].late \cup {p}
                                ELSE client[c].late
      /\ \A q : Asking(q)' = Asking(q)
  BY <1>2, MarkedLate
<1>5. /\ secrets' \in [SecretPaths -> SecretEntries] /\ secrets'[p] = entry
      /\ \A q \in SecretPaths : q # p => secrets'[q] = secrets[q]
      /\ lastCall' \in [SecretPaths -> {"none", "set", "delete"}] /\ lastCall'[p] = "set"
      /\ \A q \in SecretPaths : q # p => lastCall'[q] = lastCall[q]
  BY <1>1, <1>3 DEF SecretsInv, SecretsTypeOK, SecretEntries
<1>6. LastCallHolds'
  BY <1>1, <1>3, <1>5 DEF SecretsInv, LastCallHolds, IsField
<1>7. ASSUME NEW c \in SecretClients
      PROVE  Carries(c)'
  <2>1. /\ client[c].path \in SecretPaths /\ client[c].name \in SecretPaths /\ Carries(c)
        /\ client[c].at # "idle" => p \in client'[c].late
        /\ client[c].late \subseteq client'[c].late
    BY <1>4 DEF SecretsInv, SecretsTypeOK
  <2> HIDE DEF marked
  <2> QED
    BY <1>1, <1>4, <1>5, <2>1 DEF Carries, IsField
<1>8. KeptByMissers'
  BY <1>1, <1>3, <1>4, <1>5 DEF SecretsInv, KeptByMissers
<1>9. SecretsTypeOK'
  BY <1>1, <1>4, <1>5 DEF SecretsInv, SecretsTypeOK, ClientRecords, SecretEntries
<1> QED
  BY <1>1, <1>6, <1>7, <1>8, <1>9 DEF SecretsInv

(* A path is forgotten; whoever was told its value is late.                *)
LEMMA DeleteStep ==
  ASSUME SecretsInv, NEW p \in SecretPaths, DeleteSecret(p)
  PROVE  SecretsInv'
<1> DEFINE marked == {c \in SecretClients : client[c].at = "told"}
<1>1. /\ UNCHANGED outside
      /\ secrets' = [secrets EXCEPT ![p] = Unknown]
      /\ lastCall' = [lastCall EXCEPT ![p] = "delete"]
      /\ deletedAt' = [deletedAt EXCEPT ![p] = outside[p]]
      /\ kept' = [kept EXCEPT ![p] = 0]
  BY DEF DeleteSecret
<1>2. client' = [c \in SecretClients |->
        IF c \in marked THEN [client[c] EXCEPT !.late = @ \cup {p}] ELSE client[c]]
  BY DEF DeleteSecret
<1>3. /\ client' \in [SecretClients -> ClientRecords]
      /\ \A c \in SecretClients :
           /\ client'[c].at = client[c].at /\ client'[c].path = client[c].path
           /\ client'[c].name = client[c].name /\ client'[c].value = client[c].value
           /\ client'[c].late = IF c \in marked THEN client[c].late \cup {p}
                                ELSE client[c].late
      /\ \A q : Asking(q)' = Asking(q)
  BY <1>2, MarkedLate
<1>4. /\ secrets' \in [SecretPaths -> SecretEntries] /\ secrets'[p] = Unknown
      /\ \A q \in SecretPaths : q # p => secrets'[q] = secrets[q]
  BY <1>1, SecretsNumbers DEF SecretsInv, SecretsTypeOK, SecretEntries
<1>5. /\ lastCall' \in [SecretPaths -> {"none", "set", "delete"}] /\ lastCall'[p] = "delete"
      /\ \A q \in SecretPaths : q # p => lastCall'[q] = lastCall[q]
      /\ deletedAt' \in [SecretPaths -> 0..MaxRotations] /\ deletedAt'[p] = outside[p]
      /\ \A q \in SecretPaths : q # p => deletedAt'[q] = deletedAt[q]
      /\ kept' \in [SecretPaths -> Nat] /\ kept'[p] = 0
      /\ \A q \in SecretPaths : q # p => kept'[q] = kept[q]
  BY <1>1 DEF SecretsInv, SecretsTypeOK
<1>6. LastCallHolds'
  BY <1>4, <1>5 DEF SecretsInv, LastCallHolds, Unknown, IsField
<1>7. ASSUME NEW c \in SecretClients
      PROVE  Carries(c)'
  <2>1. /\ client[c].path \in SecretPaths /\ client[c].name \in SecretPaths /\ Carries(c)
        /\ client[c].at = "told" => p \in client'[c].late
        /\ client[c].late \subseteq client'[c].late
    BY <1>3 DEF SecretsInv, SecretsTypeOK
  <2> HIDE DEF marked
  <2>2. CASE client[c].at = "told"
    <3> DEFINE n == client[c].name
    <3>1. CASE n = p
      BY <1>3, <1>5, <2>1, <2>2, <3>1 DEF Carries
    <3>2. CASE n # p
      <4>1. lastCall'[n] = lastCall[n] /\ deletedAt'[n] = deletedAt[n]
        BY <1>5, <2>1, <3>2
      <4>2. client'[c].at = "told" /\ client'[c].name = n /\ client'[c].value = client[c].value
        BY <1>3, <2>2
      <4> HIDE DEF n
      <4> QED
        BY <2>1, <2>2, <4>1, <4>2 DEF Carries, IsField, n
    <3> QED
      BY <3>1, <3>2
  <2>3. CASE client[c].at # "told"
    BY <1>3, <1>5, <2>1, <2>3 DEF Carries
  <2> QED
    BY <2>2, <2>3
<1>8. \A q \in SecretPaths : deletedAt'[q] <= outside'[q]
  BY <1>1, <1>5 DEF SecretsInv, SecretsTypeOK
<1>9. KeptByMissers'
  BY <1>3, <1>4, <1>5, AskingCounted DEF SecretsInv, KeptByMissers
<1>10. SecretsTypeOK'
  BY <1>1, <1>3, <1>4, <1>5 DEF SecretsInv, SecretsTypeOK, ClientRecords, SecretEntries
<1> QED
  BY <1>6, <1>7, <1>8, <1>9, <1>10 DEF SecretsInv

(* Every step keeps the invariant.                                         *)
LEMMA SecretsSteps ==
  ASSUME SecretsInv, [SecretsNext]_secretVars
  PROVE  SecretsInv'
<1>1. CASE UNCHANGED secretVars
  <2>1. UNCHANGED <<outside, secrets, lastCall, deletedAt, kept, client>>
    BY <1>1 DEF secretVars
  <2>2. SecretsTypeOK' /\ LastCallHolds'
    BY <2>1 DEF SecretsInv, SecretsTypeOK, LastCallHolds, IsField
  <2>3. \A c \in SecretClients : Carries(c)'
    BY <2>1 DEF SecretsInv, Carries, IsField
  <2>4. KeptByMissers'
    BY <2>1 DEF SecretsInv, KeptByMissers, Asking
  <2> QED
    BY <2>1, <2>2, <2>3, <2>4 DEF SecretsInv
<1>2. CASE SecretsNext
  BY <1>2, RotateStep, MissStep, TellStep, RememberStep, SetSecretStep, DeleteStep
  DEF SecretsNext
<1> QED
  BY <1>1, <1>2

(* So it holds always.                                                     *)
LEMMA SecretsAlways == SecretsSpec => []SecretsInv
BY SecretsStart, SecretsSteps, PTL DEF SecretsSpec

(* Type correctness: every entry of the map and every client in GetSecret  *)
(* is of the declared shape, for any paths, providers and fields.          *)
THEOREM SecretsTypeCorrect == SecretsSpec => []SecretsTypeOK
BY SecretsAlways, PTL DEF SecretsInv

(* VaultUnremembered speaks of the map, which is written from what a       *)
(* client was told: under a name that a provider knows, or of a field.     *)
Rememberable(p) == p \in Provided \/ IsField(p)
OutsideNames ==
  /\ VaultUnremembered
  /\ \A c \in SecretClients : client[c].at = "told" => Rememberable(client[c].name)

(* A client that moves on is told of a path that a provider knows or of a  *)
(* field, and remembers that one.                                          *)
LEMMA ClientNames ==
  ASSUME SecretsInv, OutsideNames, NEW c \in SecretClients,
         (\E p \in SecretPaths : MissSecret(c, p)) \/ AskOutside(c) \/ Remember(c)
  PROVE  OutsideNames'
<1> DEFINE p == client[c].path
           n == client[c].name
<1>1. ASSUME NEW now \in ClientRecords, client' = [client EXCEPT ![c] = now],
             now.at = "told" => Rememberable(now.name), UNCHANGED secrets
      PROVE  OutsideNames'
  BY <1>1, ClientMoves DEF OutsideNames, VaultUnremembered, Rememberable, IsField
<1>2. client[c] \in ClientRecords /\ p \in SecretPaths /\ n \in SecretPaths
  BY DEF SecretsInv, SecretsTypeOK, ClientRecords
<1>3. ASSUME NEW q \in SecretPaths, MissSecret(c, q)
      PROVE  OutsideNames'
  <2> DEFINE now == [NoClient EXCEPT !.at = "asking", !.path = q]
  <2>1. now \in ClientRecords /\ now.at = "asking"
    BY SecretsNumbers DEF ClientRecords, NoClient
  <2>2. client' = [client EXCEPT ![c] = now] /\ UNCHANGED secrets
    BY <1>3 DEF MissSecret
  <2> HIDE DEF now
  <2> QED
    BY <1>1, <2>1, <2>2
<1>4. ASSUME NEW m \in SecretPaths, Rememberable(m), Tell(c, m), UNCHANGED secrets
      PROVE  OutsideNames'
  <2> DEFINE value == outside[m]
             now == [client[c] EXCEPT !.at = "told", !.name = m, !.value = value]
  <2>1. client' = [client EXCEPT ![c] = now]
    BY <1>4 DEF Tell, SecretsInv, SecretsTypeOK
  <2>2. value \in 0..MaxRotations
    BY DEF SecretsInv, SecretsTypeOK
  <2> HIDE DEF value
  <2>3. now \in ClientRecords /\ now.name = m
    BY <1>2, <2>2 DEF ClientRecords
  <2> HIDE DEF now
  <2> QED
    BY <1>1, <1>4, <2>1, <2>3
<1>5. CASE AskOutside(c)
  <2>1. UNCHANGED secrets
    BY <1>5 DEF AskOutside
  <2>2. CASE client' = [client EXCEPT ![c] = NoClient]
    BY <1>1, <2>1, <2>2, SecretsNumbers
  <2>3. \A f \in FieldsOf[p] : f \in SecretPaths /\ Rememberable(f)
    BY <1>2, SecretsAssumption DEF SecretsAssumption, IsField, Rememberable
  <2>4. p \in Provided => Rememberable(p)
    BY DEF Rememberable
  <2> QED
    BY <1>2, <1>4, <1>5, <2>1, <2>2, <2>3, <2>4 DEF AskOutside
<1>6. CASE Remember(c)
  <2> DEFINE entry == [from |-> "outside", value |-> client[c].value,
                       late |-> n \in client[c].late]
  <2>1. Rememberable(n) /\ client' = [client EXCEPT ![c] = NoClient]
    BY <1>6 DEF Remember, OutsideNames
  <2>2. secrets' = [secrets EXCEPT ![n] = entry]
    BY <1>6 DEF Remember
  <2> HIDE DEF entry
  <2>3. \A q \in SecretPaths : q # n => secrets'[q] = secrets[q]
    BY <2>2 DEF SecretsInv, SecretsTypeOK
  <2>4. VaultUnremembered'
    BY <2>1, <2>3 DEF OutsideNames, VaultUnremembered, Rememberable, IsField
  <2>5. \A d \in SecretClients : client'[d].at = "told" => client'[d] = client[d]
    BY <2>1, SecretsNumbers, ClientMoves
  <2> QED
    BY <2>4, <2>5 DEF OutsideNames, Rememberable, IsField
<1> QED
  BY <1>3, <1>5, <1>6

(* Nor does a call put a value from outside under another name.            *)
LEMMA CallNames ==
  ASSUME SecretsInv, OutsideNames, NEW p \in SecretPaths,
         Rotate(p) \/ SetSecret(p) \/ DeleteSecret(p)
  PROVE  OutsideNames'
<1>1. \A c \in SecretClients : client'[c].at = client[c].at /\ client'[c].name = client[c].name
  <2>1. CASE Rotate(p)
    BY <2>1 DEF Rotate
  <2>2. CASE SetSecret(p)
    <3> DEFINE marked == {c \in SecretClients : client[c].at # "idle"}
    <3>1. client' = [c \in SecretClients |->
            IF c \in marked THEN [client[c] EXCEPT !.late = @ \cup {p}] ELSE client[c]]
      BY <2>2 DEF SetSecret
    <3> QED
      BY <3>1, MarkedLate
  <2>3. CASE DeleteSecret(p)
    <3> DEFINE marked == {c \in SecretClients : client[c].at = "told"}
    <3>1. client' = [c \in SecretClients |->
            IF c \in marked THEN [client[c] EXCEPT !.late = @ \cup {p}] ELSE client[c]]
      BY <2>3 DEF DeleteSecret
    <3> QED
      BY <3>1, MarkedLate
  <2> QED
    BY <2>1, <2>2, <2>3
<1>2. \A q \in SecretPaths : secrets'[q].from = "outside" => secrets[q].from = "outside"
  <2>1. CASE Rotate(p)
    BY <2>1 DEF Rotate
  <2>2. ASSUME NEW entry \in SecretEntries, entry.from # "outside",
               secrets' = [secrets EXCEPT ![p] = entry]
        PROVE  \A q \in SecretPaths :
                 secrets'[q].from = "outside" => secrets[q].from = "outside"
    <3>1. \A q \in SecretPaths : secrets'[q] = IF q = p THEN entry ELSE secrets[q]
      BY <2>2 DEF SecretsInv, SecretsTypeOK
    <3> QED
      BY <2>2, <3>1
  <2>3. CASE SetSecret(p)
    <3> DEFINE entry == [from |-> "caller", value |-> 0, late |-> FALSE]
    <3>1. entry \in SecretEntries /\ entry.from # "outside"
      BY SecretsNumbers DEF SecretEntries
    <3>2. secrets' = [secrets EXCEPT ![p] = entry]
      BY <2>3 DEF SetSecret
    <3> HIDE DEF entry
    <3> QED
      BY <2>2, <3>1, <3>2
  <2>4. CASE DeleteSecret(p)
    <3>1. Unknown \in SecretEntries /\ Unknown.from # "outside"
      BY SecretsNumbers DEF Unknown
    <3>2. secrets' = [secrets EXCEPT ![p] = Unknown]
      BY <2>4 DEF DeleteSecret
    <3> QED
      BY <2>2, <3>1, <3>2
  <2> QED
    BY <2>1, <2>3, <2>4
<1> QED
  BY <1>1, <1>2 DEF OutsideNames, VaultUnremembered, Rememberable, IsField

(* So the names are such always.                                           *)
LEMMA NamesAlways == SecretsSpec => []OutsideNames
<1>1. SecretsInit => OutsideNames
  BY SecretsNumbers
     DEF SecretsInit, OutsideNames, VaultUnremembered, Unknown
<1>2. SecretsInv /\ OutsideNames /\ [SecretsNext]_secretVars => OutsideNames'
  <2>1. UNCHANGED secretVars /\ OutsideNames => OutsideNames'
    BY DEF secretVars, OutsideNames, VaultUnremembered, Rememberable, IsField
  <2> QED
    BY <2>1, ClientNames, CallNames DEF SecretsNext
<1> QED
  BY <1>1, <1>2, SecretsAlways, PTL DEF SecretsSpec

(* SetSecret and DeleteSecret keep their word but for the clients of       *)
(* GetSecret that were under way: a value that replaces a set one, or is   *)
(* older than a deletion, was brought by one of them. What a provider has  *)
(* answered is remembered under the path and not asked for again: at most  *)
(* one such answer for each client that missed together. What only the     *)
(* Vault knows is never remembered under its path, so each call asks the   *)
(* Vault again. For any number of clients and of changes outside.          *)
THEOREM SecretsSafe == SecretsSpec => []SecretsSound
<1>1. SecretsInv => AskedSeldom
  BY AskingCounted DEF SecretsInv, KeptByMissers, AskedSeldom, SecretsTypeOK
<1>2. SecretsInv /\ OutsideNames => SecretsSound
  BY <1>1 DEF SecretsInv, OutsideNames, SecretsSound
<1> QED
  BY <1>2, SecretsAlways, NamesAlways, PTL

-----------------------------------------------------------------------------
(* Every part starts in one of its initial states.                         *)
LEMMA PartsStart ==
  LibrariesInit =>
    /\ Init /\ CircuitInit /\ PoolInit /\ LimitsInit /\ PriorityInit /\ CacheInit
    /\ PipelineInit /\ PluginsInit /\ ShardsInit /\ DashboardInit
    /\ SecretsInit /\ OptimizerInit /\ ChangeLogInit /\ TimeoutInit
BY DEF LibrariesInit

(* A step of MC_Libraries is a step of one part, and the others stutter.   *)
LEMMA PartsStep ==
  ASSUME [LibrariesNext]_libraryVars
  PROVE  /\ [Next]_vars /\ [CircuitNext]_circuitVars /\ [PoolNext]_poolVars
         /\ [LimitsNext]_limitsVars /\ [PriorityNext]_priorityVars /\ [CacheNext]_cacheVars
         /\ [PipelineNext]_pipelineVars /\ [PluginsNext]_pluginVars
         /\ [ShardsNext]_shardVars /\ [DashboardNext]_dashboardVars
         /\ [SecretsNext]_secretVars /\ [OptimizerNext /\ InBound']_optimizerVars
         /\ [ChangeLogNext]_changeLogVars /\ [TimeoutNext]_timeoutVars
<1>1. CASE UNCHANGED libraryVars
  BY <1>1 DEF libraryVars
<1>2. CASE LibrariesNext
  <2>1. /\ Alone
        /\ part = "failover" => Next
        /\ part = "breakers" => CircuitNext
        /\ part = "pools" => PoolNext
        /\ part = "limits" => LimitsNext
        /\ part = "priority" => PriorityNext
        /\ part = "cache" => CacheNext
        /\ part = "pipeline" => PipelineNext
        /\ part = "plugins" => PluginsNext
        /\ part = "shards" => ShardsNext
        /\ part = "dashboard" => DashboardNext
        /\ part = "secrets" => SecretsNext
        /\ part = "optimizer" => OptimizerNext /\ InBound'
        /\ part = "changes" => ChangeLogNext
        /\ part = "timeouts" => TimeoutNext
    BY <1>2 DEF LibrariesNext
  <2> QED
    BY <2>1 DEF Alone
<1> QED
  BY <1>1, <1>2

(* Running the parts side by side hides nothing of them and adds nothing:  *)
(* each behaves by its own specification, so that what is proved of a part *)
(* alone holds of the system of all parts.                                 *)
THEOREM LibrariesRunParts ==
  LibrariesSpec =>
    /\ Spec /\ CircuitSpec /\ PoolSpec /\ LimitsSpec /\ PrioritySpec /\ CacheSpec
    /\ PipelineSpec /\ PluginsSpec /\ ShardsSpec /\ DashboardSpec
    /\ SecretsSpec /\ OptimizerSpec /\ ChangeLogSpec /\ TimeoutSpec
BY PartsStart, PartsStep, PTL
   DEF LibrariesSpec, Spec, CircuitSpec, PoolSpec, LimitsSpec, PrioritySpec, CacheSpec,
       PipelineSpec, PluginsSpec, ShardsSpec, DashboardSpec, SecretsSpec, OptimizerSpec,
       ChangeLogSpec, TimeoutSpec

(* The first part of FailoverSafe, for use below.                          *)
LEMMA FailoverTypeCorrect == Spec => []TypeOK
BY FailoverSafe, PTL

(* The state of every engine and service keeps its types and its bounds,   *)
(* with any number of callers and for all limits: at most one promotion,   *)
(* sized caches, bounded buckets, one attempt to connect.                  *)
THEOREM LibrariesTypeCorrect == LibrariesSpec => []TypesOK
BY LibrariesRunParts, FailoverTypeCorrect, BreakersTypeCorrect, PoolTypeCorrect,
   LimitsTypeCorrect, PriorityTypeCorrect, CacheTypeCorrect, PipelineTypeCorrect,
   PluginsTypeCorrect, ShardsTypeCorrect, DashboardTypeCorrect, SecretsTypeCorrect,
   OptimizerTypeCorrect, ChangeLogTypeCorrect, TimeoutTypeCorrect, PTL
   DEF TypesOK

(* Every safety property of the engines and services at once: nothing is   *)
(* unlocked twice, statistics and connection counters add up, limits and   *)
(* admissions keep their bounds, a query is in one place, stale answers    *)
(* and plugins that differ come from the known races alone, routes lead to *)
(* shards that exist, secrets are what the last call left, counters of     *)
(* connections and of changes are explained, and no query is killed early. *)
THEOREM LibrariesSafe ==
  LibrariesSpec =>
    /\ []FailoverSound /\ PromotesHealthy
    /\ []CountDecides /\ ImplementsBreaker
    /\ []LimitsKept /\ []CountsBalance /\ []AdmissionBound
    /\ []OnePlace /\ []StaleOnlyByRace /\ []CountsExplained /\ []MapsAgree /\ []TargetsExist
    /\ []SecretsSound /\ []CountersExplained /\ []ChangeLogSound /\ []TimeoutsSound
BY LibrariesRunParts, FailoverSafe, FailoverPromotes,
   CountAlwaysDecides, BreakersImplement, LimitsAlwaysKept, CountsAlwaysBalance,
   AdmissionsBounded, AlwaysOnePlace, StalenessIsExcused, CountsAlwaysExplained,
   MapsAlwaysAgree, TargetsAlwaysExist, SecretsSafe,
   CountersAlwaysExplained, ChangeLogSafe, TimeoutsSafe, PTL
=============================================================================
