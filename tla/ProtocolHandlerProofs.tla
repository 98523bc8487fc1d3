------------------------ MODULE ProtocolHandlerProofs ------------------------
(***************************************************************************)
(* The handler's map of pools is sound, for every number of connections,   *)
(* databases and chunks: the double look (read under RLock, store under    *)
(* Lock, with sql.Open and Ping in between) may open one handle too many,  *)
(* but never files, or serves from, a handle that is closed or another     *)
(* database's.                                                             *)
(***************************************************************************)
EXTENDS ProtocolHandler, SequenceTheorems, TLAPS

(* A handle between its sql.Open and its store is known to one goroutine   *)
(* alone. That is why a failing Ping may close it, why Close cannot have   *)
(* closed it, and what makes MapSound inductive.                           *)
Private ==
  \A p \in Conns :
    hpc[p] \in {"ping", "store"} =>
      /\ mine[p] # 0 /\ owner[mine[p]] = target[p]
      /\ mine[p] \notin failed \cup closed
      /\ \A n \in Names : pools[n] # mine[p]
      /\ \A q \in Conns \ {p} : mine[q] # mine[p]

HandlerInv == HandlerTypeOK /\ MapSound /\ ServedSound /\ Private

LEMMA HandlersStart == HandlerInit => HandlerInv
<1> SUFFICES ASSUME HandlerInit PROVE HandlerInv
  OBVIOUS
<1>1. <<>> \in Seq(Names)
  BY EmptySeq
<1>2. HandlerTypeOK
  BY <1>1 DEF HandlerInit, HandlerTypeOK, Steps, Results, Handles
<1>3. MapSound /\ ServedSound /\ Private
  BY DEF HandlerInit, MapSound, ServedSound, Private, Serving
<1>4. QED  BY <1>2, <1>3 DEF HandlerInv

-----------------------------------------------------------------------------
LEMMA ReadType ==
  ASSUME HandlerTypeOK, NEW p \in Conns, Read(p)
  PROVE  inbox' \in [Conns -> Nat] /\ sent' = sent
<1>1. PICK n \in 1..inbox[p] : inbox' = [inbox EXCEPT ![p] = @ - n]
  BY DEF Read
<1>2. inbox[p] \in Nat /\ inbox[p] - n \in Nat
  BY DEF HandlerTypeOK
<1>3. QED  BY <1>1, <1>2 DEF HandlerTypeOK, Read

(* A step of one connection that only moves it on, or ends it.             *)
LEMMA MoveOn ==
  ASSUME HandlerInv, NEW p \in Conns, NEW step \in Steps, hpc' = [hpc EXCEPT ![p] = step],
         step \notin {"ping", "store"},
         step \in Serving => hpc[p] \in Serving,
         inbox' \in [Conns -> Nat], sent' = sent, cancelled' = cancelled,
         result' \in [Conns -> Results], UNCHANGED <<target, mine, poolVars>>
  PROVE  HandlerInv'
<1>1. HandlerTypeOK'
  BY DEF HandlerInv, HandlerTypeOK, poolVars, Handles
<1>2. MapSound' /\ ServedSound' /\ Private'
  BY DEF HandlerInv, HandlerTypeOK, MapSound, ServedSound, Private, poolVars
<1>3. QED  BY <1>1, <1>2 DEF HandlerInv

LEMMA ReadStep ==
  ASSUME HandlerInv, NEW p \in Conns,
         ReadHandshake(p) \/ ReadTimeout(p) \/ ProxyQuery(p)
  PROVE  HandlerInv'
<1> USE DEF Steps, Serving, Results
<1>0. HandlerTypeOK
  BY DEF HandlerInv
<1>1. CASE ReadHandshake(p)
  <2>1. /\ Read(p)
        /\ Return(p, "http") \/ (Goto(p, "lookup") /\ UNCHANGED result)
    BY <1>1 DEF ReadHandshake
  <2>2. inbox' \in [Conns -> Nat] /\ sent' = sent
    BY <1>0, <2>1, ReadType
  <2>3. result' \in [Conns -> Results]
    BY <1>0, <2>1 DEF HandlerTypeOK, Return
  <2>4. \/ hpc' = [hpc EXCEPT ![p] = "done"]
        \/ hpc' = [hpc EXCEPT ![p] = "lookup"]
    BY <2>1 DEF Return, Goto
  <2>5. QED  BY <1>1, <2>2, <2>3, <2>4, MoveOn DEF ReadHandshake
<1>2. CASE ReadQuery(p)
  <2>1. /\ Read(p)
        /\ Return(p, "ok") \/ (Goto(p, "acquire") /\ UNCHANGED result)
    BY <1>2 DEF ReadQuery
  <2>2. inbox' \in [Conns -> Nat] /\ sent' = sent
    BY <1>0, <2>1, ReadType
  <2>3. result' \in [Conns -> Results]
    BY <1>0, <2>1 DEF HandlerTypeOK, Return
  <2>4. \/ hpc' = [hpc EXCEPT ![p] = "done"]
        \/ hpc' = [hpc EXCEPT ![p] = "acquire"]
    BY <2>1 DEF Return, Goto
  <2>5. QED  BY <1>2, <2>2, <2>3, <2>4, MoveOn DEF ReadQuery
<1>3. CASE ReadTimeout(p) \/ AcquireError(p) \/ Exec(p) \/ ExecCancelled(p)
  <2>1. PICK how \in Results : Return(p, how)
    BY <1>3 DEF ReadTimeout, AcquireError, Exec, ExecCancelled
  <2>2. hpc' = [hpc EXCEPT ![p] = "done"] /\ result' \in [Conns -> Results]
    BY <1>0, <2>1 DEF Return, HandlerTypeOK
  <2>3. UNCHANGED <<inbox, sent, target, mine, poolVars, cancelled>>
    BY <1>3 DEF ReadTimeout, AcquireError, Exec, ExecCancelled, clientVars
  <2>4. QED  BY <1>0, <2>2, <2>3, MoveOn DEF HandlerTypeOK
<1>4. CASE Acquire(p)
  <2>1. /\ hpc[p] = "acquire" /\ hpc' = [hpc EXCEPT ![p] = "exec"]
        /\ UNCHANGED <<inbox, sent, target, mine, result, poolVars, cancelled>>
    BY <1>4 DEF Acquire, Goto, clientVars
  <2>2. QED  BY <1>0, <2>1, MoveOn DEF HandlerTypeOK
<1>5. QED  BY <1>1, <1>2, <1>3, <1>4 DEF ProxyQuery

-----------------------------------------------------------------------------
LEMMA PoolStep ==
  ASSUME HandlerInv, NEW p \in Conns, GetConnectionPool(p)
  PROVE  HandlerInv'
<1> USE DEF HandlerInv, Steps, Serving, clientVars, poolVars, Handles
<1>1. CASE Lookup(p)
  <2>1. HandlerTypeOK'
    BY <1>1 DEF Lookup, Goto, HandlerTypeOK
  <2>2. MapSound' /\ ServedSound' /\ Private'
    BY <1>1 DEF Lookup, Goto, HandlerTypeOK, MapSound, ServedSound, Private
  <2>3. QED  BY <2>1, <2>2
<1>2. CASE Open(p)
  <2>1. /\ owner' = Append(owner, target[p]) /\ target[p] \in Names
        /\ mine' = [mine EXCEPT ![p] = Len(owner) + 1]
        /\ hpc' = [hpc EXCEPT ![p] = "ping"]
        /\ UNCHANGED <<inbox, sent, target, result, pools, failed, closed, cancelled>>
    BY <1>2 DEF Open, Goto, HandlerTypeOK
  <2>2. /\ owner' \in Seq(Names) /\ Len(owner') = Len(owner) + 1
        /\ \A h \in 1..Len(owner) : owner'[h] = owner[h]
        /\ owner'[Len(owner) + 1] = target[p] /\ Len(owner) \in Nat
    BY <2>1, AppendProperties DEF HandlerTypeOK
  <2>3. HandlerTypeOK'
    BY <2>1, <2>2 DEF HandlerTypeOK
  <2>4. MapSound' /\ ServedSound'
    BY <2>1, <2>2 DEF HandlerTypeOK, MapSound, ServedSound
  <2>5. Private'
    BY <2>1, <2>2 DEF HandlerTypeOK, Private
  <2>6. QED  BY <2>3, <2>4, <2>5
<1>3. CASE OpenError(p)
  <2>1. /\ hpc' = [hpc EXCEPT ![p] = "done"] /\ result' \in [Conns -> Results]
        /\ UNCHANGED <<inbox, sent, target, mine, poolVars, cancelled>>
    BY <1>3 DEF OpenError, Return, HandlerTypeOK, Results
  <2>2. QED  BY <2>1, MoveOn DEF HandlerTypeOK
<1>4. CASE Ping(p)
  <2>1. HandlerTypeOK'
    BY <1>4 DEF Ping, Goto, HandlerTypeOK
  <2>2. MapSound' /\ ServedSound' /\ Private'
    BY <1>4 DEF Ping, Goto, HandlerTypeOK, MapSound, ServedSound, Private
  <2>3. QED  BY <2>1, <2>2
<1>5. CASE PingError(p)
  <2>1. /\ hpc[p] = "ping" /\ hpc' = [hpc EXCEPT ![p] = "done"]
        /\ failed' = failed \cup {mine[p]} /\ mine[p] \in Handles
        /\ result' \in [Conns -> Results]
        /\ UNCHANGED <<inbox, sent, target, mine, pools, owner, closed, cancelled>>
    BY <1>5 DEF PingError, Return, HandlerTypeOK, Private, Results
  <2>2. HandlerTypeOK'
    BY <2>1 DEF HandlerTypeOK
  <2>3. MapSound' /\ ServedSound' /\ Private'
    BY <2>1 DEF HandlerTypeOK, MapSound, ServedSound, Private
  <2>4. QED  BY <2>2, <2>3
<1>6. CASE Store(p)
  <2>1. HandlerTypeOK'
    BY <1>6 DEF Store, Goto, HandlerTypeOK
  <2>2. MapSound' /\ ServedSound' /\ Private'
    BY <1>6 DEF Store, Goto, HandlerTypeOK, MapSound, ServedSound, Private
  <2>3. QED  BY <2>1, <2>2
<1>7. QED
  BY <1>1, <1>2, <1>3, <1>4, <1>5, <1>6 DEF GetConnectionPool

-----------------------------------------------------------------------------
LEMMA OtherStep ==
  ASSUME HandlerInv,
         \/ Close \/ Cancel
         \/ \E p \in Conns : ClientSend(p) \/ ReadBefore(p) \/ HandleConnection(p)
  PROVE  HandlerInv'
<1> USE DEF HandlerInv, Steps, Serving, clientVars, handlingVars, poolVars, Handles
<1>1. CASE Close
  <2>1. HandlerTypeOK'
    BY <1>1 DEF Close, HandlerTypeOK
  <2>2. MapSound' /\ ServedSound' /\ Private'
    BY <1>1 DEF Close, HandlerTypeOK, MapSound, ServedSound, Private
  <2>3. QED  BY <2>1, <2>2
<1>2. CASE Cancel
  BY <1>2 DEF Cancel, HandlerTypeOK, MapSound, ServedSound, Private
<1>3. ASSUME NEW p \in Conns, ClientSend(p) PROVE HandlerInv'
  <2>1. HandlerTypeOK'
    BY <1>3 DEF ClientSend, HandlerTypeOK
  <2>2. MapSound' /\ ServedSound' /\ Private'
    BY <1>3 DEF ClientSend, MapSound, ServedSound, Private
  <2>3. QED  BY <2>1, <2>2
<1>4. ASSUME NEW p \in Conns, HandleConnection(p) PROVE HandlerInv'
  <2>1. /\ hpc' = [hpc EXCEPT ![p] = "handshake"]
        /\ UNCHANGED <<inbox, sent, target, mine, result, poolVars, cancelled>>
    BY <1>4 DEF HandleConnection, Goto
  <2>2. QED  BY <2>1, MoveOn DEF HandlerTypeOK
<1>5. ASSUME NEW p \in Conns, ReadBefore(p) PROVE HandlerInv'
  <2>1. inbox' \in [Conns -> Nat] /\ sent' = sent
    BY <1>5, ReadType DEF ReadBefore
  <2>2. HandlerTypeOK'
    BY <1>5, <2>1 DEF ReadBefore, HandlerTypeOK
  <2>3. MapSound' /\ ServedSound' /\ Private'
    BY <1>5 DEF ReadBefore, MapSound, ServedSound, Private
  <2>4. QED  BY <2>2, <2>3
<1>6. QED  BY <1>1, <1>2, <1>3, <1>4, <1>5

LEMMA HandlersStep == HandlerInv /\ [HandlerNext]_handlerVars => HandlerInv'
<1> SUFFICES ASSUME HandlerInv, [HandlerNext]_handlerVars PROVE HandlerInv'
  OBVIOUS
<1>1. CASE UNCHANGED handlerVars
  BY <1>1 DEF HandlerInv, HandlerTypeOK, MapSound, ServedSound, Private, Handles, handlerVars,
     clientVars, handlingVars, poolVars
<1>2. CASE HandlerNext
  BY <1>2, ReadStep, PoolStep, OtherStep DEF HandlerNext, Handle
<1>3. QED  BY <1>1, <1>2

(* The invariant the argument rests on: types, the two properties below,   *)
(* and that a handle is private until it is stored (mysql_handler.go:106). *)
THEOREM HandlerInductive == HandlerSpec => []HandlerInv
BY HandlersStart, HandlersStep, PTL DEF HandlerSpec

(* The handler's variables keep their types: in particular every handle in *)
(* the map, and every one a connection holds, has been opened.             *)
THEOREM HandlerTypeCorrect == HandlerSpec => []HandlerTypeOK
BY HandlerInductive, PTL DEF HandlerInv

(* The map of pools holds open handles, each under its own database        *)
(* (mysql_handler.go:65-111, 173-180).                                     *)
THEOREM MapAlwaysSound == HandlerSpec => []MapSound
BY HandlerInductive, PTL DEF HandlerInv

(* A query runs over a handle that was opened and pinged for its database  *)
(* (mysql_handler.go:101-130).                                             *)
THEOREM ServedAlwaysSound == HandlerSpec => []ServedSound
BY HandlerInductive, PTL DEF HandlerInv
=============================================================================
